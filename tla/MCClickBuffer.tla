--------------------------- MODULE MCClickBuffer ---------------------------
(* The instance of ClickBuffer that TLC checks; its constants are in the   *)
(* configurations.                                                         *)
EXTENDS ClickBuffer
=============================================================================
