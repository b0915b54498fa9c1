------------------------------- MODULE LinkRows -------------------------------
(***************************************************************************)
(* The table links of PostgreSQL (src/migrations/001_create_links.sql) as  *)
(* far as the processes that share it are concerned: which codes have a    *)
(* row.  The sync worker inserts rows, the click buffer counts in them.    *)
(***************************************************************************)
CONSTANT Codes      \* codes of links

VARIABLE stored     \* codes that have a row in PostgreSQL
=============================================================================
