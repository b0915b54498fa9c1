--------------------------- MODULE MCCppRedirect ---------------------------
EXTENDS CppRedirect

\* The code is in the stripe that a drain comes to last.
MCStripeOf == [c \in Codes |-> Stripes]
=============================================================================
