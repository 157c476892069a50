--------------------------- MODULE MCSessionCache ---------------------------
(* A small instance of SessionCache.                                       *)
EXTENDS SessionCache

CONSTANTS c1, c2
=============================================================================
