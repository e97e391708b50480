----------------------------- MODULE SessionMC -----------------------------
(* An instance of Session: three connections for one character - a client, *)
(* one that replaces it and one that comes between.                        *)
EXTENDS Session

CONSTANTS p1, p2, p3, x1, x2, x3
=============================================================================
