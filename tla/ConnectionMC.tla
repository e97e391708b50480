---------------------------- MODULE ConnectionMC ----------------------------
(* An instance of Connection: a pool of three messages, enough for one     *)
(* that is written, one that is queued and one that is being composed.     *)
EXTENDS Connection

CONSTANTS a, b, c
=============================================================================
