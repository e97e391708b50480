--------------------------- MODULE WaitingListMC ---------------------------
(* An instance of WaitingList: room for two players, four with premium     *)
(* time or without who queue, and one with a privilege.                    *)
EXTENDS WaitingList

CONSTANTS prem, rich, poor, free, god
=============================================================================
