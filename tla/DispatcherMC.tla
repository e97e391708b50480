---------------------------- MODULE DispatcherMC ----------------------------
(* An instance of Dispatcher: two outside threads, two ordinary tasks,     *)
(* one setGameState(SHUTDOWN) and the two Game::shutdown a server can see. *)
EXTENDS Dispatcher, TLC

CONSTANTS io, sig, t1, t2, quit, term, halt

MCTasks == {t1, t2, quit, term, halt}
MCHalters == {term, halt}
MCHaltOf == quit :> halt
=============================================================================
