----------------------------- MODULE TaskQueue -----------------------------
(***************************************************************************)
(* What the rest of the server may assume of the dispatcher: a queue whose *)
(* tasks are carried out one at a time, each to its end, from the front.   *)
(* Locks, notifications and the two ways of taking tasks do not show.      *)
(***************************************************************************)
EXTENDS Naturals, Sequences

CONSTANTS Tasks, NoTask

VARIABLES
  queue,    \* the tasks still to be carried out
  current,  \* the task being carried out
  fate,     \* what became of each task
  open      \* tasks are accepted

vars == <<queue, current, fate, open>>

Init ==
  /\ queue = <<>>
  /\ current = NoTask
  /\ fate = [t \in Tasks |-> "new"]
  /\ open = TRUE

(* A task is posted at the back or, like the release of a message, in      *)
(* front of all others.                                                    *)
Put(t) ==
  /\ fate[t] = "new"
  /\ open
  /\ queue' \in {Append(queue, t), <<t>> \o queue}
  /\ fate' = [fate EXCEPT ![t] = "queued"]
  /\ UNCHANGED <<current, open>>

(* A task that is posted after the end is forgotten.                       *)
Forget(t) ==
  /\ fate[t] = "new"
  /\ ~open
  /\ fate' = [fate EXCEPT ![t] = "dropped"]
  /\ UNCHANGED <<queue, current, open>>

Take ==
  /\ current = NoTask
  /\ queue # <<>>
  /\ current' = Head(queue)
  /\ queue' = Tail(queue)
  /\ fate' = [fate EXCEPT ![Head(queue)] = "taken"]
  /\ UNCHANGED open

(* Only a task that runs can end the acceptance of tasks.                  *)
Shut ==
  /\ current # NoTask
  /\ open' = FALSE
  /\ UNCHANGED <<queue, current, fate>>

Complete ==
  /\ current # NoTask
  /\ current' = NoTask
  /\ \/ fate' = [fate EXCEPT ![current] = "expired"] /\ UNCHANGED open
     \/ fate' = [fate EXCEPT ![current] = "done"] /\ open' \in {open, FALSE}
  /\ UNCHANGED queue

Next == Take \/ Shut \/ Complete \/ \E t \in Tasks : Put(t) \/ Forget(t)

Spec == Init /\ [][Next]_vars
=============================================================================
