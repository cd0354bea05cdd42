------------------------------ MODULE Gradebook ------------------------------
(***************************************************************************)
(* What grade passback promises of a section's gradebook: for each student *)
(* the score held is one that was decided, it only ever moves to a score   *)
(* decided later, and it catches up with the last one, for as long as      *)
(* nobody removes the column.                                              *)
(***************************************************************************)
EXTENDS Naturals

CONSTANT Students

VARIABLES
  decided,  \* [Students -> how many scores were computed so far]
  held,     \* [Students -> the score the gradebook shows, 0 for none]
  removed   \* an instructor removed the column

vars == <<decided, held, removed>>

Init ==
  /\ decided = [s \in Students |-> 0]
  /\ held = [s \in Students |-> 0]
  /\ removed = FALSE

Decide(s) ==
  /\ decided' = [decided EXCEPT ![s] = @ + 1]
  /\ UNCHANGED <<held, removed>>

Accept(s, v) ==
  /\ held[s] < v /\ v <= decided[s]
  /\ held' = [held EXCEPT ![s] = v]
  /\ UNCHANGED <<decided, removed>>

Remove ==
  /\ removed' = TRUE
  /\ held' \in {h \in [Students -> Nat] : \A s \in Students : h[s] <= held[s]}
  /\ UNCHANGED decided

Next ==
  \/ \E s \in Students : Decide(s) \/ \E v \in 1..decided[s] : Accept(s, v)
  \/ Remove

CatchUp(s) == ~ removed /\ Accept(s, decided[s])

Moves == Init /\ [][Next]_vars

Spec == Moves /\ \A s \in Students : WF_vars(CatchUp(s))

=============================================================================
