----------------------------- MODULE GoalLifecycle -----------------------------
(***************************************************************************)
(* What the Supervisor promises the clients of the trajectory action: a     *)
(* goal that is accepted is pending until it is settled, it is settled      *)
(* exactly once, and it is settled eventually.                              *)
(***************************************************************************)
EXTENDS Naturals

CONSTANT Goal

VARIABLES status,    \* "new", "pending" or "settled"
          answers    \* results sent to the goal's client

vars == <<status, answers>>

Init ==
  /\ status = [g \in Goal |-> "new"]
  /\ answers = [g \in Goal |-> 0]

Accept(g) ==
  /\ status[g] = "new"
  /\ status' = [status EXCEPT ![g] = "pending"]
  /\ UNCHANGED answers

Answer(g) ==
  /\ status[g] = "pending"
  /\ status' = [status EXCEPT ![g] = "settled"]
  /\ answers' = [answers EXCEPT ![g] = @ + 1]

Next == \E g \in Goal : Accept(g) \/ Answer(g)

Spec == Init /\ [][Next]_vars

FairSpec == Spec /\ \A g \in Goal : WF_vars(Answer(g))
=============================================================================
