---------------------------- MODULE GoalLifecycle ----------------------------
(***************************************************************************)
(* What an action promises of its goals: each is accepted or declined      *)
(* once, may be asked to cancel while it runs, and ends once, in one way.  *)
(***************************************************************************)
CONSTANT Goals

VARIABLE status   \* the state of each goal

Ends == {"Succeeded", "Canceled", "Aborted"}

Init == status = [g \in Goals |-> "none"]

Move(g, to) == status' = [status EXCEPT ![g] = to]

Answer(g) == status[g] = "none" /\ \E to \in {"executing", "declined"} : Move(g, to)

RequestCancel(g) == status[g] = "executing" /\ Move(g, "canceling")

\* A goal ends as canceled only if somebody asked for it.
End(g) ==
  \/ status[g] = "executing" /\ \E to \in Ends \ {"Canceled"} : Move(g, to)
  \/ status[g] = "canceling" /\ \E to \in Ends : Move(g, to)

Next == \E g \in Goals : Answer(g) \/ RequestCancel(g) \/ End(g)

Spec == Init /\ [][Next]_status
=============================================================================
