----------------------------- MODULE LatestWins -----------------------------
(***************************************************************************)
(* What every declarative writer of QtROS promises, stripped of queues,    *)
(* threads and connections.  A QML binding assigns a property as often as  *)
(* it likes; the element remembers only the latest assignment and, some    *)
(* time later, hands exactly that value on, once.  Older assignments are   *)
(* coalesced away and nothing is handed on that was not assigned since     *)
(* the previous hand-over.                                                 *)
(***************************************************************************)
CONSTANT Values

VARIABLES
  desired,      \* the latest value assigned by the application
  unsent,       \* TRUE while that assignment has not been handed on
  handed        \* the value of the last hand-over

vars == <<desired, unsent, handed>>

Init ==
  /\ desired \in Values
  /\ unsent = FALSE
  /\ handed = desired

\* The application assigns the property.
Write(v) ==
  /\ desired' = v
  /\ unsent' = TRUE
  /\ handed' = handed

\* The element hands the latest value on and forgets the assignment.
HandOver ==
  /\ unsent
  /\ handed' = desired
  /\ unsent' = FALSE
  /\ desired' = desired

Next == HandOver \/ \E v \in Values : Write(v)

Spec == Init /\ [][Next]_vars
=============================================================================
