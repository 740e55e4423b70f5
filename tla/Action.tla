------------------------------- MODULE Action -------------------------------
(***************************************************************************)
(* An action client and an action server, each with its node, its GUI      *)
(* thread and its executor, composed over the wire they share.             *)
(***************************************************************************)
EXTENDS ActionClient, ActionServer

vars == <<goalVars, trackVars, wireVars, cut, failed, actionBoundVars, clientVars, serverVars>>

Init == WireInit /\ ClientInit /\ ServerInit

\* An exception that nothing catches ends the process, and the behaviour here.
ClientStep == ~failed /\ UNCHANGED serverVars
ServerStep == ~failed /\ UNCHANGED clientVars

Next ==
  \/ ClientStep /\ SendGoal
  \/ ClientStep /\ CancelGoal
  \/ ClientStep /\ TakeAnswer
  \/ ClientStep /\ \E g \in Goals : TakeFeedback(g)
  \/ ClientStep /\ \E g \in Goals : TakeResult(g)
  \/ ClientStep /\ RunAnswer
  \/ ClientStep /\ RunFeedback
  \/ ClientStep /\ RunEnd
  \/ ClientStep /\ ResetHandle
  \/ ClientStep /\ CheckClientHealth
  \/ ClientStep /\ SetupClient
  \/ ClientStep /\ ClearClient
  \/ ClientStep /\ Discover
  \/ ServerStep /\ AcceptGoal
  \/ ServerStep /\ DeclineGoal
  \/ ServerStep /\ \E g \in Goals : AcceptCancel(g)
  \/ ServerStep /\ FinishCancel
  \/ ServerStep /\ DispatchAccepted
  \/ ServerStep /\ RouteCancel
  \/ ServerStep /\ \E g \in Goals, end \in {"Succeeded", "Aborted"} : EndGoal(g, end)
  \/ ServerStep /\ \E g \in Goals : Canceled(g)
  \/ ServerStep /\ \E g \in Goals : PublishFeedback(g)
  \/ ServerStep /\ SetupServer
  \/ ServerStep /\ ClearServer
  \/ ServerStep /\ CheckServerHealth

Spec == Init /\ [][Next]_vars

\* Both event loops and both executors keep running.  Neither application is
\* under any obligation, nor is discovery needed once a goal is under way.
Fairness ==
  /\ WF_vars(ClientStep /\ (TakeAnswer \/ \E g \in Goals : TakeResult(g)))
  /\ WF_vars(ClientStep /\ (RunAnswer \/ RunFeedback \/ RunEnd \/ ResetHandle))
  /\ WF_vars(ServerStep /\ FinishCancel)
  /\ WF_vars(ServerStep /\ (DispatchAccepted \/ RouteCancel))

FairSpec == Spec /\ Fairness

-----------------------------------------------------------------------------
(* Properties.                                                             *)

TypeOK == WireTypeOK /\ ClientTypeOK /\ ServerTypeOK

Lifecycle == INSTANCE GoalLifecycle

\* Every goal is accepted or declined once and ends once, and as canceled only
\* after a cancel request: m_finished and the order in which accepted goals and
\* cancel requests are posted keep the application's handle to that life cycle.
GoalsLive == Lifecycle!Spec

Called(call, g) == \E i \in DOMAIN serverQueue : serverQueue[i] = [call |-> call, goal |-> g]

Posted(g) == \E i \in DOMAIN clientQueue : clientQueue[i].kind \in Ends /\ clientQueue[i].goal = g

\* Every goal the present server runs is on its way to the application or has a
\* handle there, which cancel requests can find; and a request to cancel it is
\* on its way to that handle or has arrived.
RunningGoalsServed ==
  \A g \in known :
    /\ status[g] \in {"executing", "canceling"} =>
         Called("accepted", g) \/ (g \in open /\ g \in handles)
    /\ status[g] = "canceling" => Called("cancel", g) \/ g \in cancelRequested

\* A promise is kept: it resolves only for a goal that succeeded, and it is
\* rejected for one that succeeded only when a newer goal had been accepted.
PromiseTellsOutcome ==
  \A g \in Goals :
    /\ promise[g] = "resolved" => status[g] = "Succeeded"
    /\ promise[g] = "rejected" /\ status[g] = "Succeeded" => accepted > g \/ g \in cut

\* An application that sends a goal only after the state has said that the last
\* one has ended sees the truth: a final state is how the newest goal ended, and
\* feedback is that goal's.
SerialViewTrue ==
  ~overlapped =>
    /\ state \in Finals /\ sent \notin cut =>
         status[sent] = IF state = "Rejected" THEN "declined" ELSE state
    /\ feedback \in {0, sent}

\* Once a newer goal is known to be accepted, what still arrives of an older one
\* (its feedback, its end) changes neither state nor feedback.
SupersededGoalsSilent ==
  [][/\ clientQueue # <<>>
     /\ clientQueue' = Tail(clientQueue)
     /\ Head(clientQueue).kind \in Ends \union {"feedback"}
     /\ Head(clientQueue).goal < accepted
     => UNCHANGED viewVars]_vars

\* The newest goal has ended, its connection is the one it was sent on, and the
\* state does not say how.
EndUnseen ==
  /\ sent # 0 /\ sent \notin cut
  /\ status[sent] \in Ends /\ state # status[sent]

\* The end of the newest goal is never forgotten: until the state shows it, its
\* answer, its result or the event that announces it is still to come and will be
\* heeded, unless the reset on behalf of an earlier goal took its handle away.
EndNotForgotten ==
  EndUnseen /\ sent \notin lost =>
    \/ \E i \in DOMAIN answers : answers[i] = [goal |-> sent, accepted |-> TRUE]
    \/ handle = sent /\ (sent \in due \/ Posted(sent))

\* communication-patterns.qdoc:150-151: the status of an action "is observable
\* throughout".
StatusObservable == []<>(~EndUnseen \/ failed)
=============================================================================
