---------------------------- MODULE ActionServer ----------------------------
(***************************************************************************)
(* A generated action server and its per-goal handles                      *)
(* (core/qros2actionserverbase.cpp, resource/action__server.cpp.em).       *)
(*                                                                         *)
(* The executor accepts goals and cancel requests and posts them to the    *)
(* GUI thread, where the application gets a GoalHandle for each goal.      *)
(***************************************************************************)
EXTENDS ActionWire

VARIABLES
  serverNode,       \* node() && node()->rosNode()
  active,           \* m_active
  serverQueue,      \* posted dispatchAccepted() and routeCancel() calls, oldest first
  handles,          \* the goals in m_handles
  open,             \* goals whose GoalHandle the application has and has not finished
  finished,         \* goals whose GoalHandle has m_finished set
  cancelRequested,  \* goals whose GoalHandle has m_cancelRequested set
  cancelling        \* the goal whose cancel callback has returned, its status still to change

objectVars == <<handles, open, finished, cancelRequested>>
serverVars == <<serverNode, active, serverQueue, objectVars, cancelling>>

ServerInit ==
  /\ serverNode = FALSE /\ active = FALSE /\ serverQueue = <<>>
  /\ handles = {} /\ open = {} /\ finished = {} /\ cancelRequested = {}
  /\ cancelling = 0

\* A plausible slip: the newest call is posted ahead of the others.
PostAhead(call, g) == <<[call |-> call, goal |-> g]>> \o serverQueue

\* invokeMethod() from the executor
PostCall(call, g) == Append(serverQueue, [call |-> call, goal |-> g])

-----------------------------------------------------------------------------
(* The executor, one callback of the server at a time.                     *)

\* handleGoal always accepts; the response goes out, then handleAccepted posts.
AcceptGoal ==
  /\ server /\ cancelling = 0
  /\ requests # <<>>
  /\ requests' = Tail(requests)
  /\ LET g == Head(requests) IN
       /\ status' = [status EXCEPT ![g] = "executing"]
       /\ known' = known \union {g}
       /\ answers' = Answered(g, TRUE)
       /\ serverQueue' = PostCall("accepted", g)
  /\ UNCHANGED <<server, trackVars, cancels, feedbacks, cut, failed, actionBoundVars,
                 serverNode, active, objectVars, cancelling>>

\* A server of another kind on the same topic may decline.
DeclineGoal ==
  /\ server /\ cancelling = 0
  /\ requests # <<>>
  /\ declines < MaxDeclines
  /\ declines' = declines + 1
  /\ requests' = Tail(requests)
  /\ status' = [status EXCEPT ![Head(requests)] = "declined"]
  /\ answers' = Answered(Head(requests), FALSE)
  /\ UNCHANGED <<server, known, trackVars, cancels, feedbacks, cut, failed, cancelCalls,
                 feedbackCalls, resets, serverVars>>

\* handleCancel posts and accepts; only after it has returned does rclcpp change
\* the status.  Goals it does not know or that have ended do not get here.
AcceptCancel(g) ==
  /\ server /\ cancelling = 0
  /\ g \in cancels
  /\ cancels' = cancels \ {g}
  /\ IF g \in known /\ status[g] = "executing"
       THEN cancelling' = g /\ serverQueue' = PostCall("cancel", g)
       ELSE UNCHANGED <<cancelling, serverQueue>>
  /\ UNCHANGED <<goalVars, trackVars, requests, answers, feedbacks, cut, failed,
                 actionBoundVars, serverNode, active, objectVars>>

\* rclcpp after handleCancel; a goal that has ended meanwhile stays as it is.
FinishCancel ==
  /\ cancelling # 0
  /\ cancelling' = 0
  /\ status' = IF status[cancelling] = "executing"
                 THEN [status EXCEPT ![cancelling] = "canceling"] ELSE status
  /\ UNCHANGED <<server, known, trackVars, wireVars, cut, failed, actionBoundVars,
                 serverNode, active, serverQueue, objectVars>>

-----------------------------------------------------------------------------
(* The GUI event loop.                                                     *)

NextCall(call) ==
  /\ serverQueue # <<>>
  /\ Head(serverQueue).call = call
  /\ serverQueue' = Tail(serverQueue)

\* dispatchAccepted(): the server it asks about may not be the one that accepted.
DispatchAccepted ==
  /\ NextCall("accepted")
  /\ IF server
       THEN /\ handles' = handles \union {Head(serverQueue).goal}
            /\ open' = open \union {Head(serverQueue).goal}
       ELSE UNCHANGED <<handles, open>>
  /\ UNCHANGED <<goalVars, trackVars, wireVars, cut, failed, actionBoundVars, serverNode,
                 active, finished, cancelRequested, cancelling>>

\* The handle routeCancel() looks up.
RoutedTo(g) == {g} \cap handles

\* routeCancel() with notifyCancelRequested().
RouteCancel ==
  /\ NextCall("cancel")
  /\ cancelRequested' = cancelRequested \union RoutedTo(Head(serverQueue).goal)
  /\ UNCHANGED <<goalVars, trackVars, wireVars, cut, failed, actionBoundVars, serverNode,
                 active, handles, open, finished, cancelling>>

-----------------------------------------------------------------------------
(* The application.                                                        *)

\* A plausible slip: a finished handle still acts.
HasHandle(g) == g \in open \union finished

\* What m_finished guards; the application keeps the handle a little longer.
CanFinish(g) == g \in open

\* finish(), with removeHandle().
FinishHandle(g) ==
  /\ open' = open \ {g}
  /\ finished' = finished \union {g}
  /\ handles' = handles \ {g}
  /\ UNCHANGED cancelRequested

\* succeed() and abort()
EndGoal(g, end) ==
  /\ CanFinish(g)
  /\ status' = [status EXCEPT ![g] = end]
  /\ FinishHandle(g)
  /\ UNCHANGED <<server, known, trackVars, wireVars, cut, failed, actionBoundVars,
                 serverNode, active, serverQueue, cancelling>>

\* canceled(), which applications call once cancelRequested is set; rclcpp throws
\* while the status has not changed yet.
Canceled(g) ==
  /\ CanFinish(g)
  /\ g \in cancelRequested
  /\ IF status[g] = "canceling"
       THEN /\ status' = [status EXCEPT ![g] = "Canceled"]
            /\ FinishHandle(g)
            /\ UNCHANGED failed
       ELSE failed' = TRUE /\ UNCHANGED <<status, objectVars>>
  /\ UNCHANGED <<server, known, trackVars, wireVars, cut, actionBoundVars, serverNode,
                 active, serverQueue, cancelling>>

\* publishFeedback(); nobody gets it once the server that accepted the goal is gone.
PublishFeedback(g) ==
  /\ CanFinish(g)
  /\ feedbackCalls < MaxFeedbacks
  /\ feedbackCalls' = feedbackCalls + 1
  /\ feedbacks' = IF g \in known /\ g \in mine THEN feedbacks \union {g} ELSE feedbacks
  /\ UNCHANGED <<goalVars, trackVars, requests, answers, cancels, cut, failed,
                 cancelCalls, resets, declines, serverVars>>

-----------------------------------------------------------------------------
(* The node.                                                               *)

\* The rclcpp server goes, with what was on its way to it and all it knows.
ReplaceServer(present) ==
  /\ server' = present
  /\ active' = present
  /\ known' = {} /\ due' = {}
  /\ requests' = <<>> /\ cancels' = {}
  /\ cut' = IF server THEN cut \union {g \in Goals : g \in mine \union known} ELSE cut
  /\ UNCHANGED <<status, mine, tracked, answers, feedbacks, failed, cancelCalls,
                 feedbackCalls, declines, serverQueue, open, finished, cancelRequested,
                 cancelling>>

\* setupConnection() keeps m_handles.
SetupServer ==
  /\ IF serverNode THEN resets < MaxResets /\ resets' = resets + 1 ELSE UNCHANGED resets
  /\ serverNode' = TRUE
  /\ \E present \in BOOLEAN : ReplaceServer(present)   \* FALSE when the topic is empty
  /\ UNCHANGED handles

\* clearConnection() empties m_handles; the application still has the handles.
ClearServer ==
  /\ serverNode
  /\ resets < MaxResets
  /\ resets' = resets + 1
  /\ serverNode' = FALSE
  /\ ReplaceServer(FALSE)
  /\ handles' = {}

\* checkHealth(), from the node's 100 ms timer.
CheckServerHealth ==
  /\ serverNode
  /\ active' = server
  /\ UNCHANGED <<goalVars, trackVars, wireVars, cut, failed, actionBoundVars, serverNode,
                 serverQueue, objectVars, cancelling>>

ServerTypeOK ==
  /\ serverNode \in BOOLEAN /\ active \in BOOLEAN
  /\ serverQueue \in Seq([call : {"accepted", "cancel"}, goal : Goals])
  /\ handles \subseteq Goals /\ open \subseteq Goals /\ finished \subseteq Goals
  /\ cancelRequested \subseteq Goals /\ cancelling \in Goals \union {0}
=============================================================================
