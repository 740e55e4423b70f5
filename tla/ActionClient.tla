---------------------------- MODULE ActionClient ----------------------------
(***************************************************************************)
(* A generated action client (core/qros2actionclientbase.cpp,              *)
(* resource/action__client.cpp.em).                                        *)
(*                                                                         *)
(* The executor's callbacks write the goal handle themselves and post      *)
(* everything else to the GUI thread, which reads and resets that handle,  *)
(* too.  GUI work is one action, except for the end of a goal: the handler *)
(* of stateChanged and the executor both run before the handle is reset.   *)
(***************************************************************************)
EXTENDS ActionWire

VARIABLES
  state,         \* m_state
  handle,        \* the goal of m_goalHandle, 0 for none
  feedback,      \* the goal whose feedback m_feedback holds, 0 for the default
  serverReady,   \* m_serverReady, refreshed by the health timer only
  clientNode,    \* node() && node()->rosNode(), with its timers running
  client,        \* m_client is not null
  matched,       \* what m_client->action_server_is_ready() answers
  clientQueue,   \* posted GUI events, oldest first
  ending,        \* the goal whose result the GUI thread is in the middle of, 0 for none
  promise,       \* what the callbacks have done with the promise of each goal
  sent,          \* goals sent so far, their identifiers
  accepted,      \* the newest goal known to be accepted
  overlapped,    \* a goal was sent before the state said the last had ended
  lost           \* goals whose handle was reset on behalf of another goal

viewVars == <<state, feedback>>
linkVars == <<clientNode, client, matched>>
pastVars == <<sent, accepted, overlapped>>
clientVars == <<viewVars, handle, serverReady, linkVars, clientQueue, ending,
                promise, pastVars, lost>>

Finals == Ends \union {"Rejected"}
States == {"Idle", "Requested", "Accepted"} \union Finals

ClientInit ==
  /\ state = "Idle" /\ handle = 0 /\ feedback = 0 /\ serverReady = FALSE
  /\ clientNode = FALSE /\ client = FALSE /\ matched = FALSE
  /\ clientQueue = <<>> /\ ending = 0
  /\ promise = [g \in Goals |-> "none"]
  /\ sent = 0 /\ accepted = 0 /\ overlapped = FALSE /\ lost = {}

\* Two plausible slips: an event does not say which goal it is about, and an
\* event is dropped while another one waits.
PostUntagged(kind, g) == clientQueue' = Append(clientQueue, [kind |-> kind])
PostIfIdle(kind, g) ==
  clientQueue' = IF clientQueue = <<>> THEN <<[kind |-> kind, goal |-> g]>> ELSE clientQueue

\* invokeMethod() from the executor
Post(kind, g) == clientQueue' = Append(clientQueue, [kind |-> kind, goal |-> g])

-----------------------------------------------------------------------------
(* The application.                                                        *)

\* A plausible slip: the feedback of the last goal is kept.
KeepFeedback == feedback

ClearedFeedback == 0

\* sendGoal() with a server believed ready; it is refused otherwise.  It may be
\* called by the handler of the stateChanged that announces the end of a goal.
SendGoal ==
  /\ client /\ serverReady
  /\ sent < MaxGoals
  /\ ending = 0 \/ state \in Finals
  /\ sent' = sent + 1
  /\ overlapped' = (overlapped \/ state \notin Finals \union {"Idle"})
  /\ state' = "Requested"
  /\ feedback' = ClearedFeedback
  /\ promise' = [promise EXCEPT ![sent'] = "open"]
  /\ mine' = mine \union {sent'}
  /\ requests' = IF server /\ matched THEN Append(requests, sent') ELSE requests
  /\ UNCHANGED <<goalVars, tracked, due, answers, cancels, feedbacks, cut, failed,
                 actionBoundVars, handle, serverReady, linkVars, clientQueue, ending,
                 accepted, lost>>

\* cancelGoal(): rclcpp throws for a goal its client does not know, and there may
\* be no client at all.
CancelGoal ==
  /\ ending = 0
  /\ handle # 0
  /\ cancelCalls < MaxCancels
  /\ cancelCalls' = cancelCalls + 1
  /\ IF client /\ handle \in tracked
       THEN /\ cancels' = IF server THEN cancels \union {handle} ELSE cancels
            /\ UNCHANGED failed
       ELSE failed' = TRUE /\ UNCHANGED cancels
  /\ UNCHANGED <<goalVars, trackVars, requests, answers, feedbacks, cut,
                 feedbackCalls, resets, declines, clientVars>>

-----------------------------------------------------------------------------
(* The executor.                                                           *)

\* goal_response_callback.  The handle changes at once, the state when the GUI
\* thread gets to it; rclcpp asks for the result right after.
TakeAnswer ==
  /\ answers # <<>>
  /\ answers' = Tail(answers)
  /\ LET g == Head(answers).goal IN
       IF Head(answers).accepted
         THEN /\ handle' = g
              /\ accepted' = g
              /\ tracked' = tracked \union {g}
              /\ due' = IF server THEN due \union {g} ELSE due
              /\ Post("Accepted", g)
              /\ UNCHANGED promise
         ELSE /\ promise' = [promise EXCEPT ![g] = "rejected"]
              /\ Post("Rejected", g)
              /\ UNCHANGED <<handle, accepted, tracked, due>>
  /\ UNCHANGED <<goalVars, mine, requests, cancels, feedbacks, cut, failed,
                 actionBoundVars, viewVars, serverReady, linkVars, ending, sent,
                 overlapped, lost>>

\* A plausible slip: feedback of any goal passes.
AnyGoal(g) == TRUE

IsCurrent(g) == handle = g

\* feedback_callback; rclcpp calls it for goals it has a handle for.
TakeFeedback(g) ==
  /\ g \in feedbacks
  /\ feedbacks' = feedbacks \ {g}
  /\ IF g \in tracked /\ IsCurrent(g) THEN Post("feedback", g) ELSE UNCHANGED clientQueue
  /\ UNCHANGED <<goalVars, trackVars, requests, answers, cancels, cut, failed,
                 actionBoundVars, viewVars, handle, serverReady, linkVars, ending,
                 promise, pastVars, lost>>

\* A server that does not know the goal answers with an unknown status.
ResultCode(g) == IF g \in known THEN status[g] ELSE "Aborted"

\* A plausible slip: a client with no goal counts as having another one.
NotCurrent(g) == handle # g

Superseded(g) == handle # 0 /\ handle # g

\* result_callback
TakeResult(g) ==
  /\ g \in due
  /\ ResultCode(g) \in Ends
  /\ due' = due \ {g}
  /\ tracked' = tracked \ {g}
  /\ IF Superseded(g)
       THEN promise' = [promise EXCEPT ![g] = "rejected"] /\ UNCHANGED clientQueue
       ELSE /\ promise' = [promise EXCEPT ![g] =
                             IF ResultCode(g) = "Succeeded" THEN "resolved" ELSE "rejected"]
            /\ Post(ResultCode(g), g)
  /\ UNCHANGED <<goalVars, mine, wireVars, cut, failed, actionBoundVars, viewVars,
                 handle, serverReady, linkVars, ending, pastVars, lost>>

-----------------------------------------------------------------------------
(* The GUI event loop.                                                     *)

NextEvent(kinds) ==
  /\ ending = 0
  /\ clientQueue # <<>>
  /\ Head(clientQueue).kind \in kinds
  /\ clientQueue' = Tail(clientQueue)

\* The lambdas of the goal response set the state, whatever goal it is of.
RunAnswer ==
  /\ NextEvent({"Accepted", "Rejected"})
  /\ state' = Head(clientQueue).kind
  /\ UNCHANGED <<goalVars, trackVars, wireVars, cut, failed, actionBoundVars, handle,
                 feedback, serverReady, linkVars, ending, promise, pastVars, lost>>

\* The lambda of the feedback checks once more.
RunFeedback ==
  /\ NextEvent({"feedback"})
  /\ feedback' = IF IsCurrent(Head(clientQueue).goal) THEN Head(clientQueue).goal ELSE feedback
  /\ UNCHANGED <<goalVars, trackVars, wireVars, cut, failed, actionBoundVars, state,
                 handle, serverReady, linkVars, ending, promise, pastVars, lost>>

\* The lambda of the result, up to and including setState().
RunEnd ==
  /\ NextEvent(Ends)
  /\ LET end == Head(clientQueue) IN
       IF IsCurrent(end.goal)
         THEN /\ state' = end.kind
              /\ feedback' = IF end.kind = "Succeeded" THEN 0 ELSE feedback
              /\ ending' = end.goal
         ELSE UNCHANGED <<state, feedback, ending>>
  /\ UNCHANGED <<goalVars, trackVars, wireVars, cut, failed, actionBoundVars, handle,
                 serverReady, linkVars, promise, pastVars, lost>>

HandleAfterEnd == 0

\* m_goalHandle.reset(), the last statement of that lambda.
ResetHandle ==
  /\ ending # 0
  /\ handle' = HandleAfterEnd
  /\ ending' = 0
  /\ lost' = lost \union ({handle} \ {handle', ending})
  /\ UNCHANGED <<goalVars, trackVars, wireVars, cut, failed, actionBoundVars, viewVars,
                 serverReady, linkVars, clientQueue, promise, pastVars>>

\* checkHealth(), from the node's 100 ms timer.
CheckClientHealth ==
  /\ ending = 0
  /\ clientNode
  /\ serverReady' = (client /\ matched)
  /\ UNCHANGED <<goalVars, trackVars, wireVars, cut, failed, actionBoundVars, viewVars,
                 handle, linkVars, clientQueue, ending, promise, pastVars, lost>>

\* setupConnection() and clearConnection(): the old client's callbacks are gone,
\* the handle of its goal stays.
ReplaceClient(present) ==
  /\ ending = 0
  /\ client' = present
  /\ matched' = FALSE
  /\ mine' = {} /\ tracked' = {} /\ due' = {}
  /\ answers' = <<>> /\ feedbacks' = {}
  /\ requests' \in {requests, <<>>}
  /\ cut' = cut \union 1..sent
  /\ UNCHANGED <<goalVars, cancels, failed, cancelCalls, feedbackCalls, declines, viewVars,
                 handle, serverReady, clientQueue, ending, promise, pastVars, lost>>

SetupClient ==
  /\ IF clientNode THEN resets < MaxResets /\ resets' = resets + 1 ELSE UNCHANGED resets
  /\ clientNode' = TRUE
  /\ \E present \in BOOLEAN : ReplaceClient(present)   \* FALSE when the topic is empty

ClearClient ==
  /\ clientNode
  /\ resets < MaxResets
  /\ resets' = resets + 1
  /\ clientNode' = FALSE
  /\ ReplaceClient(FALSE)

\* Discovery catches up with the presence of the server.
Discover ==
  /\ client
  /\ matched # server
  /\ matched' = server
  /\ UNCHANGED <<goalVars, trackVars, wireVars, cut, failed, actionBoundVars, viewVars,
                 handle, serverReady, clientNode, client, clientQueue, ending, promise,
                 pastVars, lost>>

ClientTypeOK ==
  /\ state \in States /\ handle \in Goals \union {0} /\ feedback \in Goals \union {0}
  /\ serverReady \in BOOLEAN /\ clientNode \in BOOLEAN
  /\ client \in BOOLEAN /\ matched \in BOOLEAN
  /\ clientQueue \in Seq([kind : States \union {"feedback"}, goal : Goals])
  /\ ending \in Goals \union {0}
  /\ promise \in [Goals -> {"none", "open", "resolved", "rejected"}]
  /\ sent \in Goals \union {0} /\ accepted \in Goals \union {0}
  /\ overlapped \in BOOLEAN /\ lost \subseteq Goals
=============================================================================
