--------------------------- MODULE ServiceClient ---------------------------
(***************************************************************************)
(* A generated service client: the declarative base                        *)
(* (core/qros2serviceclientbase.cpp) with the generated part that owns the *)
(* rclcpp client (resource/srv__client.cpp.em), the GUI event queue, the   *)
(* executor that runs response callbacks and the remote service.           *)
(*                                                                         *)
(* GUI thread: setters, health timer and queued calls, one at a time.      *)
(* Executor: response callbacks, which only post to the GUI queue.         *)
(* Qt keeps one FIFO of posted events per thread, whatever the receiver.   *)
(***************************************************************************)
EXTENDS Naturals, Sequences, FiniteSets

CONSTANTS
  Values,         \* the values the request property can hold
  Default,        \* the default-constructed request
  MaxWrites,      \* bound: changes of the request property
  MaxImperative,  \* bound: explicit callService() calls that reach the wire
  MaxResets,      \* bound: reconnections and shutdowns of the node
  MaxOutages      \* bound: times the remote service goes away

ASSUME DefaultAssumption == Default \in Values
ASSUME BoundsAssumption == /\ MaxWrites \in Nat
                           /\ MaxImperative \in Nat
                           /\ MaxResets \in Nat
                           /\ MaxOutages \in Nat

VARIABLES
  request,           \* m_request
  requestDirty,      \* m_requestDirty: written since the last stored dispatch
  autoCall,          \* m_autoCall
  attemptScheduled,  \* m_attemptScheduled
  serviceReady,      \* m_serviceReady, refreshed by the health timer only
  callPending,       \* m_isCallPending
  response,          \* the call whose answer m_response holds, 0 before any
  handed,            \* the request the last stored attempt passed on
  sent,              \* the request of the last stored call put on the wire
  nodeUp,            \* node() && node()->rosNode(), with its timers running
  client,            \* m_client is not null
  guiQueue,          \* posted GUI events, oldest first
  serverUp,          \* the remote service exists
  matched,           \* what m_client->service_is_ready() answers
  inFlight,          \* calls whose response callback may still run
  calls,             \* calls put on the wire so far, their identifiers
  writes, imperative, resets, outages   \* counters behind the bounds

itemVars == <<request, requestDirty, autoCall>>
callVars == <<callPending, inFlight, calls>>
linkVars == <<nodeUp, client, matched>>
boundVars == <<writes, imperative, resets, outages>>
queueVars == <<attemptScheduled, guiQueue>>
vars == <<itemVars, callVars, linkVars, boundVars, queueVars, serviceReady,
          response, handed, sent, serverUp>>

AttemptEvent == [kind |-> "attempt", call |-> 0]

\* A plausible slip: a completion does not say which call it completes.
CompletionUntagged(kind, c) == [kind |-> kind]

\* What a response callback posts for call c.
Completion(kind, c) == [kind |-> kind, call |-> c]
Events == [kind : {"attempt", "reply", "failed"}, call : Nat]

Init ==
  /\ request = Default /\ requestDirty = FALSE /\ autoCall = TRUE
  /\ attemptScheduled = FALSE /\ guiQueue = <<>>
  /\ serviceReady = FALSE /\ callPending = FALSE
  /\ response = 0 /\ handed = Default /\ sent = Default
  /\ nodeUp = FALSE /\ client = FALSE /\ matched = FALSE
  /\ serverUp \in BOOLEAN
  /\ inFlight = {} /\ calls = 0
  /\ writes = 0 /\ imperative = 0 /\ resets = 0 /\ outages = 0

-----------------------------------------------------------------------------
(* The base class.                                                         *)

\* scheduleStoredCallAttempt(), over the fields as the caller leaves them
\* and the queue the caller is about to post to.
ScheduleStoredCallAttempt(queue) ==
  IF ~attemptScheduled /\ requestDirty' /\ autoCall'
    THEN attemptScheduled' = TRUE /\ guiQueue' = Append(queue, AttemptEvent)
    ELSE attemptScheduled' = attemptScheduled /\ guiQueue' = queue

\* A plausible slip: readiness does not wake the stored request up.
SetReadyAsleep(ready) ==
  serviceReady' = ready /\ UNCHANGED queueVars

\* setServiceReady(): a change to ready re-schedules the stored request.
SetServiceReady(ready) ==
  /\ serviceReady' = ready
  /\ IF ready /\ ~serviceReady
       THEN ScheduleStoredCallAttempt(guiQueue)
       ELSE UNCHANGED queueVars

\* A plausible slip: the end of a call does not wake the stored request up.
ClearPendingAsleep(queue) ==
  /\ callPending' = FALSE
  /\ attemptScheduled' = attemptScheduled
  /\ guiQueue' = queue

\* setCallPending(false), posting to `queue`.
ClearCallPending(queue) ==
  /\ callPending' = FALSE
  /\ IF callPending
       THEN ScheduleStoredCallAttempt(queue)
       ELSE attemptScheduled' = attemptScheduled /\ guiQueue' = queue

-----------------------------------------------------------------------------
(* The wire.                                                               *)

CanSend == client /\ serviceReady

\* The tail of callServiceFuture(): setCallPending(true) and
\* async_send_request.  A request with no matched server is never answered.
SendRequest ==
  /\ calls' = calls + 1
  /\ callPending' = TRUE
  /\ inFlight' = IF serverUp /\ matched THEN inFlight \union {calls'} ELSE inFlight

\* Destroying the client, or losing the server, loses any calls whose
\* response callback has not started yet.
LoseCalls == inFlight' \in SUBSET inFlight

-----------------------------------------------------------------------------
(* The application.                                                        *)

\* A plausible slip: the dirty flag is set only while auto-calls are on.
DirtyIfAuto == autoCall

\* requestCall() remembers the write whatever autoCall says.
DirtyAfterWrite == TRUE

\* setRequest() with requestCall(); an equal value returns early.
SetRequest(v) ==
  /\ writes < MaxWrites
  /\ v # request
  /\ writes' = writes + 1
  /\ request' = v
  /\ requestDirty' = DirtyAfterWrite
  /\ autoCall' = autoCall
  /\ ScheduleStoredCallAttempt(guiQueue)
  /\ UNCHANGED <<callVars, linkVars, imperative, resets, outages, serviceReady,
                 response, handed, sent, serverUp>>

\* setAutoCall(), for a value that differs from the current one.
SetAutoCall ==
  /\ autoCall' = ~autoCall
  /\ UNCHANGED <<request, requestDirty>>
  /\ IF autoCall' THEN ScheduleStoredCallAttempt(guiQueue) ELSE UNCHANGED queueVars
  /\ UNCHANGED <<callVars, linkVars, boundVars, serviceReady, response, handed,
                 sent, serverUp>>

\* callService() from the application.  A refused call changes nothing.
CallService ==
  /\ imperative < MaxImperative
  /\ CanSend
  /\ SendRequest
  /\ imperative' = imperative + 1
  /\ UNCHANGED <<itemVars, linkVars, queueVars, writes, resets, outages,
                 serviceReady, response, handed, sent, serverUp>>

-----------------------------------------------------------------------------
(* The GUI event loop.                                                     *)

\* A plausible slip: a second stored call goes out while one is in flight.
MayDispatchBusy == requestDirty /\ autoCall /\ serviceReady

\* The guards of attemptStoredCall().
MayDispatch == requestDirty /\ autoCall /\ serviceReady /\ ~callPending

\* A plausible slip: the dispatched value is taken before the flag is read.
DispatchStale == handed

\* callStoredRequest() passes the stored value.
DispatchedValue == request

\* attemptStoredCall(): the flag goes first, then callServiceFuture(), which
\* refuses when there is no client.  serviceReady may be stale there.
RunAttempt ==
  /\ guiQueue # <<>>
  /\ Head(guiQueue).kind = "attempt"
  /\ guiQueue' = Tail(guiQueue)
  /\ attemptScheduled' = FALSE
  /\ IF MayDispatch
       THEN /\ requestDirty' = FALSE
            /\ handed' = DispatchedValue
            /\ IF CanSend
                 THEN SendRequest /\ sent' = DispatchedValue
                 ELSE UNCHANGED <<callVars, sent>>
       ELSE UNCHANGED <<requestDirty, handed, sent, callVars>>
  /\ UNCHANGED <<request, autoCall, linkVars, boundVars, serviceReady, response,
                 serverUp>>

\* The lambda a response callback posted to qApp, for an answer or an error.
RunCompletion ==
  /\ guiQueue # <<>>
  /\ Head(guiQueue).kind # "attempt"
  /\ UNCHANGED itemVars
  /\ ClearCallPending(Tail(guiQueue))
  /\ response' = IF Head(guiQueue).kind = "reply" THEN Head(guiQueue).call ELSE response
  /\ UNCHANGED <<inFlight, calls, linkVars, boundVars, serviceReady, handed,
                 sent, serverUp>>

\* checkHealth(), from the node's 100 ms timer.
CheckHealth ==
  /\ nodeUp
  /\ UNCHANGED itemVars
  /\ SetServiceReady(client /\ matched)
  /\ UNCHANGED <<callVars, linkVars, boundVars, response, handed, sent, serverUp>>

\* setupConnection(): the node comes up, or topic or QoS change while it is up.
SetupConnection ==
  /\ resets < MaxResets \/ ~nodeUp
  /\ resets' = IF nodeUp THEN resets + 1 ELSE resets
  /\ nodeUp' = TRUE
  /\ client' \in BOOLEAN      \* FALSE when the topic is empty
  /\ matched' = FALSE
  /\ LoseCalls
  /\ UNCHANGED <<itemVars, queueVars, callPending, calls, writes, imperative,
                 outages, serviceReady, response, handed, sent, serverUp>>

\* clearConnection(), from shutdownNode(), which also stops the timers.
ClearConnection ==
  /\ nodeUp
  /\ resets < MaxResets
  /\ resets' = resets + 1
  /\ nodeUp' = FALSE
  /\ client' = FALSE
  /\ matched' = FALSE
  /\ LoseCalls
  /\ UNCHANGED <<itemVars, queueVars, callPending, calls, writes, imperative,
                 outages, serviceReady, response, handed, sent, serverUp>>

-----------------------------------------------------------------------------
(* The executor and the world.                                             *)

\* The response callback: it posts success, or an error when get() throws.
Respond(c) ==
  /\ c \in inFlight
  /\ inFlight' = inFlight \ {c}
  /\ \E kind \in {"reply", "failed"} :
       guiQueue' = Append(guiQueue, Completion(kind, c))
  /\ UNCHANGED <<itemVars, callPending, calls, linkVars, boundVars,
                 attemptScheduled, serviceReady, response, handed, sent, serverUp>>

\* Discovery catches up with the presence of the server.
Discover ==
  /\ client
  /\ matched # serverUp
  /\ matched' = serverUp
  /\ UNCHANGED <<itemVars, callVars, nodeUp, client, boundVars, queueVars,
                 serviceReady, response, handed, sent, serverUp>>

ServerUp ==
  /\ ~serverUp
  /\ serverUp' = TRUE
  /\ UNCHANGED <<itemVars, callVars, linkVars, boundVars, queueVars,
                 serviceReady, response, handed, sent>>

ServerDown ==
  /\ serverUp
  /\ outages < MaxOutages
  /\ outages' = outages + 1
  /\ serverUp' = FALSE
  /\ LoseCalls
  /\ UNCHANGED <<itemVars, callPending, calls, linkVars, writes, imperative,
                 resets, queueVars, serviceReady, response, handed, sent>>

-----------------------------------------------------------------------------
Next ==
  \/ \E v \in Values : SetRequest(v)
  \/ SetAutoCall
  \/ CallService
  \/ RunAttempt
  \/ RunCompletion
  \/ CheckHealth
  \/ SetupConnection
  \/ ClearConnection
  \/ \E c \in inFlight : Respond(c)
  \/ Discover
  \/ ServerUp
  \/ ServerDown

Spec == Init /\ [][Next]_vars

\* The event loop runs what is posted, the node's health timer keeps firing,
\* discovery converges and a live service answers.  The application, the
\* reconnections and the outages are under no obligation.
Fairness ==
  /\ WF_vars(RunAttempt \/ RunCompletion)
  /\ WF_vars(CheckHealth)
  /\ WF_vars(Discover)
  /\ WF_vars(\E c \in inFlight : Respond(c))

FairSpec == Spec /\ Fairness

-----------------------------------------------------------------------------
(* Properties.                                                             *)

TypeOK ==
  /\ request \in Values /\ handed \in Values /\ sent \in Values
  /\ requestDirty \in BOOLEAN /\ autoCall \in BOOLEAN
  /\ attemptScheduled \in BOOLEAN /\ guiQueue \in Seq(Events)
  /\ serviceReady \in BOOLEAN /\ callPending \in BOOLEAN
  /\ nodeUp \in BOOLEAN /\ client \in BOOLEAN
  /\ serverUp \in BOOLEAN /\ matched \in BOOLEAN
  /\ calls \in Nat /\ response \in Nat /\ inFlight \subseteq Nat
  /\ writes \in Nat /\ imperative \in Nat /\ resets \in Nat /\ outages \in Nat

\* Completions posted and not yet run.
Posted == {guiQueue[i].call : i \in {j \in DOMAIN guiQueue : guiQueue[j].kind # "attempt"}}

Outstanding == inFlight \union Posted

AttemptPosted(q) == \E i \in 1..Len(q) : q[i].kind = "attempt"

SingleAttempt(q) ==
  \A i, j \in 1..Len(q) : q[i].kind = "attempt" /\ q[j].kind = "attempt" => i = j

\* m_attemptScheduled mirrors the event queue: it is set exactly while one
\* attemptStoredCall() is posted, and there are never two.  Without this,
\* assignments of one event-loop turn would not coalesce, or would never run.
AttemptPostedOnce ==
  /\ attemptScheduled <=> AttemptPosted(guiQueue)
  /\ SingleAttempt(guiQueue)

\* No lost wake-up: whenever nothing stands in the way of the remembered
\* request, the attempt that will dispatch it is already posted, whichever of
\* the write, autoCall, the health timer or a completion removed the obstacle.
NoLostWakeup ==
  MayDispatch => attemptScheduled

\* A client that is used declaratively only has at most one call on its way,
\* isCallPending says so for as long as that lasts (across reconnections, too),
\* and the answer on its way belongs to the newest call, so m_response never
\* goes back to an older one.
DeclarativeCallsSerialised ==
  imperative = 0 =>
    /\ Outstanding # {} => callPending /\ Outstanding = {calls}
    /\ response < calls \/ Outstanding = {}

LW == INSTANCE LatestWins WITH desired <- request, unsent <- requestDirty

\* The stored-call machinery implements the coalescing writer: every dispatch
\* hands on the latest request, once per assignment, whatever the interleaving
\* of writes, autoCall, readiness, completions and reconnections.
CoalescesWrites == LW!Spec

\* isCallPending is set and nothing is left that could ever clear it.
Orphaned == callPending /\ Outstanding = {}

\* With the service there, the client set up and autoCall on for good, a
\* written request is dispatched, unless a reconnection or an outage has
\* swallowed the answer the client still waits for.
DispatchedUnlessOrphaned ==
  <>[](autoCall /\ client /\ serverUp) => []<>(~requestDirty \/ Orphaned)

\* The documentation of autoCall (qros2serviceclientbase.cpp:38-40): while the
\* service is unavailable or a call is in flight the latest request is
\* remembered and "dispatched as soon as possible".
DispatchedAsSoonAsPossible ==
  <>[](autoCall /\ client /\ serverUp) => []<>~requestDirty
=============================================================================
