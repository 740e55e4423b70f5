-------------------------- MODULE RemoteParameter --------------------------
(***************************************************************************)
(* core/qros2remoteparameter.cpp: a QML value that is reconciled with a    *)
(* parameter of another node, and its read-back `reported`.                *)
(*                                                                         *)
(* GUI thread: setters, the health timer and posted events.  Executor:     *)
(* service responses and /parameter_events, in no fixed order between the  *)
(* two; both only post to the GUI queue.  Remote node: answers requests in *)
(* order, changes on its own, goes away and comes back.                    *)
(***************************************************************************)
EXTENDS Naturals, Sequences, FiniteSets

CONSTANTS
  Values,          \* the values the application and other nodes write
  Undefined,       \* an invalid QVariant: no value, or a deleted parameter
  Targets,         \* (remoteNode, name) pairs the item can be pointed at
  Incomplete,      \* remoteNode or name is empty
  FirstTarget,     \* what it is declared with
  Declared,        \* the value the remote node declares each target with
  Coerced,         \* toParameterValue() of a value to the type of another one,
                   \* or to its own type; Undefined when it is not convertible
  MaxInputs,       \* bound: writes of value, explicit apply() and refresh()
  MaxForeign,      \* bound: changes of the parameter by others, while the total
                   \* of these and of the disturbances is below it
  MaxDisturbances  \* bound: changes of target or node, node shutdowns and deaths
                   \* of the remote node, while the same total is below it

Readable == Values \union {Undefined}

ASSUME ValuesAssumption ==
  /\ Undefined \notin Values
  /\ Declared \in [Targets -> Values]
  /\ Coerced \in [Readable \X Readable -> Readable]
ASSUME TargetAssumption == Incomplete \notin Targets /\ FirstTarget \in Targets \union {Incomplete}

VARIABLES
  value, dirty, autoApply, pending, ready, reported,   \* m_ fields of those names
  attemptScheduled,  \* m_attemptScheduled
  reportedFetched,   \* m_reportedFetched
  target,            \* m_remoteNode and m_name
  handed,            \* the value of the last attempt that cleared dirty
  gaveUp,            \* that attempt ended in setFailed("not convertible")
  nodeUp,            \* m_node && m_node->rosNode()
  client,            \* m_client and m_eventSub exist
  guiQueue,          \* posted GUI events, oldest first
  remoteUp,          \* the remote node runs
  matched,           \* what m_client->service_is_ready() answers
  actual,            \* the value each target holds on the remote node
  setRequests,       \* set_parameters requests on their way, answered in order
  getRequests,       \* get_parameters requests on their way, answered in order
  results,           \* set_parameters responses the executor has not handled
  answers,           \* get_parameters responses the executor has not handled
  events,            \* parameter events the executor has not handled yet
  refused,           \* the <<target, value>> pairs the remote node last rejected
  replaced,          \* those it held until a restart or another node changed them
  foreign,           \* changes by others so far
  inputs, disturbances    \* counters behind the bounds

desiredVars == <<value, dirty, autoApply, handed, gaveUp>>
queueVars == <<attemptScheduled, guiQueue>>
reportVars == <<reported, reportedFetched>>
linkVars == <<target, nodeUp, client>>
wireVars == <<setRequests, getRequests>>
inboxVars == <<results, answers, events>>
storeVars == <<actual, refused, replaced, foreign>>
remoteVars == <<remoteUp, matched, storeVars>>
boundVars == <<inputs, disturbances>>
vars == <<desiredVars, queueVars, reportVars, linkVars, wireVars, inboxVars,
          remoteVars, boundVars, pending, ready>>

\* A plausible slip: the posted lambda does not capture the value.
EventUncaptured(kind, v) == [kind |-> kind]

\* A lambda posted to the GUI thread, with the value it captures.
Event(kind, v) == [kind |-> kind, value |-> v]
AttemptEvent == Event("attempt", Undefined)
Events == [kind : {"attempt", "result", "report"}, value : Readable]
Requests == [target : Targets, value : Readable, live : BOOLEAN]

Init ==
  /\ value = Undefined /\ dirty = FALSE /\ autoApply = TRUE
  /\ pending = FALSE /\ ready = FALSE
  /\ reported = Undefined /\ reportedFetched = FALSE
  /\ attemptScheduled = FALSE /\ guiQueue = <<>>
  /\ handed = Undefined /\ gaveUp = FALSE
  /\ target = FirstTarget /\ nodeUp = FALSE /\ client = FALSE
  /\ remoteUp \in BOOLEAN /\ matched = FALSE
  /\ actual = Declared
  /\ setRequests = <<>> /\ getRequests = <<>>
  /\ results = 0 /\ answers = <<>> /\ events = <<>>
  /\ refused = {} /\ replaced = {} /\ foreign = 0 /\ inputs = 0 /\ disturbances = 0

-----------------------------------------------------------------------------
(* Sending.                                                                *)

\* A request reaches the remote node only while the two are matched.  It is
\* live until its client is replaced; nobody hears the answer after that.
Posted(queue, v) ==
  IF remoteUp /\ matched
    THEN Append(queue, [target |-> target, value |-> v, live |-> TRUE])
    ELSE queue

SendSet(v) == setRequests' = Posted(setRequests, v) /\ getRequests' = getRequests

SendGet == getRequests' = Posted(getRequests, Undefined) /\ setRequests' = setRequests

\* scheduleApplyAttempt(): posts even when autoApply is off.
ScheduleApplyAttempt(queue) ==
  IF ~attemptScheduled /\ dirty'
    THEN attemptScheduled' = TRUE /\ guiQueue' = Append(queue, AttemptEvent)
    ELSE attemptScheduled' = attemptScheduled /\ guiQueue' = queue

\* The guards of attemptApply(force), after dirty became `isDirty`.
MayApply(isDirty, force) ==
  isDirty /\ (autoApply \/ force) /\ ready /\ ~pending /\ client

\* A plausible slip: the attempt sends what was handed over last time.
AppliedStale == IF handed = Undefined THEN value ELSE handed

AppliedValue == value

\* attemptApply(force): the value takes the type of what was reported, which
\* may be a late report of an earlier target; what does not convert is given
\* up.  An attempt that is not allowed leaves the dirty flag for later.
AttemptApply(isDirty, force) ==
  IF ~MayApply(isDirty, force)
    THEN dirty' = isDirty /\ UNCHANGED <<handed, gaveUp, pending, wireVars>>
    ELSE LET coerced == Coerced[AppliedValue, reported] IN
         /\ dirty' = FALSE
         /\ handed' = AppliedValue
         /\ gaveUp' = (coerced = Undefined)
         /\ IF gaveUp'
              THEN UNCHANGED <<pending, wireVars>>
              ELSE pending' = TRUE /\ SendSet(coerced)

-----------------------------------------------------------------------------
(* The application.                                                        *)

\* setValue()
SetValue(v) ==
  /\ inputs < MaxInputs
  /\ v # value
  /\ inputs' = inputs + 1
  /\ value' = v
  /\ dirty' = TRUE
  /\ IF autoApply THEN ScheduleApplyAttempt(guiQueue) ELSE UNCHANGED queueVars
  /\ UNCHANGED <<autoApply, handed, gaveUp, reportVars, linkVars, wireVars,
                 inboxVars, remoteVars, disturbances,
                 pending, ready>>

\* setAutoApply(), for a value that differs from the current one.
SetAutoApply ==
  /\ autoApply' = ~autoApply
  /\ UNCHANGED <<value, dirty, handed, gaveUp>>
  /\ IF autoApply' THEN ScheduleApplyAttempt(guiQueue) ELSE UNCHANGED queueVars
  /\ UNCHANGED <<reportVars, linkVars, wireVars, inboxVars, remoteVars, boundVars,
                 pending, ready>>

\* apply(): an attempt of its own, at once, whatever autoApply says.
Apply ==
  /\ inputs < MaxInputs
  /\ inputs' = inputs + 1
  /\ AttemptApply(TRUE, TRUE)
  /\ UNCHANGED <<value, autoApply, queueVars, reportVars, linkVars, inboxVars,
                 remoteVars, disturbances, ready>>

\* refresh() from the application; it does nothing unless ready.
Refresh ==
  /\ inputs < MaxInputs
  /\ client /\ ready
  /\ inputs' = inputs + 1
  /\ SendGet
  /\ UNCHANGED <<desiredVars, queueVars, reportVars, linkVars, inboxVars,
                 remoteVars, disturbances, pending, ready>>

-----------------------------------------------------------------------------
(* Connections.                                                            *)

\* A plausible slip: the abandoned request is not marked for a new attempt.
AbandonForgets(isDirty) == isDirty

\* Whoever clears m_pending without an answer remembers the value as unsent.
Abandon(isDirty) == isDirty \/ pending

\* clearConnection() for the fields other than dirty, guiQueue and the client.
ClearFields ==
  /\ pending' = FALSE
  /\ ready' = FALSE
  /\ reported' = Undefined
  /\ reportedFetched' = FALSE

Deadened(queue) == [i \in DOMAIN queue |-> [queue[i] EXCEPT !.live = FALSE]]

\* A new or no client: what the executor had not handled for it is lost.
ReplaceClient(exists) ==
  /\ client' = exists
  /\ matched' = FALSE
  /\ results' = 0 /\ answers' = <<>> /\ events' = <<>>
  /\ setRequests' = Deadened(setRequests)
  /\ getRequests' = Deadened(getRequests)

\* reconnect(), from setRemoteNode() and setName(): clearConnection(), the
\* desired value becomes unsent again, setupConnection() if the node is there.
Reconnect(t) ==
  /\ disturbances + foreign < MaxDisturbances
  /\ t # target
  /\ disturbances' = disturbances + 1
  /\ target' = t
  /\ ClearFields
  /\ dirty' = (Abandon(dirty) \/ value # Undefined)
  /\ ReplaceClient(nodeUp /\ t # Incomplete)
  /\ UNCHANGED <<value, autoApply, handed, gaveUp, queueVars, nodeUp, remoteUp, storeVars, inputs>>

\* setNode() to another running node: setupConnection() replaces the client
\* and nothing else, clearConnection() is not called.
SetNode ==
  /\ disturbances + foreign < MaxDisturbances
  /\ nodeUp
  /\ disturbances' = disturbances + 1
  /\ ReplaceClient(target # Incomplete)
  /\ UNCHANGED <<desiredVars, queueVars, reportVars, target, nodeUp, remoteUp, storeVars, inputs, pending, ready>>

\* setNode() to no node, or to one that does not run: setupConnection() returns
\* first.  The client on the node that was left stays, without a health timer.
LeaveNode ==
  /\ disturbances + foreign < MaxDisturbances
  /\ nodeUp
  /\ disturbances' = disturbances + 1
  /\ nodeUp' = FALSE
  /\ UNCHANGED <<desiredVars, queueVars, reportVars, wireVars, inboxVars, target, client,
                 remoteVars, inputs, pending, ready>>

\* setupConnection() when the node has been initialised, or when the item is
\* given to one that runs.
NodeUp ==
  /\ ~nodeUp
  /\ nodeUp' = TRUE
  /\ ReplaceClient(target # Incomplete)
  /\ UNCHANGED <<desiredVars, queueVars, reportVars, target, remoteUp,
                 storeVars, boundVars, pending, ready>>

\* clearConnection() when the node shuts down and its timers stop.
NodeDown ==
  /\ nodeUp
  /\ disturbances + foreign < MaxDisturbances
  /\ disturbances' = disturbances + 1
  /\ nodeUp' = FALSE
  /\ ClearFields
  /\ dirty' = Abandon(dirty)
  /\ ReplaceClient(FALSE)
  /\ UNCHANGED <<value, autoApply, handed, gaveUp, queueVars, target, remoteUp, storeVars, inputs>>

\* checkHealth(), from the node's 100 ms timer.
CheckHealth ==
  /\ nodeUp
  /\ (client /\ matched) # ready
  /\ ready' = ~ready
  /\ pending' = (pending /\ ready')
  /\ dirty' = IF ready' THEN dirty ELSE Abandon(dirty)
  /\ IF ready' THEN ScheduleApplyAttempt(guiQueue) ELSE UNCHANGED queueVars
  /\ IF ready' /\ ~reportedFetched THEN SendGet ELSE UNCHANGED wireVars
  /\ UNCHANGED <<value, autoApply, handed, gaveUp, reportVars, linkVars,
                 inboxVars, remoteVars, boundVars>>

-----------------------------------------------------------------------------
(* The GUI event loop.                                                     *)

HeadIs(kind) == guiQueue # <<>> /\ Head(guiQueue).kind = kind

\* The lambda of scheduleApplyAttempt(): attemptApply() without force.
RunAttempt ==
  /\ HeadIs("attempt")
  /\ guiQueue' = Tail(guiQueue)
  /\ attemptScheduled' = FALSE
  /\ AttemptApply(dirty, FALSE)
  /\ UNCHANGED <<value, autoApply, reportVars, linkVars, inboxVars, remoteVars,
                 boundVars, ready>>

\* A plausible slip: the completion does not look for a value stored meanwhile.
AfterResultAsleep(queue) ==
  attemptScheduled' = attemptScheduled /\ guiQueue' = queue

AfterResult(queue) == ScheduleApplyAttempt(queue)

\* handleSetResult(): the request may be one of an earlier connection.
RunSetResult ==
  /\ HeadIs("result")
  /\ pending' = FALSE
  /\ UNCHANGED desiredVars
  /\ AfterResult(Tail(guiQueue))
  /\ UNCHANGED <<reportVars, linkVars, wireVars, inboxVars, remoteVars, boundVars, ready>>

\* updateReported(): the value may be one of an earlier target.
RunReport ==
  /\ HeadIs("report")
  /\ guiQueue' = Tail(guiQueue)
  /\ reportedFetched' = TRUE
  /\ reported' = Head(guiQueue).value
  /\ UNCHANGED <<desiredVars, attemptScheduled, linkVars, wireVars, inboxVars,
                 remoteVars, boundVars, pending, ready>>

-----------------------------------------------------------------------------
(* The executor.                                                           *)

\* The lambdas passed to set_parameters and get_parameters.
HandleResult ==
  /\ results > 0
  /\ results' = results - 1
  /\ guiQueue' = Append(guiQueue, Event("result", Undefined))
  /\ UNCHANGED <<desiredVars, attemptScheduled, reportVars, linkVars, wireVars,
                 answers, events, remoteVars, boundVars, pending, ready>>

HandleAnswer ==
  /\ answers # <<>>
  /\ answers' = Tail(answers)
  /\ guiQueue' = Append(guiQueue, Event("report", Head(answers)))
  /\ UNCHANGED <<desiredVars, attemptScheduled, reportVars, linkVars, wireVars,
                 results, events, remoteVars, boundVars, pending, ready>>

\* The /parameter_events callback: an event of another target is ignored.
HandleEvent ==
  /\ events # <<>>
  /\ events' = Tail(events)
  /\ guiQueue' = IF Head(events).target = target
                   THEN Append(guiQueue, Event("report", Head(events).value))
                   ELSE guiQueue
  /\ UNCHANGED <<desiredVars, attemptScheduled, reportVars, linkVars, wireVars,
                 results, answers, remoteVars, boundVars, pending, ready>>

-----------------------------------------------------------------------------
(* The remote node.                                                        *)

\* A change of the parameter is announced to a matched subscription.
Change(t, v) ==
  /\ actual' = [actual EXCEPT ![t] = v]
  /\ events' = IF client /\ matched /\ v # actual[t]
                 THEN Append(events, [target |-> t, value |-> v])
                 ELSE events

\* The remote node accepts or rejects the oldest set request.
ServeSet ==
  /\ remoteUp
  /\ setRequests # <<>>
  /\ LET r == Head(setRequests)
         pair == <<r.target, r.value>> IN
       /\ setRequests' = Tail(setRequests)
       /\ results' = IF r.live THEN results + 1 ELSE results
       /\ \/ /\ actual[r.target] # Undefined
             /\ Change(r.target, r.value)
             /\ refused' = refused \ {pair}
             /\ replaced' = replaced \ {pair}
          \/ /\ refused' = refused \union {pair}
             /\ UNCHANGED <<actual, events, replaced>>
  /\ UNCHANGED <<desiredVars, queueVars, reportVars, linkVars, getRequests, answers,
                 remoteUp, matched, foreign, boundVars, pending, ready>>

\* The remote node answers the oldest get request.
ServeGet ==
  /\ remoteUp
  /\ getRequests # <<>>
  /\ getRequests' = Tail(getRequests)
  /\ answers' = IF Head(getRequests).live
                  THEN Append(answers, actual[Head(getRequests).target])
                  ELSE answers
  /\ UNCHANGED <<desiredVars, queueVars, reportVars, linkVars, setRequests, results,
                 events, remoteVars, boundVars, pending, ready>>

\* Somebody else changes or deletes a parameter of the remote node.
ForeignSet(t, v) ==
  /\ remoteUp
  /\ disturbances + foreign < MaxForeign
  /\ v # actual[t]
  /\ Change(t, v)
  /\ replaced' = replaced \union {<<t, actual[t]>>}
  /\ foreign' = foreign + 1
  /\ UNCHANGED <<desiredVars, queueVars, reportVars, linkVars, wireVars, results, answers,
                 remoteUp, matched, refused, boundVars, pending, ready>>

\* The remote node dies with what it had not answered.
RemoteDown ==
  /\ remoteUp
  /\ disturbances + foreign < MaxDisturbances
  /\ disturbances' = disturbances + 1
  /\ remoteUp' = FALSE
  /\ setRequests' = <<>> /\ getRequests' = <<>>
  /\ UNCHANGED <<desiredVars, queueVars, reportVars, linkVars, inboxVars,
                 matched, storeVars, inputs, pending, ready>>

\* It comes back with the values it declares; a subscription that is matched
\* again by then hears of the declaration.
RemoteUp ==
  /\ ~remoteUp
  /\ remoteUp' = TRUE
  /\ actual' = Declared
  /\ replaced' = replaced \union {<<t, actual[t]>> : t \in {u \in Targets : actual[u] # Declared[u]}}
  /\ \/ events' = events
     \/ /\ client /\ matched
        /\ events' = Append(events, [target |-> target, value |-> Declared[target]])
  /\ UNCHANGED <<desiredVars, queueVars, reportVars, linkVars, wireVars, results, answers,
                 matched, refused, foreign, boundVars, pending, ready>>

\* Discovery catches up with the presence of the remote node.
Discover ==
  /\ client
  /\ matched # remoteUp
  /\ matched' = remoteUp
  /\ UNCHANGED <<desiredVars, queueVars, reportVars, linkVars, wireVars, inboxVars,
                 remoteUp, storeVars, boundVars, pending, ready>>

-----------------------------------------------------------------------------
Next ==
  \/ \E v \in Values : SetValue(v)
  \/ SetAutoApply
  \/ Apply
  \/ Refresh
  \/ \E t \in Targets \union {Incomplete} : Reconnect(t)
  \/ SetNode
  \/ LeaveNode
  \/ NodeUp
  \/ NodeDown
  \/ CheckHealth
  \/ RunAttempt
  \/ RunSetResult
  \/ RunReport
  \/ HandleResult
  \/ HandleAnswer
  \/ HandleEvent
  \/ ServeSet
  \/ ServeGet
  \/ \E t \in Targets, v \in Readable : ForeignSet(t, v)
  \/ RemoteDown
  \/ RemoteUp
  \/ Discover

Spec == Init /\ [][Next]_vars

\* The event loop, the health timer, the executor and discovery keep running
\* and a remote node that is up answers.  Whether the node of a client that was
\* left behind is still spun is open.
Fairness ==
  /\ WF_vars(RunAttempt \/ RunSetResult \/ RunReport)
  /\ WF_vars(CheckHealth)
  /\ WF_vars(nodeUp /\ (HandleResult \/ HandleAnswer \/ HandleEvent))
  /\ WF_vars(ServeSet \/ ServeGet)
  /\ WF_vars(nodeUp /\ Discover)

FairSpec == Spec /\ Fairness

-----------------------------------------------------------------------------
(* Properties.                                                             *)

TypeOK ==
  /\ value \in Readable /\ handed \in Readable /\ reported \in Readable
  /\ dirty \in BOOLEAN /\ autoApply \in BOOLEAN /\ gaveUp \in BOOLEAN
  /\ pending \in BOOLEAN /\ ready \in BOOLEAN /\ reportedFetched \in BOOLEAN
  /\ attemptScheduled \in BOOLEAN /\ guiQueue \in Seq(Events)
  /\ target \in Targets \union {Incomplete} /\ nodeUp \in BOOLEAN /\ client \in BOOLEAN
  /\ remoteUp \in BOOLEAN /\ matched \in BOOLEAN
  /\ actual \in [Targets -> Readable]
  /\ setRequests \in Seq(Requests) /\ getRequests \in Seq(Requests)
  /\ results \in Nat /\ answers \in Seq(Readable)
  /\ events \in Seq([target : Targets, value : Readable])

\* No lost wake-up: an unsent value that could go out now has its attempt
\* posted, whether the write, autoApply, a health check, a completion or an
\* abandoned request made it so.
NoLostWakeup == MayApply(dirty, FALSE) => attemptScheduled

LW == INSTANCE LatestWins
        WITH desired <- value, unsent <- dirty, Values <- Readable

\* Every attempt hands on the latest value, once per write or abandoned request.
CoalescesWrites == LW!Spec

SetsUnderWay ==
  \/ \E i \in 1..Len(setRequests) : setRequests[i].live
  \/ results > 0
  \/ \E i \in 1..Len(guiQueue) : guiQueue[i].kind = "result"

\* pending is set and nothing is left that could clear it.
Orphaned == pending /\ ~SetsUnderWay

Settled == autoApply /\ nodeUp /\ client /\ remoteUp

\* The forms value may take on the remote node.
Forms == {Coerced[value, r] : r \in Readable} \ {Undefined}

InForce == target \in Targets /\ actual[target] \in Forms

\* setFailed() told the application, or will: not convertible, or rejected.
Refused == (gaveUp /\ ~dirty) \/ \E v \in Forms : <<target, v>> \in refused

\* The remote node held the value and then lost it to a restart or to another
\* node, after the set had been acknowledged.  The item does not set it again.
Replaced == \E v \in Forms : <<target, v>> \in replaced

\* Desired state: with a target that stays reachable and autoApply on, the
\* remote parameter ends up with the desired value, unless the item reports
\* that the set failed, the value was in force and then replaced behind its
\* back, or a request was swallowed between two health checks.  Writes made
\* while busy, unready or gated, and requests abandoned by a lost remote node,
\* its restart or a change of target or node, are not forgotten.
DesiredStateSticks ==
  <>[]Settled => <>[](value = Undefined \/ InForce \/ Refused \/ Replaced \/ Orphaned)

\* The documentation of reported (qros2remoteparameter.cpp:76-77): "the value
\* the remote node actually holds".
ReportedIsActual ==
  <>[](client /\ remoteUp) => <>[](target \in Targets /\ reported = actual[target])
=============================================================================
