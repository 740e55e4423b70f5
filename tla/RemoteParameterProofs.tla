----------------------- MODULE RemoteParameterProofs -----------------------
(***************************************************************************)
(* Proofs about RemoteParameter, for every set of values and targets and   *)
(* any number of writes, reconnections, restarts and foreign changes.      *)
(***************************************************************************)
EXTENDS RemoteParameter, TLAPS

-----------------------------------------------------------------------------
(* Type correctness.  A request is addressed to a target because a client  *)
(* exists only for a complete one.                                         *)

Changes == [target : Targets, value : Readable]

ItemType ==
  /\ value \in Readable /\ handed \in Readable /\ reported \in Readable
  /\ dirty \in BOOLEAN /\ autoApply \in BOOLEAN /\ gaveUp \in BOOLEAN
  /\ pending \in BOOLEAN /\ ready \in BOOLEAN /\ reportedFetched \in BOOLEAN

QueueType == attemptScheduled \in BOOLEAN /\ guiQueue \in Seq(Events)

\* There is a client only for a complete target, on a running node always, and
\* nothing is ready without a client.
LinkType ==
  /\ target \in Targets \union {Incomplete} /\ nodeUp \in BOOLEAN /\ client \in BOOLEAN
  /\ client => target # Incomplete
  /\ nodeUp /\ target # Incomplete => client
  /\ ready => client

WireType == setRequests \in Seq(Requests) /\ getRequests \in Seq(Requests)

InboxType == results \in Nat /\ answers \in Seq(Readable) /\ events \in Seq(Changes)

RemoteType == remoteUp \in BOOLEAN /\ matched \in BOOLEAN /\ actual \in [Targets -> Readable]

TypeInv == ItemType /\ QueueType /\ LinkType /\ WireType /\ InboxType /\ RemoteType

LEMMA TypeInvTypeOK == TypeInv => TypeOK
BY DEF TypeInv, ItemType, QueueType, LinkType, WireType, InboxType, RemoteType, Changes, TypeOK

LEMMA EventsTyped ==
  /\ AttemptEvent \in Events
  /\ Event("result", Undefined) \in Events
  /\ \A v \in Readable : Event("report", v) \in Events
BY DEF AttemptEvent, Event, Events, Readable

\* scheduleApplyAttempt() leaves a flag and a queue of events.
LEMMA ScheduleType ==
  ASSUME attemptScheduled \in BOOLEAN, NEW queue \in Seq(Events), ScheduleApplyAttempt(queue)
  PROVE  QueueType'
<1>1. Append(queue, AttemptEvent) \in Seq(Events)
  BY EventsTyped
<1> QED BY <1>1, Zenon DEF ScheduleApplyAttempt, QueueType

\* Without a message to or from the GUI thread, the queue stays as it is.
LEMMA QueueKept == QueueType /\ UNCHANGED queueVars => QueueType'
BY DEF QueueType, queueVars

LEMMA WireKept == WireType /\ UNCHANGED wireVars => WireType'
BY DEF WireType, wireVars

LEMMA InboxKept == InboxType /\ UNCHANGED inboxVars => InboxType'
BY DEF InboxType, inboxVars

LEMMA RemoteKept == RemoteType /\ UNCHANGED remoteVars => RemoteType'
BY DEF RemoteType, remoteVars, storeVars

LEMMA PostedType ==
  ASSUME LinkType, client, NEW queue \in Seq(Requests), NEW v \in Readable
  PROVE  Posted(queue, v) \in Seq(Requests)
<1>1. [target |-> target, value |-> v, live |-> TRUE] \in Requests
  BY DEF LinkType, Requests
<1> QED BY <1>1 DEF Posted

\* A request that nobody waits for any more is still a request.
LEMMA DeadenedType ==
  ASSUME NEW queue \in Seq(Requests)
  PROVE  Deadened(queue) \in Seq(Requests)
<1>1. ASSUME NEW i \in 1..Len(queue) PROVE [queue[i] EXCEPT !.live = FALSE] \in Requests
  <2>1. queue[i] \in Requests
    OBVIOUS
  <2>2. ASSUME NEW r \in Requests PROVE [r EXCEPT !.live = FALSE] \in Requests
    BY DEF Requests
  <2> QED BY <2>1, <2>2
<1>2. DOMAIN queue = 1..Len(queue) /\ Len(queue) \in Nat
  OBVIOUS
<1>3. Deadened(queue) \in [1..Len(queue) -> Requests]
  BY <1>1, <1>2 DEF Deadened
<1> QED BY <1>2, <1>3

\* Replacing the client leaves the channels typed, whatever was on them.
LEMMA ReplaceType ==
  ASSUME WireType, NEW exists \in BOOLEAN, ReplaceClient(exists)
  PROVE  client' = exists /\ matched' \in BOOLEAN /\ InboxType' /\ WireType'
<1>1. <<>> \in Seq(Readable) /\ <<>> \in Seq(Changes)
  OBVIOUS
<1>2. WireType'
  BY DeadenedType DEF WireType, ReplaceClient
<1>3. InboxType'
  BY <1>1 DEF InboxType, ReplaceClient
<1> QED BY <1>2, <1>3 DEF ReplaceClient

\* An attempt sends a value that can be read back, if any.
LEMMA ApplyType ==
  ASSUME ItemType, LinkType, WireType, NEW isDirty \in BOOLEAN, NEW force \in BOOLEAN,
         AttemptApply(isDirty, force)
  PROVE  /\ dirty' \in BOOLEAN /\ handed' \in Readable /\ gaveUp' \in BOOLEAN
         /\ pending' \in BOOLEAN /\ WireType'
<1>1. CASE ~MayApply(isDirty, force)
  BY <1>1, WireKept DEF AttemptApply, ItemType
<1>2. CASE MayApply(isDirty, force)
  <2> DEFINE coerced == Coerced[value, reported]
  <2>0. coerced \in Readable
    BY ValuesAssumption DEF ItemType
  <2>1. client /\ Posted(setRequests, coerced) \in Seq(Requests)
    BY <1>2, <2>0, PostedType DEF MayApply, WireType
  <2>2. /\ dirty' = FALSE /\ handed' = value /\ gaveUp' = (coerced = Undefined)
        /\ IF gaveUp' THEN UNCHANGED <<pending, wireVars>> ELSE pending' = TRUE /\ SendSet(coerced)
    BY <1>2 DEF AttemptApply, AppliedValue
  <2> HIDE DEF coerced
  <2>3. CASE coerced = Undefined
    BY <2>2, <2>3, WireKept DEF ItemType
  <2>4. CASE coerced # Undefined
    BY <2>1, <2>2, <2>4 DEF SendSet, ItemType, WireType
  <2> QED BY <2>3, <2>4
<1> QED BY <1>1, <1>2

LEMMA ChangeType ==
  ASSUME RemoteType, events \in Seq(Changes), NEW t \in Targets, NEW v \in Readable, Change(t, v)
  PROVE  actual' \in [Targets -> Readable] /\ events' \in Seq(Changes)
<1>1. [target |-> t, value |-> v] \in Changes
  BY DEF Changes
<1>2. Append(events, [target |-> t, value |-> v]) \in Seq(Changes)
  BY <1>1
<1>3. events' \in Seq(Changes)
  BY <1>2, Zenon DEF Change
<1>4. actual' \in [Targets -> Readable]
  BY DEF Change, RemoteType
<1> QED BY <1>3, <1>4

LEMMA TypeStep == TypeInv /\ [Next]_vars => TypeInv'
<1> SUFFICES ASSUME ItemType, QueueType, LinkType, WireType, InboxType, RemoteType, [Next]_vars
             PROVE  ItemType' /\ QueueType' /\ LinkType' /\ WireType' /\ InboxType' /\ RemoteType'
  BY DEF TypeInv
<1> DEFINE Typed == ItemType /\ QueueType /\ LinkType /\ WireType /\ InboxType /\ RemoteType
<1>a. attemptScheduled \in BOOLEAN /\ guiQueue \in Seq(Events)
  BY DEF QueueType
<1>1. ASSUME NEW v \in Values, SetValue(v) PROVE Typed'
  <2>1. QueueType'
    BY <1>1, <1>a, ScheduleType, QueueKept DEF SetValue
  <2>2. ItemType' /\ LinkType'
    BY <1>1 DEF SetValue, ItemType, LinkType, Readable, reportVars, linkVars
  <2> QED BY <1>1, <2>1, <2>2, WireKept, InboxKept, RemoteKept DEF SetValue
<1>2. CASE SetAutoApply
  <2>1. QueueType'
    BY <1>2, <1>a, ScheduleType, QueueKept DEF SetAutoApply
  <2>2. ItemType' /\ LinkType'
    BY <1>2 DEF SetAutoApply, ItemType, LinkType, reportVars, linkVars
  <2> QED BY <1>2, <2>1, <2>2, WireKept, InboxKept, RemoteKept DEF SetAutoApply
<1>3. CASE Apply
  <2>1. dirty' \in BOOLEAN /\ handed' \in Readable /\ gaveUp' \in BOOLEAN /\ pending' \in BOOLEAN /\ WireType'
    BY <1>3, ApplyType DEF Apply
  <2>2. ItemType' /\ LinkType'
    BY <1>3, <2>1 DEF Apply, ItemType, LinkType, reportVars, linkVars
  <2> QED BY <1>3, <2>1, <2>2, QueueKept, InboxKept, RemoteKept DEF Apply
<1>4. CASE Refresh
  <2>1. WireType'
    BY <1>4, PostedType DEF Refresh, SendGet, Readable, WireType
  <2>2. ItemType' /\ LinkType'
    BY <1>4 DEF Refresh, ItemType, LinkType, desiredVars, reportVars, linkVars
  <2> QED BY <1>4, <2>1, <2>2, QueueKept, InboxKept, RemoteKept DEF Refresh
<1>5. ASSUME NEW t \in Targets \union {Incomplete}, Reconnect(t) PROVE Typed'
  <2>1. ReplaceClient(nodeUp /\ t # Incomplete) /\ (nodeUp /\ t # Incomplete) \in BOOLEAN
    BY <1>5 DEF Reconnect
  <2>2. client' = (nodeUp /\ t # Incomplete) /\ matched' \in BOOLEAN /\ InboxType' /\ WireType'
    BY <2>1, ReplaceType
  <2>3. dirty' \in BOOLEAN
    BY <1>5 DEF Reconnect
  <2>4. ItemType' /\ LinkType'
    BY <1>5, <2>2, <2>3 DEF Reconnect, ClearFields, ItemType, LinkType, Readable
  <2>5. RemoteType'
    BY <1>5, <2>2 DEF Reconnect, RemoteType, storeVars
  <2> QED BY <1>5, <2>2, <2>4, <2>5, QueueKept DEF Reconnect
<1>6. CASE SetNode
  <2>1. ReplaceClient(target # Incomplete) /\ (target # Incomplete) \in BOOLEAN
    BY <1>6 DEF SetNode
  <2>2. client' = (target # Incomplete) /\ matched' \in BOOLEAN /\ InboxType' /\ WireType'
    BY <2>1, ReplaceType
  <2>3. ItemType' /\ LinkType'
    BY <1>6, <2>2 DEF SetNode, ItemType, LinkType, desiredVars, reportVars
  <2>4. RemoteType'
    BY <1>6, <2>2 DEF SetNode, RemoteType, storeVars
  <2> QED BY <1>6, <2>2, <2>3, <2>4, QueueKept DEF SetNode
<1>7. CASE NodeUp
  <2>1. ReplaceClient(target # Incomplete) /\ (target # Incomplete) \in BOOLEAN
    BY <1>7 DEF NodeUp
  <2>2. client' = (target # Incomplete) /\ matched' \in BOOLEAN /\ InboxType' /\ WireType'
    BY <2>1, ReplaceType
  <2>3. ItemType' /\ LinkType'
    BY <1>7, <2>2 DEF NodeUp, ItemType, LinkType, desiredVars, reportVars
  <2>4. RemoteType'
    BY <1>7, <2>2 DEF NodeUp, RemoteType, storeVars
  <2> QED BY <1>7, <2>2, <2>3, <2>4, QueueKept DEF NodeUp
<1>8. CASE NodeDown
  <2>1. client' = FALSE /\ matched' \in BOOLEAN /\ InboxType' /\ WireType'
    BY <1>8, ReplaceType DEF NodeDown
  <2>2. dirty' \in BOOLEAN
    BY <1>8 DEF NodeDown, Abandon, ItemType
  <2>3. ItemType' /\ LinkType'
    BY <1>8, <2>1, <2>2 DEF NodeDown, ClearFields, ItemType, LinkType, Readable
  <2>4. RemoteType'
    BY <1>8, <2>1 DEF NodeDown, RemoteType, storeVars
  <2> QED BY <1>8, <2>1, <2>3, <2>4, QueueKept DEF NodeDown
<1>9. CASE CheckHealth
  <2>1. QueueType'
    BY <1>9, <1>a, ScheduleType, QueueKept DEF CheckHealth
  <2>2. WireType'
    <3>1. CASE ready' /\ ~reportedFetched
      <4>1. client
        BY <1>9, <3>1 DEF CheckHealth, ItemType
      <4> QED BY <1>9, <3>1, <4>1, PostedType DEF CheckHealth, SendGet, Readable, WireType
    <3>2. CASE ~(ready' /\ ~reportedFetched)
      BY <1>9, <3>2, WireKept DEF CheckHealth
    <3> QED BY <3>1, <3>2
  <2>3. ItemType' /\ LinkType'
    BY <1>9 DEF CheckHealth, Abandon, ItemType, LinkType, reportVars, linkVars
  <2> QED BY <1>9, <2>1, <2>2, <2>3, InboxKept, RemoteKept DEF CheckHealth
<1>10. CASE RunAttempt
  <2>1. dirty' \in BOOLEAN /\ handed' \in Readable /\ gaveUp' \in BOOLEAN /\ pending' \in BOOLEAN /\ WireType'
    BY <1>10, ApplyType DEF RunAttempt, ItemType
  <2>2. QueueType'
    <3>1. Tail(guiQueue) \in Seq(Events)
      BY <1>10, <1>a DEF RunAttempt, HeadIs
    <3> QED BY <1>10, <3>1 DEF RunAttempt, QueueType
  <2>3. ItemType' /\ LinkType'
    BY <1>10, <2>1 DEF RunAttempt, ItemType, LinkType, reportVars, linkVars
  <2> QED BY <1>10, <2>1, <2>2, <2>3, InboxKept, RemoteKept DEF RunAttempt
<1>11. CASE RunSetResult
  <2>1. Tail(guiQueue) \in Seq(Events)
    BY <1>11, <1>a DEF RunSetResult, HeadIs
  <2>2. QueueType'
    BY <1>11, <1>a, <2>1, ScheduleType DEF RunSetResult, AfterResult
  <2>3. ItemType' /\ LinkType'
    BY <1>11 DEF RunSetResult, ItemType, LinkType, desiredVars, reportVars, linkVars
  <2> QED BY <1>11, <2>2, <2>3, WireKept, InboxKept, RemoteKept DEF RunSetResult
<1>12. CASE RunReport
  <2>1. Tail(guiQueue) \in Seq(Events) /\ Head(guiQueue) \in Events
    BY <1>12, <1>a DEF RunReport, HeadIs
  <2>2. Head(guiQueue).value \in Readable
    BY <2>1 DEF Events
  <2>3. QueueType'
    BY <1>12, <1>a, <2>1 DEF RunReport, QueueType
  <2>4. ItemType' /\ LinkType'
    BY <1>12, <2>2 DEF RunReport, ItemType, LinkType, desiredVars, linkVars
  <2> QED BY <1>12, <2>3, <2>4, WireKept, InboxKept, RemoteKept DEF RunReport
<1>13. CASE HandleResult
  <2>1. QueueType'
    BY <1>13, <1>a, EventsTyped DEF HandleResult, QueueType
  <2>2. ItemType' /\ LinkType' /\ InboxType'
    BY <1>13 DEF HandleResult, ItemType, LinkType, InboxType, desiredVars, reportVars, linkVars
  <2> QED BY <1>13, <2>1, <2>2, WireKept, RemoteKept DEF HandleResult
<1>14. CASE HandleAnswer
  <2>1. Head(answers) \in Readable /\ Tail(answers) \in Seq(Readable)
    BY <1>14 DEF HandleAnswer, InboxType
  <2>2. QueueType'
    BY <1>14, <1>a, <2>1, EventsTyped DEF HandleAnswer, QueueType
  <2>3. ItemType' /\ LinkType' /\ InboxType'
    BY <1>14, <2>1 DEF HandleAnswer, ItemType, LinkType, InboxType, desiredVars, reportVars, linkVars
  <2> QED BY <1>14, <2>2, <2>3, WireKept, RemoteKept DEF HandleAnswer
<1>15. CASE HandleEvent
  <2>1. Head(events) \in Changes /\ Tail(events) \in Seq(Changes)
    BY <1>15 DEF HandleEvent, InboxType
  <2>2. Head(events).value \in Readable
    BY <2>1 DEF Changes
  <2>3. QueueType'
    BY <1>15, <1>a, <2>2, EventsTyped DEF HandleEvent, QueueType
  <2>4. ItemType' /\ LinkType' /\ InboxType'
    BY <1>15, <2>1 DEF HandleEvent, ItemType, LinkType, InboxType, desiredVars, reportVars, linkVars
  <2> QED BY <1>15, <2>3, <2>4, WireKept, RemoteKept DEF HandleEvent
<1>16. CASE ServeSet
  <2>1. Head(setRequests) \in Requests /\ Tail(setRequests) \in Seq(Requests)
    BY <1>16 DEF ServeSet, WireType
  <2>2. Head(setRequests).target \in Targets /\ Head(setRequests).value \in Readable
    BY <2>1 DEF Requests
  <2>3. actual' \in [Targets -> Readable] /\ events' \in Seq(Changes)
    BY <1>16, <2>2, ChangeType DEF ServeSet, InboxType, RemoteType
  <2>4. results' \in Nat
    BY <1>16 DEF ServeSet, InboxType
  <2>5. WireType' /\ InboxType' /\ RemoteType'
    BY <1>16, <2>1, <2>3, <2>4 DEF ServeSet, WireType, InboxType, RemoteType
  <2>6. ItemType' /\ LinkType'
    BY <1>16 DEF ServeSet, ItemType, LinkType, desiredVars, reportVars, linkVars
  <2> QED BY <1>16, <2>5, <2>6, QueueKept DEF ServeSet
<1>17. CASE ServeGet
  <2>1. Head(getRequests) \in Requests /\ Tail(getRequests) \in Seq(Requests)
    BY <1>17 DEF ServeGet, WireType
  <2>2. actual[Head(getRequests).target] \in Readable
    BY <2>1 DEF Requests, RemoteType
  <2>3. answers' \in Seq(Readable)
    BY <1>17, <2>2 DEF ServeGet, InboxType
  <2>4. WireType' /\ InboxType'
    BY <1>17, <2>1, <2>3 DEF ServeGet, WireType, InboxType
  <2>5. ItemType' /\ LinkType'
    BY <1>17 DEF ServeGet, ItemType, LinkType, desiredVars, reportVars, linkVars
  <2> QED BY <1>17, <2>4, <2>5, QueueKept, RemoteKept DEF ServeGet
<1>18. ASSUME NEW t \in Targets, NEW v \in Readable, ForeignSet(t, v) PROVE Typed'
  <2>1. actual' \in [Targets -> Readable] /\ events' \in Seq(Changes)
    BY <1>18, ChangeType DEF ForeignSet, InboxType
  <2>2. ItemType' /\ LinkType'
    BY <1>18 DEF ForeignSet, ItemType, LinkType, desiredVars, reportVars, linkVars
  <2>3. InboxType' /\ RemoteType'
    BY <1>18, <2>1 DEF ForeignSet, InboxType, RemoteType
  <2> QED BY <1>18, <2>2, <2>3, QueueKept, WireKept DEF ForeignSet
<1>19. CASE RemoteDown
  <2>1. <<>> \in Seq(Requests)
    OBVIOUS
  <2>2. WireType' /\ RemoteType'
    BY <1>19, <2>1 DEF RemoteDown, WireType, RemoteType, storeVars
  <2>3. ItemType' /\ LinkType'
    BY <1>19 DEF RemoteDown, ItemType, LinkType, desiredVars, reportVars, linkVars
  <2> QED BY <1>19, <2>2, <2>3, QueueKept, InboxKept DEF RemoteDown
<1>20. CASE Discover
  <2>1. RemoteType'
    BY <1>20 DEF Discover, RemoteType, storeVars
  <2>2. ItemType' /\ LinkType'
    BY <1>20 DEF Discover, ItemType, LinkType, desiredVars, reportVars, linkVars
  <2> QED BY <1>20, <2>1, <2>2, QueueKept, WireKept, InboxKept DEF Discover
<1>21. CASE RemoteUp
  <2>1. RemoteType'
    BY <1>21, ValuesAssumption DEF RemoteUp, RemoteType, Readable
  <2>2. ItemType' /\ LinkType'
    BY <1>21 DEF RemoteUp, ItemType, LinkType, desiredVars, reportVars, linkVars
  <2>3. ASSUME client PROVE [target |-> target, value |-> Declared[target]] \in Changes
    BY <2>3, ValuesAssumption DEF LinkType, Changes, Readable
  <2>4. events \in Seq(Changes) /\ (events' = events \/ \E c \in Changes : events' = Append(events, c))
    BY <1>21, <2>3 DEF RemoteUp, InboxType
  <2>5. events' \in Seq(Changes)
    BY <2>4
  <2>6. InboxType'
    BY <1>21, <2>5 DEF RemoteUp, InboxType
  <2> QED BY <1>21, <2>1, <2>2, <2>6, QueueKept, WireKept DEF RemoteUp
<1>22. CASE LeaveNode
  <2>1. ItemType' /\ LinkType'
    BY <1>22 DEF LeaveNode, ItemType, LinkType, desiredVars, reportVars
  <2> QED BY <1>22, <2>1, QueueKept, WireKept, InboxKept, RemoteKept DEF LeaveNode
<1>23. CASE UNCHANGED vars
  <2>1. ItemType' /\ LinkType'
    BY <1>23 DEF vars, ItemType, LinkType, desiredVars, reportVars, linkVars
  <2> QED BY <1>23, <2>1, QueueKept, WireKept, InboxKept, RemoteKept DEF vars
<1> QED
  BY <1>1, <1>2, <1>3, <1>4, <1>5, <1>6, <1>7, <1>8, <1>9, <1>10, <1>11, <1>12, <1>13, <1>14, <1>15, <1>16, <1>17,
     <1>18, <1>19, <1>20, <1>21, <1>22, <1>23 DEF Next

LEMMA TypeInit == Init => TypeInv
<1> SUFFICES ASSUME Init PROVE TypeInv
  OBVIOUS
<1>1. <<>> \in Seq(Events) /\ <<>> \in Seq(Requests) /\ <<>> \in Seq(Readable) /\ <<>> \in Seq(Changes)
  OBVIOUS
<1>2. ItemType /\ QueueType
  BY <1>1 DEF Init, ItemType, QueueType, Readable
<1>3. LinkType /\ WireType
  BY <1>1, TargetAssumption DEF Init, LinkType, WireType
<1>4. InboxType /\ RemoteType
  BY <1>1, ValuesAssumption DEF Init, InboxType, RemoteType, Readable
<1> QED BY <1>2, <1>3, <1>4 DEF TypeInv

LEMMA Typing == Spec => []TypeInv
BY TypeInit, TypeStep, PTL DEF Spec

\* Every variable of the remote parameter, its wire and the remote node keeps
\* its type; in particular nothing is ever sent to an incomplete target.
THEOREM TypeCorrect == Spec => []TypeOK
BY Typing, TypeInvTypeOK, PTL

-----------------------------------------------------------------------------
(* The posted attempt.  NoLostWakeup is inductive together with the mirror *)
(* of the flag in the queue (only because the posted attempt is the only   *)
(* one is the flag rightly cleared by running it) and with LinkType: a     *)
(* client that appears, when the node comes up, finds the item not ready.  *)

AttemptIn(q) == \E i \in 1..Len(q) : q[i].kind = "attempt"

OneAttempt(q) ==
  \A i, j \in 1..Len(q) : q[i].kind = "attempt" /\ q[j].kind = "attempt" => i = j

Mirrors(flag, q) == (flag <=> AttemptIn(q)) /\ OneAttempt(q)

\* Posting an attempt to a queue without one leaves exactly one.
LEMMA AppendAttempt ==
  ASSUME NEW q \in Seq(Events), ~AttemptIn(q)
  PROVE  Mirrors(TRUE, Append(q, AttemptEvent))
<1> DEFINE p == Append(q, AttemptEvent)
<1>1. AttemptEvent \in Events /\ AttemptEvent.kind = "attempt"
  BY EventsTyped DEF AttemptEvent, Event
<1>2. Len(q) \in Nat /\ Len(p) = Len(q) + 1 /\ p[Len(q) + 1] = AttemptEvent
  BY <1>1
<1>3. \A i \in 1..Len(q) : p[i] = q[i]
  BY <1>1
<1> HIDE DEF p
<1>4. \A i \in 1..Len(p) : p[i].kind = "attempt" <=> i = Len(q) + 1
  BY <1>1, <1>2, <1>3 DEF AttemptIn
<1>5. AttemptIn(p) /\ OneAttempt(p)
  BY <1>2, <1>4 DEF AttemptIn, OneAttempt
<1> QED BY <1>5 DEF p, Mirrors

\* Posting anything else changes nothing about attempts.
LEMMA AppendOther ==
  ASSUME NEW flag, NEW q \in Seq(Events), NEW e \in Events, e.kind # "attempt", Mirrors(flag, q)
  PROVE  Mirrors(flag, Append(q, e))
<1> DEFINE p == Append(q, e)
<1>1. Len(q) \in Nat /\ Len(p) = Len(q) + 1 /\ p[Len(q) + 1] = e
  OBVIOUS
<1>2. \A i \in 1..Len(q) : p[i] = q[i]
  OBVIOUS
<1> HIDE DEF p
<1>3. \A i \in 1..Len(p) : p[i].kind = "attempt" => i \in 1..Len(q) /\ q[i].kind = "attempt"
  BY <1>1, <1>2
<1>4. AttemptIn(p) <=> AttemptIn(q)
  BY <1>1, <1>2, <1>3 DEF AttemptIn
<1>5. OneAttempt(p)
  BY <1>3 DEF OneAttempt, Mirrors
<1> QED BY <1>4, <1>5 DEF p, Mirrors

\* Taking the head off: an attempt at the head was the only one, anything else
\* at the head leaves the attempts as they were.
LEMMA TailEvents ==
  ASSUME NEW flag, NEW q \in Seq(Events), q # <<>>, Mirrors(flag, q)
  PROVE  /\ Head(q).kind = "attempt" => Mirrors(FALSE, Tail(q))
         /\ Head(q).kind # "attempt" => Mirrors(flag, Tail(q))
<1> DEFINE p == Tail(q)
<1>1. Len(q) \in Nat /\ Len(q) > 0 /\ Len(p) = Len(q) - 1
  OBVIOUS
<1>2. \A i \in 1..Len(p) : p[i] = q[i + 1]
  OBVIOUS
<1>3. Head(q) = q[1]
  OBVIOUS
<1> HIDE DEF p
<1>4. \A i \in 1..Len(p) : i + 1 \in 1..Len(q) /\ i + 1 # 1
  BY <1>1
<1>5. \A i \in 1..Len(q) : i # 1 => i - 1 \in 1..Len(p) /\ q[i] = p[i - 1]
  BY <1>1, <1>2
<1>6. OneAttempt(p)
  <2> SUFFICES ASSUME NEW i \in 1..Len(p), NEW j \in 1..Len(p),
                      p[i].kind = "attempt", p[j].kind = "attempt"
               PROVE  i = j
    BY DEF OneAttempt
  <2>1. i + 1 = j + 1
    BY <1>2, <1>4 DEF OneAttempt, Mirrors
  <2> QED BY <2>1
<1>7. Head(q).kind = "attempt" => ~AttemptIn(p)
  BY <1>1, <1>2, <1>3, <1>4 DEF Mirrors, OneAttempt, AttemptIn
<1>8. Head(q).kind # "attempt" => (AttemptIn(p) <=> AttemptIn(q))
  BY <1>2, <1>3, <1>4, <1>5 DEF AttemptIn
<1> QED BY <1>6, <1>7, <1>8 DEF p, Mirrors

\* scheduleApplyAttempt() keeps flag and queue in step, and afterwards an
\* attempt is posted whenever a value is unsent.
LEMMA ScheduleMirrors ==
  ASSUME attemptScheduled \in BOOLEAN, NEW queue \in Seq(Events),
         Mirrors(attemptScheduled, queue), ScheduleApplyAttempt(queue)
  PROVE  Mirrors(attemptScheduled', guiQueue') /\ (dirty' => attemptScheduled')
<1>1. CASE ~attemptScheduled /\ dirty'
  <2>1. attemptScheduled' = TRUE /\ guiQueue' = Append(queue, AttemptEvent)
    BY <1>1 DEF ScheduleApplyAttempt
  <2>2. Mirrors(TRUE, Append(queue, AttemptEvent))
    BY <1>1, AppendAttempt DEF Mirrors
  <2> QED BY <2>1, <2>2
<1>2. CASE ~(~attemptScheduled /\ dirty')
  <2>1. attemptScheduled' = attemptScheduled /\ guiQueue' = queue
    BY <1>2 DEF ScheduleApplyAttempt
  <2> QED BY <1>2, <2>1
<1> QED BY <1>1, <1>2

MirrorOK == Mirrors(attemptScheduled, guiQueue)

LEMMA MirrorKept == MirrorOK /\ UNCHANGED queueVars => MirrorOK'
BY DEF MirrorOK, queueVars

\* An attempt leaves nothing that may go out without force.
LEMMA AttemptExhausts ==
  ASSUME NEW isDirty \in BOOLEAN, NEW force \in BOOLEAN, autoApply \in BOOLEAN,
         AttemptApply(isDirty, force), UNCHANGED <<autoApply, ready, client>>
  PROVE  ~MayApply(dirty, FALSE)'
<1>1. CASE MayApply(isDirty, force)
  BY <1>1 DEF AttemptApply, MayApply
<1>2. CASE ~MayApply(isDirty, force)
  <2>1. dirty' = isDirty /\ pending' = pending
    BY <1>2 DEF AttemptApply
  <2> QED BY <1>2, <2>1 DEF MayApply
<1> QED BY <1>1, <1>2

LEMMA WakeupStep ==
  TypeInv /\ MirrorOK /\ NoLostWakeup /\ [Next]_vars => (MirrorOK /\ NoLostWakeup)'
<1> SUFFICES ASSUME TypeInv, MirrorOK, NoLostWakeup, [Next]_vars
             PROVE  MirrorOK' /\ NoLostWakeup'
  OBVIOUS
<1>a. attemptScheduled \in BOOLEAN /\ guiQueue \in Seq(Events) /\ Mirrors(attemptScheduled, guiQueue)
  BY DEF TypeInv, QueueType, MirrorOK
<1>b. ItemType /\ LinkType
  BY DEF TypeInv
<1>s. ScheduleApplyAttempt(guiQueue) => MirrorOK' /\ NoLostWakeup'
  BY <1>a, ScheduleMirrors DEF MirrorOK, NoLostWakeup, MayApply
\* What does not touch queue, flag, gates and desired value keeps the promise.
<1>k. UNCHANGED queueVars /\ (MayApply(dirty, FALSE)' => MayApply(dirty, FALSE)) => MirrorOK' /\ NoLostWakeup'
  <2> SUFFICES ASSUME UNCHANGED queueVars, MayApply(dirty, FALSE)' => MayApply(dirty, FALSE)
               PROVE  MirrorOK' /\ NoLostWakeup'
    OBVIOUS
  <2>1. attemptScheduled' = attemptScheduled
    BY DEF queueVars
  <2>2. MayApply(dirty, FALSE)' => attemptScheduled'
    BY <2>1 DEF NoLostWakeup
  <2> QED BY <2>2, MirrorKept DEF NoLostWakeup
<1>1. ASSUME NEW v \in Values, SetValue(v) PROVE MirrorOK' /\ NoLostWakeup'
  <2>1. CASE autoApply
    BY <1>1, <2>1, <1>s DEF SetValue
  <2>2. CASE ~autoApply
    BY <1>1, <2>2, <1>k DEF SetValue, MayApply
  <2> QED BY <2>1, <2>2
<1>2. CASE SetAutoApply
  <2>1. CASE autoApply'
    BY <1>2, <2>1, <1>s DEF SetAutoApply
  <2>2. CASE ~autoApply'
    BY <1>2, <2>2, <1>k DEF SetAutoApply, MayApply
  <2> QED BY <2>1, <2>2
<1>3. CASE Apply
  <2>1. ~MayApply(dirty, FALSE)'
    BY <1>3, <1>b, AttemptExhausts DEF Apply, ItemType, linkVars
  <2> QED BY <1>3, <2>1, <1>k DEF Apply
<1>4. ASSUME NEW t \in Targets \union {Incomplete}, Reconnect(t) PROVE MirrorOK' /\ NoLostWakeup'
  BY <1>4, <1>k DEF Reconnect, ClearFields, MayApply
<1>5. CASE SetNode
  <2>1. ready => client
    BY <1>b DEF LinkType
  <2> QED BY <1>5, <2>1, <1>k DEF SetNode, desiredVars, MayApply
<1>6. CASE NodeUp
  <2>1. ready => client
    BY <1>b DEF LinkType
  <2> QED BY <1>6, <2>1, <1>k DEF NodeUp, desiredVars, MayApply
<1>7. CASE NodeDown
  BY <1>7, <1>k DEF NodeDown, ClearFields, MayApply
<1>8. CASE CheckHealth
  <2>1. CASE ready'
    BY <1>8, <2>1, <1>s DEF CheckHealth
  <2>2. CASE ~ready'
    BY <1>8, <2>2, <1>k DEF CheckHealth, MayApply
  <2> QED BY <2>1, <2>2
<1>9. CASE RunAttempt
  <2>1. guiQueue # <<>> /\ Head(guiQueue).kind = "attempt" /\ guiQueue' = Tail(guiQueue) /\ ~attemptScheduled'
    BY <1>9 DEF RunAttempt, HeadIs
  <2>2. Mirrors(FALSE, Tail(guiQueue))
    BY <2>1, <1>a, TailEvents
  <2>3. ~MayApply(dirty, FALSE)'
    BY <1>9, <1>b, AttemptExhausts DEF RunAttempt, ItemType, linkVars
  <2>4. attemptScheduled' = FALSE
    BY <1>9 DEF RunAttempt
  <2> QED BY <2>1, <2>2, <2>3, <2>4 DEF MirrorOK, NoLostWakeup
<1>10. CASE RunSetResult
  <2>1. guiQueue # <<>> /\ Head(guiQueue).kind # "attempt" /\ ScheduleApplyAttempt(Tail(guiQueue))
    BY <1>10 DEF RunSetResult, HeadIs, AfterResult
  <2>2. Mirrors(attemptScheduled, Tail(guiQueue))
    BY <2>1, <1>a, TailEvents
  <2>3. Tail(guiQueue) \in Seq(Events)
    BY <2>1, <1>a
  <2> QED BY <2>1, <2>2, <2>3, <1>a, ScheduleMirrors DEF MirrorOK, NoLostWakeup, MayApply
<1>11. CASE RunReport
  <2>1. /\ guiQueue # <<>> /\ Head(guiQueue).kind # "attempt" /\ guiQueue' = Tail(guiQueue)
        /\ UNCHANGED <<desiredVars, attemptScheduled, linkVars, pending, ready>>
    BY <1>11 DEF RunReport, HeadIs
  <2>2. Mirrors(attemptScheduled, Tail(guiQueue))
    BY <2>1, <1>a, TailEvents
  <2>3. MirrorOK'
    BY <2>1, <2>2 DEF MirrorOK
  <2> QED BY <2>1, <2>3 DEF NoLostWakeup, MayApply, desiredVars, linkVars
<1>12. CASE HandleResult \/ HandleAnswer \/ HandleEvent
  <2>1. \A v \in Readable : Event("report", v) \in Events /\ Event("report", v).kind # "attempt"
    BY EventsTyped DEF Event
  <2>2. Event("result", Undefined) \in Events /\ Event("result", Undefined).kind # "attempt"
    BY EventsTyped DEF Event
  <2>3. \/ guiQueue' = guiQueue
        \/ \E e \in Events : e.kind # "attempt" /\ guiQueue' = Append(guiQueue, e)
    <3>1. CASE HandleResult
      BY <3>1, <2>2 DEF HandleResult
    <3>2. CASE HandleAnswer
      <4>1. Head(answers) \in Readable
        BY <3>2 DEF HandleAnswer, TypeInv, InboxType
      <4> QED BY <3>2, <4>1, <2>1 DEF HandleAnswer
    <3>3. CASE HandleEvent
      <4>1. Head(events) \in Changes
        BY <3>3 DEF HandleEvent, TypeInv, InboxType
      <4>2. Head(events).value \in Readable
        BY <4>1 DEF Changes
      <4> QED BY <3>3, <4>2, <2>1 DEF HandleEvent
    <3> QED BY <1>12, <3>1, <3>2, <3>3
  <2>4. Mirrors(attemptScheduled, guiQueue')
    BY <2>3, <1>a, AppendOther
  <2>5. UNCHANGED <<desiredVars, attemptScheduled, linkVars, pending, ready>>
    BY <1>12 DEF HandleResult, HandleAnswer, HandleEvent
  <2>6. MirrorOK'
    BY <2>4, <2>5 DEF MirrorOK
  <2> QED BY <2>5, <2>6 DEF NoLostWakeup, MayApply, desiredVars, linkVars
<1>13. ASSUME NEW t \in Targets, NEW v \in Readable, ForeignSet(t, v)
       PROVE  MirrorOK' /\ NoLostWakeup'
  <2>1. UNCHANGED <<desiredVars, queueVars, linkVars, pending, ready>>
    BY <1>13 DEF ForeignSet
  <2> QED BY <2>1, <1>k DEF MayApply, desiredVars, linkVars
<1>14. CASE LeaveNode
  BY <1>14, <1>k DEF LeaveNode, desiredVars, MayApply
<1>15. CASE Refresh \/ ServeSet \/ ServeGet \/ RemoteDown \/ RemoteUp \/ Discover \/ UNCHANGED vars
  <2>1. UNCHANGED <<desiredVars, queueVars, linkVars, pending, ready>>
    BY <1>15 DEF Refresh, ServeSet, ServeGet, RemoteDown, RemoteUp, Discover, vars
  <2> QED BY <2>1, <1>k DEF MayApply, desiredVars, linkVars
<1> QED
  BY <1>1, <1>2, <1>3, <1>4, <1>5, <1>6, <1>7, <1>8, <1>9, <1>10, <1>11, <1>12, <1>13, <1>14, <1>15 DEF Next

\* In every state an unsent value that could go out has its attempt posted:
\* no order of writes, gates, health checks, completions, reports and changes
\* of connection leaves it asleep.
THEOREM WakeupsCorrect == Spec => []NoLostWakeup
<1>1. Init => MirrorOK /\ NoLostWakeup
  BY DEF Init, MirrorOK, Mirrors, AttemptIn, OneAttempt, NoLostWakeup, MayApply
<1> QED BY <1>1, Typing, WakeupStep, PTL DEF Spec

-----------------------------------------------------------------------------
(* Refinement.                                                             *)

\* A value that is not marked unsent is the one last handed on; explicit
\* apply() sends it again, which the abstract writer sees as a stutter.
SentIsHanded == dirty \/ handed = value

\* One attempt is a hand-over, a new mark (apply() while gated), or nothing.
LEMMA AttemptRefines ==
  ASSUME ItemType, SentIsHanded, NEW isDirty \in BOOLEAN, dirty => isDirty,
         NEW force \in BOOLEAN, AttemptApply(isDirty, force), value' = value
  PROVE  [LW!Next]_(LW!vars) /\ SentIsHanded'
<1>1. CASE MayApply(isDirty, force)
  <2>1. dirty' = FALSE /\ handed' = value
    BY <1>1 DEF AttemptApply, AppliedValue
  <2> QED BY <2>1 DEF ItemType, SentIsHanded, LW!Next, LW!HandOver, LW!vars
<1>2. CASE ~MayApply(isDirty, force)
  <2>1. dirty' = isDirty /\ handed' = handed
    BY <1>2 DEF AttemptApply
  <2> QED BY <2>1 DEF ItemType, SentIsHanded, LW!Next, LW!Write, LW!vars
<1> QED BY <1>1, <1>2

\* Marking the value unsent again counts as assigning it again.
LEMMA RemarkRefines ==
  ASSUME ItemType, SentIsHanded, dirty' \in BOOLEAN, dirty => dirty', UNCHANGED <<value, handed>>
  PROVE  [LW!Next]_(LW!vars) /\ SentIsHanded'
BY DEF ItemType, SentIsHanded, LW!Next, LW!Write, LW!vars

LEMMA RefineStep ==
  ASSUME TypeInv, SentIsHanded, [Next]_vars
  PROVE  [LW!Next]_(LW!vars) /\ SentIsHanded'
<1>a. ItemType /\ dirty \in BOOLEAN
  BY DEF TypeInv, ItemType
<1>1. ASSUME NEW v \in Values, SetValue(v) PROVE [LW!Next]_(LW!vars) /\ SentIsHanded'
  BY <1>1 DEF SetValue, Readable, SentIsHanded, LW!Next, LW!Write
<1>2. CASE Apply
  BY <1>2, <1>a, AttemptRefines DEF Apply
<1>3. CASE RunAttempt
  BY <1>3, <1>a, AttemptRefines DEF RunAttempt
<1>4. ASSUME NEW t \in Targets \union {Incomplete}, Reconnect(t)
      PROVE  [LW!Next]_(LW!vars) /\ SentIsHanded'
  <2>1. dirty' \in BOOLEAN /\ (dirty => dirty') /\ UNCHANGED <<value, handed>>
    BY <1>4 DEF Reconnect, Abandon
  <2> QED BY <2>1, <1>a, RemarkRefines
<1>5. CASE NodeDown
  <2>1. dirty' \in BOOLEAN /\ (dirty => dirty') /\ UNCHANGED <<value, handed>>
    BY <1>5, <1>a DEF NodeDown, Abandon, ItemType
  <2> QED BY <2>1, <1>a, RemarkRefines
<1>6. CASE CheckHealth
  <2>1. dirty' \in BOOLEAN /\ (dirty => dirty') /\ UNCHANGED <<value, handed>>
    BY <1>6, <1>a DEF CheckHealth, Abandon, ItemType
  <2> QED BY <2>1, <1>a, RemarkRefines
<1>7. ASSUME NEW t \in Targets, NEW v \in Readable, ForeignSet(t, v)
      PROVE  [LW!Next]_(LW!vars) /\ SentIsHanded'
  BY <1>7 DEF ForeignSet, desiredVars, SentIsHanded, LW!vars
<1>8. CASE \/ SetAutoApply \/ Refresh \/ SetNode \/ LeaveNode \/ NodeUp \/ RunSetResult \/ RunReport
           \/ HandleResult \/ HandleAnswer \/ HandleEvent \/ ServeSet \/ ServeGet
           \/ RemoteDown \/ RemoteUp \/ Discover \/ UNCHANGED vars
  <2>1. UNCHANGED <<value, dirty, handed>>
    BY <1>8 DEF SetAutoApply, Refresh, SetNode, LeaveNode, NodeUp, RunSetResult, RunReport, HandleResult,
                HandleAnswer, HandleEvent, ServeSet, ServeGet, RemoteDown, RemoteUp, Discover,
                vars, desiredVars
  <2> QED BY <2>1 DEF SentIsHanded, LW!vars
<1> QED BY <1>1, <1>2, <1>3, <1>4, <1>5, <1>6, <1>7, <1>8 DEF Next

\* The desired-state machinery implements the coalescing writer LatestWins:
\* every attempt hands on the latest value, once per write, explicit apply()
\* or abandoned request.
THEOREM ImplementsLatestWins == Spec => CoalescesWrites
<1>1. Init => LW!Init /\ SentIsHanded
  BY DEF Init, SentIsHanded, LW!Init, Readable
<1>2. TypeInv /\ SentIsHanded /\ [Next]_vars => [LW!Next]_(LW!vars) /\ SentIsHanded'
  BY RefineStep
<1> QED BY <1>1, <1>2, Typing, PTL DEF Spec, CoalescesWrites, LW!Spec
=============================================================================
