------------------------------- MODULE Topic -------------------------------
(***************************************************************************)
(* A generated publisher (core/qros2publisherbase.cpp,                     *)
(* resource/msg__publisher.cpp.em) and a generated subscriber              *)
(* (resource/msg__subscriber.cpp.em) in two processes, with the middleware *)
(* between them.                                                           *)
(*                                                                         *)
(* Each process has a GUI thread with its queue of posted calls; the       *)
(* subscriber's executor takes samples from the reader and only posts.     *)
(***************************************************************************)
EXTENDS Naturals, Sequences

CONSTANTS
  Values,      \* the values of the message property
  Default,     \* the default-constructed message
  None,        \* no sample, an empty topic
  Topics,      \* the topics either side may use
  Depth,       \* bound: the reader's history, KEEP_LAST
  MaxPosted,   \* bound: calls the heartbeat may pile up in the subscriber
  MaxWrites,   \* bound: property writes and explicit publish calls
  MaxChanges,  \* bound: changes of other properties and node shutdowns
  MaxLosses    \* bound: samples lost on a volatile topic

ASSUME ValuesAssumption == Default \in Values /\ None \notin Values \union Topics
ASSUME BoundsAssumption == Depth \in Nat \ {0} /\ MaxPosted \in Nat \ {0}

VARIABLES
  stored,         \* m_message of the publisher
  storedWritten,  \* m_storedStateWritten
  autoPublish,    \* m_autoPublish
  heartbeat,      \* m_publishInterval > 0, m_publishTimer runs
  pending,        \* m_publishPending
  posted,         \* publish() calls in the publisher's event queue
  requested,      \* what the application last asked the present writer to send: the
                  \* value it was created with, written under autoPublish or published
  pubTopic, transientLocal,   \* m_topic and m_qos.durability() of the publisher
  pubNode,        \* the publisher's node runs
  publisher,      \* m_publisher is not null
  sample,         \* what the writer keeps for late readers
  subscriberCount,   \* m_subscriberCount
  subTopic,       \* m_topic of the subscriber
  latched,        \* it asks for transient_local durability
  subNode,        \* the subscriber's node runs
  subscription,   \* m_subscription is not null
  connected,      \* m_connected
  message,        \* m_message of the subscriber
  reader,         \* samples the executor has not taken yet, oldest first
  guiQueue,       \* posted handleMessage() calls, oldest first
  matched,        \* the writer and the reader have found each other
  writes, changes, losses     \* counters behind the bounds

fieldVars == <<stored, storedWritten, autoPublish, heartbeat>>
postVars == <<pending, posted, requested>>
writerVars == <<publisher, sample>>
pubVars == <<fieldVars, postVars, pubTopic, transientLocal, pubNode, writerVars, subscriberCount>>
subVars == <<subTopic, latched, subNode, subscription, connected, message, guiQueue>>
boundVars == <<writes, changes, losses>>
vars == <<pubVars, subVars, reader, matched, boundVars>>

Init ==
  /\ stored = Default /\ storedWritten = FALSE
  /\ autoPublish = TRUE /\ heartbeat = FALSE
  /\ pending = FALSE /\ posted = 0 /\ requested = None
  /\ pubTopic \in Topics \union {None} /\ transientLocal \in BOOLEAN
  /\ pubNode = FALSE /\ publisher = FALSE /\ sample = None /\ subscriberCount = 0
  /\ subTopic \in Topics \union {None} /\ latched \in BOOLEAN
  /\ subNode = FALSE /\ subscription = FALSE /\ connected = FALSE
  /\ message = Default /\ reader = <<>> /\ guiQueue = <<>> /\ matched = FALSE
  /\ writes = 0 /\ changes = 0 /\ losses = 0

-----------------------------------------------------------------------------
(* The publisher.                                                          *)

\* A full reader drops its oldest sample.
Received(v) ==
  LET all == Append(reader, v) IN
    IF Len(all) > Depth THEN Tail(all) ELSE all

\* m_publisher->publish(): the writer keeps the sample for late readers.
Send(v) ==
  IF publisher
    THEN /\ sample' = IF transientLocal THEN v ELSE sample
         /\ reader' = IF matched THEN Received(v) ELSE reader
    ELSE UNCHANGED <<sample, reader>>

\* publish(): clears the flag, whatever is still posted, and sends.
PublishStored ==
  /\ pending' = FALSE
  /\ requested' = stored
  /\ Send(stored)

\* The tail of requestPublish().
RequestPublish ==
  IF autoPublish /\ ~pending
    THEN pending' = TRUE /\ posted' = posted + 1
    ELSE UNCHANGED <<pending, posted>>

\* A generated property setter.
SetField(v) ==
  /\ writes < MaxWrites
  /\ v # stored
  /\ writes' = writes + 1
  /\ stored' = v
  /\ storedWritten' = TRUE
  /\ RequestPublish
  /\ requested' = IF autoPublish THEN v ELSE requested
  /\ UNCHANGED <<autoPublish, heartbeat, pubTopic, transientLocal, pubNode, writerVars,
                 subscriberCount, subVars, reader, matched, changes, losses>>

\* publish() from the application.
Publish ==
  /\ writes < MaxWrites
  /\ writes' = writes + 1
  /\ PublishStored
  /\ UNCHANGED <<fieldVars, posted, pubTopic, transientLocal, pubNode, publisher,
                 subscriberCount, subVars, matched, changes, losses>>

\* publish(msg): sends at once and does not touch the stored value.
PublishValue(v) ==
  /\ writes < MaxWrites
  /\ writes' = writes + 1
  /\ requested' = IF publisher THEN v ELSE requested
  /\ Send(v)
  /\ UNCHANGED <<fieldVars, pending, posted, pubTopic, transientLocal, pubNode, publisher,
                 subscriberCount, subVars, matched, changes, losses>>

\* The posted publish() of requestPublish().
RunPublish ==
  /\ posted > 0
  /\ posted' = posted - 1
  /\ PublishStored
  /\ UNCHANGED <<fieldVars, pubTopic, transientLocal, pubNode, publisher, subscriberCount,
                 subVars, matched, boundVars>>

\* A plausible slip: the timer only flushes a pending change.
BeatIfPending == pending

Beat == TRUE

\* timerEvent() of the heartbeat timer.
Heartbeat ==
  /\ heartbeat
  /\ Beat
  /\ Len(guiQueue) < MaxPosted
  /\ PublishStored
  /\ UNCHANGED <<fieldVars, posted, pubTopic, transientLocal, pubNode, publisher,
                 subscriberCount, subVars, matched, boundVars>>

Change == changes < MaxChanges /\ changes' = changes + 1

SetAutoPublish ==
  /\ Change
  /\ autoPublish' = ~autoPublish
  /\ UNCHANGED <<stored, storedWritten, heartbeat, postVars, pubTopic, transientLocal, pubNode,
                 writerVars, subscriberCount, subVars, reader, matched, writes, losses>>

SetPublishInterval ==
  /\ Change
  /\ heartbeat' = ~heartbeat
  /\ UNCHANGED <<stored, storedWritten, autoPublish, postVars, pubTopic, transientLocal, pubNode,
                 writerVars, subscriberCount, subVars, reader, matched, writes, losses>>

\* A plausible slip: a re-created latched publisher starts out empty.
RepublishNothing == FALSE

\* shouldRepublishOnConnect()
ShouldRepublish == storedWritten /\ transientLocal'

\* setupConnection(): a new writer, empty unless the stored state is republished.
\* What the reader has not received of the old writer may be lost.
SetupPublisher ==
  /\ publisher' = (pubNode' /\ pubTopic' # None)
  /\ sample' = IF publisher' /\ ShouldRepublish THEN stored ELSE None
  /\ requested' = IF publisher' THEN IF storedWritten THEN stored ELSE None
                                ELSE requested
  /\ matched' = FALSE
  /\ \E kept \in 0..Len(reader) : reader' = SubSeq(reader, 1, kept)

\* setTopic() and setQos() of a publisher; without a node they only store.
SetPubTopic(t) ==
  /\ Change
  /\ t # pubTopic
  /\ pubTopic' = t
  /\ UNCHANGED <<pubNode, transientLocal>>
  /\ IF pubNode THEN SetupPublisher ELSE UNCHANGED <<requested, writerVars, reader, matched>>
  /\ UNCHANGED <<fieldVars, pending, posted, subscriberCount, subVars, writes, losses>>

SetPubQos ==
  /\ Change
  /\ transientLocal' \in BOOLEAN
  /\ UNCHANGED <<pubNode, pubTopic>>
  /\ IF pubNode THEN SetupPublisher ELSE UNCHANGED <<requested, writerVars, reader, matched>>
  /\ UNCHANGED <<fieldVars, pending, posted, subscriberCount, subVars, writes, losses>>

PubNodeUp ==
  /\ ~pubNode
  /\ pubNode' = TRUE
  /\ UNCHANGED <<pubTopic, transientLocal>>
  /\ SetupPublisher
  /\ UNCHANGED <<fieldVars, pending, posted, subscriberCount, subVars, boundVars>>

\* clearConnection(); the count keeps its last value.
PubNodeDown ==
  /\ Change
  /\ pubNode
  /\ pubNode' = FALSE
  /\ UNCHANGED <<pubTopic, transientLocal>>
  /\ SetupPublisher
  /\ UNCHANGED <<fieldVars, pending, posted, subscriberCount, subVars, writes, losses>>

\* A plausible slip: the subscriptions of every round are added up.
CountAllRounds == subscriberCount + IF publisher /\ matched THEN 1 ELSE 0

CountSubscriptions == IF publisher /\ matched THEN 1 ELSE 0

\* checkHealth(), from the node's 100 ms timer.
CheckPubHealth ==
  /\ pubNode
  /\ subscriberCount' = CountSubscriptions
  /\ UNCHANGED <<fieldVars, postVars, pubTopic, transientLocal, pubNode, writerVars,
                 subVars, reader, matched, boundVars>>

-----------------------------------------------------------------------------
(* The subscriber.                                                         *)

\* A plausible slip: messages that arrive in one go are taken for one.
PostFirst(v) == IF guiQueue = <<>> THEN <<v>> ELSE guiQueue

\* The subscription callback posts every message.
PostMessage(v) == Append(guiQueue, v)

\* The executor runs the subscription callback.
TakeSample ==
  /\ subscription
  /\ reader # <<>>
  /\ reader' = Tail(reader)
  /\ guiQueue' = PostMessage(Head(reader))
  /\ UNCHANGED <<pubVars, subTopic, latched, subNode, subscription, connected, message,
                 matched, boundVars>>

\* handleMessage(): the message may be one of an earlier subscription.
HandleMessage ==
  /\ guiQueue # <<>>
  /\ guiQueue' = Tail(guiQueue)
  /\ message' = Head(guiQueue)
  /\ UNCHANGED <<pubVars, subTopic, latched, subNode, subscription, connected, reader,
                 matched, boundVars>>

\* setConnected(false), if there was a subscription.
DropConnected == FALSE

\* setupConnection() and clearConnection(): the reader's samples are gone.
SetupSubscription ==
  /\ subscription' = (subNode' /\ subTopic' # None)
  /\ connected' = IF subscription THEN DropConnected ELSE connected
  /\ reader' = <<>>
  /\ matched' = FALSE

SetSubTopic(t) ==
  /\ Change
  /\ t # subTopic
  /\ subTopic' = t
  /\ UNCHANGED <<subNode, latched>>
  /\ IF subNode THEN SetupSubscription ELSE UNCHANGED <<subscription, connected, reader, matched>>
  /\ UNCHANGED <<pubVars, message, guiQueue, writes, losses>>

SetSubQos ==
  /\ Change
  /\ latched' \in BOOLEAN
  /\ UNCHANGED <<subNode, subTopic>>
  /\ IF subNode THEN SetupSubscription ELSE UNCHANGED <<subscription, connected, reader, matched>>
  /\ UNCHANGED <<pubVars, message, guiQueue, writes, losses>>

SubNodeUp ==
  /\ ~subNode
  /\ subNode' = TRUE
  /\ UNCHANGED <<subTopic, latched>>
  /\ SetupSubscription
  /\ UNCHANGED <<pubVars, message, guiQueue, boundVars>>

SubNodeDown ==
  /\ Change
  /\ subNode
  /\ subNode' = FALSE
  /\ UNCHANGED <<subTopic, latched>>
  /\ SetupSubscription
  /\ UNCHANGED <<pubVars, message, guiQueue, writes, losses>>

CheckSubHealth ==
  /\ subNode
  /\ connected' = (subscription /\ matched)
  /\ UNCHANGED <<pubVars, subTopic, latched, subNode, subscription, message, guiQueue,
                 reader, matched, boundVars>>

-----------------------------------------------------------------------------
(* The middleware.                                                         *)

Compatible ==
  /\ publisher /\ subscription /\ pubTopic = subTopic
  /\ latched => transientLocal

\* Discovery; a latched reader gets the sample the writer kept.
Match ==
  /\ Compatible
  /\ ~matched
  /\ matched' = TRUE
  /\ reader' = IF latched /\ sample # None THEN Received(sample) ELSE reader
  /\ UNCHANGED <<pubVars, subVars, boundVars>>

\* A volatile topic may lose samples.
Lose ==
  /\ ~transientLocal
  /\ reader # <<>>
  /\ losses < MaxLosses
  /\ losses' = losses + 1
  /\ reader' = Tail(reader)
  /\ UNCHANGED <<pubVars, subVars, matched, writes, changes>>

-----------------------------------------------------------------------------
Next ==
  \/ \E v \in Values : SetField(v)
  \/ Publish
  \/ \E v \in Values : PublishValue(v)
  \/ RunPublish
  \/ Heartbeat
  \/ SetAutoPublish
  \/ SetPublishInterval
  \/ \E t \in Topics \union {None} : SetPubTopic(t)
  \/ SetPubQos
  \/ PubNodeUp
  \/ PubNodeDown
  \/ CheckPubHealth
  \/ TakeSample
  \/ HandleMessage
  \/ \E t \in Topics \union {None} : SetSubTopic(t)
  \/ SetSubQos
  \/ SubNodeUp
  \/ SubNodeDown
  \/ CheckSubHealth
  \/ Match
  \/ Lose

Spec == Init /\ [][Next]_vars

\* Event loops, timers, the executor and discovery keep running.
Fairness ==
  /\ WF_vars(RunPublish)
  /\ WF_vars(Heartbeat)
  /\ WF_vars(CheckPubHealth)
  /\ WF_vars(TakeSample)
  /\ WF_vars(HandleMessage)
  /\ WF_vars(CheckSubHealth)
  /\ WF_vars(Match)

FairSpec == Spec /\ Fairness

-----------------------------------------------------------------------------
(* Properties.                                                             *)

TypeOK ==
  /\ stored \in Values /\ message \in Values
  /\ storedWritten \in BOOLEAN /\ autoPublish \in BOOLEAN /\ heartbeat \in BOOLEAN
  /\ pending \in BOOLEAN /\ posted \in Nat
  /\ requested \in Values \union {None} /\ sample \in Values \union {None}
  /\ pubTopic \in Topics \union {None} /\ subTopic \in Topics \union {None}
  /\ transientLocal \in BOOLEAN /\ latched \in BOOLEAN
  /\ pubNode \in BOOLEAN /\ publisher \in BOOLEAN /\ subscriberCount \in {0, 1}
  /\ subNode \in BOOLEAN /\ subscription \in BOOLEAN /\ connected \in BOOLEAN
  /\ reader \in Seq(Values) /\ guiQueue \in Seq(Values) /\ matched \in BOOLEAN

\* No publish is lost between the flag and the event loop: a change that waits
\* for a publish has one posted, also after an explicit publish() took the flag.
PendingIsPosted == pending => posted > 0

\* On a latched topic the writer keeps for late subscribers what the last write
\* under autoPublish, publish() or publish(msg) asked for, across changes of
\* topic and QoS, restarts of the node and writes made before there was one.
LatchedIsLatest ==
  publisher /\ transientLocal /\ ~pending => sample = requested

\* connected is never TRUE without a subscription.
ConnectedNeedsSubscription == connected => subscription

\* A latched subscriber that can be matched ends up with the sample the writer
\* keeps, however late it joins and whatever an earlier subscription still had
\* in the event queue.
LatchedReachesSubscriber ==
  <>[](Compatible /\ latched) => <>[](sample = None \/ message = sample)

\* The heartbeat makes up for lost samples and late matching: the subscriber
\* ends up with the stored value even on a volatile topic.
HeartbeatReachesSubscriber ==
  <>[](Compatible /\ heartbeat) => <>[](message = stored)
=============================================================================
