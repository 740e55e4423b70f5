---------------------------- MODULE TopicProofs ----------------------------
(***************************************************************************)
(* Proofs about Topic, for every set of values and topics, every reader    *)
(* depth and every bound.                                                  *)
(***************************************************************************)
EXTENDS Topic, SequenceTheorems, TLAPS

-----------------------------------------------------------------------------
(* What the operators leave behind.                                        *)

\* A reader that drops its oldest sample still holds samples.
LEMMA ReceivedType ==
  ASSUME reader \in Seq(Values), NEW v \in Values
  PROVE  Received(v) \in Seq(Values)
<1> DEFINE all == Append(reader, v)
<1>1. all \in Seq(Values)
  OBVIOUS
<1>2. Len(all) = Len(reader) + 1 /\ Len(reader) \in Nat
  OBVIOUS
<1>3. Tail(all) \in Seq(Values)
  <2> HIDE DEF all
  <2>1. all # <<>>
    BY <1>1, <1>2
  <2> QED BY <1>1, <2>1
<1> QED BY <1>1, <1>3 DEF Received

\* Sending a value puts nothing but values on the wire and in the history.
LEMMA SendType ==
  ASSUME TypeOK, NEW v \in Values, Send(v)
  PROVE  sample' \in Values \union {None} /\ reader' \in Seq(Values)
<1>1. Received(v) \in Seq(Values)
  BY ReceivedType DEF TypeOK
<1> QED BY <1>1 DEF TypeOK, Send

\* publish() leaves the flag down and everything well typed.
LEMMA PublishType ==
  ASSUME TypeOK, PublishStored
  PROVE  /\ pending' \in BOOLEAN /\ requested' \in Values \union {None}
         /\ sample' \in Values \union {None} /\ reader' \in Seq(Values)
<1>1. stored \in Values
  BY DEF TypeOK
<1>2. pending' \in BOOLEAN
  BY Zenon DEF PublishStored
<1> QED BY <1>1, <1>2, SendType DEF PublishStored

\* A re-created writer is well typed, and what is left of the reader, too.
LEMMA SetupPublisherType ==
  ASSUME TypeOK, SetupPublisher, pubNode' \in BOOLEAN
  PROVE  /\ publisher' \in BOOLEAN /\ requested' \in Values \union {None}
         /\ sample' \in Values \union {None}
         /\ matched' \in BOOLEAN /\ reader' \in Seq(Values)
<1>1. PICK kept \in 0..Len(reader) : reader' = SubSeq(reader, 1, kept)
  BY DEF SetupPublisher
<1>2. reader' \in Seq(Values)
  <2>1. reader \in Seq(Values)
    BY DEF TypeOK
  <2>2. \A i \in 1..kept : reader[i] \in Values
    BY <2>1
  <2> QED BY <1>1, <2>1, <2>2, SubSeqProperties
<1>3. publisher' \in BOOLEAN /\ matched' \in BOOLEAN
  BY DEF SetupPublisher
<1>4. sample' \in Values \union {None}
  BY DEF SetupPublisher, TypeOK
<1>5. requested' \in Values \union {None}
  BY DEF SetupPublisher, TypeOK
<1> QED BY <1>2, <1>3, <1>4, <1>5

\* The same for a re-created subscription.
LEMMA SetupSubscriptionType ==
  ASSUME TypeOK, SetupSubscription, subNode' \in BOOLEAN
  PROVE  /\ subscription' \in BOOLEAN /\ connected' \in BOOLEAN
         /\ reader' \in Seq(Values) /\ matched' \in BOOLEAN
<1>1. connected' \in BOOLEAN
  BY DEF SetupSubscription, DropConnected, TypeOK
<1>2. subscription' \in BOOLEAN
  BY Zenon DEF SetupSubscription
<1>3. reader' = <<>> /\ matched' \in BOOLEAN
  BY Zenon DEF SetupSubscription
<1>4. <<>> \in Seq(Values)
  OBVIOUS
<1> QED BY <1>1, <1>2, <1>3, <1>4

-----------------------------------------------------------------------------
(* Type correctness.                                                       *)

\* Every variable of the publisher, the subscriber and the middleware keeps
\* its type.
THEOREM TypeCorrect == Spec => []TypeOK
<1>1. Init => TypeOK
  <2>1. <<>> \in Seq(Values) /\ 0 \in Nat
    OBVIOUS
  <2> QED BY <2>1, ValuesAssumption DEF Init, TypeOK
<1>2. TypeOK /\ [Next]_vars => TypeOK'
  <2> SUFFICES ASSUME TypeOK, [Next]_vars PROVE TypeOK'
    OBVIOUS
  <2> USE DEF fieldVars, postVars, writerVars, pubVars, subVars, boundVars
  <2>1. ASSUME NEW v \in Values, SetField(v) PROVE TypeOK'
    <3>1. pending' \in BOOLEAN /\ posted' \in Nat
      <4>1. posted + 1 \in Nat
        BY DEF TypeOK
      <4> QED BY <2>1, <4>1 DEF SetField, RequestPublish, TypeOK
    <3>2. requested' \in Values \union {None}
      BY <2>1 DEF SetField, TypeOK
    <3> QED BY <2>1, <3>1, <3>2 DEF SetField, TypeOK
  <2>2. CASE Publish
    <3>1. /\ pending' \in BOOLEAN /\ requested' \in Values \union {None}
          /\ sample' \in Values \union {None} /\ reader' \in Seq(Values)
      BY <2>2, PublishType DEF Publish
    <3>9. UNCHANGED <<fieldVars, posted, pubTopic, transientLocal, pubNode, publisher,
                   subscriberCount, subVars, matched>>
      BY <2>2 DEF Publish
    <3> QED BY <3>1, <3>9 DEF TypeOK
  <2>3. ASSUME NEW v \in Values, PublishValue(v) PROVE TypeOK'
    <3>1. sample' \in Values \union {None} /\ reader' \in Seq(Values)
      BY <2>3, SendType DEF PublishValue
    <3>2. requested' \in Values \union {None}
      BY <2>3 DEF PublishValue, TypeOK
    <3> QED BY <2>3, <3>1, <3>2 DEF PublishValue, TypeOK
  <2>4. CASE RunPublish
    <3>1. posted' \in Nat
      BY <2>4 DEF RunPublish, TypeOK
    <3>2. /\ pending' \in BOOLEAN /\ requested' \in Values \union {None}
          /\ sample' \in Values \union {None} /\ reader' \in Seq(Values)
      BY <2>4, PublishType DEF RunPublish
    <3>9. UNCHANGED <<fieldVars, pubTopic, transientLocal, pubNode, publisher,
                   subscriberCount, subVars, matched>>
      BY <2>4 DEF RunPublish
    <3> QED BY <3>1, <3>2, <3>9 DEF TypeOK
  <2>5. CASE Heartbeat
    <3>1. /\ pending' \in BOOLEAN /\ requested' \in Values \union {None}
          /\ sample' \in Values \union {None} /\ reader' \in Seq(Values)
      BY <2>5, PublishType DEF Heartbeat
    <3>9. UNCHANGED <<fieldVars, posted, pubTopic, transientLocal, pubNode, publisher,
                   subscriberCount, subVars, matched>>
      BY <2>5 DEF Heartbeat
    <3> QED BY <3>1, <3>9 DEF TypeOK
  <2>6. CASE SetAutoPublish
    BY <2>6 DEF SetAutoPublish, TypeOK
  <2>7. CASE SetPublishInterval
    BY <2>7 DEF SetPublishInterval, TypeOK
  <2>8. ASSUME NEW t \in Topics \union {None}, SetPubTopic(t) PROVE TypeOK'
    <3>1. CASE pubNode
      BY <2>8, <3>1, SetupPublisherType DEF SetPubTopic, TypeOK
    <3>2. CASE ~pubNode
      BY <2>8, <3>2 DEF SetPubTopic, TypeOK
    <3> QED BY <3>1, <3>2
  <2>9. CASE SetPubQos
    <3>1. CASE pubNode
      BY <2>9, <3>1, SetupPublisherType DEF SetPubQos, TypeOK
    <3>2. CASE ~pubNode
      BY <2>9, <3>2 DEF SetPubQos, TypeOK
    <3> QED BY <3>1, <3>2
  <2>10. CASE PubNodeUp
    BY <2>10, SetupPublisherType DEF PubNodeUp, TypeOK
  <2>11. CASE PubNodeDown
    <3>1. /\ publisher' \in BOOLEAN /\ requested' \in Values \union {None}
          /\ sample' \in Values \union {None}
          /\ matched' \in BOOLEAN /\ reader' \in Seq(Values)
      BY <2>11, SetupPublisherType DEF PubNodeDown
    <3>9. /\ pubNode' \in BOOLEAN
          /\ UNCHANGED <<fieldVars, pending, posted, pubTopic, transientLocal,
                         subscriberCount, subVars>>
      BY <2>11 DEF PubNodeDown
    <3> QED BY <3>1, <3>9 DEF TypeOK
  <2>12. CASE CheckPubHealth
    <3>1. subscriberCount' \in {0, 1}
      BY <2>12 DEF CheckPubHealth, CountSubscriptions
    <3> QED BY <2>12, <3>1 DEF CheckPubHealth, TypeOK
  <2>13. CASE TakeSample
    <3>1. reader' \in Seq(Values) /\ Head(reader) \in Values
      BY <2>13 DEF TakeSample, TypeOK
    <3>2. guiQueue' \in Seq(Values)
      BY <2>13, <3>1 DEF TakeSample, PostMessage, TypeOK
    <3> QED BY <2>13, <3>1, <3>2 DEF TakeSample, TypeOK
  <2>14. CASE HandleMessage
    <3>1. guiQueue' \in Seq(Values) /\ message' \in Values
      BY <2>14 DEF HandleMessage, TypeOK
    <3> QED BY <2>14, <3>1 DEF HandleMessage, TypeOK
  <2>15. ASSUME NEW t \in Topics \union {None}, SetSubTopic(t) PROVE TypeOK'
    <3>1. CASE subNode
      BY <2>15, <3>1, SetupSubscriptionType DEF SetSubTopic, TypeOK
    <3>2. CASE ~subNode
      BY <2>15, <3>2 DEF SetSubTopic, TypeOK
    <3> QED BY <3>1, <3>2
  <2>22. CASE SetSubQos
    <3>1. CASE subNode
      BY <2>22, <3>1, SetupSubscriptionType DEF SetSubQos, TypeOK
    <3>2. CASE ~subNode
      BY <2>22, <3>2 DEF SetSubQos, TypeOK
    <3> QED BY <3>1, <3>2
  <2>16. CASE SubNodeUp
    BY <2>16, SetupSubscriptionType DEF SubNodeUp, TypeOK
  <2>17. CASE SubNodeDown
    <3>1. /\ subscription' \in BOOLEAN /\ connected' \in BOOLEAN
          /\ reader' \in Seq(Values) /\ matched' \in BOOLEAN
      BY <2>17, SetupSubscriptionType DEF SubNodeDown
    <3>9. /\ subNode' \in BOOLEAN
          /\ UNCHANGED <<pubVars, subTopic, latched, message, guiQueue>>
      BY <2>17 DEF SubNodeDown
    <3> QED BY <3>1, <3>9 DEF TypeOK
  <2>18. CASE CheckSubHealth
    <3>1. connected' \in BOOLEAN
      BY <2>18 DEF CheckSubHealth
    <3> QED BY <2>18, <3>1 DEF CheckSubHealth, TypeOK
  <2>19. CASE Match
    <3>1. sample # None => Received(sample) \in Seq(Values)
      BY ReceivedType DEF TypeOK
    <3>2. reader' \in Seq(Values)
      BY <2>19, <3>1 DEF Match, TypeOK
    <3> QED BY <2>19, <3>2 DEF Match, TypeOK
  <2>20. CASE Lose
    <3>1. reader' \in Seq(Values)
      BY <2>20 DEF Lose, TypeOK
    <3> QED BY <2>20, <3>1 DEF Lose, TypeOK
  <2>21. CASE UNCHANGED vars
    BY <2>21 DEF vars, TypeOK
  <2> QED
    BY <2>1, <2>2, <2>3, <2>4, <2>5, <2>6, <2>7, <2>8, <2>9, <2>10, <2>11, <2>12,
       <2>13, <2>14, <2>15, <2>16, <2>17, <2>18, <2>19, <2>20, <2>21,
       <2>22 DEF Next
<1> QED BY <1>1, <1>2, PTL DEF Spec

-----------------------------------------------------------------------------
(* Publishing.  The flag, the posted calls and what the writer keeps for   *)
(* late readers are disturbed by few steps; every other step leaves the    *)
(* variables below alone.  LatchedIsLatest needs one fact more: without a  *)
(* node there is no writer, so a QoS changed then takes effect later.      *)

PublishState == <<pending, posted, requested, publisher, transientLocal, sample,
                  pubNode>>

WriterNeedsNode == publisher => pubNode

PublishInv == PendingIsPosted /\ LatchedIsLatest /\ WriterNeedsNode

\* A latched writer keeps what it is asked to send, at once.
LEMMA SendLatched ==
  ASSUME NEW v, Send(v), publisher, transientLocal
  PROVE  sample' = v
BY DEF Send

\* A re-created latched writer holds the written state, or nothing.
LEMMA SetupLatched ==
  ASSUME SetupPublisher, publisher', transientLocal'
  PROVE  sample' = requested'
BY DEF SetupPublisher, ShouldRepublish

\* The steps that touch no publisher state.
LEMMA Bystanders ==
  ASSUME \/ SetAutoPublish \/ SetPublishInterval \/ CheckPubHealth \/ TakeSample
         \/ HandleMessage \/ SetSubQos \/ SubNodeUp \/ SubNodeDown \/ CheckSubHealth \/ Match \/ Lose
         \/ (\E t \in Topics \union {None} : SetSubTopic(t))
         \/ UNCHANGED vars
  PROVE  UNCHANGED PublishState
BY DEF PublishState, SetAutoPublish, SetPublishInterval, CheckPubHealth, TakeSample,
       HandleMessage, SetSubTopic, SetSubQos, SubNodeUp, SubNodeDown, CheckSubHealth, Match, Lose,
       vars, fieldVars, postVars, writerVars, pubVars, subVars, boundVars

\* A change that waits for a publish has one posted, and on a latched topic the
\* writer keeps what was asked for last.
THEOREM PublishesCorrect == Spec => [](PendingIsPosted /\ LatchedIsLatest)
<1>1. Init => PublishInv
  BY DEF Init, PublishInv, PendingIsPosted, LatchedIsLatest, WriterNeedsNode
<1>2. TypeOK /\ PublishInv /\ [Next]_vars => PublishInv'
  <2> SUFFICES ASSUME TypeOK, PublishInv, [Next]_vars PROVE PublishInv'
    OBVIOUS
  <2>0. posted \in Nat
    BY DEF TypeOK
  <2> USE DEF PublishInv, fieldVars, postVars, writerVars, pubVars, subVars, boundVars
  <2>1. ASSUME NEW v \in Values, SetField(v) PROVE PublishInv'
    <3>1. PendingIsPosted'
      <4>1. posted + 1 > 0
        BY <2>0
      <4>2. posted' = posted + 1 \/ UNCHANGED <<pending, posted>>
        BY <2>1, Zenon DEF SetField, RequestPublish
      <4> QED BY <4>1, <4>2 DEF PendingIsPosted
    <3>2. UNCHANGED <<publisher, transientLocal, sample, pubNode>>
      BY <2>1 DEF SetField
    <3>3. ~pending' => requested' = requested /\ ~pending
      BY <2>1, Zenon DEF SetField, RequestPublish
    <3>4. LatchedIsLatest'
      BY <3>2, <3>3 DEF LatchedIsLatest
    <3>5. WriterNeedsNode'
      BY <3>2 DEF WriterNeedsNode
    <3> QED BY <3>1, <3>4, <3>5
  <2>2. CASE Publish \/ RunPublish \/ Heartbeat
    <3>1. PublishStored /\ UNCHANGED <<publisher, transientLocal, pubNode>>
      BY <2>2, Zenon DEF Publish, RunPublish, Heartbeat
    <3>2. ~pending' /\ requested' = stored /\ Send(stored)
      BY <3>1, Zenon DEF PublishStored
    <3>3. LatchedIsLatest'
      BY <3>1, <3>2, SendLatched DEF LatchedIsLatest
    <3>4. WriterNeedsNode'
      BY <3>1 DEF WriterNeedsNode
    <3> QED BY <3>2, <3>3, <3>4 DEF PendingIsPosted
  <2>3. ASSUME NEW v \in Values, PublishValue(v) PROVE PublishInv'
    <3>1. Send(v) /\ UNCHANGED <<pending, posted, publisher, transientLocal, pubNode>>
      BY <2>3, Zenon DEF PublishValue
    <3>2. publisher => requested' = v
      BY <2>3, Zenon DEF PublishValue
    <3>3. LatchedIsLatest'
      BY <3>1, <3>2, SendLatched DEF LatchedIsLatest
    <3>4. PendingIsPosted' /\ WriterNeedsNode'
      BY <3>1 DEF PendingIsPosted, WriterNeedsNode
    <3> QED BY <3>3, <3>4
  <2>4. CASE \/ PubNodeUp \/ PubNodeDown \/ SetPubQos
             \/ \E t \in Topics \union {None} : SetPubTopic(t)
    <3>1. UNCHANGED <<pending, posted>>
      BY <2>4, Zenon DEF PubNodeUp, PubNodeDown, SetPubQos, SetPubTopic
    <3>2. \/ SetupPublisher
          \/ ~pubNode /\ UNCHANGED <<requested, publisher, sample, pubNode>>
      BY <2>4, Zenon DEF PubNodeUp, PubNodeDown, SetPubQos, SetPubTopic
    <3>3. PendingIsPosted'
      BY <3>1 DEF PendingIsPosted
    <3>4. CASE SetupPublisher
      <4>1. LatchedIsLatest'
        BY <3>4, SetupLatched DEF LatchedIsLatest
      <4>2. WriterNeedsNode'
        BY <3>4, Zenon DEF SetupPublisher, WriterNeedsNode
      <4> QED BY <3>3, <4>1, <4>2
    <3>5. CASE ~pubNode /\ UNCHANGED <<requested, publisher, sample, pubNode>>
      <4>1. ~publisher'
        BY <3>5 DEF WriterNeedsNode
      <4>2. LatchedIsLatest' /\ WriterNeedsNode'
        BY <4>1, Zenon DEF LatchedIsLatest, WriterNeedsNode
      <4> QED BY <3>3, <4>2
    <3> QED BY <3>2, <3>4, <3>5
  <2>5. CASE UNCHANGED PublishState
    BY <2>5 DEF PublishState, PendingIsPosted, LatchedIsLatest, WriterNeedsNode
  <2> QED
    BY <2>1, <2>2, <2>3, <2>4, <2>5, Bystanders, Zenon DEF Next
<1>3. PublishInv => PendingIsPosted /\ LatchedIsLatest
  BY DEF PublishInv
<1> QED BY <1>1, <1>2, <1>3, TypeCorrect, PTL DEF Spec

-----------------------------------------------------------------------------
(* The connected flag.                                                     *)

\* connected is never TRUE without a subscription.
THEOREM ConnectedCorrect == Spec => []ConnectedNeedsSubscription
<1>1. Init => ConnectedNeedsSubscription
  BY DEF Init, ConnectedNeedsSubscription
<1>2. TypeOK /\ ConnectedNeedsSubscription /\ [Next]_vars => ConnectedNeedsSubscription'
  <2> SUFFICES ASSUME TypeOK, ConnectedNeedsSubscription, [Next]_vars
               PROVE  ConnectedNeedsSubscription'
    OBVIOUS
  <2>1. \/ UNCHANGED <<connected, subscription>>
        \/ SetupSubscription
        \/ CheckSubHealth
    BY Zenon DEF Next, SetField, Publish, PublishValue, RunPublish, Heartbeat, SetAutoPublish,
       SetPublishInterval, SetPubTopic, SetPubQos, PubNodeUp, PubNodeDown, CheckPubHealth,
       TakeSample, HandleMessage, SetSubTopic, SetSubQos, SubNodeUp, SubNodeDown, Match, Lose,
       vars, fieldVars, postVars, writerVars, pubVars, subVars, boundVars
  <2>2. CASE UNCHANGED <<connected, subscription>>
    BY <2>2 DEF ConnectedNeedsSubscription
  <2>3. CASE SetupSubscription
    BY <2>3, Zenon DEF SetupSubscription, DropConnected, ConnectedNeedsSubscription
  <2>4. CASE CheckSubHealth
    BY <2>4, Zenon DEF CheckSubHealth, subVars, ConnectedNeedsSubscription
  <2> QED BY <2>1, <2>2, <2>3, <2>4
<1> QED BY <1>1, <1>2, TypeCorrect, PTL DEF Spec
=============================================================================
