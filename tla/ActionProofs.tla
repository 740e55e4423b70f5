---------------------------- MODULE ActionProofs ----------------------------
(***************************************************************************)
(* Proofs about Action, for every number of goals and every bound.         *)
(***************************************************************************)
EXTENDS Action, SequenceTheorems, TLAPS

Answer == [goal : Goals, accepted : BOOLEAN]
Event == [kind : States \union {"feedback"}, goal : Goals]
Call == [call : {"accepted", "cancel"}, goal : Goals]

-----------------------------------------------------------------------------
(* Queues.                                                                 *)

\* A queue loses its head and keeps its type.
LEMMA QueueTail ==
  ASSUME NEW S, NEW q \in Seq(S), q # <<>>
  PROVE  Head(q) \in S /\ Tail(q) \in Seq(S)
  OBVIOUS

\* Where the elements of a queue are once its head is gone.
LEMMA TailPositions ==
  ASSUME NEW S, NEW q \in Seq(S), q # <<>>
  PROVE  /\ 1 \in 1..Len(q) /\ Head(q) = q[1]
         /\ \A i \in 1..Len(Tail(q)) :
              i + 1 \in 1..Len(q) /\ i + 1 # 1 /\ Tail(q)[i] = q[i + 1]
<1>1. /\ Len(q) \in Nat /\ Len(q) > 0 /\ Len(Tail(q)) = Len(q) - 1
      /\ \A i \in 1..Len(Tail(q)) : Tail(q)[i] = q[i + 1]
      /\ Head(q) = q[1]
  OBVIOUS
<1> QED BY <1>1

\* Where the elements of a queue are once one has been appended.
LEMMA AppendPositions ==
  ASSUME NEW S, NEW q \in Seq(S), NEW e \in S
  PROVE  \A i \in 1..Len(Append(q, e)) :
           \/ i \in 1..Len(q) /\ Append(q, e)[i] = q[i]
           \/ i \notin 1..Len(q) /\ i = Len(q) + 1 /\ Append(q, e)[i] = e
<1>1. /\ Len(q) \in Nat /\ Len(Append(q, e)) = Len(q) + 1
      /\ \A i \in 1..Len(q) : Append(q, e)[i] = q[i]
      /\ Append(q, e)[Len(q) + 1] = e
  OBVIOUS
<1> QED BY <1>1

\* An event posted to the client's GUI thread is an event.
LEMMA PostType ==
  ASSUME ClientTypeOK, NEW kind \in States \union {"feedback"}, NEW g \in Goals, Post(kind, g)
  PROVE  clientQueue' \in Seq(Event)
<1>1. [kind |-> kind, goal |-> g] \in Event
  BY DEF Event
<1>2. clientQueue \in Seq(Event)
  BY DEF ClientTypeOK, Event
<1> QED BY <1>1, <1>2 DEF Post

\* A call posted to the server's GUI thread is a call.
LEMMA PostCallType ==
  ASSUME ServerTypeOK, NEW call \in {"accepted", "cancel"}, NEW g \in Goals
  PROVE  PostCall(call, g) \in Seq(Call)
<1>1. [call |-> call, goal |-> g] \in Call
  BY DEF Call
<1>2. serverQueue \in Seq(Call)
  BY DEF ServerTypeOK, Call
<1> QED BY <1>1, <1>2 DEF PostCall

\* A goal response on its way is a goal response.
LEMMA AnsweredType ==
  ASSUME WireTypeOK, NEW g \in Goals, NEW b \in BOOLEAN
  PROVE  Answered(g, b) \in Seq(Answer)
<1>1. [goal |-> g, accepted |-> b] \in Answer
  BY DEF Answer
<1>2. answers \in Seq(Answer)
  BY DEF WireTypeOK, Answer
<1> QED BY <1>1, <1>2 DEF Answered

-----------------------------------------------------------------------------
(* Type correctness.                                                       *)

\* Every variable of the wire, the client and the server keeps its type.
THEOREM TypeCorrect == Spec => []TypeOK
<1> USE DEF goalVars, trackVars, wireVars, actionBoundVars
<1>1. Init => TypeOK
  <2> SUFFICES ASSUME Init PROVE TypeOK
    OBVIOUS
  <2>a. \A S : <<>> \in Seq(S)
    OBVIOUS
  <2>1. WireTypeOK
    <3>1. server \in BOOLEAN /\ failed \in BOOLEAN
      BY Zenon DEF Init, WireInit
    <3>2. status \in [Goals -> Statuses]
      BY DEF Init, WireInit, Statuses
    <3> QED BY <2>a, <3>1, <3>2 DEF Init, WireInit, WireTypeOK
  <2>2. ClientTypeOK
    <3>1. /\ serverReady \in BOOLEAN /\ clientNode \in BOOLEAN /\ client \in BOOLEAN
          /\ matched \in BOOLEAN /\ overlapped \in BOOLEAN
      BY Zenon DEF Init, ClientInit
    <3>2. promise \in [Goals -> {"none", "open", "resolved", "rejected"}]
      BY DEF Init, ClientInit
    <3> QED BY <2>a, <3>1, <3>2 DEF Init, ClientInit, ClientTypeOK, States
  <2>3. ServerTypeOK
    <3>1. serverNode \in BOOLEAN /\ active \in BOOLEAN
      BY Zenon DEF Init, ServerInit
    <3> QED BY <2>a, <3>1 DEF Init, ServerInit, ServerTypeOK
  <2> QED BY <2>1, <2>2, <2>3 DEF TypeOK
<1>2. TypeOK /\ ClientStep /\ (WireTypeOK /\ ClientTypeOK)' => TypeOK'
  BY DEF TypeOK, ClientStep, serverVars, objectVars, ServerTypeOK
<1>3. TypeOK /\ ServerStep /\ (WireTypeOK /\ ServerTypeOK)' => TypeOK'
  BY DEF TypeOK, ServerStep, clientVars, viewVars, linkVars, pastVars, ClientTypeOK
<1>4. TypeOK /\ [Next]_vars => TypeOK'
  <2> SUFFICES ASSUME TypeOK, [Next]_vars PROVE TypeOK'
    OBVIOUS
  <2> USE DEF viewVars, linkVars, pastVars, objectVars
  <2>a. WireTypeOK /\ ClientTypeOK /\ ServerTypeOK
    BY DEF TypeOK
  <2>b. <<>> \in Seq(Goals) /\ <<>> \in Seq(Answer)
    OBVIOUS
  <2>1. ASSUME SendGoal PROVE (WireTypeOK /\ ClientTypeOK)'
    <3>1. sent' \in Goals
      BY <2>1, <2>a, ActionBoundsAssumption DEF SendGoal, ClientTypeOK, Goals
    <3>2. requests' \in Seq(Goals)
      BY <2>1, <2>a, <3>1 DEF SendGoal, WireTypeOK
    <3>3. WireTypeOK'
      BY <2>1, <2>a, <3>1, <3>2 DEF SendGoal, WireTypeOK
    <3>4. overlapped' \in BOOLEAN
      BY Zenon, <2>1, <2>a DEF SendGoal, ClientTypeOK
    <3>5. ClientTypeOK'
      BY <2>1, <2>a, <3>1, <3>4 DEF SendGoal, ClientTypeOK, States, ClearedFeedback
    <3> QED BY <3>3, <3>5
  <2>2. ASSUME CancelGoal PROVE (WireTypeOK /\ ClientTypeOK)'
    <3>1. WireTypeOK'
      <4>1. failed' \in BOOLEAN
        <5>1. failed' = TRUE \/ failed' = failed
          BY Zenon, <2>2 DEF CancelGoal
        <5>2. failed \in BOOLEAN
          BY <2>a DEF WireTypeOK
        <5> QED BY Zenon, <5>1, <5>2
      <4>2. cancels' \subseteq Goals /\ cancelCalls' \in Nat
        <5>1. /\ cancels' = cancels \union {handle} \/ cancels' = cancels
              /\ handle # 0 /\ cancelCalls' = cancelCalls + 1
          BY Zenon, <2>2 DEF CancelGoal
        <5> QED BY <5>1, <2>a DEF WireTypeOK, ClientTypeOK
      <4> QED BY <2>2, <2>a, <4>1, <4>2 DEF CancelGoal, WireTypeOK
    <3>2. ClientTypeOK'
      BY <2>2, <2>a DEF CancelGoal, ClientTypeOK, clientVars
    <3> QED BY <3>1, <3>2
  <2>3. ASSUME TakeAnswer PROVE (WireTypeOK /\ ClientTypeOK)'
    <3> DEFINE g == Head(answers).goal
    <3>1. g \in Goals /\ answers' \in Seq(Answer)
      <4>1. answers \in Seq(Answer) /\ answers # <<>>
        BY <2>3, <2>a DEF TakeAnswer, WireTypeOK, Answer
      <4>2. Head(answers) \in Answer /\ Tail(answers) \in Seq(Answer)
        BY <4>1, QueueTail
      <4> QED BY <2>3, <4>2 DEF TakeAnswer, Answer
    <3>2. clientQueue' \in Seq(Event)
      <4>1. Post("Accepted", g) \/ Post("Rejected", g)
        BY <2>3 DEF TakeAnswer
      <4> QED BY <4>1, <3>1, <2>a, PostType DEF States, Finals
    <3> HIDE DEF g
    <3>3. /\ handle' \in Goals \union {0} /\ accepted' \in Goals \union {0}
          /\ tracked' \subseteq Goals /\ due' \subseteq Goals
          /\ promise' \in [Goals -> {"none", "open", "resolved", "rejected"}]
      <4>1. \/ /\ handle' = g /\ accepted' = g
               /\ tracked' = tracked \union {g}
               /\ due' = due \union {g} \/ due' = due
               /\ promise' = promise
            \/ /\ promise' = [promise EXCEPT ![g] = "rejected"]
               /\ UNCHANGED <<handle, accepted, tracked, due>>
        BY Zenon, <2>3 DEF TakeAnswer, g
      <4> QED BY <2>a, <3>1, <4>1 DEF WireTypeOK, ClientTypeOK
    <3>4. WireTypeOK'
      BY <2>3, <2>a, <3>1, <3>3 DEF TakeAnswer, WireTypeOK, Answer
    <3>5. ClientTypeOK'
      BY <2>3, <2>a, <3>2, <3>3 DEF TakeAnswer, ClientTypeOK, Event
    <3> QED BY <3>4, <3>5
  <2>4. ASSUME NEW g \in Goals, TakeFeedback(g) PROVE (WireTypeOK /\ ClientTypeOK)'
    <3>1. clientQueue' \in Seq(Event)
      <4>1. Post("feedback", g) \/ clientQueue' = clientQueue
        BY <2>4 DEF TakeFeedback
      <4> QED BY <4>1, <2>a, PostType DEF ClientTypeOK, Event
    <3>2. WireTypeOK'
      BY <2>4, <2>a DEF TakeFeedback, WireTypeOK
    <3>3. ClientTypeOK'
      BY <2>4, <2>a, <3>1 DEF TakeFeedback, ClientTypeOK, Event
    <3> QED BY <3>2, <3>3
  <2>5. ASSUME NEW g \in Goals, TakeResult(g) PROVE (WireTypeOK /\ ClientTypeOK)'
    <3>1. clientQueue' \in Seq(Event)
      <4>1. ResultCode(g) \in States \union {"feedback"}
        BY <2>5 DEF TakeResult, States, Finals
      <4>2. Post(ResultCode(g), g) \/ clientQueue' = clientQueue
        BY <2>5 DEF TakeResult
      <4> QED BY <4>1, <4>2, <2>a, PostType DEF ClientTypeOK, Event
    <3>2. promise' \in [Goals -> {"none", "open", "resolved", "rejected"}]
      BY <2>5, <2>a DEF TakeResult, ClientTypeOK
    <3>3. WireTypeOK'
      BY <2>5, <2>a DEF TakeResult, WireTypeOK
    <3>4. ClientTypeOK'
      BY <2>5, <2>a, <3>1, <3>2 DEF TakeResult, ClientTypeOK, Event
    <3> QED BY <3>3, <3>4
  <2>6. ASSUME NEW kinds, NextEvent(kinds)
        PROVE  /\ Head(clientQueue) \in Event /\ Head(clientQueue).kind \in kinds
               /\ clientQueue' \in Seq(Event)
    <3>1. clientQueue \in Seq(Event) /\ clientQueue # <<>>
      BY <2>6, <2>a DEF NextEvent, ClientTypeOK, Event
    <3> QED BY <2>6, <3>1, QueueTail DEF NextEvent
  <2>7. ASSUME RunAnswer PROVE (WireTypeOK /\ ClientTypeOK)'
    <3>1. /\ Head(clientQueue).kind \in {"Accepted", "Rejected"}
          /\ clientQueue' \in Seq(Event)
      BY <2>7, <2>6 DEF RunAnswer
    <3>2. WireTypeOK'
      BY <2>7, <2>a DEF RunAnswer, WireTypeOK
    <3>3. ClientTypeOK'
      BY <2>7, <2>a, <3>1 DEF RunAnswer, ClientTypeOK, Event, States, Finals
    <3> QED BY <3>2, <3>3
  <2>8. ASSUME RunFeedback PROVE (WireTypeOK /\ ClientTypeOK)'
    <3>1. Head(clientQueue) \in Event /\ clientQueue' \in Seq(Event)
      BY <2>8, <2>6 DEF RunFeedback
    <3>2. WireTypeOK'
      BY <2>8, <2>a DEF RunFeedback, WireTypeOK
    <3>3. ClientTypeOK'
      BY <2>8, <2>a, <3>1 DEF RunFeedback, ClientTypeOK, Event
    <3> QED BY <3>2, <3>3
  <2>9. ASSUME RunEnd PROVE (WireTypeOK /\ ClientTypeOK)'
    <3>1. /\ Head(clientQueue) \in Event /\ Head(clientQueue).kind \in Ends
          /\ clientQueue' \in Seq(Event)
      BY <2>9, <2>6 DEF RunEnd
    <3>2. /\ state' \in States /\ feedback' \in Goals \union {0}
          /\ ending' \in Goals \union {0}
      BY <2>9, <2>a, <3>1 DEF RunEnd, ClientTypeOK, Event, States, Finals
    <3>3. WireTypeOK'
      BY <2>9, <2>a DEF RunEnd, WireTypeOK
    <3>4. ClientTypeOK'
      BY <2>9, <2>a, <3>1, <3>2 DEF RunEnd, ClientTypeOK, Event
    <3> QED BY <3>3, <3>4
  <2>10. ASSUME ResetHandle PROVE (WireTypeOK /\ ClientTypeOK)'
    <3>1. WireTypeOK'
      BY <2>10, <2>a DEF ResetHandle, WireTypeOK
    <3>2. ClientTypeOK'
      BY <2>10, <2>a DEF ResetHandle, ClientTypeOK, HandleAfterEnd
    <3> QED BY <3>1, <3>2
  <2>11. ASSUME CheckClientHealth \/ Discover PROVE (WireTypeOK /\ ClientTypeOK)'
    <3>1. WireTypeOK'
      BY <2>11, <2>a DEF CheckClientHealth, Discover, WireTypeOK
    <3>2. serverReady' \in BOOLEAN /\ matched' \in BOOLEAN
      <4>1. CASE CheckClientHealth
        <5>1. serverReady' \in BOOLEAN
          BY Zenon, <4>1 DEF CheckClientHealth
        <5> QED BY <4>1, <5>1, <2>a DEF CheckClientHealth, ClientTypeOK
      <4>2. CASE Discover
        BY <4>2, <2>a DEF Discover, ClientTypeOK, WireTypeOK
      <4> QED BY <2>11, <4>1, <4>2
    <3>3. ClientTypeOK'
      BY <2>11, <2>a, <3>2 DEF CheckClientHealth, Discover, ClientTypeOK
    <3> QED BY <3>1, <3>3
  <2>12. ASSUME NEW present \in BOOLEAN, ReplaceClient(present),
                clientNode' \in BOOLEAN, resets' \in Nat
         PROVE (WireTypeOK /\ ClientTypeOK)'
    <3>1. requests' \in Seq(Goals) /\ answers' \in Seq(Answer)
      BY <2>12, <2>a, <2>b DEF ReplaceClient, WireTypeOK
    <3>2. 1..sent \subseteq Goals
      BY <2>a, ActionBoundsAssumption DEF ClientTypeOK, Goals
    <3>3. WireTypeOK'
      BY <2>12, <2>a, <3>1, <3>2 DEF ReplaceClient, WireTypeOK, Answer
    <3>4. ClientTypeOK'
      BY <2>12, <2>a DEF ReplaceClient, ClientTypeOK
    <3> QED BY <3>3, <3>4
  <2>13. ASSUME SetupClient \/ ClearClient PROVE (WireTypeOK /\ ClientTypeOK)'
    <3>1. resets + 1 \in Nat
      BY <2>a DEF WireTypeOK
    <3>2. resets' \in Nat /\ clientNode' \in BOOLEAN
      BY <2>13, <2>a, <3>1 DEF SetupClient, ClearClient, WireTypeOK
    <3>3. \E present \in BOOLEAN : ReplaceClient(present)
      BY Zenon, <2>13 DEF SetupClient, ClearClient
    <3> QED BY <3>2, <3>3, <2>12
  <2>20. ASSUME AcceptGoal \/ DeclineGoal PROVE (WireTypeOK /\ ServerTypeOK)'
    <3> DEFINE g == Head(requests)
    <3>1. g \in Goals /\ requests' \in Seq(Goals)
      <4>1. requests \in Seq(Goals) /\ requests # <<>>
        BY <2>20, <2>a DEF AcceptGoal, DeclineGoal, WireTypeOK
      <4>2. Head(requests) \in Goals /\ Tail(requests) \in Seq(Goals)
        BY <4>1, QueueTail
      <4> QED BY <2>20, <4>2 DEF AcceptGoal, DeclineGoal
    <3>2. answers' \in Seq(Answer)
      <4>1. answers' = Answered(g, TRUE) \/ answers' = Answered(g, FALSE)
        BY <2>20 DEF AcceptGoal, DeclineGoal
      <4> QED BY <4>1, <3>1, <2>a, AnsweredType
    <3>3. serverQueue' \in Seq(Call)
      <4>1. serverQueue' = PostCall("accepted", g) \/ serverQueue' = serverQueue
        BY <2>20 DEF AcceptGoal, DeclineGoal, serverVars
      <4> QED BY <4>1, <3>1, <2>a, PostCallType DEF ServerTypeOK, Call
    <3>4. status' \in [Goals -> Statuses] /\ known' \subseteq Goals /\ declines' \in Nat
      <4>1. CASE AcceptGoal
        BY <4>1, <2>a, <3>1 DEF AcceptGoal, WireTypeOK, Statuses
      <4>2. CASE DeclineGoal
        BY <4>2, <2>a, <3>1 DEF DeclineGoal, WireTypeOK, Statuses
      <4> QED BY <2>20, <4>1, <4>2
    <3>5. WireTypeOK'
      BY <2>20, <2>a, <3>1, <3>2, <3>4 DEF AcceptGoal, DeclineGoal, WireTypeOK, Answer
    <3>6. ServerTypeOK'
      BY <2>20, <2>a, <3>3 DEF AcceptGoal, DeclineGoal, serverVars, ServerTypeOK, Call
    <3> QED BY <3>5, <3>6
  <2>21. ASSUME NEW g \in Goals, AcceptCancel(g) PROVE (WireTypeOK /\ ServerTypeOK)'
    <3>1. serverQueue' \in Seq(Call) /\ cancelling' \in Goals \union {0}
      <4>1. \/ serverQueue' = PostCall("cancel", g) /\ cancelling' = g
            \/ serverQueue' = serverQueue /\ cancelling' = cancelling
        BY <2>21 DEF AcceptCancel
      <4> QED BY <4>1, <2>a, PostCallType DEF ServerTypeOK, Call
    <3>2. WireTypeOK'
      BY <2>21, <2>a DEF AcceptCancel, WireTypeOK
    <3>3. ServerTypeOK'
      BY <2>21, <2>a, <3>1 DEF AcceptCancel, ServerTypeOK, Call
    <3> QED BY <3>2, <3>3
  <2>22. ASSUME FinishCancel PROVE (WireTypeOK /\ ServerTypeOK)'
    <3>1. status' \in [Goals -> Statuses]
      BY <2>22, <2>a DEF FinishCancel, WireTypeOK, Statuses
    <3>2. WireTypeOK'
      BY <2>22, <2>a, <3>1 DEF FinishCancel, WireTypeOK
    <3>3. ServerTypeOK'
      BY <2>22, <2>a DEF FinishCancel, ServerTypeOK
    <3> QED BY <3>2, <3>3
  <2>23. ASSUME NEW call, NextCall(call)
         PROVE  Head(serverQueue) \in Call /\ serverQueue' \in Seq(Call)
    <3>1. serverQueue \in Seq(Call) /\ serverQueue # <<>>
      BY <2>23, <2>a DEF NextCall, ServerTypeOK, Call
    <3> QED BY <2>23, <3>1, QueueTail DEF NextCall
  <2>24. ASSUME DispatchAccepted \/ RouteCancel PROVE (WireTypeOK /\ ServerTypeOK)'
    <3>1. Head(serverQueue).goal \in Goals /\ serverQueue' \in Seq(Call)
      BY <2>24, <2>23 DEF DispatchAccepted, RouteCancel, Call
    <3>2. WireTypeOK'
      BY <2>24, <2>a DEF DispatchAccepted, RouteCancel, WireTypeOK
    <3>3. /\ handles' \subseteq Goals /\ open' \subseteq Goals
          /\ cancelRequested' \subseteq Goals
      BY <2>24, <2>a, <3>1 DEF DispatchAccepted, RouteCancel, RoutedTo, ServerTypeOK
    <3>4. ServerTypeOK'
      BY <2>24, <2>a, <3>1, <3>3 DEF DispatchAccepted, RouteCancel, ServerTypeOK, Call
    <3> QED BY <3>2, <3>4
  <2>25. ASSUME NEW g \in Goals, NEW end \in {"Succeeded", "Aborted"}, EndGoal(g, end)
         PROVE (WireTypeOK /\ ServerTypeOK)'
    <3>1. status' \in [Goals -> Statuses]
      BY <2>25, <2>a DEF EndGoal, WireTypeOK, Statuses, Ends
    <3>2. WireTypeOK'
      BY <2>25, <2>a, <3>1 DEF EndGoal, WireTypeOK
    <3>3. ServerTypeOK'
      BY <2>25, <2>a DEF EndGoal, FinishHandle, ServerTypeOK
    <3> QED BY <3>2, <3>3
  <2>26. ASSUME NEW g \in Goals, Canceled(g) PROVE (WireTypeOK /\ ServerTypeOK)'
    <3>1. status' \in [Goals -> Statuses] /\ failed' \in BOOLEAN
      BY <2>26, <2>a DEF Canceled, WireTypeOK, Statuses, Ends
    <3>2. WireTypeOK'
      BY <2>26, <2>a, <3>1 DEF Canceled, WireTypeOK
    <3>3. ServerTypeOK'
      BY <2>26, <2>a DEF Canceled, FinishHandle, ServerTypeOK
    <3> QED BY <3>2, <3>3
  <2>27. ASSUME NEW g \in Goals, PublishFeedback(g) PROVE (WireTypeOK /\ ServerTypeOK)'
    <3>1. WireTypeOK'
      BY <2>27, <2>a DEF PublishFeedback, WireTypeOK
    <3>2. ServerTypeOK'
      BY <2>27, <2>a DEF PublishFeedback, serverVars, ServerTypeOK
    <3> QED BY <3>1, <3>2
  <2>28. ASSUME NEW present \in BOOLEAN, ReplaceServer(present), serverNode' \in BOOLEAN,
                resets' \in Nat, handles' \subseteq Goals
         PROVE (WireTypeOK /\ ServerTypeOK)'
    <3>1. WireTypeOK'
      BY <2>28, <2>a, <2>b DEF ReplaceServer, WireTypeOK
    <3>2. ServerTypeOK'
      BY <2>28, <2>a DEF ReplaceServer, ServerTypeOK
    <3> QED BY <3>1, <3>2
  <2>29. ASSUME SetupServer \/ ClearServer PROVE (WireTypeOK /\ ServerTypeOK)'
    <3>1. resets + 1 \in Nat
      BY <2>a DEF WireTypeOK
    <3>2. resets' \in Nat /\ serverNode' \in BOOLEAN /\ handles' \subseteq Goals
      BY <2>29, <2>a, <3>1 DEF SetupServer, ClearServer, WireTypeOK, ServerTypeOK
    <3>3. \E present \in BOOLEAN : ReplaceServer(present)
      BY Zenon, <2>29 DEF SetupServer, ClearServer
    <3> QED BY <3>2, <3>3, <2>28
  <2>30. ASSUME CheckServerHealth PROVE (WireTypeOK /\ ServerTypeOK)'
    <3>1. WireTypeOK'
      BY <2>30, <2>a DEF CheckServerHealth, WireTypeOK
    <3>2. ServerTypeOK'
      BY <2>30, <2>a DEF CheckServerHealth, WireTypeOK, ServerTypeOK
    <3> QED BY <3>1, <3>2
  <2>40. CASE UNCHANGED vars
    BY <2>40, <2>a DEF vars, clientVars, serverVars, TypeOK, WireTypeOK, ClientTypeOK, ServerTypeOK
  <2> QED
    BY <1>2, <1>3, <2>1, <2>2, <2>3, <2>4, <2>5, <2>7, <2>8, <2>9, <2>10, <2>11, <2>13,
       <2>20, <2>21, <2>22, <2>24, <2>25, <2>26, <2>27, <2>29, <2>30, <2>40 DEF Next
<1> QED BY <1>1, <1>4, PTL DEF Spec

-----------------------------------------------------------------------------
(* The life of a goal.                                                     *)

Running == {"executing", "canceling"}

\* A request is of a goal that was sent and not answered, and no goal is
\* requested twice.
RequestsFresh(r, st, n) ==
  /\ \A i \in 1..Len(r) : r[i] <= n /\ st[r[i]] = "none"
  /\ \A i, j \in 1..Len(r) : r[i] = r[j] => i = j

\* A goal that is about to be handed to the application runs, the application
\* does not have it yet, and it is handed over once.
CallsFresh(q, st, op) ==
  /\ \A i \in 1..Len(q) :
       q[i].call = "accepted" => st[q[i].goal] \in Running /\ q[i].goal \notin op
  /\ \A i, j \in 1..Len(q) :
       q[i].call = "accepted" /\ q[j].call = "accepted" /\ q[i].goal = q[j].goal => i = j

\* The inductive invariant behind the life cycle: what the queues say, that goals
\* not sent yet have no status, and that the goals of open handles run.
LifeInv ==
  /\ RequestsFresh(requests, status, sent)
  /\ CallsFresh(serverQueue, status, open)
  /\ \A g \in Goals : g > sent => status[g] = "none"
  /\ \A g \in open : status[g] \in Running

\* The request at the head is answered: the rest of the queue stays fresh.
LEMMA AnswerRequest ==
  ASSUME NEW r \in Seq(Goals), r # <<>>, NEW st \in [Goals -> Statuses], NEW n \in Nat,
         NEW to \in Statuses, RequestsFresh(r, st, n)
  PROVE  /\ RequestsFresh(Tail(r), [st EXCEPT ![Head(r)] = to], n)
         /\ Head(r) \in Goals /\ Head(r) <= n /\ st[Head(r)] = "none"
<1> DEFINE t == Tail(r)
<1>1. /\ 1 \in 1..Len(r) /\ Head(r) = r[1]
      /\ \A i \in 1..Len(t) : i + 1 \in 1..Len(r) /\ i + 1 # 1 /\ t[i] = r[i + 1]
  BY TailPositions
<1> HIDE DEF t
<1>2. Head(r) \in Goals /\ Head(r) <= n /\ st[Head(r)] = "none"
  BY <1>1 DEF RequestsFresh
<1>3. \A i \in 1..Len(t) : t[i] \in Goals /\ t[i] # Head(r) /\ t[i] <= n /\ st[t[i]] = "none"
  BY <1>1 DEF RequestsFresh
<1>4. ASSUME NEW i \in 1..Len(t), NEW j \in 1..Len(t), t[i] = t[j] PROVE i = j
  <2>1. i + 1 = j + 1
    BY <1>1, <1>4 DEF RequestsFresh
  <2> QED BY <2>1
<1>5. RequestsFresh(t, [st EXCEPT ![Head(r)] = to], n)
  BY <1>2, <1>3, <1>4 DEF RequestsFresh
<1> QED BY <1>2, <1>5 DEF t

\* A goal that runs or has ended is in no request, so that a change of its status
\* leaves the requests fresh.
LEMMA OtherRequests ==
  ASSUME NEW r \in Seq(Goals), NEW st \in [Goals -> Statuses], NEW n \in Nat,
         NEW g \in Goals, st[g] # "none", NEW to \in Statuses, RequestsFresh(r, st, n)
  PROVE  RequestsFresh(r, [st EXCEPT ![g] = to], n)
<1>1. \A i \in 1..Len(r) : r[i] \in Goals
  OBVIOUS
<1> QED BY <1>1 DEF RequestsFresh

\* Running the call at the head leaves fresh calls; the goal of an accepted one
\* is in none of them.
LEMMA RunCall ==
  ASSUME NEW q \in Seq(Call), q # <<>>, NEW st, NEW op, CallsFresh(q, st, op)
  PROVE  /\ CallsFresh(Tail(q), st, op)
         /\ Head(q).call = "accepted" =>
              /\ CallsFresh(Tail(q), st, op \union {Head(q).goal})
              /\ st[Head(q).goal] \in Running
<1> DEFINE t == Tail(q)
<1>1. /\ 1 \in 1..Len(q) /\ Head(q) = q[1]
      /\ \A i \in 1..Len(t) : i + 1 \in 1..Len(q) /\ i + 1 # 1 /\ t[i] = q[i + 1]
  BY TailPositions
<1> HIDE DEF t
<1>2. \A i \in 1..Len(t) :
        t[i].call = "accepted" => st[t[i].goal] \in Running /\ t[i].goal \notin op
  BY <1>1 DEF CallsFresh
<1>3. ASSUME NEW i \in 1..Len(t), NEW j \in 1..Len(t), t[i].call = "accepted",
             t[j].call = "accepted", t[i].goal = t[j].goal
      PROVE  i = j
  <2>1. i + 1 = j + 1
    BY <1>1, <1>3 DEF CallsFresh
  <2> QED BY <2>1
<1>4. CallsFresh(t, st, op)
  BY <1>2, <1>3 DEF CallsFresh
<1>5. ASSUME Head(q).call = "accepted"
      PROVE  CallsFresh(t, st, op \union {Head(q).goal}) /\ st[Head(q).goal] \in Running
  <2>1. \A i \in 1..Len(t) : t[i].call = "accepted" => t[i].goal # Head(q).goal
    BY <1>1, <1>5 DEF CallsFresh
  <2>2. CallsFresh(t, st, op \union {Head(q).goal})
    BY <1>2, <1>3, <2>1 DEF CallsFresh
  <2> QED BY <1>1, <1>5, <2>2 DEF CallsFresh
<1> QED BY <1>4, <1>5 DEF t

\* Posting the call of a goal in no other call keeps the calls fresh.
LEMMA NewCall ==
  ASSUME NEW q \in Seq(Call), NEW st, NEW op, CallsFresh(q, st, op), NEW c \in Call,
         c.call = "accepted" =>
           /\ st[c.goal] \in Running /\ c.goal \notin op
           /\ \A i \in 1..Len(q) : q[i].call = "accepted" => q[i].goal # c.goal
  PROVE  CallsFresh(Append(q, c), st, op)
<1> DEFINE p == Append(q, c)
<1>1. \A i \in 1..Len(p) : \/ i \in 1..Len(q) /\ p[i] = q[i]
                           \/ i \notin 1..Len(q) /\ i = Len(q) + 1 /\ p[i] = c
  BY AppendPositions
<1> HIDE DEF p
<1>2. CallsFresh(p, st, op)
  BY <1>1 DEF CallsFresh
<1> QED BY <1>2 DEF p

\* A change of the status of a goal in no accepted call keeps the calls fresh;
\* so does one that lets the goal run on, and fewer open handles.
LEMMA OtherCalls ==
  ASSUME NEW q \in Seq(Call), NEW st \in [Goals -> Statuses], NEW op, NEW less \in SUBSET op,
         CallsFresh(q, st, op), NEW g \in Goals, NEW to \in Statuses,
         to \in Running \/ g \in op \/ st[g] = "none"
  PROVE  CallsFresh(q, [st EXCEPT ![g] = to], less)
<1>1. \A i \in 1..Len(q) : q[i] \in Call
  OBVIOUS
<1>2. \A i \in 1..Len(q) : q[i].goal \in Goals
  BY <1>1 DEF Call
<1> QED BY <1>2 DEF CallsFresh, Running

\* The invariant holds in every reachable state.
THEOREM LifeCorrect == Spec => []LifeInv
<1> USE DEF goalVars, trackVars, wireVars, actionBoundVars, viewVars, linkVars, pastVars,
            objectVars
<1>1. Init => LifeInv
  BY DEF Init, WireInit, ClientInit, ServerInit, LifeInv, RequestsFresh, CallsFresh
<1>2. TypeOK /\ LifeInv /\ [Next]_vars => LifeInv'
  <2> SUFFICES ASSUME TypeOK, LifeInv, [Next]_vars PROVE LifeInv'
    OBVIOUS
  <2>a. /\ requests \in Seq(Goals) /\ status \in [Goals -> Statuses]
        /\ serverQueue \in Seq(Call) /\ open \subseteq Goals
        /\ sent \in Goals \union {0} /\ cancelling \in Goals \union {0}
    BY DEF TypeOK, WireTypeOK, ClientTypeOK, ServerTypeOK, Call
  <2>b. Goals \subseteq Nat /\ sent \in Nat
    BY <2>a, ActionBoundsAssumption DEF Goals
  <2>c. /\ RequestsFresh(requests, status, sent) /\ CallsFresh(serverQueue, status, open)
        /\ \A g \in Goals : g > sent => status[g] = "none"
        /\ \A g \in open : status[g] \in Running
    BY DEF LifeInv
  <2>d. RequestsFresh(<<>>, status, sent)
    BY DEF RequestsFresh
  \* The steps that touch neither the status of a goal nor its handle.
  <2>1. ASSUME requests' \in {requests, <<>>}, UNCHANGED <<status, sent, serverQueue, open>>
        PROVE  LifeInv'
    BY <2>1, <2>c, <2>d DEF LifeInv
  <2>2. CASE ClientStep /\ SendGoal
    <3>1. /\ sent' = sent + 1 /\ sent' \in Goals /\ status' = status
          /\ requests' = Append(requests, sent') \/ requests' = requests
      <4>1. sent < MaxGoals /\ sent' = sent + 1
        BY <2>2 DEF SendGoal
      <4>2. sent' \in Goals
        BY <4>1, <2>b, ActionBoundsAssumption DEF Goals
      <4> QED BY <2>2, <4>1, <4>2 DEF SendGoal
    <3>2. status[sent'] = "none"
      BY <3>1, <2>b, <2>c
    <3>3. \A i \in 1..Len(requests) : requests[i] \in Nat /\ requests[i] <= sent
      <4>1. requests \in Seq(Goals)
        BY <2>a
      <4>2. \A i \in 1..Len(requests) : requests[i] \in Goals
        BY <4>1
      <4>3. \A i \in 1..Len(requests) : requests[i] <= sent
        BY <2>c DEF RequestsFresh
      <4> QED BY <4>2, <4>3, <2>b
    <3>4. RequestsFresh(requests, status, sent')
      BY <3>1, <3>3, <2>b, <2>c DEF RequestsFresh
    <3>5. RequestsFresh(Append(requests, sent'), status, sent')
      <4> DEFINE r == Append(requests, sent')
      <4>1. \A i \in 1..Len(r) :
              \/ i \in 1..Len(requests) /\ r[i] = requests[i]
              \/ i \notin 1..Len(requests) /\ i = Len(requests) + 1 /\ r[i] = sent'
        BY <2>a, <3>1, AppendPositions
      <4> HIDE DEF r
      <4>2. \A i \in 1..Len(requests) : requests[i] # sent'
        BY <3>1, <3>3, <2>b
      <4>3. RequestsFresh(r, status, sent')
        BY <4>1, <4>2, <3>1, <3>2, <3>4, <2>b DEF RequestsFresh
      <4> QED BY <4>3 DEF r
    <3>6. \A g \in Goals : g > sent' => status[g] = "none"
      BY <3>1, <2>b, <2>c
    <3>7. UNCHANGED <<serverQueue, open>>
      BY <2>2 DEF ClientStep, serverVars
    <3> QED BY <3>1, <3>4, <3>5, <3>6, <3>7, <2>c DEF LifeInv
  <2>3. ASSUME ClientStep,
               \/ CancelGoal \/ TakeAnswer \/ RunAnswer \/ RunFeedback \/ RunEnd \/ ResetHandle
               \/ CheckClientHealth \/ SetupClient \/ ClearClient \/ Discover
               \/ \E g \in Goals : TakeFeedback(g) \/ TakeResult(g)
        PROVE  LifeInv'
    <3>1. UNCHANGED <<serverQueue, open>>
      BY <2>3 DEF ClientStep, serverVars
    <3>2. CASE SetupClient \/ ClearClient
      <4>1. PICK present \in BOOLEAN : ReplaceClient(present)
        BY Zenon, <3>2 DEF SetupClient, ClearClient
      <4>2. requests' \in {requests, <<>>} /\ UNCHANGED <<status, sent>>
        BY <4>1 DEF ReplaceClient
      <4> QED BY <3>1, <4>2, <2>1
    <3>3. CASE ~(SetupClient \/ ClearClient)
      <4>1. UNCHANGED <<requests, status, sent>>
        BY <2>3, <3>3 DEF CancelGoal, TakeAnswer, RunAnswer, RunFeedback, RunEnd, ResetHandle,
             CheckClientHealth, Discover, TakeFeedback, TakeResult, clientVars
      <4> QED BY <3>1, <4>1, <2>1
    <3> QED BY <3>2, <3>3
  <2>4. CASE ServerStep /\ AcceptGoal
    <3> DEFINE g == Head(requests)
    <3>1. /\ requests # <<>> /\ requests' = Tail(requests)
          /\ status' = [status EXCEPT ![g] = "executing"]
          /\ serverQueue' = PostCall("accepted", g) /\ open' = open /\ sent' = sent
      BY <2>4 DEF AcceptGoal, ServerStep, clientVars
    <3> HIDE DEF g
    <3>2. /\ RequestsFresh(requests', status', sent)
          /\ g \in Goals /\ g <= sent /\ status[g] = "none"
      BY <3>1, <2>a, <2>b, <2>c, AnswerRequest DEF g, Statuses
    <3>3. CallsFresh(serverQueue, status', open)
      <4>1. "executing" \in Statuses /\ open \in SUBSET open
        BY DEF Statuses
      <4> QED BY <4>1, <3>1, <3>2, <2>a, <2>c, OtherCalls
    <3>4. g \notin open /\ \A i \in 1..Len(serverQueue) :
                             serverQueue[i].call = "accepted" => serverQueue[i].goal # g
      BY <3>2, <2>c DEF CallsFresh, Running
    <3>5. CallsFresh(serverQueue', status', open)
      <4> DEFINE c == [call |-> "accepted", goal |-> g]
      <4>1. c \in Call /\ c.call = "accepted" /\ c.goal = g
        BY <3>2 DEF Call
      <4>2. status'[g] \in Running
        BY <3>1, <3>2, <2>a DEF Running
      <4>3. serverQueue' = Append(serverQueue, c)
        BY <3>1 DEF PostCall
      <4> HIDE DEF c
      <4> QED BY <4>1, <4>2, <4>3, <3>3, <3>4, <2>a, NewCall
    <3>6. /\ \A h \in Goals : h > sent => status'[h] = "none"
          /\ \A h \in open : status'[h] \in Running
      BY <3>1, <3>2, <2>a, <2>b, <2>c DEF Running
    <3> QED BY <3>1, <3>2, <3>5, <3>6 DEF LifeInv
  <2>5. CASE ServerStep /\ DeclineGoal
    <3> DEFINE g == Head(requests)
    <3>1. /\ requests # <<>> /\ requests' = Tail(requests)
          /\ status' = [status EXCEPT ![g] = "declined"]
          /\ UNCHANGED <<serverQueue, open, sent>>
      BY <2>5 DEF DeclineGoal, ServerStep, clientVars, serverVars
    <3> HIDE DEF g
    <3>2. /\ RequestsFresh(requests', status', sent)
          /\ g \in Goals /\ g <= sent /\ status[g] = "none"
      BY <3>1, <2>a, <2>b, <2>c, AnswerRequest DEF g, Statuses
    <3>3. CallsFresh(serverQueue, status', open)
      <4>1. "declined" \in Statuses /\ open \in SUBSET open
        BY DEF Statuses
      <4> QED BY <4>1, <3>1, <3>2, <2>a, <2>c, OtherCalls
    <3>4. /\ \A h \in Goals : h > sent => status'[h] = "none"
          /\ \A h \in open : status'[h] \in Running
      BY <3>1, <3>2, <2>a, <2>b, <2>c DEF Running
    <3> QED BY <3>1, <3>2, <3>3, <3>4 DEF LifeInv
  \* A goal that runs gets another status; its handle may be closed.
  <2>6. ASSUME NEW g \in Goals, status[g] \in Running, NEW to \in Statuses,
               NEW less \in SUBSET open, to \in Running \/ g \in open,
               to \in Running \/ g \notin less,
               status' = [status EXCEPT ![g] = to], open' = less,
               UNCHANGED <<requests, sent, serverQueue>>
        PROVE  LifeInv'
    <3>1. status[g] # "none" /\ ~(g > sent)
      BY <2>6, <2>c DEF Running
    <3>2. RequestsFresh(requests, status', sent)
      BY <2>6, <3>1, <2>a, <2>b, <2>c, OtherRequests
    <3>3. CallsFresh(serverQueue, status', open')
      BY <2>6, <2>a, <2>c, OtherCalls
    <3>4. /\ \A h \in Goals : h > sent => status'[h] = "none"
          /\ \A h \in open' : status'[h] \in Running
      BY <2>6, <3>1, <2>a, <2>c
    <3> QED BY <2>6, <3>2, <3>3, <3>4 DEF LifeInv
  <2>7. CASE ServerStep /\ FinishCancel
    <3>1. UNCHANGED <<requests, sent, serverQueue, open>> /\ cancelling \in Goals
      BY <2>7, <2>a DEF ServerStep, FinishCancel, clientVars
    <3>2. CASE status[cancelling] = "executing"
      <4>1. status' = [status EXCEPT ![cancelling] = "canceling"]
        BY <2>7, <3>2 DEF FinishCancel
      <4>2. /\ status[cancelling] \in Running /\ "canceling" \in Running
            /\ "canceling" \in Statuses /\ open' \in SUBSET open
        BY <3>1, <3>2 DEF Running, Statuses
      <4> QED BY <2>6, <3>1, <4>1, <4>2
    <3>3. CASE status[cancelling] # "executing"
      BY <2>1, <2>7, <3>1, <3>3 DEF FinishCancel
    <3> QED BY <3>2, <3>3
  <2>8. ASSUME NEW g \in Goals, NEW end \in {"Succeeded", "Aborted"},
               ServerStep, EndGoal(g, end)
        PROVE  LifeInv'
    <3>1. /\ g \in open /\ status' = [status EXCEPT ![g] = end] /\ open' = open \ {g}
          /\ UNCHANGED <<requests, sent, serverQueue>>
      BY <2>8 DEF ServerStep, EndGoal, CanFinish, FinishHandle, clientVars
    <3>2. end \in Statuses /\ status[g] \in Running
      BY <3>1, <2>c DEF Statuses, Ends
    <3> QED BY <3>1, <3>2, <2>6
  <2>9. ASSUME NEW g \in Goals, ServerStep, Canceled(g) PROVE LifeInv'
    <3>1. g \in open /\ UNCHANGED <<requests, sent, serverQueue>>
      BY <2>9 DEF ServerStep, Canceled, CanFinish, clientVars
    <3>2. CASE status[g] = "canceling"
      <4>1. status' = [status EXCEPT ![g] = "Canceled"] /\ open' = open \ {g}
        BY <2>9, <3>2 DEF Canceled, FinishHandle
      <4>2. "Canceled" \in Statuses /\ status[g] \in Running
        BY <3>2 DEF Statuses, Ends, Running
      <4> QED BY <3>1, <4>1, <4>2, <2>6
    <3>3. CASE status[g] # "canceling"
      <4>1. UNCHANGED <<status, open>>
        BY <2>9, <3>3 DEF Canceled
      <4> QED BY <3>1, <4>1, <2>1
    <3> QED BY <3>2, <3>3
  <2>10. CASE ServerStep /\ DispatchAccepted
    <3>1. /\ serverQueue # <<>> /\ Head(serverQueue).call = "accepted"
          /\ serverQueue' = Tail(serverQueue)
          /\ open' = open \union {Head(serverQueue).goal} \/ open' = open
          /\ UNCHANGED <<requests, status, sent>>
      BY <2>10 DEF ServerStep, DispatchAccepted, NextCall, clientVars
    <3>2. CallsFresh(serverQueue', status, open') /\ status[Head(serverQueue).goal] \in Running
      BY <3>1, <2>a, <2>c, RunCall
    <3>3. \A g \in open' : status[g] \in Running
      BY <3>1, <3>2, <2>c
    <3> QED BY <3>1, <3>2, <3>3, <2>c DEF LifeInv
  <2>11. CASE ServerStep /\ RouteCancel
    <3>1. /\ serverQueue # <<>> /\ serverQueue' = Tail(serverQueue)
          /\ UNCHANGED <<requests, status, sent, open>>
      BY <2>11 DEF ServerStep, RouteCancel, NextCall, clientVars
    <3>2. CallsFresh(serverQueue', status, open)
      BY <3>1, <2>a, <2>c, RunCall
    <3> QED BY <3>1, <3>2, <2>c DEF LifeInv
  <2>12. ASSUME NEW g \in Goals, ServerStep, AcceptCancel(g) PROVE LifeInv'
    <3>1. /\ UNCHANGED <<requests, status, sent, open>>
          /\ serverQueue' = PostCall("cancel", g) \/ serverQueue' = serverQueue
      BY <2>12 DEF ServerStep, AcceptCancel, clientVars
    <3>2. CallsFresh(PostCall("cancel", g), status, open)
      <4> DEFINE c == [call |-> "cancel", goal |-> g]
      <4>1. c \in Call /\ c.call # "accepted"
        BY DEF Call
      <4> HIDE DEF c
      <4>2. CallsFresh(Append(serverQueue, c), status, open)
        BY <4>1, <2>a, <2>c, NewCall
      <4> QED BY <4>2 DEF PostCall, c
    <3> QED BY <3>1, <3>2, <2>c DEF LifeInv
  <2>13. ASSUME NEW g \in Goals, ServerStep, PublishFeedback(g) PROVE LifeInv'
    <3>1. UNCHANGED <<requests, status, sent, serverQueue, open>>
      BY <2>13 DEF ServerStep, PublishFeedback, clientVars, serverVars
    <3> QED BY <3>1, <2>1
  <2>14. ASSUME ServerStep, SetupServer \/ ClearServer PROVE LifeInv'
    <3>1. PICK present \in BOOLEAN : ReplaceServer(present)
      BY Zenon, <2>14 DEF SetupServer, ClearServer
    <3>2. requests' = <<>> /\ UNCHANGED <<status, serverQueue, open>>
      BY <3>1 DEF ReplaceServer
    <3>3. sent' = sent
      BY <2>14 DEF ServerStep, clientVars
    <3> QED BY <3>2, <3>3, <2>1
  <2>15. CASE ServerStep /\ CheckServerHealth
    <3>1. UNCHANGED <<requests, status, sent, serverQueue, open>>
      BY <2>15 DEF ServerStep, CheckServerHealth, clientVars
    <3> QED BY <3>1, <2>1
  <2>16. CASE UNCHANGED vars
    <3>1. UNCHANGED <<requests, status, sent, serverQueue, open>>
      BY <2>16 DEF vars, clientVars, serverVars
    <3> QED BY <3>1, <2>1
  <2> QED
    BY <2>2, <2>3, <2>4, <2>5, <2>7, <2>8, <2>9, <2>10, <2>11, <2>12, <2>13, <2>14, <2>15, <2>16
    DEF Next
<1> QED BY <1>1, <1>2, TypeCorrect, PTL DEF Spec

\* Every step moves the status of one goal along its life cycle, or none.
LEMMA LifeStep ==
  ASSUME TypeOK, LifeInv, [Next]_vars
  PROVE  Lifecycle!Next \/ status' = status
<1> USE DEF goalVars, trackVars, wireVars, actionBoundVars
<1> USE DEF Lifecycle!Next, Lifecycle!Answer, Lifecycle!RequestCancel, Lifecycle!End,
            Lifecycle!Move, Lifecycle!Ends
<1>a. requests \in Seq(Goals) /\ cancelling \in Goals \union {0}
  BY DEF TypeOK, WireTypeOK, ServerTypeOK
<1>1. ASSUME AcceptGoal \/ DeclineGoal PROVE Lifecycle!Next
  <2>1. requests # <<>>
    BY <1>1 DEF AcceptGoal, DeclineGoal
  <2>2. Head(requests) \in Goals
    BY <1>a, <2>1, QueueTail
  <2>3. status[Head(requests)] = "none"
    <3>1. 1 \in 1..Len(requests) /\ Head(requests) = requests[1]
      BY <1>a, <2>1, TailPositions
    <3> QED BY <3>1 DEF LifeInv, RequestsFresh
  <2> QED BY <1>1, <2>2, <2>3 DEF AcceptGoal, DeclineGoal
<1>2. ASSUME FinishCancel PROVE Lifecycle!Next \/ status' = status
  BY <1>2, <1>a DEF FinishCancel
<1>3. ASSUME NEW g \in Goals, NEW end \in {"Succeeded", "Aborted"}, EndGoal(g, end)
      PROVE  Lifecycle!Next
  <2>1. status[g] \in Running /\ status' = [status EXCEPT ![g] = end]
    BY <1>3 DEF EndGoal, CanFinish, LifeInv
  <2> QED BY <2>1 DEF Running
<1>4. ASSUME NEW g \in Goals, Canceled(g) PROVE Lifecycle!Next \/ status' = status
  BY <1>4 DEF Canceled
<1>5. ASSUME ClientStep,
             \/ SendGoal \/ CancelGoal \/ TakeAnswer \/ RunAnswer \/ RunFeedback \/ RunEnd
             \/ ResetHandle \/ CheckClientHealth \/ Discover
             \/ \E g \in Goals : TakeFeedback(g) \/ TakeResult(g)
      PROVE  status' = status
  BY <1>5 DEF SendGoal, CancelGoal, TakeAnswer, RunAnswer, RunFeedback, RunEnd, ResetHandle,
       CheckClientHealth, Discover, TakeFeedback, TakeResult
<1>6. ASSUME SetupClient \/ ClearClient \/ SetupServer \/ ClearServer PROVE status' = status
  BY <1>6 DEF SetupClient, ClearClient, SetupServer, ClearServer, ReplaceClient, ReplaceServer
<1>7. ASSUME \/ DispatchAccepted \/ RouteCancel \/ CheckServerHealth
             \/ \E g \in Goals : AcceptCancel(g) \/ PublishFeedback(g)
      PROVE  status' = status
  BY <1>7 DEF DispatchAccepted, RouteCancel, CheckServerHealth, AcceptCancel, PublishFeedback
<1>8. CASE UNCHANGED vars
  BY <1>8 DEF vars
<1> QED BY <1>1, <1>2, <1>3, <1>4, <1>5, <1>6, <1>7, <1>8 DEF Next

\* The composed system implements the life cycle: whatever the two processes and
\* the wire do, every goal is answered once and ends once, and as canceled only
\* after a cancel request.
THEOREM ImplementsLifecycle == Spec => GoalsLive
<1> USE DEF goalVars, trackVars, wireVars, actionBoundVars
<1>1. Init => Lifecycle!Init
  BY DEF Init, WireInit, Lifecycle!Init
<1>2. TypeOK /\ LifeInv /\ [Next]_vars => [Lifecycle!Next]_status
  BY LifeStep
<1> QED BY <1>1, <1>2, TypeCorrect, LifeCorrect, PTL DEF Spec, GoalsLive, Lifecycle!Spec

-----------------------------------------------------------------------------
(* What queues hold and in which order.                                    *)

\* A queue is left alone, loses its head, or is emptied.
Shorter(p, q) == p = q \/ p = <<>> \/ (q # <<>> /\ p = Tail(q))

\* Any two elements of a queue, the earlier one first, are related by R.
Sorted(q, R) == \A i, j \in 1..Len(q) : i < j => <<q[i], q[j]>> \in R

\* What a queue holds has the type of the queue, and an empty one holds nothing.
LEMMA RangeType ==
  ASSUME NEW S, NEW q \in Seq(S)
  PROVE  /\ Range(q) \subseteq S /\ Range(q) = {q[i] : i \in 1..Len(q)}
         /\ q = <<>> <=> Range(q) = {}
<1>1. DOMAIN q = 1..Len(q) /\ Len(q) \in Nat /\ \A i \in 1..Len(q) : q[i] \in S
  OBVIOUS
<1>2. q = <<>> <=> Len(q) = 0
  BY EmptySeq
<1>3. Range(q) = {q[i] : i \in 1..Len(q)}
  BY <1>1 DEF Range
<1>4. Range(q) = {} <=> Len(q) = 0
  <2>1. Len(q) # 0 => 1 \in 1..Len(q)
    BY <1>1
  <2>2. Len(q) = 0 => 1..Len(q) = {}
    BY <1>1
  <2> QED BY <1>3, <2>1, <2>2
<1> QED BY <1>1, <1>2, <1>3, <1>4

\* A queue that holds nothing is empty.
LEMMA EmptyRange ==
  ASSUME NEW S, NEW q \in Seq(S)
  PROVE  q = <<>> <=> Range(q) = {}
  BY RangeType

\* The head of a queue and what is left of it are what it held.
LEMMA RangeTail ==
  ASSUME NEW S, NEW q \in Seq(S), q # <<>>
  PROVE  /\ Range(q) = {Head(q)} \union Range(Tail(q))
         /\ \A R : Sorted(q, R) => \A e \in Range(Tail(q)) : <<Head(q), e>> \in R
<1> DEFINE t == Tail(q)
<1>1. t \in Seq(S)
  OBVIOUS
<1>2. /\ Len(q) \in Nat /\ Len(q) > 0 /\ Len(t) = Len(q) - 1 /\ Head(q) = q[1]
      /\ \A i \in 1..Len(t) : t[i] = q[i + 1]
  OBVIOUS
<1> HIDE DEF t
<1>3. Range(q) = {q[i] : i \in 1..Len(q)} /\ Range(t) = {t[i] : i \in 1..Len(t)}
  BY <1>1, RangeType
<1>4. ASSUME NEW e \in Range(t) PROVE e \in Range(q) /\ \A R : Sorted(q, R) => <<Head(q), e>> \in R
  <2>1. PICK i \in 1..Len(t) : e = t[i]
    BY <1>3
  <2>2. i + 1 \in 1..Len(q) /\ 1 \in 1..Len(q) /\ 1 < i + 1 /\ e = q[i + 1]
    BY <1>2, <2>1
  <2> QED BY <1>2, <1>3, <2>2 DEF Sorted
<1>5. ASSUME NEW e \in Range(q), e # Head(q) PROVE e \in Range(t)
  <2>1. PICK i \in 1..Len(q) : e = q[i]
    BY <1>3
  <2>2. i - 1 \in 1..Len(t) /\ (i - 1) + 1 = i
    BY <1>2, <1>5, <2>1
  <2>3. t[i - 1] = e
    BY <1>2, <2>1, <2>2
  <2> QED BY <1>3, <2>2, <2>3
<1>6. Head(q) \in Range(q)
  BY <1>2, <1>3
<1> QED BY <1>4, <1>5, <1>6 DEF t

\* A shorter queue keeps its type and its order and holds nothing new.
LEMMA ShorterQueue ==
  ASSUME NEW S, NEW q \in Seq(S), NEW p, Shorter(p, q)
  PROVE  /\ p \in Seq(S) /\ Range(p) \subseteq Range(q)
         /\ \A R : Sorted(q, R) => Sorted(p, R)
<1>1. CASE p = q
  BY <1>1
<1>2. CASE p = <<>>
  <2>1. <<>> \in Seq(S) /\ Len(<<>>) = 0
    OBVIOUS
  <2>2. Range(<<>>) = {}
    BY <2>1, RangeType
  <2>3. \A R : Sorted(<<>>, R)
    BY <2>1 DEF Sorted
  <2> QED BY <1>2, <2>1, <2>2, <2>3
<1>3. CASE q # <<>> /\ p = Tail(q)
  <2>1. p \in Seq(S) /\ Range(p) \subseteq Range(q)
    BY <1>3, QueueTail, RangeTail
  <2>2. ASSUME NEW R, Sorted(q, R) PROVE Sorted(p, R)
    <3>1. \A i \in 1..Len(p) : i + 1 \in 1..Len(q) /\ p[i] = q[i + 1]
      BY <1>3, TailPositions
    <3>2. SUFFICES ASSUME NEW i \in 1..Len(p), NEW j \in 1..Len(p), i < j
                   PROVE  <<p[i], p[j]>> \in R
      BY DEF Sorted
    <3>3. i + 1 < j + 1
      BY <3>2
    <3> QED BY <2>2, <3>1, <3>3 DEF Sorted
  <2> QED BY <2>1, <2>2
<1> QED BY <1>1, <1>2, <1>3 DEF Shorter

\* An appended element joins what the queue holds and comes after all of it.
LEMMA RangeAppend ==
  ASSUME NEW S, NEW q \in Seq(S), NEW e \in S
  PROVE  /\ Append(q, e) \in Seq(S) /\ Range(Append(q, e)) = Range(q) \union {e}
         /\ \A R : Sorted(q, R) /\ (\A x \in Range(q) : <<x, e>> \in R) => Sorted(Append(q, e), R)
<1> DEFINE p == Append(q, e)
<1>1. p \in Seq(S)
  OBVIOUS
<1>2. /\ Len(q) \in Nat /\ Len(p) = Len(q) + 1 /\ p[Len(q) + 1] = e
      /\ \A i \in 1..Len(q) : p[i] = q[i]
  OBVIOUS
<1> HIDE DEF p
<1>3. Range(q) = {q[i] : i \in 1..Len(q)} /\ Range(p) = {p[i] : i \in 1..Len(p)}
  BY <1>1, RangeType
<1>4. \A i \in 1..Len(p) : i \in 1..Len(q) \/ i = Len(q) + 1
  BY <1>2
<1>5. 1..Len(q) \subseteq 1..Len(p) /\ Len(q) + 1 \in 1..Len(p)
  BY <1>2
<1>6. Range(p) = Range(q) \union {e}
  BY <1>2, <1>3, <1>4, <1>5
<1>7. ASSUME NEW R, Sorted(q, R), \A x \in Range(q) : <<x, e>> \in R
      PROVE  Sorted(p, R)
  <2>1. SUFFICES ASSUME NEW i \in 1..Len(p), NEW j \in 1..Len(p), i < j
                 PROVE  <<p[i], p[j]>> \in R
    BY DEF Sorted
  <2>2. i \in 1..Len(q) /\ p[i] = q[i]
    BY <1>2, <2>1
  <2>3. CASE j \in 1..Len(q)
    BY <1>2, <1>7, <2>1, <2>2, <2>3 DEF Sorted
  <2>4. CASE j = Len(q) + 1
    BY <1>2, <1>3, <1>7, <2>2, <2>4
  <2> QED BY <1>4, <2>3, <2>4
<1> QED BY <1>1, <1>6, <1>7 DEF p

-----------------------------------------------------------------------------
(* The order of goals, answers and events.                                 *)

Answering == {"Accepted", "Rejected"}

GoalsRise == {p \in Goals \X Goals : p[1] < p[2]}
AnswersRise == {p \in Answer \X Answer : p[1].goal < p[2].goal}
EventsRise == {p \in Event \X Event : p[2].kind \in Answering => p[1].goal < p[2].goal}

\* Requests, answers and posted answers stand in the order in which the goals
\* were sent, and each of these stages is behind the one before it.
Staged ==
  /\ Sorted(requests, GoalsRise) /\ Sorted(answers, AnswersRise) /\ Sorted(clientQueue, EventsRise)
  /\ \A r \in Range(requests) : accepted < r /\ r <= sent
  /\ \A a \in Range(answers) : accepted < a.goal /\ a.goal <= sent
  /\ \A a \in Range(answers), r \in Range(requests) : a.goal < r
  /\ \A e \in Range(clientQueue) : e.goal <= sent /\ (e.kind # "Rejected" => e.goal <= accepted)
  /\ \A e \in Range(clientQueue), a \in Range(answers) : e.goal < a.goal
  /\ \A e \in Range(clientQueue), r \in Range(requests) : e.goal < r

\* The executor only ever holds the newest accepted goal or none, and asks for
\* results of accepted goals.
Held ==
  /\ \A g \in due \union tracked : g <= accepted
  /\ accepted <= sent /\ ending <= accepted /\ handle \in {0, accepted}

OrderInv == Staged /\ Held

\* What the types say of the queues and the identifiers of the client.
LEMMA ClientTypes ==
  ASSUME TypeOK
  PROVE  /\ requests \in Seq(Goals) /\ answers \in Seq(Answer) /\ clientQueue \in Seq(Event)
         /\ Range(requests) \subseteq Goals /\ Range(answers) \subseteq Answer
         /\ Range(clientQueue) \subseteq Event
         /\ due \subseteq Goals /\ tracked \subseteq Goals /\ mine \subseteq Goals
         /\ sent \in Goals \union {0} /\ accepted \in Goals \union {0}
         /\ handle \in Goals \union {0} /\ ending \in Goals \union {0}
         /\ sent \in Nat /\ accepted \in Nat /\ handle \in Nat /\ ending \in Nat
         /\ Goals \subseteq Nat /\ 0 \notin Goals
<1>1. /\ requests \in Seq(Goals) /\ answers \in Seq(Answer) /\ clientQueue \in Seq(Event)
      /\ due \subseteq Goals /\ tracked \subseteq Goals /\ mine \subseteq Goals
      /\ sent \in Goals \union {0} /\ accepted \in Goals \union {0}
      /\ handle \in Goals \union {0} /\ ending \in Goals \union {0}
  BY DEF TypeOK, WireTypeOK, ClientTypeOK, Answer, Event
<1>2. Goals \subseteq Nat /\ 0 \notin Goals
  BY ActionBoundsAssumption DEF Goals
<1> QED BY <1>1, <1>2, RangeType

\* The order survives when queues get shorter, results come in and the handle or
\* the mark of an ending goal is dropped.
LEMMA OrderKept ==
  ASSUME TypeOK, OrderInv,
         Shorter(requests', requests), Shorter(answers', answers),
         Shorter(clientQueue', clientQueue),
         due' \subseteq due, tracked' \subseteq tracked, UNCHANGED <<sent, accepted>>,
         handle' \in {0, handle}, ending' \in {0, ending, handle}
  PROVE  OrderInv'
<1> USE ClientTypes
<1>1. /\ Range(requests') \subseteq Range(requests) /\ Range(answers') \subseteq Range(answers)
      /\ Range(clientQueue') \subseteq Range(clientQueue)
      /\ Sorted(requests', GoalsRise) /\ Sorted(answers', AnswersRise)
      /\ Sorted(clientQueue', EventsRise)
  BY ShorterQueue DEF OrderInv, Staged
<1>2. Staged'
  BY <1>1 DEF OrderInv, Staged
<1>3. Held'
  BY DEF OrderInv, Held
<1> QED BY <1>2, <1>3 DEF OrderInv

\* A goal is answered: its request goes, and the answer may be on its way.
LEMMA OrderAnswered ==
  ASSUME TypeOK, OrderInv, requests # <<>>, requests' = Tail(requests),
         NEW b \in BOOLEAN, answers' = Answered(Head(requests), b),
         UNCHANGED <<clientQueue, due, tracked, sent, accepted, handle, ending>>
  PROVE  OrderInv'
<1> DEFINE g == Head(requests)
           a == [goal |-> g, accepted |-> b]
<1> USE ClientTypes
<1>1. CASE answers' = answers
  <2>1. /\ Shorter(requests', requests) /\ Shorter(answers', answers)
        /\ Shorter(clientQueue', clientQueue)
    BY Zenon, <1>1 DEF Shorter
  <2> QED BY <2>1, OrderKept
<1>2. CASE answers' = Append(answers, a)
  <2>1. /\ Range(requests) = {g} \union Range(requests')
        /\ \A r \in Range(requests') : g < r
    <3>1. \A r \in Range(requests') : <<g, r>> \in GoalsRise
      BY RangeTail DEF OrderInv, Staged
    <3> QED BY <3>1, RangeTail DEF GoalsRise
  <2>2. a \in Answer /\ a.goal = g /\ g \in Goals
    BY <2>1 DEF Answer
  <2> HIDE DEF a, g
  <2>3. \A x \in Range(answers) : <<x, a>> \in AnswersRise
    BY <2>1, <2>2 DEF OrderInv, Staged, AnswersRise
  <2>4. Range(answers') = Range(answers) \union {a} /\ Sorted(answers', AnswersRise)
    <3>1. Sorted(answers, AnswersRise)
      BY DEF OrderInv, Staged
    <3>2. answers' = Append(answers, a)
      BY <1>2 DEF a
    <3>3. answers \in Seq(Answer)
      OBVIOUS
    <3>4. /\ Range(Append(answers, a)) = Range(answers) \union {a}
          /\ \A R : Sorted(answers, R) /\ (\A x \in Range(answers) : <<x, a>> \in R)
                   => Sorted(Append(answers, a), R)
      BY Zenon, <2>2, <3>3, RangeAppend
    <3> QED BY Zenon, <2>3, <3>1, <3>2, <3>4
  <2>5. Sorted(requests', GoalsRise)
    BY ShorterQueue DEF Shorter, OrderInv, Staged
  <2>6. Staged'
    BY <2>1, <2>2, <2>4, <2>5 DEF OrderInv, Staged
  <2>7. Held'
    BY DEF OrderInv, Held
  <2> QED BY <2>6, <2>7 DEF OrderInv
<1> QED BY <1>1, <1>2 DEF Answered

\* An event that answers no goal is posted for an accepted one.
LEMMA OrderPosted ==
  ASSUME TypeOK, OrderInv, NEW kind \in Ends \union {"feedback"}, NEW g \in Goals, g <= accepted,
         Post(kind, g), due' \subseteq due, tracked' \subseteq tracked,
         UNCHANGED <<requests, answers, sent, accepted, handle, ending>>
  PROVE  OrderInv'
<1> DEFINE e == [kind |-> kind, goal |-> g]
<1> USE ClientTypes
<1>1. e \in Event /\ e.kind \in Ends \union {"feedback"} /\ e.goal = g
  BY DEF Event, States, Finals
<1>2. clientQueue' = Append(clientQueue, e)
  BY DEF Post
<1> HIDE DEF e
<1>3. \A x \in Range(clientQueue) : <<x, e>> \in EventsRise
  BY <1>1 DEF EventsRise, Answering, Ends
<1>4. Range(clientQueue') = Range(clientQueue) \union {e} /\ Sorted(clientQueue', EventsRise)
  BY <1>1, <1>2, <1>3, RangeAppend DEF OrderInv, Staged
<1>5. Staged'
  <2>1. e.kind # "Rejected" /\ e.goal <= accepted /\ accepted <= sent
    BY <1>1 DEF Ends, OrderInv, Held
  <2>2. e.goal <= sent
    BY <1>1, <2>1
  <2>3. /\ \A a \in Range(answers) : e.goal < a.goal
        /\ \A r \in Range(requests) : e.goal < r
    BY <1>1, <2>1 DEF OrderInv, Staged, Answer
  <2> QED BY <1>4, <2>1, <2>2, <2>3 DEF OrderInv, Staged
<1>6. Held'
  BY DEF OrderInv, Held
<1> QED BY <1>5, <1>6 DEF OrderInv

\* The answer the executor takes is newer than every event, older than every
\* request and every other answer.
LEMMA AnswerAtHead ==
  ASSUME TypeOK, OrderInv, answers # <<>>
  PROVE  /\ Head(answers) \in Answer /\ Head(answers).goal \in Goals
         /\ Head(answers) \in Range(answers)
         /\ Range(answers) = {Head(answers)} \union Range(Tail(answers))
         /\ Range(Tail(answers)) \subseteq Answer
         /\ accepted < Head(answers).goal /\ Head(answers).goal <= sent
         /\ \A a \in Range(Tail(answers)) : Head(answers).goal < a.goal
         /\ \A r \in Range(requests) : Head(answers).goal < r
         /\ \A e \in Range(clientQueue) : e.goal < Head(answers).goal
<1>1. answers \in Seq(Answer) /\ Range(answers) \subseteq Answer
  BY ClientTypes
<1>2. Range(answers) = {Head(answers)} \union Range(Tail(answers))
  BY <1>1, RangeTail
<1>3. \A a \in Range(Tail(answers)) : Head(answers).goal < a.goal
  <2>1. \A a \in Range(Tail(answers)) : <<Head(answers), a>> \in AnswersRise
    BY <1>1, RangeTail DEF OrderInv, Staged
  <2> QED BY <2>1 DEF AnswersRise
<1>4. Head(answers) \in Answer /\ Head(answers) \in Range(answers)
  BY <1>1, <1>2
<1>5. Head(answers).goal \in Goals
  BY <1>4 DEF Answer
<1> QED BY <1>1, <1>2, <1>3, <1>4, <1>5 DEF OrderInv, Staged

\* The answer at the head is heard: its event is posted, and if the goal was
\* accepted the handle is its.
LEMMA OrderHeard ==
  ASSUME TypeOK, OrderInv, answers # <<>>, answers' = Tail(answers),
         UNCHANGED <<requests, sent, ending>>,
         \/ /\ accepted' = Head(answers).goal /\ handle' = accepted'
            /\ due' \union tracked' \subseteq due \union tracked \union {accepted'}
            /\ Post("Accepted", Head(answers).goal)
         \/ /\ UNCHANGED <<accepted, handle, due, tracked>>
            /\ Post("Rejected", Head(answers).goal)
  PROVE  OrderInv'
<1> DEFINE g == Head(answers).goal
<1>1. /\ g \in Goals /\ accepted < g /\ g <= sent
      /\ Range(answers') \subseteq Range(answers) /\ Range(answers') \subseteq Answer
      /\ \A a \in Range(answers') : g < a.goal
      /\ \A r \in Range(requests) : g < r
      /\ \A e \in Range(clientQueue) : e.goal < g
  BY AnswerAtHead
<1> HIDE DEF g
<1>2. PICK e \in Event : /\ clientQueue' = Append(clientQueue, e) /\ e.goal = g
                         /\ e.kind # "Rejected" => g = accepted'
  <2>1. CASE accepted' = g /\ Post("Accepted", g)
    <3> DEFINE e == [kind |-> "Accepted", goal |-> g]
    <3>1. e \in Event /\ e.goal = g
      BY <1>1 DEF Event, States, Finals
    <3>2. clientQueue' = Append(clientQueue, e)
      BY <2>1 DEF Post
    <3> HIDE DEF e
    <3> QED BY <2>1, <3>1, <3>2
  <2>2. CASE Post("Rejected", g)
    <3> DEFINE e == [kind |-> "Rejected", goal |-> g]
    <3>1. e \in Event /\ e.goal = g /\ e.kind = "Rejected"
      BY <1>1 DEF Event, States, Finals
    <3>2. clientQueue' = Append(clientQueue, e)
      BY <2>2 DEF Post
    <3> HIDE DEF e
    <3> QED BY <3>1, <3>2
  <2> QED BY <2>1, <2>2 DEF g
<1>3. /\ clientQueue \in Seq(Event) /\ answers \in Seq(Answer) /\ Range(requests) \subseteq Goals
      /\ Range(clientQueue) \subseteq Event
      /\ Goals \subseteq Nat /\ sent \in Nat /\ accepted \in Nat /\ ending \in Nat
      /\ due \subseteq Goals /\ tracked \subseteq Goals
  BY ClientTypes
<1>4. /\ Range(clientQueue') = Range(clientQueue) \union {e}
      /\ Sorted(clientQueue', EventsRise)
  <2>1. \A x \in Range(clientQueue) : <<x, e>> \in EventsRise
    BY <1>1, <1>2, <1>3 DEF EventsRise
  <2>2. Sorted(clientQueue, EventsRise)
    BY DEF OrderInv, Staged
  <2>3. /\ Range(Append(clientQueue, e)) = Range(clientQueue) \union {e}
        /\ \A R : Sorted(clientQueue, R) /\ (\A x \in Range(clientQueue) : <<x, e>> \in R)
                 => Sorted(Append(clientQueue, e), R)
    BY Zenon, <1>2, <1>3, RangeAppend
  <2> QED BY <1>2, <2>1, <2>2, <2>3
<1>5. Sorted(answers', AnswersRise)
  BY <1>3, ShorterQueue DEF Shorter, OrderInv, Staged
<1>6. accepted' \in {accepted, g} /\ handle' \in {0, accepted'}
  BY DEF OrderInv, Held, g
<1>7. Staged'
  <2>1. /\ \A x \in Range(clientQueue') : x.goal <= sent /\ (x.kind # "Rejected" => x.goal <= accepted')
        /\ \A x \in Range(clientQueue'), a \in Range(answers') : x.goal < a.goal
        /\ \A x \in Range(clientQueue'), r \in Range(requests) : x.goal < r
    <3>1. \A x \in Range(clientQueue) : x.goal \in Nat
      BY <1>3 DEF Event
    <3>2. \A x \in Range(clientQueue) : x.goal <= sent /\ (x.kind # "Rejected" => x.goal <= accepted')
      BY <1>1, <1>3, <1>6, <3>1 DEF OrderInv, Staged
    <3>3. accepted' <= g
      BY <1>1, <1>3, <1>6
    <3>4. e.goal <= sent /\ (e.kind # "Rejected" => e.goal <= accepted')
      BY <1>1, <1>2, <1>3
    <3>5. /\ \A x \in Range(clientQueue), a \in Range(answers') : x.goal < a.goal
          /\ \A x \in Range(clientQueue), r \in Range(requests) : x.goal < r
      BY <1>1 DEF OrderInv, Staged
    <3> QED BY <1>1, <1>2, <1>4, <3>2, <3>4, <3>5
  <2>2. /\ \A r \in Range(requests) : accepted' < r /\ r <= sent
        /\ \A a \in Range(answers') : accepted' < a.goal /\ a.goal <= sent
        /\ \A a \in Range(answers'), r \in Range(requests) : a.goal < r
    BY <1>1, <1>6 DEF OrderInv, Staged
  <2> QED BY <1>4, <1>5, <2>1, <2>2 DEF OrderInv, Staged
<1>8. Held'
  <2>1. accepted' >= accepted /\ accepted' <= sent
    BY <1>1, <1>3, <1>6 DEF OrderInv, Held
  <2>2. ASSUME NEW x \in due' \union tracked' PROVE x <= accepted'
    <3>1. x \in due \union tracked \/ x = accepted'
      OBVIOUS
    <3>2. x \in due \union tracked => x \in Nat /\ x <= accepted
      BY <1>3 DEF OrderInv, Held
    <3>3. accepted' \in Nat
      BY <1>1, <1>3, <1>6
    <3> QED BY <1>3, <2>1, <3>1, <3>2, <3>3
  <2> QED BY <1>1, <1>3, <1>6, <2>1, <2>2 DEF OrderInv, Held
<1> QED BY <1>7, <1>8 DEF OrderInv

\* A goal is sent: it is newer than all others, and its request may be lost.
LEMMA OrderSent ==
  ASSUME TypeOK, OrderInv, sent' = sent + 1, sent' \in Goals,
         requests' = Append(requests, sent') \/ requests' = requests,
         UNCHANGED <<answers, clientQueue, due, tracked, accepted, handle, ending>>
  PROVE  OrderInv'
<1>1. /\ requests \in Seq(Goals) /\ Range(requests) \subseteq Goals
      /\ Range(answers) \subseteq Answer /\ Range(clientQueue) \subseteq Event
      /\ Goals \subseteq Nat /\ sent \in Nat /\ accepted \in Nat
  BY ClientTypes
<1>2. /\ \A r \in Range(requests) : r <= sent' /\ r < sent'
      /\ \A a \in Range(answers) : a.goal <= sent' /\ a.goal < sent'
      /\ \A e \in Range(clientQueue) : e.goal <= sent' /\ e.goal < sent'
      /\ accepted < sent' /\ accepted <= sent'
  <2>1. \A n \in Nat : n <= sent => n <= sent' /\ n < sent'
    BY <1>1
  <2>2. \A r \in Range(requests) : r \in Nat /\ r <= sent
    BY <1>1 DEF OrderInv, Staged
  <2>3. \A a \in Range(answers) : a.goal \in Nat /\ a.goal <= sent
    BY <1>1 DEF OrderInv, Staged, Answer
  <2>4. \A e \in Range(clientQueue) : e.goal \in Nat /\ e.goal <= sent
    BY <1>1 DEF OrderInv, Staged, Event
  <2>5. accepted <= sent
    BY DEF OrderInv, Held
  <2> QED BY <1>1, <2>1, <2>2, <2>3, <2>4, <2>5
<1>3. \/ Range(requests') = Range(requests)
      \/ Range(requests') = Range(requests) \union {sent'}
  <2>1. Range(Append(requests, sent')) = Range(requests) \union {sent'}
    BY <1>1, RangeAppend
  <2> QED BY <2>1
<1>4. Sorted(requests', GoalsRise)
  <2>1. Sorted(requests, GoalsRise)
    BY DEF OrderInv, Staged
  <2>2. \A r \in Range(requests) : <<r, sent'>> \in GoalsRise
    BY <1>1, <1>2 DEF GoalsRise
  <2>3. \A R : Sorted(requests, R) /\ (\A r \in Range(requests) : <<r, sent'>> \in R)
               => Sorted(Append(requests, sent'), R)
    BY Zenon, <1>1, RangeAppend
  <2> QED BY Zenon, <2>1, <2>2, <2>3
<1>5. Staged'
  <2>1. \A r \in Range(requests') : r \in Range(requests) \/ r = sent'
    BY <1>3
  <2>2. \A r \in Range(requests') : accepted < r /\ r <= sent'
    BY <1>1, <1>2, <2>1 DEF OrderInv, Staged
  <2>3. /\ \A a \in Range(answers), r \in Range(requests') : a.goal < r
        /\ \A e \in Range(clientQueue), r \in Range(requests') : e.goal < r
    BY <1>2, <2>1 DEF OrderInv, Staged
  <2> QED BY <1>2, <1>4, <2>2, <2>3 DEF OrderInv, Staged
<1>6. Held'
  BY <1>2 DEF OrderInv, Held
<1> QED BY <1>5, <1>6 DEF OrderInv

\* The order holds in every reachable state.
THEOREM OrderCorrect == Spec => []OrderInv
<1> USE DEF goalVars, trackVars, wireVars, actionBoundVars, viewVars, linkVars, pastVars
<1>1. Init => OrderInv
  <2> SUFFICES ASSUME Init PROVE OrderInv
    OBVIOUS
  <2>1. Range(<<>>) = {} /\ \A R : Sorted(<<>>, R)
    BY DEF Range, Sorted
  <2>2. /\ requests = <<>> /\ answers = <<>> /\ clientQueue = <<>> /\ due = {} /\ tracked = {}
        /\ accepted = 0 /\ sent = 0 /\ ending = 0 /\ handle = 0
    BY DEF Init, WireInit, ClientInit
  <2> QED BY <2>1, <2>2 DEF OrderInv, Staged, Held
<1>2. TypeOK /\ OrderInv /\ [Next]_vars => OrderInv'
  <2> SUFFICES ASSUME TypeOK, OrderInv, [Next]_vars PROVE OrderInv'
    OBVIOUS
  \* The steps after which there is no more in the queues than before.
  <2>1. ASSUME UNCHANGED <<sent, accepted>>, handle' \in {0, handle},
               ending' \in {0, ending, handle}, due' \subseteq due, tracked' \subseteq tracked,
               \/ requests' = requests \/ requests' = <<>>
               \/ requests # <<>> /\ requests' = Tail(requests),
               answers' = answers \/ answers' = <<>>,
               clientQueue' = clientQueue \/ (clientQueue # <<>> /\ clientQueue' = Tail(clientQueue))
        PROVE  OrderInv'
    <3>1. /\ Shorter(requests', requests) /\ Shorter(answers', answers)
          /\ Shorter(clientQueue', clientQueue)
      BY Zenon, <2>1 DEF Shorter
    <3> QED BY <2>1, <3>1, OrderKept
  <2>2. CASE ClientStep /\ SendGoal
    <3>1. sent < MaxGoals /\ sent' = sent + 1
      BY <2>2 DEF SendGoal
    <3>2. sent' \in Goals
      BY <3>1, ClientTypes, ActionBoundsAssumption DEF Goals
    <3>3. /\ requests' = Append(requests, sent') \/ requests' = requests
          /\ UNCHANGED <<answers, clientQueue, due, tracked, accepted, handle, ending>>
      BY <2>2 DEF SendGoal
    <3> QED BY <3>1, <3>2, <3>3, OrderSent
  <2>3. CASE ClientStep /\ TakeAnswer
    <3>1. /\ answers # <<>> /\ answers' = Tail(answers) /\ UNCHANGED <<requests, sent, ending>>
          /\ \/ /\ accepted' = Head(answers).goal /\ handle' = accepted'
                /\ due' \union tracked' \subseteq due \union tracked \union {accepted'}
                /\ Post("Accepted", Head(answers).goal)
             \/ /\ UNCHANGED <<accepted, handle, due, tracked>>
                /\ Post("Rejected", Head(answers).goal)
      BY <2>3 DEF TakeAnswer
    <3> QED BY <3>1, OrderHeard
  <2>4. ASSUME NEW g \in Goals, ClientStep, TakeFeedback(g) PROVE OrderInv'
    <3>1. UNCHANGED <<requests, answers, sent, accepted, handle, ending, due, tracked>>
      BY <2>4 DEF TakeFeedback
    <3>2. CASE g \in tracked /\ Post("feedback", g)
      <4>1. g <= accepted
        BY <3>2 DEF OrderInv, Held
      <4> QED BY <3>1, <3>2, <4>1, OrderPosted
    <3>3. CASE clientQueue' = clientQueue
      BY <3>1, <3>3, <2>1
    <3> QED BY <2>4, <3>2, <3>3 DEF TakeFeedback
  <2>5. ASSUME NEW g \in Goals, ClientStep, TakeResult(g) PROVE OrderInv'
    <3>1. /\ UNCHANGED <<requests, answers, sent, accepted, handle, ending>>
          /\ due' \subseteq due /\ tracked' \subseteq tracked
      BY <2>5 DEF TakeResult
    <3>2. CASE Post(ResultCode(g), g)
      <4>1. g <= accepted /\ ResultCode(g) \in Ends \union {"feedback"}
        BY <2>5 DEF TakeResult, OrderInv, Held
      <4> QED BY <3>1, <3>2, <4>1, OrderPosted
    <3>3. CASE clientQueue' = clientQueue
      BY <3>1, <3>3, <2>1
    <3> QED BY <2>5, <3>2, <3>3 DEF TakeResult
  <2>6. ASSUME ClientStep,
               \/ RunAnswer \/ RunFeedback \/ RunEnd \/ ResetHandle \/ CancelGoal
               \/ CheckClientHealth \/ Discover
        PROVE  OrderInv'
    <3>1. /\ UNCHANGED <<requests, answers, sent, accepted, due, tracked>>
          /\ handle' \in {0, handle}
          /\ clientQueue' = clientQueue \/ (clientQueue # <<>> /\ clientQueue' = Tail(clientQueue))
      BY <2>6 DEF RunAnswer, RunFeedback, RunEnd, NextEvent, ResetHandle, HandleAfterEnd,
           CancelGoal, CheckClientHealth, Discover, clientVars
    <3>2. ending' \in {0, ending, handle}
      BY <2>6 DEF RunAnswer, RunFeedback, RunEnd, IsCurrent, ResetHandle,
           CancelGoal, CheckClientHealth, Discover, clientVars
    <3> QED BY <3>1, <3>2, <2>1
  <2>7. ASSUME ClientStep, SetupClient \/ ClearClient PROVE OrderInv'
    <3>1. PICK present \in BOOLEAN : ReplaceClient(present)
      BY Zenon, <2>7 DEF SetupClient, ClearClient
    <3>2. /\ UNCHANGED <<sent, accepted, handle, ending, clientQueue>> /\ due' = {} /\ tracked' = {}
          /\ requests' = requests \/ requests' = <<>>
          /\ answers' = <<>>
      BY <3>1 DEF ReplaceClient
    <3> QED BY <3>2, <2>1
  <2>8. ASSUME ServerStep, AcceptGoal \/ DeclineGoal PROVE OrderInv'
    <3>1. UNCHANGED <<clientQueue, sent, accepted, handle, ending, due, tracked>>
      BY <2>8 DEF ServerStep, clientVars, AcceptGoal, DeclineGoal
    <3>2. PICK b \in BOOLEAN : answers' = Answered(Head(requests), b)
      BY <2>8 DEF AcceptGoal, DeclineGoal
    <3>3. requests # <<>> /\ requests' = Tail(requests)
      BY <2>8 DEF AcceptGoal, DeclineGoal
    <3> QED BY <3>1, <3>2, <3>3, OrderAnswered
  <2>9. ASSUME ServerStep, SetupServer \/ ClearServer PROVE OrderInv'
    <3>1. PICK present \in BOOLEAN : ReplaceServer(present)
      BY Zenon, <2>9 DEF SetupServer, ClearServer
    <3>2. due' = {} /\ requests' = <<>> /\ UNCHANGED <<tracked, answers>>
      BY <3>1 DEF ReplaceServer
    <3>3. UNCHANGED <<clientQueue, sent, accepted, handle, ending>>
      BY <2>9 DEF ServerStep, clientVars
    <3> QED BY <3>2, <3>3, <2>1
  <2>10. ASSUME ServerStep,
                \/ FinishCancel \/ DispatchAccepted \/ RouteCancel \/ CheckServerHealth
                \/ \E g \in Goals : AcceptCancel(g) \/ Canceled(g) \/ PublishFeedback(g)
                \/ \E g \in Goals, end \in {"Succeeded", "Aborted"} : EndGoal(g, end)
         PROVE  OrderInv'
    <3>1. UNCHANGED <<requests, answers, due, tracked>>
      BY <2>10 DEF FinishCancel, DispatchAccepted, RouteCancel, CheckServerHealth,
           AcceptCancel, Canceled, PublishFeedback, EndGoal
    <3>2. UNCHANGED <<clientQueue, sent, accepted, handle, ending>>
      BY <2>10 DEF ServerStep, clientVars
    <3> QED BY <3>1, <3>2, <2>1
  <2>11. CASE UNCHANGED vars
    BY <2>11, <2>1 DEF vars, clientVars
  <2> QED
    BY <2>2, <2>3, <2>4, <2>5, <2>6, <2>7, <2>8, <2>9, <2>10, <2>11 DEF Next
<1> QED BY <1>1, <1>2, TypeCorrect, PTL DEF Spec

\* What still arrives of a goal older than the newest accepted one changes neither
\* the state nor the feedback: the executor has given the handle away before the
\* event loop gets to the event, however the two are interleaved.
THEOREM SupersededCorrect == Spec => SupersededGoalsSilent
<1> USE DEF goalVars, trackVars, wireVars, actionBoundVars, viewVars, linkVars, pastVars
<1>1. TypeOK /\ OrderInv /\ [Next]_vars =>
        [/\ clientQueue # <<>>
         /\ clientQueue' = Tail(clientQueue)
         /\ Head(clientQueue).kind \in Ends \union {"feedback"}
         /\ Head(clientQueue).goal < accepted
         => UNCHANGED viewVars]_vars
  <2> SUFFICES ASSUME TypeOK, OrderInv, Next, clientQueue # <<>>,
                      clientQueue' = Tail(clientQueue),
                      Head(clientQueue).kind \in Ends \union {"feedback"},
                      Head(clientQueue).goal < accepted
               PROVE  UNCHANGED viewVars
    OBVIOUS
  <2>1. ~IsCurrent(Head(clientQueue).goal)
    <3>1. Head(clientQueue).goal \in Goals
      <4>1. clientQueue \in Seq(Event)
        BY ClientTypes
      <4>2. Head(clientQueue) \in Event
        BY <4>1, QueueTail
      <4> QED BY <4>2 DEF Event
    <3> QED BY <3>1, ClientTypes DEF IsCurrent, OrderInv, Held
  <2>2. clientQueue' # clientQueue
    <3>1. Len(Tail(clientQueue)) # Len(clientQueue)
      <4>1. clientQueue \in Seq(Event)
        BY ClientTypes
      <4> QED BY <4>1
    <3> QED BY <3>1
  <2>3. CASE SendGoal \/ RunAnswer
    BY <2>2, <2>3 DEF SendGoal, RunAnswer, NextEvent, Ends
  <2>4. CASE RunFeedback \/ RunEnd
    BY <2>1, <2>4 DEF RunFeedback, RunEnd
  <2>5. CASE TakeAnswer \/ \E g \in Goals : TakeFeedback(g) \/ TakeResult(g)
    BY <2>5 DEF TakeAnswer, TakeFeedback, TakeResult
  <2>6. CASE ResetHandle \/ CancelGoal \/ CheckClientHealth \/ Discover
    BY <2>6 DEF ResetHandle, CancelGoal, CheckClientHealth, Discover, clientVars
  <2>7. CASE SetupClient \/ ClearClient
    BY <2>7 DEF SetupClient, ClearClient, ReplaceClient
  <2>8. CASE ServerStep
    BY <2>8 DEF ServerStep, clientVars
  <2> QED BY <2>3, <2>4, <2>5, <2>6, <2>7, <2>8 DEF Next
<1> QED BY <1>1, TypeCorrect, OrderCorrect, PTL DEF Spec, SupersededGoalsSilent

-----------------------------------------------------------------------------
(* What the client's queues know of the server's goals.                    *)

\* A step neither changes how a goal ended nor takes back that it was answered.
LEMMA StatusFinal ==
  ASSUME TypeOK, LifeInv, [Next]_vars, NEW g \in Goals
  PROVE  /\ status[g] \in Ends \union {"declined"} => status'[g] = status[g]
         /\ status[g] # "none" => status'[g] # "none"
         /\ status[g] = "canceling" => status'[g] # "executing"
<1>1. status \in [Goals -> Statuses]
  BY DEF TypeOK, WireTypeOK
<1>2. CASE status' = status
  BY <1>2
<1>3. CASE Lifecycle!Next
  <2>1. PICK h \in Goals, to \in Statuses :
               /\ status' = [status EXCEPT ![h] = to] /\ to # "none"
               /\ status[h] \in {"none", "executing", "canceling"}
               /\ status[h] = "canceling" => to # "executing"
    BY <1>3 DEF Lifecycle!Next, Lifecycle!Answer, Lifecycle!RequestCancel, Lifecycle!End,
         Lifecycle!Move, Lifecycle!Ends, Statuses, Ends
  <2> QED BY <1>1, <2>1 DEF Ends
<1> QED BY <1>2, <1>3, LifeStep

\* An answer on its way, an event that waits and a result asked for are of goals
\* the server knows and say what became of them, unless the connection on which
\* the goal was sent is gone; and every goal was sent on this one or is cut.
KnownInv ==
  /\ ~server => known = {} /\ due = {}
  /\ \A g \in 1..sent : g \in mine \union cut
  /\ due \subseteq known \union cut
  /\ \A a \in Range(answers) :
       IF a.accepted THEN a.goal \in known \union cut ELSE status[a.goal] = "declined"
  /\ \A e \in Range(clientQueue) :
       /\ e.kind \in Ends => e.goal \in cut \/ status[e.goal] = e.kind
       /\ e.kind = "Rejected" => status[e.goal] = "declined"

\* The invariant survives while nothing is added to the queues and no known goal
\* is forgotten without being cut.
LEMMA KnownKept ==
  ASSUME TypeOK, LifeInv, [Next]_vars, KnownInv,
         ~server' => known' = {} /\ due' = {},
         known \union cut \subseteq known' \union cut', cut \subseteq cut',
         mine \union cut \subseteq mine' \union cut', sent' = sent,
         due' \subseteq due,
         Range(answers') \subseteq Range(answers),
         Range(clientQueue') \subseteq Range(clientQueue)
  PROVE  KnownInv'
<1>1. \A a \in Range(answers) : a.goal \in Goals
  BY ClientTypes DEF Answer
<1>2. \A e \in Range(clientQueue) : e.goal \in Goals
  BY ClientTypes DEF Event
<1>3. \A g \in Goals : status[g] \in Ends \union {"declined"} => status'[g] = status[g]
  BY StatusFinal
<1>4. \A a \in Range(answers') :
        IF a.accepted THEN a.goal \in known' \union cut' ELSE status'[a.goal] = "declined"
  BY <1>1, <1>3 DEF KnownInv
<1>5. \A e \in Range(clientQueue') :
        /\ e.kind \in Ends => e.goal \in cut' \/ status'[e.goal] = e.kind
        /\ e.kind = "Rejected" => status'[e.goal] = "declined"
  BY <1>2, <1>3 DEF KnownInv
<1>6. /\ \A g \in 1..sent' : g \in mine' \union cut'
      /\ due' \subseteq known' \union cut'
  BY DEF KnownInv
<1> QED BY <1>4, <1>5, <1>6 DEF KnownInv

\* A goal is answered.
LEMMA KnownAnswered ==
  ASSUME TypeOK, LifeInv, [Next]_vars, KnownInv, NEW g \in Goals, NEW b \in BOOLEAN,
         answers' = Answered(g, b), b => g \in known', ~b => status'[g] = "declined",
         server, UNCHANGED <<server, cut, mine, sent, due, clientQueue>>, known \subseteq known'
  PROVE  KnownInv'
<1>1. \A a \in Range(answers) : a.goal \in Goals
  BY ClientTypes DEF Answer
<1>2. \A e \in Range(clientQueue) : e.goal \in Goals
  BY ClientTypes DEF Event
<1>3. \A h \in Goals : status[h] \in Ends \union {"declined"} => status'[h] = status[h]
  BY StatusFinal
<1>4. ASSUME NEW a \in Range(answers')
      PROVE  IF a.accepted THEN a.goal \in known' \union cut' ELSE status'[a.goal] = "declined"
  <2> DEFINE x == [goal |-> g, accepted |-> b]
  <2>1. x \in Answer /\ answers \in Seq(Answer) /\ x.goal = g /\ x.accepted = b
    BY ClientTypes DEF Answer
  <2>2. answers' = Append(answers, x) \/ answers' = answers
    BY DEF Answered
  <2> HIDE DEF x
  <2>3. a \in Range(answers) \/ a = x
    <3>1. Range(Append(answers, x)) = Range(answers) \union {x}
      BY <2>1, RangeAppend
    <3> QED BY <2>2, <3>1
  <2> QED BY <1>1, <1>3, <2>1, <2>3 DEF KnownInv
<1>5. \A e \in Range(clientQueue') :
        /\ e.kind \in Ends => e.goal \in cut' \/ status'[e.goal] = e.kind
        /\ e.kind = "Rejected" => status'[e.goal] = "declined"
  BY <1>2, <1>3 DEF KnownInv
<1> QED BY <1>4, <1>5 DEF KnownInv

\* An event is posted that says what became of its goal.
LEMMA KnownPosted ==
  ASSUME TypeOK, KnownInv, NEW kind \in States \union {"feedback"}, NEW g \in Goals, Post(kind, g),
         kind \in Ends => g \in cut \/ status[g] = kind,
         kind = "Rejected" => status[g] = "declined",
         UNCHANGED <<server, known, status, mine, cut, sent>>,
         Range(answers') \subseteq Range(answers),
         due' \subseteq due \union {g}, g \in due' \ due => server /\ g \in known \union cut
  PROVE  KnownInv'
<1> DEFINE x == [kind |-> kind, goal |-> g]
<1>1. x \in Event /\ clientQueue \in Seq(Event) /\ x.kind = kind /\ x.goal = g
  BY ClientTypes DEF Event
<1>2. clientQueue' = Append(clientQueue, x)
  BY DEF Post
<1> HIDE DEF x
<1>3. Range(clientQueue') = Range(clientQueue) \union {x}
  BY <1>1, <1>2, RangeAppend
<1>4. \A e \in Range(clientQueue') :
        /\ e.kind \in Ends => e.goal \in cut' \/ status'[e.goal] = e.kind
        /\ e.kind = "Rejected" => status'[e.goal] = "declined"
  BY <1>1, <1>3 DEF KnownInv
<1>5. /\ ~server' => known' = {} /\ due' = {}
      /\ due' \subseteq known' \union cut'
  BY DEF KnownInv
<1> QED BY <1>4, <1>5 DEF KnownInv

\* What the queues say is true in every reachable state.
THEOREM KnownCorrect == Spec => []KnownInv
<1> USE DEF goalVars, trackVars, wireVars, actionBoundVars, viewVars, linkVars, pastVars
<1>1. Init => KnownInv
  <2> SUFFICES ASSUME Init PROVE KnownInv
    OBVIOUS
  <2>1. Range(<<>>) = {} /\ 1..0 = {}
    BY DEF Range
  <2>2. /\ answers = <<>> /\ clientQueue = <<>> /\ due = {} /\ known = {} /\ sent = 0
    BY DEF Init, WireInit, ClientInit
  <2> QED BY <2>1, <2>2 DEF KnownInv
<1>2. TypeOK /\ LifeInv /\ KnownInv /\ [Next]_vars => KnownInv'
  <2> SUFFICES ASSUME TypeOK, LifeInv, KnownInv, [Next]_vars PROVE KnownInv'
    OBVIOUS
  <2>a. /\ clientQueue \in Seq(Event) /\ answers \in Seq(Answer) /\ sent \in Nat
        /\ Range(<<>>) = {}
    BY ClientTypes DEF Range
  <2>b. ~server => known = {} /\ due = {}
    BY DEF KnownInv
  <2>1. CASE ClientStep /\ SendGoal
    <3>1. /\ UNCHANGED <<server, known, status, due, answers, clientQueue, cut>>
          /\ sent' = sent + 1 /\ mine' = mine \union {sent'}
      BY <2>1 DEF SendGoal
    <3>2. \A g \in 1..sent' : g \in 1..sent \/ g = sent'
      BY <3>1, <2>a
    <3> QED BY <3>1, <3>2 DEF KnownInv
  <2>2. CASE ClientStep /\ TakeAnswer
    <3> DEFINE h == Head(answers)
    <3>1. /\ answers # <<>> /\ answers' = Tail(answers)
          /\ UNCHANGED <<server, known, status, mine, cut, sent>>
          /\ \/ /\ h.accepted /\ Post("Accepted", h.goal)
                /\ due' = IF server THEN due \union {h.goal} ELSE due
             \/ ~h.accepted /\ Post("Rejected", h.goal) /\ due' = due
      BY <2>2 DEF TakeAnswer
    <3>2. h \in Range(answers) /\ h.goal \in Goals
      <4>1. h \in Range(answers)
        BY <2>a, <3>1, RangeTail
      <4> QED BY <4>1, ClientTypes DEF Answer
    <3>3. Range(answers') \subseteq Range(answers)
      BY <2>a, <3>1, RangeTail
    <3>4. IF h.accepted THEN h.goal \in known \union cut ELSE status[h.goal] = "declined"
      BY <3>2 DEF KnownInv
    <3> HIDE DEF h
    <3>5. /\ {"Accepted", "Rejected"} \subseteq States \union {"feedback"}
          /\ "Accepted" \notin Ends /\ "Rejected" \notin Ends
      BY DEF States, Finals, Ends
    <3> QED BY <3>1, <3>2, <3>3, <3>4, <3>5, KnownPosted
  <2>3. ASSUME NEW g \in Goals, ClientStep, TakeFeedback(g) PROVE KnownInv'
    <3>1. UNCHANGED <<server, known, status, answers, mine, cut, sent, due>>
      BY <2>3 DEF TakeFeedback
    <3>2. CASE Post("feedback", g)
      <4>1. "feedback" \notin Ends
        BY DEF Ends
      <4> QED BY <3>1, <3>2, <4>1, KnownPosted
    <3>3. CASE clientQueue' = clientQueue
      BY <3>1, <3>3, <2>b, KnownKept
    <3> QED BY <2>3, <3>2, <3>3 DEF TakeFeedback
  <2>4. ASSUME NEW g \in Goals, ClientStep, TakeResult(g) PROVE KnownInv'
    <3>1. /\ UNCHANGED <<server, known, status, answers, mine, cut, sent>>
          /\ due' \subseteq due /\ ResultCode(g) \in Ends /\ g \in due
      BY <2>4 DEF TakeResult
    <3>2. CASE Post(ResultCode(g), g)
      <4>1. g \in cut \/ status[g] = ResultCode(g)
        BY <3>1 DEF KnownInv, ResultCode
      <4>2. ResultCode(g) \in States \union {"feedback"} /\ ResultCode(g) # "Rejected"
        BY <3>1 DEF States, Finals, Ends
      <4> QED BY <3>1, <3>2, <4>1, <4>2, KnownPosted
    <3>3. CASE clientQueue' = clientQueue
      BY <3>1, <3>3, <2>b, KnownKept
    <3> QED BY <2>4, <3>2, <3>3 DEF TakeResult
  <2>5. ASSUME ClientStep,
               \/ RunAnswer \/ RunFeedback \/ RunEnd \/ ResetHandle \/ CancelGoal
               \/ CheckClientHealth \/ Discover
        PROVE  KnownInv'
    <3>1. /\ UNCHANGED <<server, known, status, answers, mine, cut, sent, due>>
          /\ clientQueue' = clientQueue \/ (clientQueue # <<>> /\ clientQueue' = Tail(clientQueue))
      BY <2>5 DEF RunAnswer, RunFeedback, RunEnd, NextEvent, ResetHandle,
           CancelGoal, CheckClientHealth, Discover, clientVars
    <3>2. Range(clientQueue') \subseteq Range(clientQueue)
      BY <3>1, <2>a, RangeTail
    <3> QED BY <3>1, <3>2, <2>b, KnownKept
  <2>6. ASSUME ClientStep, SetupClient \/ ClearClient PROVE KnownInv'
    <3>1. PICK present \in BOOLEAN : ReplaceClient(present)
      BY Zenon, <2>6 DEF SetupClient, ClearClient
    <3>2. /\ UNCHANGED <<server, known, status, sent, clientQueue>> /\ due' = {}
          /\ mine' = {} /\ cut' = cut \union 1..sent /\ answers' = <<>>
      BY <3>1 DEF ReplaceClient
    <3>3. \A e \in Range(clientQueue') :
            /\ e.kind \in Ends => e.goal \in cut' \/ status'[e.goal] = e.kind
            /\ e.kind = "Rejected" => status'[e.goal] = "declined"
      BY <3>2 DEF KnownInv
    <3> QED BY <3>2, <3>3, <2>a, <2>b DEF KnownInv
  <2>7. CASE ServerStep /\ AcceptGoal
    <3> DEFINE g == Head(requests)
    <3>1. /\ server /\ requests # <<>> /\ answers' = Answered(g, TRUE)
          /\ known' = known \union {g}
          /\ UNCHANGED <<server, cut, mine, sent, due, clientQueue>>
      BY <2>7 DEF ServerStep, AcceptGoal, clientVars
    <3>2. g \in Goals
      BY <3>1, ClientTypes, QueueTail
    <3> QED BY <3>1, <3>2, KnownAnswered
  <2>8. CASE ServerStep /\ DeclineGoal
    <3> DEFINE g == Head(requests)
    <3>1. /\ server /\ requests # <<>> /\ answers' = Answered(g, FALSE)
          /\ known' = known /\ status' = [status EXCEPT ![g] = "declined"]
          /\ UNCHANGED <<server, cut, mine, sent, due, clientQueue>>
      BY <2>8 DEF ServerStep, DeclineGoal, clientVars
    <3>2. g \in Goals
      BY <3>1, ClientTypes, QueueTail
    <3>3. status'[g] = "declined"
      BY <3>1, <3>2 DEF TypeOK, WireTypeOK
    <3> QED BY <3>1, <3>2, <3>3, KnownAnswered
  <2>9. ASSUME ServerStep, SetupServer \/ ClearServer PROVE KnownInv'
    <3>1. PICK present \in BOOLEAN : ReplaceServer(present)
      BY Zenon, <2>9 DEF SetupServer, ClearServer
    <3>2. /\ known' = {} /\ due' = {} /\ UNCHANGED <<mine, answers>>
          /\ cut' = IF server THEN cut \union {g \in Goals : g \in mine \union known} ELSE cut
      BY <3>1 DEF ReplaceServer
    <3>3. UNCHANGED <<sent, clientQueue>>
      BY <2>9 DEF ServerStep, clientVars
    <3>4. cut \subseteq cut' /\ known \subseteq cut'
      BY <3>2, <2>b DEF TypeOK, WireTypeOK
    <3> QED BY <3>2, <3>3, <3>4, KnownKept
  <2>10. ASSUME ServerStep,
                \/ FinishCancel \/ DispatchAccepted \/ RouteCancel \/ CheckServerHealth
                \/ \E g \in Goals : AcceptCancel(g) \/ Canceled(g) \/ PublishFeedback(g)
                \/ \E g \in Goals, end \in {"Succeeded", "Aborted"} : EndGoal(g, end)
         PROVE  KnownInv'
    <3>1. UNCHANGED <<server, known, answers, due, mine, cut>>
      BY <2>10 DEF FinishCancel, DispatchAccepted, RouteCancel, CheckServerHealth,
           AcceptCancel, Canceled, PublishFeedback, EndGoal
    <3>2. UNCHANGED <<clientQueue, sent>>
      BY <2>10 DEF ServerStep, clientVars
    <3> QED BY <3>1, <3>2, <2>b, KnownKept
  <2>11. CASE UNCHANGED vars
    BY <2>11, <2>b, KnownKept DEF vars, clientVars
  <2> QED
    BY <2>1, <2>2, <2>3, <2>4, <2>5, <2>6, <2>7, <2>8, <2>9, <2>10, <2>11 DEF Next
<1> QED BY <1>1, <1>2, TypeCorrect, LifeCorrect, PTL DEF Spec

-----------------------------------------------------------------------------
(* Promises.                                                               *)

\* PromiseTellsOutcome says when a rejection of a goal that succeeded is
\* justified; here is what justifies any rejection.
PromiseInv ==
  \A g \in Goals :
    /\ promise[g] = "resolved" => status[g] = "Succeeded"
    /\ promise[g] = "rejected" =>
         status[g] \in {"declined", "Canceled", "Aborted"} \/ accepted > g \/ g \in cut

\* A promise settled earlier stays justified.
LEMMA PromiseKept ==
  ASSUME TypeOK, LifeInv, [Next]_vars, PromiseInv, NEW g \in Goals, promise'[g] = promise[g],
         accepted' \in Nat, accepted <= accepted', cut \subseteq cut'
  PROVE  /\ promise'[g] = "resolved" => status'[g] = "Succeeded"
         /\ promise'[g] = "rejected" =>
              status'[g] \in {"declined", "Canceled", "Aborted"} \/ accepted' > g \/ g \in cut'
<1>1. /\ promise[g] = "resolved" => status[g] = "Succeeded"
      /\ promise[g] = "rejected" =>
           status[g] \in {"declined", "Canceled", "Aborted"} \/ accepted > g \/ g \in cut
  BY DEF PromiseInv
<1>2. status[g] \in Ends \union {"declined"} => status'[g] = status[g]
  BY StatusFinal
<1>3. accepted > g => accepted' > g
  BY ClientTypes
<1> QED BY <1>1, <1>2, <1>3 DEF Ends

\* Promises are kept in every reachable state.
THEOREM PromisesCorrect == Spec => []PromiseTellsOutcome
<1> USE DEF goalVars, trackVars, wireVars, actionBoundVars, viewVars, linkVars, pastVars
<1>1. Init => PromiseInv
  BY DEF Init, ClientInit, PromiseInv
<1>2. TypeOK /\ LifeInv /\ OrderInv /\ KnownInv /\ PromiseInv /\ [Next]_vars => PromiseInv'
  <2> SUFFICES ASSUME TypeOK, LifeInv, OrderInv, KnownInv, PromiseInv, [Next]_vars
               PROVE  PromiseInv'
    OBVIOUS
  <2>a. /\ promise \in [Goals -> {"none", "open", "resolved", "rejected"}]
        /\ status \in [Goals -> Statuses] /\ accepted \in Nat /\ Goals \subseteq Nat
    BY ClientTypes DEF TypeOK, ClientTypeOK, WireTypeOK
  <2>1. ASSUME promise' = promise, accepted' = accepted, cut \subseteq cut' PROVE PromiseInv'
    <3>1. accepted <= accepted' /\ accepted' \in Nat
      BY <2>1, <2>a
    <3> QED BY <2>1, <3>1, PromiseKept DEF PromiseInv
  <2>2. CASE ClientStep /\ SendGoal
    <3>1. /\ promise' = [promise EXCEPT ![sent'] = "open"] /\ accepted' = accepted /\ cut' = cut
      BY <2>2 DEF SendGoal
    <3>2. SUFFICES ASSUME NEW g \in Goals
                   PROVE  /\ promise'[g] = "resolved" => status'[g] = "Succeeded"
                          /\ promise'[g] = "rejected" =>
                               \/ status'[g] \in {"declined", "Canceled", "Aborted"}
                               \/ accepted' > g \/ g \in cut'
      BY DEF PromiseInv
    <3>3. promise'[g] = "open" \/ promise'[g] = promise[g]
      BY <3>1, <2>a
    <3>4. accepted <= accepted' /\ accepted' \in Nat
      BY <3>1, <2>a
    <3> QED BY <3>1, <3>3, <3>4, PromiseKept
  <2>3. CASE ClientStep /\ TakeAnswer
    <3> DEFINE h == Head(answers)
    <3>1. /\ answers # <<>> /\ UNCHANGED <<status, cut>>
          /\ \/ h.accepted /\ accepted' = h.goal /\ promise' = promise
             \/ /\ ~h.accepted /\ accepted' = accepted
                /\ promise' = [promise EXCEPT ![h.goal] = "rejected"]
      BY <2>3 DEF TakeAnswer
    <3>2. h \in Range(answers) /\ h.goal \in Goals /\ accepted < h.goal
      BY <3>1, AnswerAtHead
    <3>3. ~h.accepted => status[h.goal] = "declined"
      BY <3>2 DEF KnownInv
    <3> HIDE DEF h
    <3>4. accepted' \in Nat /\ accepted <= accepted'
      <4>1. accepted' = accepted \/ accepted' = h.goal
        BY Zenon, <3>1
      <4>2. h.goal \in Nat /\ accepted \in Nat /\ accepted < h.goal
        BY <3>2, <2>a
      <4>3. accepted <= accepted /\ accepted <= h.goal
        BY <4>2
      <4> QED BY Zenon, <4>1, <4>2, <4>3
    <3>5. SUFFICES ASSUME NEW g \in Goals
                   PROVE  /\ promise'[g] = "resolved" => status'[g] = "Succeeded"
                          /\ promise'[g] = "rejected" =>
                               \/ status'[g] \in {"declined", "Canceled", "Aborted"}
                               \/ accepted' > g \/ g \in cut'
      BY DEF PromiseInv
    <3>6. \/ promise'[g] = promise[g]
          \/ promise'[g] = "rejected" /\ status'[g] = "declined"
      BY <3>1, <3>2, <3>3, <2>a
    <3> QED BY <3>1, <3>4, <3>6, PromiseKept
  <2>4. ASSUME NEW h \in Goals, ClientStep, TakeResult(h) PROVE PromiseInv'
    <3>1. /\ UNCHANGED <<status, cut, accepted>> /\ h \in due /\ ResultCode(h) \in Ends
          /\ \/ /\ handle # 0 /\ handle # h
                /\ promise' = [promise EXCEPT ![h] = "rejected"]
             \/ promise' = [promise EXCEPT ![h] =
                              IF ResultCode(h) = "Succeeded" THEN "resolved" ELSE "rejected"]
      BY <2>4 DEF TakeResult, Superseded
    <3>2. h \in cut \/ status[h] = ResultCode(h)
      BY <3>1 DEF KnownInv, ResultCode
    <3>3. ResultCode(h) = "Succeeded" => status[h] = "Succeeded"
      BY DEF ResultCode
    <3>4. handle # 0 /\ handle # h => accepted > h
      <4>1. h <= accepted /\ handle \in {0, accepted}
        BY <3>1 DEF OrderInv, Held
      <4> QED BY <4>1, <2>a
    <3>5. SUFFICES ASSUME NEW g \in Goals
                   PROVE  /\ promise'[g] = "resolved" => status'[g] = "Succeeded"
                          /\ promise'[g] = "rejected" =>
                               \/ status'[g] \in {"declined", "Canceled", "Aborted"}
                               \/ accepted' > g \/ g \in cut'
      BY DEF PromiseInv
    <3>6. CASE g # h
      <4>1. promise'[g] = promise[g] /\ accepted' \in Nat /\ accepted <= accepted'
        BY <3>1, <3>6, <2>a
      <4> QED BY <3>1, <4>1, PromiseKept
    <3>7. CASE g = h
      BY <3>1, <3>2, <3>3, <3>4, <3>7, <2>a DEF Ends
    <3> QED BY <3>6, <3>7
  <2>5. ASSUME ClientStep,
               \/ RunAnswer \/ RunFeedback \/ RunEnd \/ ResetHandle \/ CancelGoal
               \/ CheckClientHealth \/ Discover \/ \E g \in Goals : TakeFeedback(g)
        PROVE  PromiseInv'
    BY <2>5, <2>1 DEF RunAnswer, RunFeedback, RunEnd, ResetHandle, CancelGoal,
         CheckClientHealth, Discover, TakeFeedback, clientVars
  <2>6. ASSUME ClientStep, SetupClient \/ ClearClient PROVE PromiseInv'
    <3>1. PICK present \in BOOLEAN : ReplaceClient(present)
      BY Zenon, <2>6 DEF SetupClient, ClearClient
    <3> QED BY <3>1, <2>1 DEF ReplaceClient
  <2>7. ASSUME ServerStep, SetupServer \/ ClearServer PROVE PromiseInv'
    <3>1. PICK present \in BOOLEAN : ReplaceServer(present)
      BY Zenon, <2>7 DEF SetupServer, ClearServer
    <3>2. UNCHANGED <<promise, accepted>>
      BY <2>7 DEF ServerStep, clientVars
    <3>3. cut \subseteq cut'
      BY <3>1 DEF ReplaceServer
    <3> QED BY <3>2, <3>3, <2>1
  <2>8. ASSUME ServerStep,
               \/ AcceptGoal \/ DeclineGoal \/ FinishCancel \/ DispatchAccepted \/ RouteCancel
               \/ CheckServerHealth
               \/ \E g \in Goals : AcceptCancel(g) \/ Canceled(g) \/ PublishFeedback(g)
               \/ \E g \in Goals, end \in {"Succeeded", "Aborted"} : EndGoal(g, end)
        PROVE  PromiseInv'
    <3>1. UNCHANGED <<promise, accepted>>
      BY <2>8 DEF ServerStep, clientVars
    <3>2. cut' = cut
      BY <2>8 DEF AcceptGoal, DeclineGoal, FinishCancel, DispatchAccepted, RouteCancel,
           CheckServerHealth, AcceptCancel, Canceled, PublishFeedback, EndGoal
    <3> QED BY <3>1, <3>2, <2>1
  <2>9. CASE UNCHANGED vars
    BY <2>9, <2>1 DEF vars, clientVars
  <2> QED BY <2>2, <2>3, <2>4, <2>5, <2>6, <2>7, <2>8, <2>9 DEF Next
<1>3. TypeOK /\ PromiseInv => PromiseTellsOutcome
  <2>1. SUFFICES ASSUME TypeOK, PromiseInv, NEW g \in Goals
                 PROVE  /\ promise[g] = "resolved" => status[g] = "Succeeded"
                        /\ promise[g] = "rejected" /\ status[g] = "Succeeded" =>
                             accepted > g \/ g \in cut
    BY DEF PromiseTellsOutcome
  <2> QED BY <2>1 DEF PromiseInv
<1> QED BY <1>1, <1>2, <1>3, TypeCorrect, LifeCorrect, OrderCorrect, KnownCorrect, PTL DEF Spec

-----------------------------------------------------------------------------
(* The end of the newest goal.                                             *)

\* The state says how the newest goal ended, and nothing that waits can change it.
Shown ==
  /\ state = status[sent] /\ status[sent] \in Ends /\ accepted = sent
  /\ \A e \in Range(clientQueue) : e.kind \notin Answering

\* The news of the newest goal is on its way and will be heeded.
UnderWay ==
  \/ [goal |-> sent, accepted |-> TRUE] \in Range(answers)
  \/ /\ handle = sent
     /\ sent \in due \/ \E e \in Range(clientQueue) : e.kind \in Ends /\ e.goal = sent

\* EndNotForgotten looks at goals that have ended; here is what holds from the
\* moment on in which the server accepts one, and that the handle is only reset
\* on behalf of the newest goal once the state shows its end.
EndInv ==
  /\ sent # 0 /\ sent \notin cut \union lost /\ status[sent] \in Running \union Ends =>
       UnderWay \/ Shown
  /\ sent # 0 /\ sent \notin cut /\ ending = sent => Shown

\* What the other invariants say of the newest goal.
LEMMA NewestFacts ==
  ASSUME TypeOK, OrderInv, KnownInv
  PROVE  /\ sent # 0 => sent \in Goals /\ sent \in mine \union cut
         /\ sent \in Nat /\ accepted \in Nat /\ accepted <= sent /\ ending <= accepted
         /\ handle \in {0, accepted} /\ ending \in Nat
<1>1. sent # 0 => sent \in 1..sent
  BY ClientTypes
<1> QED BY <1>1, ClientTypes DEF KnownInv, OrderInv, Held

\* The invariant survives while nothing it speaks of is taken away.
LEMMA EndKept ==
  ASSUME TypeOK, LifeInv, OrderInv, KnownInv, [Next]_vars, EndInv,
         UNCHANGED <<sent, state, accepted, lost>>, cut \subseteq cut',
         handle' = handle, ending' \in {0, ending},
         sent # 0 /\ status[sent] \notin Running \union Ends =>
           status'[sent] \notin Running \union Ends,
         Range(answers) \subseteq Range(answers'),
         sent \in due /\ sent \notin due' /\ handle = sent =>
           \E e \in Range(clientQueue') : e.kind \in Ends /\ e.goal = sent,
         \A e \in Range(clientQueue) : e.kind \in Ends => e \in Range(clientQueue'),
         \A e \in Range(clientQueue') : e \in Range(clientQueue) \/ e.kind \notin Answering
  PROVE  EndInv'
<1>1. sent # 0 => sent \in Goals
  BY NewestFacts
<1>2. sent # 0 /\ Shown => Shown'
  BY <1>1, StatusFinal DEF Shown
<1>3. UnderWay => UnderWay'
  BY DEF UnderWay
<1> QED BY <1>1, <1>2, <1>3, NewestFacts DEF EndInv

\* The newest goal is answered by the server.
LEMMA EndAnswered ==
  ASSUME TypeOK, LifeInv, OrderInv, KnownInv, [Next]_vars, EndInv,
         UNCHANGED <<sent, state, accepted, lost, cut, handle, ending, due, clientQueue>>,
         requests # <<>>, NEW to \in {"executing", "declined"},
         status' = [status EXCEPT ![Head(requests)] = to],
         answers' = Answered(Head(requests), to = "executing")
  PROVE  EndInv'
<1> DEFINE g == Head(requests)
           b == to = "executing"
           x == [goal |-> g, accepted |-> b]
<1>1. requests \in Seq(Goals) /\ answers \in Seq(Answer) /\ status \in [Goals -> Statuses]
  BY ClientTypes DEF TypeOK, WireTypeOK
<1>2. g \in Goals /\ accepted < g
  <2>1. g \in Range(requests)
    BY <1>1, RangeTail
  <2> QED BY <2>1, ClientTypes DEF OrderInv, Staged
<1>3. answers' = Append(answers, x) \/ (g \notin mine /\ answers' = answers)
  BY DEF Answered
<1>4. x \in Answer
  BY <1>2 DEF Answer
<1>5. Range(Append(answers, x)) = Range(answers) \union {x}
  BY <1>1, <1>4, RangeAppend
<1>6. Range(answers) \subseteq Range(answers')
  BY <1>3, <1>5
<1>7. CASE g # sent
  BY <1>1, <1>6, <1>7, EndKept, NewestFacts
<1>8. CASE g = sent
  <2>1. sent # 0 /\ ending # sent
    BY <1>2, <1>8, NewestFacts
  <2>2. status'[sent] = to
    BY <1>1, <1>2, <1>8
  <2>3. ASSUME sent \notin cut, to \in Running \union Ends PROVE UnderWay'
    <3>1. to = "executing" /\ sent \in mine
      BY <2>1, <2>3, NewestFacts DEF Running, Ends
    <3>2. x = [goal |-> sent', accepted |-> TRUE]
      BY <1>8, <3>1
    <3> HIDE DEF x
    <3> QED BY <1>3, <1>5, <1>8, <3>1, <3>2 DEF UnderWay
  <2> QED BY <2>1, <2>2, <2>3 DEF EndInv
<1> QED BY <1>7, <1>8

\* The executor takes an answer.
LEMMA EndHeard ==
  ASSUME TypeOK, LifeInv, OrderInv, KnownInv, EndInv, TakeAnswer
  PROVE  EndInv'
<1> USE DEF goalVars, actionBoundVars, viewVars, linkVars
<1> DEFINE h == Head(answers)
<1>1. /\ answers # <<>> /\ answers' = Tail(answers)
      /\ UNCHANGED <<server, known, status, cut, lost, sent, state, ending>>
      /\ \/ /\ h.accepted /\ handle' = h.goal /\ accepted' = h.goal
            /\ due' = IF server THEN due \union {h.goal} ELSE due
         \/ ~h.accepted /\ UNCHANGED <<handle, accepted, due>>
  BY DEF TakeAnswer
<1>2. /\ h \in Range(answers) /\ h \in Answer /\ h.goal \in Goals
      /\ accepted < h.goal /\ h.goal <= sent
      /\ Range(answers) = {h} \union Range(answers')
  BY <1>1, AnswerAtHead
<1>3. IF h.accepted THEN h.goal \in known \union cut ELSE status[h.goal] = "declined"
  BY <1>2 DEF KnownInv
<1>4. ~server => known = {}
  BY DEF KnownInv
<1>5. [goal |-> sent, accepted |-> TRUE] = h => h.goal = sent
  OBVIOUS
<1> HIDE DEF h
<1>6. /\ sent # 0 /\ ending # sent /\ ~Shown /\ handle # sent
      /\ h.goal = sent /\ h.accepted => sent \in known \union cut
  BY <1>2, <1>3, NewestFacts, ClientTypes DEF Shown
<1>7. ASSUME sent \notin cut \union lost, status[sent] \in Running \union Ends PROVE UnderWay'
  <2>1. [goal |-> sent, accepted |-> TRUE] \in Range(answers)
    BY <1>6, <1>7 DEF EndInv, UnderWay
  <2>2. CASE h.goal # sent
    BY <1>1, <1>2, <1>5, <2>1, <2>2 DEF UnderWay
  <2>3. CASE h.goal = sent
    <3>1. h.accepted
      BY <1>3, <1>7, <2>3 DEF Running, Ends
    <3>2. server
      BY <1>3, <1>4, <1>7, <2>3, <3>1
    <3> QED BY <1>1, <2>3, <3>1, <3>2 DEF UnderWay
  <2> QED BY <2>2, <2>3
<1> QED BY <1>1, <1>6, <1>7 DEF EndInv

\* The event loop runs the end of a goal, up to the change of the state.
LEMMA EndRun ==
  ASSUME TypeOK, LifeInv, OrderInv, KnownInv, EndInv, [Next]_vars, RunEnd
  PROVE  EndInv'
<1> USE DEF goalVars, trackVars, wireVars, actionBoundVars, linkVars, pastVars
<1> DEFINE e == Head(clientQueue)
<1>1. /\ clientQueue # <<>> /\ clientQueue' = Tail(clientQueue) /\ e.kind \in Ends /\ ending = 0
      /\ UNCHANGED <<status, due, answers, cut, handle, sent, accepted, lost>>
      /\ \/ handle = e.goal /\ state' = e.kind /\ ending' = e.goal
         \/ handle # e.goal /\ UNCHANGED <<state, ending>>
  BY DEF RunEnd, NextEvent, IsCurrent
<1>2. /\ Range(clientQueue) = {e} \union Range(clientQueue')
      /\ \A x \in Range(clientQueue') : <<e, x>> \in EventsRise
      /\ Range(clientQueue) \subseteq Event
  BY <1>1, ClientTypes, RangeTail DEF OrderInv, Staged
<1>3. e \in Event /\ e.goal \in Goals
  BY <1>2 DEF Event
<1>4. /\ e.goal \in cut \/ status[e.goal] = e.kind
      /\ \A x \in Range(clientQueue') : x.kind \in Answering => e.goal < x.goal
      /\ \A x \in Range(clientQueue') : x.goal <= sent /\ x.goal \in Nat
      /\ 0 \notin Goals /\ Goals \subseteq Nat
  <2>1. \A x \in Range(clientQueue') : x.kind \in Answering => e.goal < x.goal
    BY <1>2 DEF EventsRise
  <2>2. \A x \in Range(clientQueue') : x \in Event /\ x.goal <= sent
    BY <1>2 DEF OrderInv, Staged
  <2>3. \A x \in Range(clientQueue') : x.goal \in Goals
    BY <2>2 DEF Event
  <2> QED BY <1>1, <1>2, <2>1, <2>2, <2>3, ClientTypes DEF KnownInv
<1> HIDE DEF e
<1>5. CASE handle # e.goal
  <2>1. CASE sent = e.goal
    \* The end of the newest goal is dropped only if the handle is gone.
    <3>1. ~(handle = sent)
      BY <1>5, <2>1
    <3>2. UnderWay => UnderWay'
      BY <1>1, <3>1 DEF UnderWay
    <3>3. Shown => Shown'
      BY <1>1, <1>2, <1>5 DEF Shown
    <3> QED BY <1>1, <1>5, <3>2, <3>3 DEF EndInv
  <2>2. CASE sent # e.goal
    <3>1. UnderWay => UnderWay'
      BY <1>1, <1>2, <2>2 DEF UnderWay
    <3>2. Shown => Shown'
      BY <1>1, <1>2, <1>5 DEF Shown
    <3> QED BY <1>1, <1>5, <3>1, <3>2 DEF EndInv
  <2> QED BY <2>1, <2>2
<1>6. CASE handle = e.goal
  <2>1. accepted = e.goal
    BY <1>3, <1>4, <1>6, NewestFacts
  <2>2. CASE sent = e.goal
    <3>1. sent \notin cut => Shown'
      <4>1. \A x \in Range(clientQueue') : x.kind \notin Answering
        <5>1. e.goal \in Nat
          BY <1>3, <1>4
        <5>2. \A x \in Range(clientQueue') : ~(e.goal < x.goal)
          BY <1>4, <2>2, <5>1
        <5> QED BY <1>4, <5>2
      <4> QED BY <1>1, <1>4, <1>6, <2>1, <2>2, <4>1 DEF Shown
    <3> QED BY <1>1, <3>1 DEF EndInv
  <2>3. CASE sent # e.goal
    <3>1. UnderWay => UnderWay'
      BY <1>1, <1>6, <2>3 DEF UnderWay
    <3>2. ~Shown /\ ending' # sent
      BY <1>1, <1>3, <1>4, <1>6, <2>1, <2>3 DEF Shown
    <3> QED BY <1>1, <3>1, <3>2 DEF EndInv
  <2> QED BY <2>2, <2>3
<1> QED BY <1>5, <1>6

\* The newest goal's end is safe in every reachable state.
THEOREM EndsCorrect == Spec => []EndNotForgotten
<1> USE DEF goalVars, trackVars, wireVars, actionBoundVars, viewVars, linkVars, pastVars
<1>1. Init => EndInv
  BY DEF Init, ClientInit, EndInv
<1>2. TypeOK /\ LifeInv /\ OrderInv /\ KnownInv /\ EndInv /\ [Next]_vars => EndInv'
  <2> SUFFICES ASSUME TypeOK, LifeInv, OrderInv, KnownInv, EndInv, [Next]_vars PROVE EndInv'
    OBVIOUS
  <2>a. /\ clientQueue \in Seq(Event) /\ sent \in Nat /\ status \in [Goals -> Statuses]
        /\ Answering \cap Ends = {} /\ "feedback" \notin Ends \union Answering
    BY ClientTypes DEF TypeOK, WireTypeOK, Answering, Ends
  <2>1. CASE ClientStep /\ SendGoal
    <3>1. sent' = sent + 1 /\ status' = status /\ ending' = ending /\ sent' \in Goals
      <4>1. sent < MaxGoals /\ sent' = sent + 1 /\ status' = status /\ ending' = ending
        BY <2>1 DEF SendGoal
      <4> QED BY <4>1, <2>a, ActionBoundsAssumption DEF Goals
    <3>2. status[sent'] = "none" /\ ending # sent'
      BY <3>1, <2>a, NewestFacts DEF LifeInv
    <3> QED BY <3>1, <3>2 DEF EndInv, Running, Ends
  <2>2. CASE ClientStep /\ TakeAnswer
    BY <2>2, EndHeard
  \* The steps that post an event of the executor's.
  <2>3. ASSUME NEW kind \in Ends \union {"feedback"}, NEW g \in Goals,
               Post(kind, g) \/ clientQueue' = clientQueue,
               UNCHANGED <<sent, state, accepted, lost, cut, handle, ending, status, answers>>,
               due' = due \/ (due' = due \ {g} /\ (handle = g => Post(kind, g) /\ kind \in Ends))
        PROVE  EndInv'
    <3> DEFINE x == [kind |-> kind, goal |-> g]
    <3>1. x \in Event /\ x.kind = kind /\ x.goal = g
      BY DEF Event, States, Finals
    <3>2. Post(kind, g) => clientQueue' = Append(clientQueue, x)
      BY DEF Post
    <3> HIDE DEF x
    <3>3. Range(Append(clientQueue, x)) = Range(clientQueue) \union {x}
      BY <2>a, <3>1, RangeAppend
    <3>4. /\ \A e \in Range(clientQueue) : e \in Range(clientQueue')
          /\ \A e \in Range(clientQueue') : e \in Range(clientQueue) \/ e = x
      BY <2>3, <3>2, <3>3
    <3>5. x.kind \notin Answering
      BY <3>1, <2>a
    <3>6. sent \in due /\ sent \notin due' /\ handle = sent =>
            \E e \in Range(clientQueue') : e.kind \in Ends /\ e.goal = sent
      BY <2>3, <3>1, <3>2, <3>3
    <3> QED BY <2>3, <3>4, <3>5, <3>6, EndKept
  <2>4. ASSUME NEW g \in Goals, ClientStep, TakeFeedback(g) PROVE EndInv'
    BY <2>3, <2>4 DEF TakeFeedback
  <2>5. ASSUME NEW g \in Goals, ClientStep, TakeResult(g) PROVE EndInv'
    <3>1. /\ ResultCode(g) \in Ends /\ due' = due \ {g}
          /\ UNCHANGED <<sent, state, accepted, lost, cut, handle, ending, status, answers>>
          /\ \/ handle # 0 /\ handle # g /\ clientQueue' = clientQueue
             \/ Post(ResultCode(g), g)
      BY <2>5 DEF TakeResult, Superseded
    <3> QED BY <2>3, <3>1
  \* The steps that take an event other than an end.
  <2>6. ASSUME clientQueue # <<>>, clientQueue' = Tail(clientQueue),
               Head(clientQueue).kind \notin Ends,
               UNCHANGED <<sent, accepted, lost, cut, handle, ending, status, answers, due>>,
               state' = state \/ Head(clientQueue).kind \in Answering, ending = 0
        PROVE  EndInv'
    <3>1. Range(clientQueue) = {Head(clientQueue)} \union Range(clientQueue')
      BY <2>6, <2>a, RangeTail
    <3>2. UnderWay => UnderWay'
      BY <2>6, <3>1 DEF UnderWay
    <3>3. Shown => Shown'
      BY <2>6, <3>1 DEF Shown
    <3> QED BY <2>6, <3>2, <3>3 DEF EndInv
  <2>7. ASSUME ClientStep, RunAnswer \/ RunFeedback PROVE EndInv'
    BY <2>6, <2>7, <2>a DEF RunAnswer, RunFeedback, NextEvent, Answering
  <2>8. CASE ClientStep /\ RunEnd
    BY <2>8, EndRun
  <2>9. CASE ClientStep /\ ResetHandle
    <3>1. /\ ending # 0 /\ handle' = 0 /\ ending' = 0
          /\ lost' = lost \union ({handle} \ {0, ending})
          /\ UNCHANGED <<sent, state, accepted, cut, status, answers, due, clientQueue>>
      BY <2>9 DEF ResetHandle, HandleAfterEnd
    <3>2. Shown => Shown'
      BY <3>1 DEF Shown
    <3>3. ASSUME sent # 0, sent \notin cut \union lost', UnderWay PROVE UnderWay' \/ Shown
      <4>1. CASE handle = sent
        BY <3>1, <3>3, <4>1 DEF EndInv
      <4>2. CASE handle # sent
        BY <3>1, <3>3, <4>2 DEF UnderWay
      <4> QED BY <4>1, <4>2
    <3> QED BY <3>1, <3>2, <3>3 DEF EndInv
  <2>10. ASSUME ClientStep, CancelGoal \/ CheckClientHealth \/ Discover PROVE EndInv'
    <3>1. UNCHANGED <<sent, state, accepted, lost, cut, handle, ending, status, answers, due,
                      clientQueue>>
      BY <2>10 DEF CancelGoal, CheckClientHealth, Discover, clientVars
    <3> QED BY <3>1, EndKept
  <2>11. ASSUME ClientStep, SetupClient \/ ClearClient PROVE EndInv'
    <3>1. PICK present \in BOOLEAN : ReplaceClient(present)
      BY Zenon, <2>11 DEF SetupClient, ClearClient
    <3>2. cut' = cut \union 1..sent /\ sent' = sent
      BY <3>1 DEF ReplaceClient
    <3>3. sent # 0 => sent \in 1..sent
      BY <2>a
    <3> QED BY <3>2, <3>3 DEF EndInv
  <2>12. ASSUME ServerStep, AcceptGoal \/ DeclineGoal PROVE EndInv'
    <3>1. UNCHANGED <<sent, state, accepted, lost, cut, handle, ending, due, clientQueue>>
      BY <2>12 DEF ServerStep, AcceptGoal, DeclineGoal, clientVars
    <3>2. PICK to \in {"executing", "declined"} :
            /\ requests # <<>> /\ status' = [status EXCEPT ![Head(requests)] = to]
            /\ answers' = Answered(Head(requests), to = "executing")
      <4>1. CASE AcceptGoal
        <5>1. ("executing" = "executing") = TRUE
          OBVIOUS
        <5> QED BY <4>1, <5>1 DEF AcceptGoal
      <4>2. CASE DeclineGoal
        <5>1. ("declined" = "executing") = FALSE
          OBVIOUS
        <5> QED BY <4>2, <5>1 DEF DeclineGoal
      <4> QED BY <2>12, <4>1, <4>2
    <3> QED BY <3>1, <3>2, EndAnswered
  <2>13. ASSUME ServerStep, SetupServer \/ ClearServer PROVE EndInv'
    <3>1. PICK present \in BOOLEAN : ReplaceServer(present)
      BY Zenon, <2>13 DEF SetupServer, ClearServer
    <3>2. /\ due' = {} /\ UNCHANGED <<status, answers>>
          /\ cut' = IF server THEN cut \union {g \in Goals : g \in mine \union known} ELSE cut
      BY <3>1 DEF ReplaceServer
    <3>3. UNCHANGED <<sent, state, accepted, lost, handle, ending, clientQueue>>
      BY <2>13 DEF ServerStep, clientVars
    <3>4. CASE server
      <4>1. sent # 0 => sent \in cut'
        BY <3>2, <3>4, NewestFacts
      <4> QED BY <3>3, <4>1 DEF EndInv
    <3>5. CASE ~server
      <4>1. due = {} /\ cut' = cut
        BY <3>2, <3>5 DEF KnownInv
      <4> QED BY <3>2, <3>3, <4>1, EndKept
    <3> QED BY <3>4, <3>5
  <2>14. ASSUME ServerStep,
                \/ FinishCancel \/ DispatchAccepted \/ RouteCancel \/ CheckServerHealth
                \/ \E g \in Goals : AcceptCancel(g) \/ Canceled(g) \/ PublishFeedback(g)
                \/ \E g \in Goals, end \in {"Succeeded", "Aborted"} : EndGoal(g, end)
         PROVE  EndInv'
    <3>1. UNCHANGED <<sent, state, accepted, lost, handle, ending, clientQueue>>
      BY <2>14 DEF ServerStep, clientVars
    <3>2. UNCHANGED <<answers, due, cut>>
      BY <2>14 DEF FinishCancel, DispatchAccepted, RouteCancel, CheckServerHealth,
           AcceptCancel, Canceled, PublishFeedback, EndGoal
    <3>3. \A h \in Goals : status[h] \notin Running \union Ends => status'[h] = status[h]
      <4>1. CASE FinishCancel
        BY <4>1, <2>a DEF FinishCancel, Running
      <4>2. CASE \E g \in Goals : Canceled(g)
        BY <4>2, <2>a DEF Canceled, Running
      <4>3. CASE \E g \in Goals, end \in {"Succeeded", "Aborted"} : EndGoal(g, end)
        BY <4>3, <2>a DEF EndGoal, CanFinish, LifeInv
      <4>4. CASE UNCHANGED status
        BY <4>4
      <4>5. ASSUME \/ DispatchAccepted \/ RouteCancel \/ CheckServerHealth
                   \/ \E g \in Goals : AcceptCancel(g) \/ PublishFeedback(g)
            PROVE  UNCHANGED status
        BY <4>5 DEF DispatchAccepted, RouteCancel, CheckServerHealth, AcceptCancel, PublishFeedback
      <4> QED BY <2>14, <4>1, <4>2, <4>3, <4>4, <4>5
    <3> QED BY <3>1, <3>2, <3>3, EndKept, NewestFacts
  <2>15. CASE UNCHANGED vars
    <3>1. UNCHANGED <<sent, state, accepted, lost, cut, handle, ending, status, answers, due,
                      clientQueue>>
      BY <2>15 DEF vars, clientVars
    <3> QED BY <3>1, EndKept
  <2> QED
    BY <2>1, <2>2, <2>4, <2>5, <2>7, <2>8, <2>9, <2>10, <2>11, <2>12, <2>13, <2>14, <2>15 DEF Next
<1>3. TypeOK /\ EndInv => EndNotForgotten
  <2> SUFFICES ASSUME TypeOK, EndInv, EndUnseen, sent \notin lost
               PROVE  \/ \E i \in DOMAIN answers : answers[i] = [goal |-> sent, accepted |-> TRUE]
                      \/ handle = sent /\ (sent \in due \/ Posted(sent))
    BY DEF EndNotForgotten
  <2>1. UnderWay
    BY DEF EndInv, EndUnseen, Shown
  <2>2. Range(answers) = {answers[i] : i \in DOMAIN answers}
    BY DEF Range
  <2>3. Range(clientQueue) = {clientQueue[i] : i \in DOMAIN clientQueue}
    BY DEF Range
  <2> QED BY <2>1, <2>2, <2>3 DEF UnderWay, Posted
<1> QED BY <1>1, <1>2, <1>3, TypeCorrect, LifeCorrect, OrderCorrect, KnownCorrect, PTL DEF Spec

-----------------------------------------------------------------------------
(* An application that sends one goal at a time.                           *)

\* The client expects nothing more.
Quiet == answers = <<>> /\ due = {} /\ tracked = {} /\ Range(requests) \cap mine = {}

BeforeFinal == {p \in Event \X Event : p[1].kind \notin Finals}

\* All that is on its way is about the newest goal.
OnlyNewest ==
  /\ \A e \in Range(clientQueue) : e.goal = sent
  /\ \A a \in Range(answers) : a.goal = sent
  /\ due \union tracked \subseteq {sent} /\ Range(requests) \cap mine \subseteq {sent}

\* The event that says that a goal has ended is the last thing to come.
FinalLast ==
  /\ Sorted(clientQueue, BeforeFinal)
  /\ \A e \in Range(clientQueue) : e.kind \in Finals => Quiet
  /\ state \in Finals \union {"Idle"} => clientQueue = <<>> /\ Quiet

TrueView ==
  /\ state \in Finals /\ sent \notin cut =>
       sent # 0 /\ status[sent] = IF state = "Rejected" THEN "declined" ELSE state
  /\ feedback \in {0, sent}

\* SerialViewTrue is the last part; it lasts because nothing of an earlier goal is
\* left when the next one is sent.
SerialInv == ~overlapped => OnlyNewest /\ FinalLast /\ TrueView

\* What the state and the feedback show stays true as long as neither changes.
LEMMA TrueViewKept ==
  ASSUME TypeOK, LifeInv, [Next]_vars, TrueView, UNCHANGED <<state, sent>>, cut \subseteq cut',
         feedback' \in {0, feedback, sent}
  PROVE  TrueView'
<1>1. sent # 0 => sent \in Goals
  BY ClientTypes
<1>2. sent # 0 /\ status[sent] \in Ends \union {"declined"} => status'[sent] = status[sent]
  BY <1>1, StatusFinal
<1> QED BY <1>2 DEF TrueView, Finals

\* The invariant survives while queues get shorter, unless they were not quiet and
\* the state changes.
LEMMA SerialKept ==
  ASSUME TypeOK, LifeInv, [Next]_vars, SerialInv,
         UNCHANGED <<overlapped, sent, state>>, cut \subseteq cut',
         \/ feedback' \in {0, feedback}
         \/ Head(clientQueue) \in Range(clientQueue) /\ feedback' = Head(clientQueue).goal,
         Shorter(clientQueue', clientQueue), Shorter(answers', answers),
         due' \subseteq due, tracked' \subseteq tracked,
         Range(requests') \cap mine' \subseteq Range(requests) \cap mine
  PROVE  SerialInv'
<1> SUFFICES ASSUME ~overlapped PROVE (OnlyNewest /\ FinalLast /\ TrueView)'
  BY DEF SerialInv
<1>a. OnlyNewest /\ FinalLast /\ TrueView
  BY DEF SerialInv
<1>1. /\ Range(clientQueue') \subseteq Range(clientQueue) /\ clientQueue' \in Seq(Event)
      /\ \A R : Sorted(clientQueue, R) => Sorted(clientQueue', R)
      /\ Range(answers') \subseteq Range(answers) /\ answers' \in Seq(Answer)
  BY ClientTypes, ShorterQueue
<1>2. OnlyNewest'
  BY <1>a, <1>1 DEF OnlyNewest
<1>3. Quiet => Quiet'
  <2>1. answers = <<>> => answers' = <<>>
    BY DEF Shorter
  <2> QED BY <2>1 DEF Quiet
<1>4. clientQueue = <<>> => clientQueue' = <<>>
  BY DEF Shorter
<1>5. FinalLast'
  BY <1>a, <1>1, <1>3, <1>4 DEF FinalLast
<1>6. feedback' \in {0, feedback, sent}
  BY <1>a DEF OnlyNewest
<1> QED BY <1>a, <1>2, <1>5, <1>6, TrueViewKept

\* An event of the newest goal is posted while something was on its way.
LEMMA SerialPosted ==
  ASSUME TypeOK, LifeInv, [Next]_vars, SerialInv, ~overlapped, ~Quiet,
         UNCHANGED <<overlapped, sent, state, feedback, cut>>,
         NEW kind \in States \union {"feedback"}, sent \in Goals, Post(kind, sent),
         \A a \in Range(answers') : a.goal = sent,
         due' \union tracked' \subseteq {sent}, Range(requests') \cap mine' \subseteq {sent},
         kind \in Finals => Quiet'
  PROVE  SerialInv'
<1>a. OnlyNewest /\ FinalLast /\ TrueView
  BY DEF SerialInv
<1> DEFINE x == [kind |-> kind, goal |-> sent]
<1>1. x \in Event /\ x.kind = kind /\ x.goal = sent /\ clientQueue \in Seq(Event)
  BY ClientTypes DEF Event
<1>2. clientQueue' = Append(clientQueue, x)
  BY DEF Post
<1> HIDE DEF x
<1>3. \A e \in Range(clientQueue) : e \in Event /\ e.kind \notin Finals
  BY <1>a, ClientTypes DEF FinalLast
<1>4. \A e \in Range(clientQueue) : <<e, x>> \in BeforeFinal
  BY <1>1, <1>3 DEF BeforeFinal
<1>5. /\ Range(Append(clientQueue, x)) = Range(clientQueue) \union {x}
      /\ \A R : Sorted(clientQueue, R) /\ (\A e \in Range(clientQueue) : <<e, x>> \in R)
               => Sorted(Append(clientQueue, x), R)
  BY <1>1, RangeAppend
<1>6. Sorted(clientQueue', BeforeFinal) /\ Range(clientQueue') = Range(clientQueue) \union {x}
  BY <1>a, <1>2, <1>4, <1>5 DEF FinalLast
<1>7. OnlyNewest'
  BY <1>a, <1>1, <1>6 DEF OnlyNewest
<1>8. FinalLast'
  <2>1. state \notin Finals \union {"Idle"}
    BY <1>a DEF FinalLast
  <2>2. \A e \in Range(clientQueue') : e.kind \in Finals => Quiet'
    BY <1>1, <1>3, <1>6
  <2> QED BY <1>6, <2>1, <2>2 DEF FinalLast
<1> QED BY <1>a, <1>7, <1>8, TrueViewKept DEF SerialInv

\* The state takes its value from the event at the head, which is not feedback.
LEMMA SerialShown ==
  ASSUME TypeOK, LifeInv, KnownInv, [Next]_vars, SerialInv,
         clientQueue # <<>>, clientQueue' = Tail(clientQueue),
         Head(clientQueue).kind \in Ends \union Answering,
         state' = Head(clientQueue).kind, feedback' \in {0, feedback},
         UNCHANGED <<overlapped, sent, cut, status, answers, due, tracked, requests, mine>>
  PROVE  SerialInv'
<1> SUFFICES ASSUME ~overlapped PROVE (OnlyNewest /\ FinalLast /\ TrueView)'
  BY DEF SerialInv
<1>a. OnlyNewest /\ FinalLast /\ TrueView
  BY DEF SerialInv
<1> DEFINE e == Head(clientQueue)
<1>1. /\ Range(clientQueue) = {e} \union Range(clientQueue')
      /\ \A x \in Range(clientQueue') : <<e, x>> \in BeforeFinal
      /\ Sorted(clientQueue', BeforeFinal) /\ clientQueue' \in Seq(Event)
  <2>1. clientQueue \in Seq(Event) /\ Shorter(clientQueue', clientQueue)
    BY ClientTypes DEF Shorter
  <2>2. Sorted(clientQueue, BeforeFinal)
    BY <1>a DEF FinalLast
  <2> QED BY <2>1, <2>2, RangeTail, ShorterQueue
<1>2. e.goal = sent /\ e \in Event
  BY <1>a, <1>1, ClientTypes DEF OnlyNewest
<1>3. sent # 0
  BY <1>2, ClientTypes DEF Event
<1>4. /\ e.kind \in Ends => sent \in cut \/ status[sent] = e.kind
      /\ e.kind = "Rejected" => status[sent] = "declined"
      /\ e.kind \in Ends => e.kind # "Rejected"
  BY <1>1, <1>2 DEF KnownInv, Ends
<1> HIDE DEF e
<1>5. OnlyNewest'
  BY <1>a, <1>1 DEF OnlyNewest
<1>6. Quiet => Quiet'
  BY DEF Quiet
<1>7. e.kind \in Finals => clientQueue' = <<>> /\ Quiet
  <2>1. e.kind \in Finals => Range(clientQueue') = {}
    BY <1>1 DEF BeforeFinal
  <2>2. Range(clientQueue') = {} => clientQueue' = <<>>
    BY <1>1, EmptyRange
  <2>3. e.kind \in Finals => Quiet
    BY <1>a, <1>1 DEF FinalLast
  <2> QED BY <2>1, <2>2, <2>3
<1>8. FinalLast'
  <2>1. state' = e.kind /\ e.kind # "Idle"
    BY DEF e, Ends, Answering
  <2> QED BY <1>a, <1>1, <1>6, <1>7, <2>1 DEF FinalLast
<1>9. TrueView'
  <2>1. state' = e.kind
    BY DEF e
  <2> QED BY <1>a, <1>3, <1>4, <2>1 DEF TrueView, Finals
<1> QED BY <1>5, <1>8, <1>9

\* What quietness and the order say while one goal at a time is sent.
LEMMA NewestOnly ==
  ASSUME TypeOK, OrderInv, OnlyNewest, sent \in Goals
  PROVE  /\ sent <= accepted => answers = <<>> /\ Range(requests) \cap mine = {}
         /\ accepted < sent => due = {} /\ tracked = {}
         /\ answers # <<>> => Range(requests) \cap mine = {} /\ Tail(answers) = <<>>
<1>1. sent \in Nat /\ accepted \in Nat
  BY ClientTypes
<1>2. \A a \in Range(answers) : a.goal = sent /\ accepted < sent
  BY DEF OnlyNewest, OrderInv, Staged
<1>3. \A r \in Range(requests) \cap mine : r = sent /\ accepted < sent
  BY DEF OnlyNewest, OrderInv, Staged
<1>4. answers # <<>> => \A r \in Range(requests) : Head(answers).goal < r
  BY AnswerAtHead
<1>5. answers # <<>> => \A a \in Range(Tail(answers)) : Head(answers).goal < a.goal /\ a.goal = sent
  BY AnswerAtHead, <1>2
<1>6. answers # <<>> => Head(answers).goal = sent
  BY AnswerAtHead, <1>2
<1>7. Range(answers) = {} => answers = <<>>
  BY ClientTypes, EmptyRange
<1>8. answers # <<>> /\ Range(Tail(answers)) = {} => Tail(answers) = <<>>
  <2>1. answers # <<>> => Tail(answers) \in Seq(Answer)
    BY ClientTypes, QueueTail
  <2> QED BY <2>1, EmptyRange
<1>9. sent <= accepted => Range(answers) = {} /\ Range(requests) \cap mine = {}
  BY <1>1, <1>2, <1>3
<1>10. accepted < sent => due = {} /\ tracked = {}
  BY <1>1 DEF OnlyNewest, OrderInv, Held
<1>11. answers # <<>> => Range(requests) \cap mine = {}
  BY <1>1, <1>3, <1>4, <1>6
<1>12. answers # <<>> => Range(Tail(answers)) = {}
  BY <1>1, <1>5, <1>6
<1> QED BY <1>7, <1>8, <1>9, <1>10, <1>11, <1>12

\* The executor takes an answer.
LEMMA SerialHeard ==
  ASSUME TypeOK, LifeInv, OrderInv, [Next]_vars, SerialInv, TakeAnswer
  PROVE  SerialInv'
<1> USE DEF goalVars, actionBoundVars, viewVars, linkVars
<1> SUFFICES ASSUME ~overlapped PROVE SerialInv'
  BY DEF SerialInv, TakeAnswer
<1>a. OnlyNewest /\ FinalLast /\ TrueView
  BY DEF SerialInv
<1> DEFINE h == Head(answers)
<1>1. /\ answers # <<>> /\ answers' = Tail(answers)
      /\ UNCHANGED <<overlapped, sent, state, feedback, cut, requests, mine>>
      /\ \/ /\ due' \subseteq due \union {h.goal} /\ tracked' = tracked \union {h.goal}
            /\ Post("Accepted", h.goal)
         \/ UNCHANGED <<due, tracked>> /\ Post("Rejected", h.goal)
  BY DEF TakeAnswer
<1>2. /\ h \in Range(answers) /\ h.goal \in Goals /\ accepted < h.goal
      /\ Range(answers') \subseteq Range(answers)
  BY <1>1, AnswerAtHead
<1>3. h.goal = sent
  BY <1>a, <1>2 DEF OnlyNewest
<1> HIDE DEF h
<1>4. /\ \A a \in Range(answers') : a.goal = sent
      /\ due' \union tracked' \subseteq {sent} /\ Range(requests') \cap mine' \subseteq {sent}
      /\ ~Quiet
  BY <1>a, <1>1, <1>2, <1>3 DEF OnlyNewest, Quiet
<1>5. CASE Post("Accepted", h.goal)
  <2>1. "Accepted" \in States /\ "Accepted" \notin Finals
    BY DEF States, Finals, Ends
  <2> QED BY <1>1, <1>2, <1>3, <1>4, <1>5, <2>1, SerialPosted
<1>6. CASE UNCHANGED <<due, tracked>> /\ Post("Rejected", h.goal)
  <2>1. "Rejected" \in States
    BY DEF States, Finals
  <2>2. Quiet'
    BY <1>a, <1>1, <1>2, <1>3, <1>6, NewestOnly DEF Quiet
  <2> QED BY <1>1, <1>2, <1>3, <1>4, <1>6, <2>1, <2>2, SerialPosted
<1> QED BY <1>1, <1>5, <1>6

\* The executor takes the result of a goal.
LEMMA SerialResult ==
  ASSUME TypeOK, LifeInv, OrderInv, [Next]_vars, SerialInv, NEW g \in Goals, TakeResult(g)
  PROVE  SerialInv'
<1> USE DEF goalVars, wireVars, actionBoundVars, viewVars, linkVars, pastVars
<1> SUFFICES ASSUME ~overlapped PROVE SerialInv'
  BY DEF SerialInv, TakeResult
<1>a. OnlyNewest /\ FinalLast /\ TrueView
  BY DEF SerialInv
<1>1. /\ UNCHANGED <<overlapped, sent, state, feedback, cut, requests, mine, answers>>
      /\ g \in due /\ due' = due \ {g} /\ tracked' = tracked \ {g} /\ ResultCode(g) \in Ends
      /\ clientQueue' = clientQueue \/ Post(ResultCode(g), g)
  BY DEF TakeResult
<1>2. g = sent /\ sent <= accepted /\ ~Quiet
  BY <1>a, <1>1 DEF OnlyNewest, OrderInv, Held, Quiet
<1>3. CASE clientQueue' = clientQueue
  <2>1. Shorter(clientQueue', clientQueue) /\ Shorter(answers', answers)
    BY <1>1, <1>3 DEF Shorter
  <2> QED BY <1>1, <2>1, SerialKept
<1>4. CASE Post(ResultCode(g), g)
  <2>1. ResultCode(g) \in States \union {"feedback"}
    BY <1>1 DEF States, Finals
  <2>2. Quiet'
    BY <1>a, <1>1, <1>2, NewestOnly DEF Quiet, OnlyNewest
  <2>3. /\ \A a \in Range(answers') : a.goal = sent
        /\ due' \union tracked' \subseteq {sent} /\ Range(requests') \cap mine' \subseteq {sent}
    BY <1>a, <1>1 DEF OnlyNewest
  <2> QED BY <1>1, <1>2, <1>4, <2>1, <2>2, <2>3, SerialPosted
<1> QED BY <1>1, <1>3, <1>4

\* What the application sees is true in every reachable state.
THEOREM ViewCorrect == Spec => []SerialViewTrue
<1> USE DEF goalVars, trackVars, wireVars, actionBoundVars, viewVars, linkVars, pastVars
<1>1. Init => SerialInv
  <2> SUFFICES ASSUME Init PROVE SerialInv
    OBVIOUS
  <2>1. Range(<<>>) = {} /\ \A R : Sorted(<<>>, R)
    BY DEF Range, Sorted
  <2>2. /\ requests = <<>> /\ answers = <<>> /\ clientQueue = <<>> /\ due = {} /\ tracked = {}
        /\ state = "Idle" /\ feedback = 0
    BY DEF Init, WireInit, ClientInit
  <2> QED BY <2>1, <2>2 DEF SerialInv, OnlyNewest, FinalLast, TrueView, Quiet, Finals, Ends
<1>2. TypeOK /\ LifeInv /\ OrderInv /\ KnownInv /\ SerialInv /\ [Next]_vars => SerialInv'
  <2> SUFFICES ASSUME TypeOK, LifeInv, OrderInv, KnownInv, SerialInv, [Next]_vars
               PROVE  SerialInv'
    OBVIOUS
  <2>a. requests \in Seq(Goals) /\ clientQueue \in Seq(Event) /\ answers \in Seq(Answer)
    BY ClientTypes
  <2>1. ASSUME UNCHANGED <<overlapped, sent, state, clientQueue, answers, feedback, tracked>>,
               cut \subseteq cut', due' \subseteq due,
               Range(requests') \cap mine' \subseteq Range(requests) \cap mine
        PROVE  SerialInv'
    <3>1. Shorter(clientQueue', clientQueue) /\ Shorter(answers', answers)
      BY <2>1 DEF Shorter
    <3> QED BY <2>1, <3>1, SerialKept
  <2>2. CASE ClientStep /\ SendGoal
    <3>1. /\ sent' = sent + 1 /\ state' = "Requested" /\ feedback' = 0
          /\ overlapped' = (overlapped \/ state \notin Finals \union {"Idle"})
          /\ mine' = mine \union {sent'}
          /\ requests' = Append(requests, sent') \/ requests' = requests
          /\ UNCHANGED <<answers, clientQueue, due, tracked>>
      BY <2>2 DEF SendGoal, ClearedFeedback
    <3>2. SUFFICES ASSUME ~overlapped, state \in Finals \union {"Idle"}
                   PROVE  (OnlyNewest /\ FinalLast /\ TrueView)'
      BY <3>1 DEF SerialInv
    <3>3. clientQueue = <<>> /\ Quiet /\ Sorted(clientQueue, BeforeFinal)
      BY <3>2 DEF SerialInv, FinalLast
    <3>4. Range(clientQueue) = {} /\ Range(answers) = {}
      BY <3>3, <2>a, EmptyRange DEF Quiet
    <3>5. sent' \in Goals
      <4>1. sent < MaxGoals
        BY <2>2 DEF SendGoal
      <4> QED BY <3>1, <4>1, ClientTypes, ActionBoundsAssumption DEF Goals
    <3>6. Range(requests') \subseteq Range(requests) \union {sent'}
      BY <2>a, <3>1, <3>5, RangeAppend
    <3>7. Range(requests') \cap mine' \subseteq {sent'}
      BY <3>1, <3>3, <3>6 DEF Quiet
    <3>8. OnlyNewest'
      BY <3>1, <3>3, <3>4, <3>7 DEF OnlyNewest, Quiet
    <3>9. "Requested" \notin Finals \union {"Idle"}
      BY DEF Finals, Ends
    <3> QED BY <3>1, <3>3, <3>4, <3>8, <3>9 DEF FinalLast, TrueView
  <2>3. CASE ClientStep /\ TakeAnswer
    BY <2>3, SerialHeard
  <2>4. ASSUME NEW g \in Goals, ClientStep, TakeFeedback(g) PROVE SerialInv'
    <3>1. /\ UNCHANGED <<overlapped, sent, state, feedback, cut, requests, mine, answers, due,
                         tracked>>
          /\ clientQueue' = clientQueue \/ (g \in tracked /\ Post("feedback", g))
      BY <2>4 DEF TakeFeedback
    <3>2. CASE clientQueue' = clientQueue
      BY <3>1, <3>2, <2>1
    <3>3. CASE g \in tracked /\ Post("feedback", g)
      <4>1. overlapped => SerialInv'
        BY <3>1 DEF SerialInv
      <4>2. ASSUME ~overlapped PROVE SerialInv'
        <5>1. OnlyNewest /\ FinalLast /\ TrueView
          BY <4>2 DEF SerialInv
        <5>2. g = sent /\ ~Quiet
          BY <3>3, <5>1 DEF OnlyNewest, Quiet
        <5>3. "feedback" \notin Finals
          BY DEF Finals, Ends
        <5>4. /\ \A a \in Range(answers') : a.goal = sent
              /\ due' \union tracked' \subseteq {sent} /\ Range(requests') \cap mine' \subseteq {sent}
          BY <3>1, <5>1 DEF OnlyNewest
        <5> QED BY <3>1, <3>3, <4>2, <5>2, <5>3, <5>4, SerialPosted
      <4> QED BY <4>1, <4>2
    <3> QED BY <3>1, <3>2, <3>3
  <2>5. ASSUME NEW g \in Goals, ClientStep, TakeResult(g) PROVE SerialInv'
    BY <2>5, SerialResult
  <2>6. CASE ClientStep /\ RunAnswer
    <3>1. /\ clientQueue # <<>> /\ clientQueue' = Tail(clientQueue)
          /\ Head(clientQueue).kind \in Ends \union Answering
          /\ state' = Head(clientQueue).kind /\ feedback' \in {0, feedback}
          /\ UNCHANGED <<overlapped, sent, cut, status, answers, due, tracked, requests, mine>>
      BY <2>6 DEF RunAnswer, NextEvent, Answering
    <3> QED BY <3>1, SerialShown
  <2>7. ASSUME ClientStep, RunFeedback \/ RunEnd PROVE SerialInv'
    <3>1. /\ clientQueue # <<>> /\ clientQueue' = Tail(clientQueue)
          /\ UNCHANGED <<overlapped, sent, cut, status, answers, due, tracked, requests, mine>>
      BY <2>7 DEF RunFeedback, RunEnd, NextEvent
    <3>2. CASE RunEnd /\ IsCurrent(Head(clientQueue).goal)
      <4>1. /\ Head(clientQueue).kind \in Ends \union Answering
            /\ state' = Head(clientQueue).kind /\ feedback' \in {0, feedback}
        BY <3>2 DEF RunEnd, NextEvent
      <4> QED BY <3>1, <4>1, SerialShown
    <3>3. CASE RunFeedback \/ ~IsCurrent(Head(clientQueue).goal)
      <4>1. state' = state /\ feedback' \in {feedback, Head(clientQueue).goal}
        BY <2>7, <3>3 DEF RunFeedback, RunEnd
      <4>2. Head(clientQueue) \in Range(clientQueue)
        BY <3>1, <2>a, RangeTail
      <4>3. Shorter(clientQueue', clientQueue) /\ Shorter(answers', answers)
        BY <3>1 DEF Shorter
      <4> QED BY <3>1, <4>1, <4>2, <4>3, SerialKept
    <3> QED BY <2>7, <3>2, <3>3
  <2>8. ASSUME ClientStep, ResetHandle \/ CancelGoal \/ CheckClientHealth \/ Discover
        PROVE  SerialInv'
    <3>1. UNCHANGED <<overlapped, sent, state, clientQueue, answers, feedback, tracked, cut, due,
                      requests, mine>>
      BY <2>8 DEF ResetHandle, CancelGoal, CheckClientHealth, Discover, clientVars
    <3> QED BY <3>1, <2>1
  <2>9. ASSUME ClientStep, SetupClient \/ ClearClient PROVE SerialInv'
    <3>1. PICK present \in BOOLEAN : ReplaceClient(present)
      BY Zenon, <2>9 DEF SetupClient, ClearClient
    <3>2. /\ UNCHANGED <<overlapped, sent, state, clientQueue, feedback>> /\ cut \subseteq cut'
          /\ answers' = <<>> /\ due' = {} /\ tracked' = {} /\ mine' = {}
      BY <3>1 DEF ReplaceClient
    <3>3. Shorter(clientQueue', clientQueue) /\ Shorter(answers', answers)
      BY <3>2 DEF Shorter
    <3> QED BY <3>2, <3>3, SerialKept
  <2>10. ASSUME ServerStep, AcceptGoal \/ DeclineGoal PROVE SerialInv'
    <3> DEFINE g == Head(requests)
    <3>1. /\ requests # <<>> /\ requests' = Tail(requests)
          /\ UNCHANGED <<overlapped, sent, state, clientQueue, feedback, tracked, cut, due, mine>>
      BY <2>10 DEF ServerStep, AcceptGoal, DeclineGoal, clientVars
    <3>2. PICK b \in BOOLEAN : answers' = Answered(g, b)
      BY <2>10 DEF AcceptGoal, DeclineGoal
    <3>3. Range(requests) = {g} \union Range(requests') /\ g \in Goals
      BY <3>1, <2>a, RangeTail, QueueTail
    <3>4. CASE g \notin mine
      <4>1. answers' = answers
        BY <3>2, <3>4 DEF Answered
      <4> QED BY <3>1, <3>3, <4>1, <2>1
    <3>5. CASE g \in mine
      <4> DEFINE x == [goal |-> g, accepted |-> b]
      <4>1. x \in Answer /\ x.goal = g /\ answers' = Append(answers, x)
        BY <3>2, <3>3, <3>5 DEF Answer, Answered
      <4> HIDE DEF x, g
      <4>2. Range(Append(answers, x)) = Range(answers) \union {x}
        BY <2>a, <4>1, RangeAppend
      <4>3. SUFFICES ASSUME ~overlapped PROVE (OnlyNewest /\ FinalLast /\ TrueView)'
        BY <3>1 DEF SerialInv
      <4>4. OnlyNewest /\ FinalLast /\ TrueView
        BY <4>3 DEF SerialInv
      <4>5. g = sent /\ ~Quiet
        BY <3>3, <3>5, <4>4 DEF OnlyNewest, Quiet
      <4>6. OnlyNewest'
        BY <3>1, <3>3, <4>1, <4>2, <4>4, <4>5 DEF OnlyNewest
      <4>7. FinalLast'
        BY <3>1, <4>4, <4>5 DEF FinalLast
      <4> QED BY <3>1, <4>4, <4>6, <4>7, TrueViewKept
    <3> QED BY <3>4, <3>5
  <2>11. ASSUME ServerStep, SetupServer \/ ClearServer PROVE SerialInv'
    <3>1. PICK present \in BOOLEAN : ReplaceServer(present)
      BY Zenon, <2>11 DEF SetupServer, ClearServer
    <3>2. /\ UNCHANGED <<answers, tracked, mine>> /\ cut \subseteq cut' /\ due' = {}
          /\ requests' = <<>>
      BY <3>1 DEF ReplaceServer
    <3>3. UNCHANGED <<overlapped, sent, state, clientQueue, feedback>>
      BY <2>11 DEF ServerStep, clientVars
    <3>4. Range(<<>>) = {}
      BY DEF Range
    <3> QED BY <3>2, <3>3, <3>4, <2>1
  <2>12. ASSUME ServerStep,
                \/ FinishCancel \/ DispatchAccepted \/ RouteCancel \/ CheckServerHealth
                \/ \E g \in Goals : AcceptCancel(g) \/ Canceled(g) \/ PublishFeedback(g)
                \/ \E g \in Goals, end \in {"Succeeded", "Aborted"} : EndGoal(g, end)
         PROVE  SerialInv'
    <3>1. UNCHANGED <<overlapped, sent, state, clientQueue, feedback>>
      BY <2>12 DEF ServerStep, clientVars
    <3>2. UNCHANGED <<requests, answers, due, tracked, mine, cut>>
      BY <2>12 DEF FinishCancel, DispatchAccepted, RouteCancel, CheckServerHealth,
           AcceptCancel, Canceled, PublishFeedback, EndGoal
    <3> QED BY <3>1, <3>2, <2>1
  <2>13. CASE UNCHANGED vars
    <3>1. UNCHANGED <<overlapped, sent, state, clientQueue, answers, feedback, tracked, cut, due,
                      requests, mine>>
      BY <2>13 DEF vars, clientVars
    <3> QED BY <3>1, <2>1
  <2> QED
    BY <2>2, <2>3, <2>4, <2>5, <2>6, <2>7, <2>8, <2>9, <2>10, <2>11, <2>12, <2>13 DEF Next
<1>3. SerialInv => SerialViewTrue
  BY DEF SerialInv, TrueView, SerialViewTrue
<1> QED BY <1>1, <1>2, <1>3, TypeCorrect, LifeCorrect, OrderCorrect, KnownCorrect, PTL DEF Spec

-----------------------------------------------------------------------------
(* The goals the server runs.                                              *)

\* A request to cancel a goal is not posted before the goal itself.
AcceptedFirst ==
  {p \in Call \X Call : p[1].call = "cancel" /\ p[2].call = "accepted" => p[1].goal # p[2].goal}

AcceptedCall(g) == [call |-> "accepted", goal |-> g]
CancelCall(g) == [call |-> "cancel", goal |-> g]

\* RunningGoalsServed needs the order of the two calls, without which a request
\* could look for a handle that is still to come, and counts a goal as asked to
\* cancel as soon as the executor's callback has said so.
ServedInv ==
  /\ Sorted(serverQueue, AcceptedFirst)
  /\ \A c \in Range(serverQueue) : status[c.goal] # "none"
  /\ \A g \in known : status[g] \in Running =>
       AcceptedCall(g) \in Range(serverQueue) \/ g \in open \cap handles
  /\ \A g \in known : status[g] = "canceling" \/ (cancelling = g /\ status[g] = "executing") =>
       CancelCall(g) \in Range(serverQueue) \/ g \in cancelRequested

\* What the types say of the server's queue.
LEMMA ServerTypes ==
  ASSUME TypeOK
  PROVE  /\ serverQueue \in Seq(Call) /\ Range(serverQueue) \subseteq Call
         /\ \A c \in Range(serverQueue) : c.goal \in Goals
         /\ status \in [Goals -> Statuses] /\ known \subseteq Goals
         /\ cancelling \in Goals \union {0} /\ open \subseteq Goals
<1>1. /\ serverQueue \in Seq(Call) /\ status \in [Goals -> Statuses] /\ known \subseteq Goals
      /\ cancelling \in Goals \union {0} /\ open \subseteq Goals
  BY DEF TypeOK, WireTypeOK, ServerTypeOK, Call
<1>2. Range(serverQueue) \subseteq Call
  BY <1>1, RangeType
<1> QED BY <1>1, <1>2 DEF Call

\* The invariant survives while no call is added and goals only stop running.
LEMMA ServedKept ==
  ASSUME TypeOK, LifeInv, [Next]_vars, ServedInv,
         UNCHANGED serverQueue, known' \subseteq known,
         cancelRequested \subseteq cancelRequested', cancelling' \in {0, cancelling},
         \A g \in known' : status'[g] \in Running =>
           /\ status[g] \in Running /\ (g \in open \cap handles => g \in open' \cap handles')
           /\ status'[g] = status[g] \/ cancelling = g
  PROVE  ServedInv'
<1>1. \A c \in Range(serverQueue) : status'[c.goal] # "none"
  BY ServerTypes, StatusFinal DEF ServedInv
<1>2. ASSUME NEW g \in known',
             status'[g] = "canceling" \/ (cancelling' = g /\ status'[g] = "executing")
      PROVE  status[g] = "canceling" \/ (cancelling = g /\ status[g] = "executing")
  <2>1. status'[g] \in Running /\ g \in Goals /\ 0 \notin Goals
    BY <1>2, ServerTypes, ClientTypes DEF Running
  <2>2. status[g] \in Running /\ (status'[g] = status[g] \/ cancelling = g)
    BY <2>1
  <2>3. cancelling' = g => cancelling = g
    BY <2>1
  <2> QED BY <1>2, <2>1, <2>2, <2>3 DEF Running
<1> QED BY <1>1, <1>2 DEF ServedInv

\* A call is posted: of a goal that is accepted just now, or of one to cancel.
LEMMA ServedCalled ==
  ASSUME TypeOK, LifeInv, [Next]_vars, ServedInv,
         NEW call \in {"accepted", "cancel"}, NEW g \in Goals,
         serverQueue' = PostCall(call, g), UNCHANGED <<open, handles, cancelRequested>>,
         status'[g] = "executing", \A h \in Goals : h # g => status'[h] = status[h],
         known' \subseteq known \union {g},
         \/ call = "accepted" /\ status[g] = "none" /\ cancelling' = 0
         \/ call = "cancel" /\ status' = status /\ known' = known /\ cancelling' = g
  PROVE  ServedInv'
<1> DEFINE c == [call |-> call, goal |-> g]
<1>1. c \in Call /\ c.call = call /\ c.goal = g
  BY DEF Call
<1>2. /\ serverQueue' = Append(serverQueue, c)
      /\ c = IF call = "accepted" THEN AcceptedCall(g) ELSE CancelCall(g)
  BY DEF PostCall, AcceptedCall, CancelCall
<1> HIDE DEF c
<1>3. /\ Range(Append(serverQueue, c)) = Range(serverQueue) \union {c}
      /\ \A R : Sorted(serverQueue, R) /\ (\A x \in Range(serverQueue) : <<x, c>> \in R)
               => Sorted(Append(serverQueue, c), R)
  BY <1>1, ServerTypes, RangeAppend
<1>4. \A x \in Range(serverQueue) : <<x, c>> \in AcceptedFirst
  BY <1>1, ServerTypes DEF ServedInv, AcceptedFirst
<1>5. Sorted(serverQueue', AcceptedFirst) /\ Range(serverQueue') = Range(serverQueue) \union {c}
  BY <1>2, <1>3, <1>4 DEF ServedInv
<1>6. \A x \in Range(serverQueue') : status'[x.goal] # "none"
  BY <1>1, <1>5, ServerTypes, StatusFinal DEF ServedInv
<1>7. ASSUME NEW h \in known', status'[h] \in Running
      PROVE  AcceptedCall(h) \in Range(serverQueue') \/ h \in open' \cap handles'
  <2>1. h \in Goals
    BY ServerTypes
  <2>2. CASE call = "accepted" /\ h = g
    BY <1>2, <1>5, <2>2
  <2>3. CASE call = "cancel" \/ h # g
    BY <1>5, <1>7, <2>1, <2>3 DEF ServedInv
  <2> QED BY <2>2, <2>3
<1>8. ASSUME NEW h \in known',
             status'[h] = "canceling" \/ (cancelling' = h /\ status'[h] = "executing")
      PROVE  CancelCall(h) \in Range(serverQueue') \/ h \in cancelRequested'
  <2>1. h \in Goals /\ 0 \notin Goals
    BY ServerTypes, ClientTypes
  <2>2. CASE call = "cancel" /\ h = g
    BY <1>2, <1>5, <2>2
  <2>3. CASE h # g
    BY <1>5, <1>8, <2>1, <2>3 DEF ServedInv
  <2>4. ~(call = "accepted" /\ h = g)
    BY <1>8, <2>1
  <2> QED BY <2>2, <2>3, <2>4
<1> QED BY <1>5, <1>6, <1>7, <1>8 DEF ServedInv

\* The event loop hands a goal over, or looks up the handle a request is for.
LEMMA ServedRun ==
  ASSUME TypeOK, LifeInv, KnownInv, [Next]_vars, ServedInv, DispatchAccepted \/ RouteCancel
  PROVE  ServedInv'
<1> USE DEF goalVars, trackVars, wireVars, actionBoundVars
<1> DEFINE c == Head(serverQueue)
<1>1. /\ serverQueue # <<>> /\ serverQueue' = Tail(serverQueue)
      /\ UNCHANGED <<status, known, cancelling>>
      /\ \/ /\ c.call = "accepted" /\ cancelRequested' = cancelRequested
            /\ IF server THEN handles' = handles \union {c.goal} /\ open' = open \union {c.goal}
                         ELSE UNCHANGED <<handles, open>>
         \/ /\ c.call = "cancel" /\ UNCHANGED <<handles, open>>
            /\ cancelRequested' = cancelRequested \union ({c.goal} \cap handles)
  BY DEF DispatchAccepted, RouteCancel, NextCall, RoutedTo
<1>2. /\ Range(serverQueue) = {c} \union Range(serverQueue')
      /\ \A x \in Range(serverQueue') : <<c, x>> \in AcceptedFirst
      /\ Sorted(serverQueue', AcceptedFirst)
  <2>1. serverQueue \in Seq(Call) /\ Shorter(serverQueue', serverQueue)
    BY <1>1, ServerTypes DEF Shorter
  <2>2. Sorted(serverQueue, AcceptedFirst)
    BY DEF ServedInv
  <2> QED BY <1>1, <2>1, <2>2, RangeTail, ShorterQueue
<1>3. \A x \in Range(serverQueue') : status'[x.goal] # "none"
  BY <1>1, <1>2 DEF ServedInv
<1>4. c \in Call
  BY <1>2, ServerTypes
<1> HIDE DEF c
<1>5. /\ \A g : AcceptedCall(g).call = "accepted" /\ AcceptedCall(g).goal = g
      /\ \A g : CancelCall(g).call = "cancel" /\ CancelCall(g).goal = g
  BY DEF AcceptedCall, CancelCall
<1>6. ~server => known = {}
  BY DEF KnownInv
<1>7. ASSUME NEW g \in known', status'[g] \in Running
      PROVE  AcceptedCall(g) \in Range(serverQueue') \/ g \in open' \cap handles'
  <2>1. AcceptedCall(g) \in Range(serverQueue) \/ g \in open \cap handles
    BY <1>1, <1>7 DEF ServedInv
  <2>2. CASE AcceptedCall(g) = c
    BY <1>1, <1>5, <1>6, <2>2
  <2>3. CASE AcceptedCall(g) # c
    BY <1>1, <1>2, <2>1, <2>3
  <2> QED BY <2>2, <2>3
<1>8. ASSUME NEW g \in known',
             status'[g] = "canceling" \/ (cancelling' = g /\ status'[g] = "executing")
      PROVE  CancelCall(g) \in Range(serverQueue') \/ g \in cancelRequested'
  <2>1. CancelCall(g) \in Range(serverQueue) \/ g \in cancelRequested
    BY <1>1, <1>8 DEF ServedInv
  <2>2. CASE CancelCall(g) # c
    BY <1>1, <1>2, <2>1, <2>2
  <2>3. CASE CancelCall(g) = c
    <3>1. AcceptedCall(g) \in Range(serverQueue) \/ g \in open \cap handles
      BY <1>1, <1>8 DEF ServedInv, Running
    <3>2. AcceptedCall(g) \notin Range(serverQueue)
      BY <1>2, <1>5, <2>3 DEF AcceptedFirst
    <3> QED BY <1>1, <1>5, <2>3, <3>1, <3>2
  <2> QED BY <2>2, <2>3
<1> QED BY <1>2, <1>3, <1>7, <1>8 DEF ServedInv

\* Running goals are served in every reachable state.
THEOREM ServedCorrect == Spec => []RunningGoalsServed
<1> USE DEF goalVars, trackVars, wireVars, actionBoundVars, objectVars
<1>1. Init => ServedInv
  <2> SUFFICES ASSUME Init PROVE ServedInv
    OBVIOUS
  <2>1. Range(<<>>) = {} /\ \A R : Sorted(<<>>, R)
    BY DEF Range, Sorted
  <2>2. serverQueue = <<>> /\ known = {}
    BY DEF Init, WireInit, ServerInit
  <2> QED BY <2>1, <2>2 DEF ServedInv
<1>2. TypeOK /\ LifeInv /\ KnownInv /\ ServedInv /\ [Next]_vars => ServedInv'
  <2> SUFFICES ASSUME TypeOK, LifeInv, KnownInv, ServedInv, [Next]_vars PROVE ServedInv'
    OBVIOUS
  <2>a. status \in [Goals -> Statuses]
    BY ServerTypes
  <2>1. ASSUME UNCHANGED <<status, serverQueue, open, cancelRequested, cancelling>>,
               \/ known' = known /\ handles' = handles
               \/ known' = {}
        PROVE  ServedInv'
    BY <2>1, ServedKept
  <2>2. ASSUME ClientStep,
               \/ SendGoal \/ CancelGoal \/ TakeAnswer \/ RunAnswer \/ RunFeedback \/ RunEnd
               \/ ResetHandle \/ CheckClientHealth \/ SetupClient \/ ClearClient \/ Discover
               \/ \E g \in Goals : TakeFeedback(g) \/ TakeResult(g)
        PROVE  ServedInv'
    <3>1. UNCHANGED <<serverQueue, open, handles, cancelRequested, cancelling>>
      BY <2>2 DEF ClientStep, serverVars
    <3>2. CASE SetupClient \/ ClearClient
      <4>1. UNCHANGED <<status, known>>
        BY <3>2 DEF SetupClient, ClearClient, ReplaceClient
      <4> QED BY <3>1, <4>1, <2>1
    <3>3. CASE ~(SetupClient \/ ClearClient)
      <4>1. UNCHANGED <<status, known>>
        BY <2>2, <3>3 DEF SendGoal, CancelGoal, TakeAnswer, RunAnswer, RunFeedback, RunEnd,
             ResetHandle, CheckClientHealth, Discover, TakeFeedback, TakeResult
      <4> QED BY <3>1, <4>1, <2>1
    <3> QED BY <3>2, <3>3
  <2>3. CASE ServerStep /\ AcceptGoal
    <3> DEFINE g == Head(requests)
    <3>1. /\ requests # <<>> /\ cancelling = 0 /\ cancelling' = cancelling
          /\ status' = [status EXCEPT ![g] = "executing"] /\ known' = known \union {g}
          /\ serverQueue' = PostCall("accepted", g)
          /\ UNCHANGED <<open, handles, cancelRequested>>
      BY <2>3 DEF AcceptGoal
    <3>2. requests \in Seq(Goals)
      BY ClientTypes
    <3>3. g \in Goals /\ status[g] = "none"
      BY <3>1, <3>2, TailPositions, QueueTail DEF LifeInv, RequestsFresh
    <3> HIDE DEF g
    <3> QED BY <2>a, <3>1, <3>3, ServedCalled
  <2>4. ASSUME NEW g \in Goals, ServerStep, AcceptCancel(g) PROVE ServedInv'
    <3>1. UNCHANGED <<status, known, open, handles, cancelRequested>>
      BY <2>4 DEF AcceptCancel
    <3>2. CASE g \in known /\ status[g] = "executing"
      <4>1. cancelling' = g /\ serverQueue' = PostCall("cancel", g)
        BY <2>4, <3>2 DEF AcceptCancel
      <4> QED BY <3>1, <3>2, <4>1, ServedCalled
    <3>3. CASE ~(g \in known /\ status[g] = "executing")
      BY <2>1, <2>4, <3>1, <3>3 DEF AcceptCancel
    <3> QED BY <3>2, <3>3
  <2>5. ASSUME ServerStep, DispatchAccepted \/ RouteCancel PROVE ServedInv'
    BY <2>5, ServedRun
  <2>6. CASE ServerStep /\ FinishCancel
    <3>1. /\ UNCHANGED <<known, serverQueue, open, handles, cancelRequested>>
          /\ cancelling # 0 /\ cancelling' = 0
          /\ \/ status' = status
             \/ /\ status[cancelling] = "executing"
                /\ status' = [status EXCEPT ![cancelling] = "canceling"]
      BY <2>6 DEF FinishCancel
    <3>2. \A g \in known' : status'[g] \in Running =>
            status[g] \in Running /\ (status'[g] = status[g] \/ cancelling = g)
      BY <3>1, ServerTypes DEF Running
    <3> QED BY <3>1, <3>2, ServedKept
  <2>7. ASSUME NEW g \in Goals, NEW end \in Ends, status' = [status EXCEPT ![g] = end],
               FinishHandle(g), UNCHANGED <<known, serverQueue, cancelling>>
        PROVE  ServedInv'
    <3>1. \A h \in known' : status'[h] \in Running => h # g /\ status'[h] = status[h]
      BY <2>7, ServerTypes DEF Running, Ends
    <3>2. /\ open' = open \ {g} /\ handles' = handles \ {g}
          /\ cancelRequested' = cancelRequested
      BY <2>7 DEF FinishHandle
    <3> QED BY <2>7, <3>1, <3>2, ServedKept
  <2>8. ASSUME NEW g \in Goals, NEW end \in {"Succeeded", "Aborted"}, ServerStep, EndGoal(g, end)
        PROVE  ServedInv'
    BY <2>7, <2>8 DEF EndGoal, Ends
  <2>9. ASSUME NEW g \in Goals, ServerStep, Canceled(g) PROVE ServedInv'
    <3>1. CASE status[g] = "canceling"
      BY <2>7, <2>9, <3>1 DEF Canceled, Ends
    <3>2. CASE status[g] # "canceling"
      BY <2>1, <2>9, <3>2 DEF Canceled
    <3> QED BY <3>1, <3>2
  <2>10. CASE ServerStep /\ DeclineGoal
    <3> DEFINE g == Head(requests)
    <3>1. /\ requests # <<>> /\ status' = [status EXCEPT ![g] = "declined"]
          /\ UNCHANGED <<known, serverQueue, open, handles, cancelRequested, cancelling>>
      BY <2>10 DEF DeclineGoal, serverVars
    <3>2. g \in Goals
      BY <3>1, ClientTypes, QueueTail
    <3> HIDE DEF g
    <3>3. \A h \in known' : status'[h] \in Running => status'[h] = status[h]
      BY <3>1, <3>2, ServerTypes DEF Running
    <3> QED BY <3>1, <3>3, ServedKept
  <2>11. ASSUME ServerStep, SetupServer \/ ClearServer PROVE ServedInv'
    <3>1. PICK present \in BOOLEAN : ReplaceServer(present)
      BY Zenon, <2>11 DEF SetupServer, ClearServer
    <3>2. known' = {} /\ UNCHANGED <<status, serverQueue, open, cancelRequested, cancelling>>
      BY <3>1 DEF ReplaceServer
    <3> QED BY <3>2, <2>1
  <2>12. ASSUME ServerStep, CheckServerHealth \/ \E g \in Goals : PublishFeedback(g)
         PROVE  ServedInv'
    BY <2>1, <2>12 DEF CheckServerHealth, PublishFeedback, serverVars
  <2>13. CASE UNCHANGED vars
    BY <2>1, <2>13 DEF vars, serverVars
  <2> QED
    BY <2>2, <2>3, <2>4, <2>5, <2>6, <2>8, <2>9, <2>10, <2>11, <2>12, <2>13 DEF Next
<1>3. ServedInv => RunningGoalsServed
  <2>1. Range(serverQueue) = {serverQueue[i] : i \in DOMAIN serverQueue}
    BY DEF Range
  <2>2. \A g : /\ AcceptedCall(g) \in Range(serverQueue) => Called("accepted", g)
               /\ CancelCall(g) \in Range(serverQueue) => Called("cancel", g)
    BY <2>1 DEF AcceptedCall, CancelCall, Called
  <2> QED BY <2>2 DEF ServedInv, RunningGoalsServed, Running
<1> QED BY <1>1, <1>2, <1>3, TypeCorrect, LifeCorrect, KnownCorrect, PTL DEF Spec
=============================================================================
