------------------------ MODULE ServiceClientProofs ------------------------
(***************************************************************************)
(* Proofs about ServiceClient, for every set of values and every bound.    *)
(***************************************************************************)
EXTENDS ServiceClient, TLAPS

-----------------------------------------------------------------------------
(* Type correctness.                                                       *)

\* scheduleStoredCallAttempt() leaves a flag and a queue of events.
LEMMA ScheduleType ==
  ASSUME attemptScheduled \in BOOLEAN, NEW queue \in Seq(Events),
         ScheduleStoredCallAttempt(queue)
  PROVE  attemptScheduled' \in BOOLEAN /\ guiQueue' \in Seq(Events)
<1>1. Append(queue, AttemptEvent) \in Seq(Events)
  BY DEF AttemptEvent, Events
<1> QED BY <1>1, Zenon DEF ScheduleStoredCallAttempt

\* Sending a request keeps the call bookkeeping well typed.
LEMMA SendType ==
  ASSUME calls \in Nat, inFlight \subseteq Nat, SendRequest
  PROVE  calls' \in Nat /\ inFlight' \subseteq Nat /\ callPending' \in BOOLEAN
BY DEF SendRequest

\* Every variable of the service client keeps its type.
THEOREM TypeCorrect == Spec => []TypeOK
<1>1. Init => TypeOK
  <2>1. <<>> \in Seq(Events) /\ 0 \in Nat /\ {} \subseteq Nat
    OBVIOUS
  <2> QED BY <2>1, DefaultAssumption DEF Init, TypeOK
<1>2. TypeOK /\ [Next]_vars => TypeOK'
  <2> SUFFICES ASSUME TypeOK, [Next]_vars PROVE TypeOK'
    OBVIOUS
  <2> USE DEF TypeOK, itemVars, callVars, linkVars, boundVars, queueVars
  <2>1. ASSUME NEW v \in Values, SetRequest(v) PROVE TypeOK'
    <3>1. attemptScheduled' \in BOOLEAN /\ guiQueue' \in Seq(Events)
      BY <2>1, ScheduleType DEF SetRequest
    <3> QED BY <2>1, <3>1 DEF SetRequest, DirtyAfterWrite
  <2>2. CASE SetAutoCall
    <3>1. attemptScheduled' \in BOOLEAN /\ guiQueue' \in Seq(Events)
      BY <2>2, ScheduleType DEF SetAutoCall
    <3> QED BY <2>2, <3>1 DEF SetAutoCall
  <2>3. CASE CallService
    <3>1. calls' \in Nat /\ inFlight' \subseteq Nat /\ callPending' \in BOOLEAN
      BY <2>3, SendType DEF CallService
    <3> QED BY <2>3, <3>1 DEF CallService
  <2>4. CASE RunAttempt
    <3>1. calls' \in Nat /\ inFlight' \subseteq Nat /\ callPending' \in BOOLEAN
      BY <2>4, SendType DEF RunAttempt
    <3>2. guiQueue' \in Seq(Events)
      BY <2>4 DEF RunAttempt
    <3> QED BY <2>4, <3>1, <3>2 DEF RunAttempt, DispatchedValue
  <2>5. CASE RunCompletion
    <3>1. Tail(guiQueue) \in Seq(Events) /\ Head(guiQueue) \in Events
      BY <2>5 DEF RunCompletion
    <3>2. attemptScheduled' \in BOOLEAN /\ guiQueue' \in Seq(Events) /\ callPending' \in BOOLEAN
      BY <2>5, <3>1, ScheduleType DEF RunCompletion, ClearCallPending
    <3>3. response' \in Nat
      BY <2>5, <3>1 DEF RunCompletion, Events
    <3> QED BY <2>5, <3>2, <3>3 DEF RunCompletion
  <2>6. CASE CheckHealth
    <3>1. attemptScheduled' \in BOOLEAN /\ guiQueue' \in Seq(Events)
      BY <2>6, ScheduleType DEF CheckHealth, SetServiceReady
    <3> QED BY <2>6, <3>1 DEF CheckHealth, SetServiceReady
  <2>7. CASE SetupConnection
    <3>1. inFlight' \subseteq Nat
      BY <2>7 DEF SetupConnection, LoseCalls
    <3>2. resets' \in Nat
      BY <2>7 DEF SetupConnection
    <3> QED BY <2>7, <3>1, <3>2 DEF SetupConnection
  <2>8. CASE ClearConnection
    <3>1. inFlight' \subseteq Nat
      BY <2>8 DEF ClearConnection, LoseCalls
    <3>2. resets' \in Nat
      BY <2>8 DEF ClearConnection
    <3> QED BY <2>8, <3>1, <3>2 DEF ClearConnection
  <2>9. ASSUME NEW c \in inFlight, Respond(c) PROVE TypeOK'
    <3>1. guiQueue' \in Seq(Events)
      BY <2>9 DEF Respond, Completion, Events
    <3> QED BY <2>9, <3>1 DEF Respond
  <2>10. CASE Discover
    BY <2>10 DEF Discover
  <2>11. CASE ServerUp
    BY <2>11 DEF ServerUp
  <2>12. CASE ServerDown
    <3>1. inFlight' \subseteq Nat
      BY <2>12 DEF ServerDown, LoseCalls
    <3>2. outages' \in Nat
      BY <2>12 DEF ServerDown
    <3> QED BY <2>12, <3>1, <3>2 DEF ServerDown
  <2>13. CASE UNCHANGED vars
    BY <2>13 DEF vars
  <2> QED
    BY <2>1, <2>2, <2>3, <2>4, <2>5, <2>6, <2>7, <2>8, <2>9, <2>10, <2>11,
       <2>12, <2>13 DEF Next
<1> QED BY <1>1, <1>2, PTL DEF Spec

-----------------------------------------------------------------------------
(* The posted attempt.  NoLostWakeup is inductive together with            *)
(* AttemptPostedOnce: a step that clears the flag is the step that runs    *)
(* the posted event, and only because that event was the only one is the   *)
(* flag then right to be clear.                                            *)

Mirrors(flag, q) == (flag <=> AttemptPosted(q)) /\ SingleAttempt(q)

\* Posting an attempt to a queue without one leaves exactly one.
LEMMA AppendAttempt ==
  ASSUME NEW q \in Seq(Events), ~AttemptPosted(q)
  PROVE  /\ AttemptPosted(Append(q, AttemptEvent))
         /\ SingleAttempt(Append(q, AttemptEvent))
<1> DEFINE p == Append(q, AttemptEvent)
<1>1. Len(p) = Len(q) + 1 /\ p[Len(q) + 1] = AttemptEvent
  BY DEF AttemptEvent, Events
<1>2. \A i \in 1..Len(q) : p[i] = q[i]
  BY DEF AttemptEvent, Events
<1>3. AttemptEvent.kind = "attempt"
  BY DEF AttemptEvent
<1>4. Len(q) \in Nat
  OBVIOUS
<1> HIDE DEF p
<1>5. AttemptPosted(p)
  BY <1>1, <1>3, <1>4 DEF AttemptPosted
<1>6. \A i \in 1..Len(p) : p[i].kind = "attempt" => i = Len(q) + 1
  BY <1>1, <1>2, <1>4 DEF AttemptPosted
<1>7. SingleAttempt(p)
  BY <1>6 DEF SingleAttempt
<1> QED BY <1>5, <1>7 DEF p

\* Posting a completion changes nothing about attempts.
LEMMA AppendCompletion ==
  ASSUME NEW q \in Seq(Events), NEW e \in Events, e.kind # "attempt"
  PROVE  /\ AttemptPosted(Append(q, e)) <=> AttemptPosted(q)
         /\ SingleAttempt(q) => SingleAttempt(Append(q, e))
<1> DEFINE p == Append(q, e)
<1>1. Len(p) = Len(q) + 1 /\ p[Len(q) + 1] = e
  OBVIOUS
<1>2. \A i \in 1..Len(q) : p[i] = q[i]
  OBVIOUS
<1>4. Len(q) \in Nat
  OBVIOUS
<1> HIDE DEF p
<1>5. \A i \in 1..Len(p) : p[i].kind = "attempt" => i \in 1..Len(q) /\ q[i].kind = "attempt"
  BY <1>1, <1>2, <1>4
<1>6. AttemptPosted(p) <=> AttemptPosted(q)
  BY <1>1, <1>2, <1>4, <1>5 DEF AttemptPosted
<1>7. SingleAttempt(q) => SingleAttempt(p)
  BY <1>5 DEF SingleAttempt
<1> QED BY <1>6, <1>7 DEF p

\* Taking the head off: an attempt at the head was the only one, a
\* completion at the head leaves the attempts as they were.
LEMMA TailEvents ==
  ASSUME NEW q \in Seq(Events), q # <<>>
  PROVE  /\ SingleAttempt(q) => SingleAttempt(Tail(q))
         /\ Head(q).kind = "attempt" /\ SingleAttempt(q) => ~AttemptPosted(Tail(q))
         /\ Head(q).kind # "attempt" => (AttemptPosted(Tail(q)) <=> AttemptPosted(q))
<1> DEFINE p == Tail(q)
<1>1. Len(q) \in Nat /\ Len(q) > 0 /\ Len(p) = Len(q) - 1
  OBVIOUS
<1>2. \A i \in 1..Len(p) : p[i] = q[i + 1]
  OBVIOUS
<1>3. Head(q) = q[1]
  OBVIOUS
<1> HIDE DEF p
<1>4. \A i \in 1..Len(p) : i + 1 \in 1..Len(q) /\ i + 1 # 1
  BY <1>1
<1>5. \A i \in 1..Len(q) : i # 1 => i - 1 \in 1..Len(p) /\ q[i] = p[i - 1]
  BY <1>1, <1>2
<1>6. SingleAttempt(q) => SingleAttempt(p)
  <2> SUFFICES ASSUME SingleAttempt(q), NEW i \in 1..Len(p), NEW j \in 1..Len(p),
                      p[i].kind = "attempt", p[j].kind = "attempt"
               PROVE  i = j
    BY DEF SingleAttempt
  <2>1. i + 1 = j + 1
    BY <1>2, <1>4 DEF SingleAttempt
  <2> QED BY <2>1
<1>7. Head(q).kind = "attempt" /\ SingleAttempt(q) => ~AttemptPosted(p)
  BY <1>1, <1>2, <1>3, <1>4 DEF SingleAttempt, AttemptPosted
<1>8. Head(q).kind # "attempt" => (AttemptPosted(p) <=> AttemptPosted(q))
  BY <1>2, <1>3, <1>4, <1>5 DEF AttemptPosted
<1> QED BY <1>6, <1>7, <1>8 DEF p

\* scheduleStoredCallAttempt() keeps flag and queue in step, and afterwards an
\* attempt is posted whenever there is a request to dispatch.
LEMMA ScheduleMirrors ==
  ASSUME attemptScheduled \in BOOLEAN, NEW queue \in Seq(Events),
         Mirrors(attemptScheduled, queue), ScheduleStoredCallAttempt(queue)
  PROVE  /\ Mirrors(attemptScheduled', guiQueue')
         /\ requestDirty' /\ autoCall' => attemptScheduled'
<1>1. CASE ~attemptScheduled /\ requestDirty' /\ autoCall'
  <2>1. attemptScheduled' = TRUE /\ guiQueue' = Append(queue, AttemptEvent)
    BY <1>1 DEF ScheduleStoredCallAttempt
  <2>2. ~AttemptPosted(queue)
    BY <1>1 DEF Mirrors
  <2>3. Mirrors(TRUE, Append(queue, AttemptEvent))
    BY <2>2, AppendAttempt DEF Mirrors
  <2> QED BY <2>1, <2>3
<1>2. CASE ~(~attemptScheduled /\ requestDirty' /\ autoCall')
  <2>1. attemptScheduled' = attemptScheduled /\ guiQueue' = queue
    BY <1>2 DEF ScheduleStoredCallAttempt
  <2> QED BY <1>2, <2>1
<1> QED BY <1>1, <1>2

\* The inductive invariant behind the two properties of the run.
IInv == TypeOK /\ AttemptPostedOnce /\ NoLostWakeup

\* In every state the scheduled flag mirrors the event queue, and no request
\* that could be dispatched is left without a posted attempt.
THEOREM WakeupsCorrect == Spec => [](AttemptPostedOnce /\ NoLostWakeup)
<1> USE DEF itemVars, callVars, linkVars, boundVars, queueVars
<1>1. Init => AttemptPostedOnce /\ NoLostWakeup
  BY DEF Init, AttemptPostedOnce, AttemptPosted, SingleAttempt, NoLostWakeup, MayDispatch
<1>2. IInv /\ [Next]_vars => (AttemptPostedOnce /\ NoLostWakeup)'
  <2> SUFFICES ASSUME TypeOK, AttemptPostedOnce, NoLostWakeup, [Next]_vars
               PROVE  Mirrors(attemptScheduled', guiQueue') /\ (MayDispatch' => attemptScheduled')
    BY DEF IInv, AttemptPostedOnce, NoLostWakeup, Mirrors, AttemptPosted, SingleAttempt
  <2>a. Mirrors(attemptScheduled, guiQueue)
    BY DEF AttemptPostedOnce, Mirrors
  <2>b. attemptScheduled \in BOOLEAN /\ guiQueue \in Seq(Events)
    BY DEF TypeOK
  <2>c. MayDispatch => attemptScheduled
    BY DEF NoLostWakeup
  <2>1. ASSUME NEW v \in Values, SetRequest(v)
        PROVE  Mirrors(attemptScheduled', guiQueue') /\ (MayDispatch' => attemptScheduled')
    <3>1. ScheduleStoredCallAttempt(guiQueue)
      BY <2>1 DEF SetRequest
    <3> QED BY <3>1, <2>a, <2>b, ScheduleMirrors DEF MayDispatch
  <2>2. CASE SetAutoCall
    <3>1. CASE autoCall'
      <4>1. ScheduleStoredCallAttempt(guiQueue)
        BY <2>2, <3>1 DEF SetAutoCall
      <4> QED BY <4>1, <2>a, <2>b, ScheduleMirrors DEF MayDispatch
    <3>2. CASE ~autoCall'
      <4>1. attemptScheduled' = attemptScheduled /\ guiQueue' = guiQueue
        BY <2>2, <3>2 DEF SetAutoCall
      <4> QED BY <4>1, <3>2, <2>a DEF MayDispatch
    <3> QED BY <3>1, <3>2
  <2>3. CASE CallService
    <3>1. attemptScheduled' = attemptScheduled /\ guiQueue' = guiQueue /\ callPending' = TRUE
      BY <2>3 DEF CallService, SendRequest
    <3> QED BY <3>1, <2>a DEF MayDispatch
  <2>4. CASE RunAttempt
    <3>1. /\ guiQueue # <<>> /\ Head(guiQueue).kind = "attempt"
          /\ guiQueue' = Tail(guiQueue) /\ attemptScheduled' = FALSE
      BY <2>4 DEF RunAttempt
    <3>2. Mirrors(FALSE, Tail(guiQueue))
      BY <3>1, <2>a, <2>b, TailEvents DEF Mirrors
    <3>3. ~MayDispatch'
      <4>1. CASE MayDispatch
        BY <2>4, <4>1 DEF RunAttempt, MayDispatch
      <4>2. CASE ~MayDispatch
        BY <2>4, <4>2 DEF RunAttempt, MayDispatch
      <4> QED BY <4>1, <4>2
    <3> QED BY <3>1, <3>2, <3>3
  <2>5. CASE RunCompletion
    <3>1. /\ guiQueue # <<>> /\ Head(guiQueue).kind # "attempt"
          /\ ClearCallPending(Tail(guiQueue))
          /\ UNCHANGED <<request, requestDirty, autoCall, serviceReady>>
      BY <2>5 DEF RunCompletion
    <3>2. Mirrors(attemptScheduled, Tail(guiQueue)) /\ Tail(guiQueue) \in Seq(Events)
      BY <3>1, <2>a, <2>b, TailEvents DEF Mirrors
    <3>3. CASE callPending
      <4>1. ScheduleStoredCallAttempt(Tail(guiQueue))
        BY <3>1, <3>3 DEF ClearCallPending
      <4> QED BY <4>1, <3>2, <2>b, ScheduleMirrors DEF MayDispatch
    <3>4. CASE ~callPending
      <4>1. attemptScheduled' = attemptScheduled /\ guiQueue' = Tail(guiQueue)
        BY <3>1, <3>4 DEF ClearCallPending
      <4>2. MayDispatch' => MayDispatch
        BY <3>1, <3>4 DEF MayDispatch
      <4> QED BY <4>1, <4>2, <3>2, <2>c
    <3> QED BY <3>3, <3>4
  <2>6. CASE CheckHealth
    <3>1. SetServiceReady(client /\ matched) /\ UNCHANGED <<requestDirty, autoCall, callPending>>
      BY <2>6 DEF CheckHealth
    <3>2. CASE (client /\ matched) /\ ~serviceReady
      <4>1. ScheduleStoredCallAttempt(guiQueue)
        BY <3>1, <3>2 DEF SetServiceReady
      <4> QED BY <4>1, <2>a, <2>b, ScheduleMirrors DEF MayDispatch
    <3>3. CASE ~((client /\ matched) /\ ~serviceReady)
      <4>1. attemptScheduled' = attemptScheduled /\ guiQueue' = guiQueue
        BY <3>1, <3>3 DEF SetServiceReady
      <4>2. MayDispatch' => MayDispatch
        BY <3>1, <3>3 DEF SetServiceReady, MayDispatch
      <4> QED BY <4>1, <4>2, <2>a, <2>c
    <3> QED BY <3>2, <3>3
  <2>7. ASSUME NEW c \in inFlight, Respond(c)
        PROVE  Mirrors(attemptScheduled', guiQueue') /\ (MayDispatch' => attemptScheduled')
    <3>1. PICK kind \in {"reply", "failed"} : guiQueue' = Append(guiQueue, Completion(kind, c))
      BY <2>7 DEF Respond
    <3>2. Completion(kind, c) \in Events /\ Completion(kind, c).kind # "attempt"
      BY DEF Completion, Events, TypeOK
    <3>3. Mirrors(attemptScheduled, guiQueue')
      BY <3>1, <3>2, <2>a, <2>b, AppendCompletion DEF Mirrors
    <3>4. UNCHANGED <<requestDirty, autoCall, serviceReady, callPending, attemptScheduled>>
      BY <2>7 DEF Respond
    <3> QED BY <3>3, <3>4, <2>c DEF MayDispatch
  <2>8. CASE SetupConnection \/ ClearConnection \/ Discover \/ ServerUp \/ ServerDown \/ UNCHANGED vars
    <3>1. UNCHANGED <<requestDirty, autoCall, serviceReady, callPending, attemptScheduled, guiQueue>>
      BY <2>8 DEF SetupConnection, ClearConnection, Discover, ServerUp, ServerDown, vars
    <3> QED BY <3>1, <2>a, <2>c DEF MayDispatch
  <2> QED
    BY <2>1, <2>2, <2>3, <2>4, <2>5, <2>6, <2>7, <2>8 DEF Next
<1> QED BY <1>1, <1>2, TypeCorrect, PTL DEF Spec, IInv

-----------------------------------------------------------------------------
(* Refinement.                                                             *)

\* The stored-call machinery implements the coalescing writer LatestWins: a
\* dispatch hands on the latest request and only after an assignment.
THEOREM ImplementsLatestWins == Spec => CoalescesWrites
<1>1. Init => LW!Init
  BY DefaultAssumption DEF Init, LW!Init
<1>2. TypeOK /\ [Next]_vars => [LW!Next]_(LW!vars)
  <2> SUFFICES ASSUME TypeOK, [Next]_vars
               PROVE  LW!Next \/ UNCHANGED <<request, requestDirty, handed>>
    BY DEF LW!vars
  <2> USE DEF itemVars, callVars, linkVars, boundVars, queueVars
  <2>1. ASSUME NEW v \in Values, SetRequest(v) PROVE LW!Next
    BY <2>1 DEF SetRequest, DirtyAfterWrite, LW!Next, LW!Write
  <2>2. CASE RunAttempt
    <3>1. CASE MayDispatch
      BY <2>2, <3>1 DEF RunAttempt, MayDispatch, DispatchedValue, LW!Next, LW!HandOver
    <3>2. CASE ~MayDispatch
      BY <2>2, <3>2 DEF RunAttempt
    <3> QED BY <3>1, <3>2
  <2>3. ASSUME NEW c \in inFlight, Respond(c)
        PROVE  UNCHANGED <<request, requestDirty, handed>>
    BY <2>3 DEF Respond
  <2>4. CASE \/ SetAutoCall \/ CallService \/ RunCompletion \/ CheckHealth
             \/ SetupConnection \/ ClearConnection \/ Discover \/ ServerUp
             \/ ServerDown \/ UNCHANGED vars
    BY <2>4 DEF SetAutoCall, CallService, RunCompletion, CheckHealth, SetupConnection,
                ClearConnection, Discover, ServerUp, ServerDown, vars
  <2> QED BY <2>1, <2>2, <2>3, <2>4 DEF Next
<1> QED BY <1>1, <1>2, TypeCorrect, PTL DEF Spec, CoalescesWrites, LW!Spec

-----------------------------------------------------------------------------
(* One call at a time.                                                     *)

\* The calls that the completions of a queue complete.
Completed(q) == {q[i].call : i \in {j \in 1..Len(q) : q[j].kind # "attempt"}}

OneCompletion(q) ==
  \A i, j \in 1..Len(q) : q[i].kind # "attempt" /\ q[j].kind # "attempt" => i = j

\* DeclarativeCallsSerialised needs two more facts: a call is answered once, as
\* the end of one completion is taken for the end of all calls, and the answer
\* that m_response holds is never newer than the newest call.
SerialInv ==
  imperative = 0 =>
    /\ inFlight \union Completed(guiQueue) \subseteq {calls}
    /\ inFlight \union Completed(guiQueue) # {} => callPending /\ response < calls
    /\ response <= calls
    /\ OneCompletion(guiQueue)
    /\ inFlight = {} \/ Completed(guiQueue) = {}

\* An event is posted; if it is a completion, it is the only one.
LEMMA AppendCompleted ==
  ASSUME NEW q \in Seq(Events), NEW e \in Events, OneCompletion(q)
  PROVE  /\ e.kind = "attempt" =>
              Completed(Append(q, e)) = Completed(q) /\ OneCompletion(Append(q, e))
         /\ e.kind # "attempt" /\ Completed(q) = {} =>
              Completed(Append(q, e)) = {e.call} /\ OneCompletion(Append(q, e))
<1> DEFINE p == Append(q, e)
<1>1. /\ Len(q) \in Nat /\ Len(p) = Len(q) + 1 /\ p[Len(q) + 1] = e
      /\ \A i \in 1..Len(q) : p[i] = q[i]
  OBVIOUS
<1> HIDE DEF p
<1>2. \A i \in 1..Len(p) : \/ i \in 1..Len(q) /\ p[i] = q[i]
                           \/ i = Len(q) + 1 /\ p[i] = e
  BY <1>1
<1>3. 1..Len(q) \subseteq 1..Len(p) /\ Len(q) + 1 \in 1..Len(p) /\ Len(q) + 1 \notin 1..Len(q)
  BY <1>1
<1>4. CASE e.kind = "attempt"
  <2>1. Completed(p) = Completed(q)
    BY <1>1, <1>2, <1>3, <1>4 DEF Completed
  <2>2. OneCompletion(p)
    BY <1>1, <1>2, <1>3, <1>4 DEF OneCompletion
  <2> QED BY <1>4, <2>1, <2>2 DEF p
<1>5. CASE e.kind # "attempt" /\ Completed(q) = {}
  <2>1. \A i \in 1..Len(q) : q[i].kind = "attempt"
    BY <1>5 DEF Completed
  <2>2. Completed(p) = {e.call}
    BY <1>1, <1>2, <1>3, <1>5, <2>1 DEF Completed
  <2>3. OneCompletion(p)
    BY <1>2, <2>1 DEF OneCompletion
  <2> QED BY <1>5, <2>2, <2>3 DEF p
<1> QED BY <1>4, <1>5

\* The event at the head is taken; if it is a completion, none is left.
LEMMA TailCompleted ==
  ASSUME NEW q \in Seq(Events), q # <<>>, OneCompletion(q)
  PROVE  /\ OneCompletion(Tail(q)) /\ Completed(Tail(q)) \subseteq Completed(q)
         /\ Head(q).kind # "attempt" => Completed(Tail(q)) = {} /\ Head(q).call \in Completed(q)
<1> DEFINE t == Tail(q)
<1>1. /\ Len(q) \in Nat /\ Len(q) > 0 /\ Len(t) = Len(q) - 1 /\ Head(q) = q[1]
      /\ \A i \in 1..Len(t) : t[i] = q[i + 1]
  OBVIOUS
<1> HIDE DEF t
<1>2. /\ 1 \in 1..Len(q)
      /\ \A i \in 1..Len(t) : i + 1 \in 1..Len(q) /\ i + 1 # 1 /\ t[i] = q[i + 1]
  BY <1>1
<1>3. OneCompletion(t)
  <2>1. SUFFICES ASSUME NEW i \in 1..Len(t), NEW j \in 1..Len(t),
                        t[i].kind # "attempt", t[j].kind # "attempt"
                 PROVE  i = j
    BY DEF OneCompletion
  <2>2. i + 1 = j + 1
    BY <1>2, <2>1 DEF OneCompletion
  <2> QED BY <2>2
<1>4. Completed(t) \subseteq Completed(q)
  BY <1>2 DEF Completed
<1>5. ASSUME Head(q).kind # "attempt"
      PROVE  Completed(t) = {} /\ Head(q).call \in Completed(q)
  BY <1>1, <1>2, <1>5 DEF Completed, OneCompletion
<1> QED BY <1>3, <1>4, <1>5 DEF t

\* scheduleStoredCallAttempt() posts no completion.
LEMMA ScheduleCompleted ==
  ASSUME NEW q \in Seq(Events), OneCompletion(q), ScheduleStoredCallAttempt(q)
  PROVE  OneCompletion(guiQueue') /\ Completed(guiQueue') = Completed(q)
<1>1. AttemptEvent \in Events /\ AttemptEvent.kind = "attempt"
  BY DEF AttemptEvent, Events
<1>2. guiQueue' = q \/ guiQueue' = Append(q, AttemptEvent)
  BY DEF ScheduleStoredCallAttempt
<1> QED BY <1>1, <1>2, AppendCompleted

\* A client used declaratively only has one call on its way at most, and no
\* answer overtakes a newer one, whatever the reconnections and the outages.
THEOREM CallsCorrect == Spec => []DeclarativeCallsSerialised
<1>1. Init => SerialInv
  <2>1. Completed(<<>>) = {} /\ OneCompletion(<<>>)
    BY DEF Completed, OneCompletion
  <2> QED BY <2>1 DEF Init, SerialInv
<1>2. TypeOK /\ SerialInv /\ [Next]_vars => SerialInv'
  <2> SUFFICES ASSUME TypeOK, SerialInv, [Next]_vars PROVE SerialInv'
    OBVIOUS
  <2> USE DEF itemVars, callVars, linkVars, boundVars, queueVars
  <2>a. guiQueue \in Seq(Events) /\ calls \in Nat /\ response \in Nat /\ imperative \in Nat
    BY DEF TypeOK
  \* The steps that put no call on the wire and take none off the queue.
  <2>1. ASSUME inFlight' \subseteq inFlight, UNCHANGED <<imperative, calls, callPending, response>>,
               imperative = 0 =>
                 OneCompletion(guiQueue') /\ Completed(guiQueue') \subseteq Completed(guiQueue)
        PROVE  SerialInv'
    BY <2>1 DEF SerialInv
  <2>2. ASSUME ScheduleStoredCallAttempt(guiQueue) \/ guiQueue' = guiQueue, imperative = 0
        PROVE  OneCompletion(guiQueue') /\ Completed(guiQueue') \subseteq Completed(guiQueue)
    BY <2>2, <2>a, ScheduleCompleted DEF SerialInv
  <2>3. ASSUME \/ \E v \in Values : SetRequest(v)
               \/ SetAutoCall \/ CheckHealth \/ SetupConnection \/ ClearConnection
               \/ Discover \/ ServerUp \/ ServerDown
        PROVE  SerialInv'
    <3>1. /\ inFlight' \subseteq inFlight
          /\ UNCHANGED <<imperative, calls, callPending, response>>
      BY <2>3 DEF SetRequest, SetAutoCall, CheckHealth, SetupConnection, ClearConnection,
           Discover, ServerUp, ServerDown, LoseCalls
    <3>2. ScheduleStoredCallAttempt(guiQueue) \/ guiQueue' = guiQueue
      BY <2>3 DEF SetRequest, SetAutoCall, CheckHealth, SetServiceReady, SetupConnection,
           ClearConnection, Discover, ServerUp, ServerDown
    <3> QED BY <2>1, <2>2, <3>1, <3>2
  <2>4. CASE CallService
    <3>1. imperative' # 0
      BY <2>4, <2>a DEF CallService
    <3> QED BY <3>1 DEF SerialInv
  <2>5. CASE RunAttempt
    <3>1. /\ guiQueue # <<>> /\ guiQueue' = Tail(guiQueue) /\ UNCHANGED <<imperative, response>>
          /\ UNCHANGED callVars \/ (~callPending /\ SendRequest)
      BY <2>5 DEF RunAttempt, MayDispatch
    <3>2. SUFFICES ASSUME imperative = 0 PROVE SerialInv'
      BY <3>1 DEF SerialInv
    <3>3. OneCompletion(guiQueue') /\ Completed(guiQueue') \subseteq Completed(guiQueue)
      BY <2>a, <3>1, <3>2, TailCompleted DEF SerialInv
    <3>4. CASE UNCHANGED callVars
      BY <2>1, <3>1, <3>3, <3>4
    <3>5. CASE ~callPending /\ SendRequest
      <4>1. inFlight = {} /\ Completed(guiQueue') = {} /\ response <= calls
        BY <3>2, <3>3, <3>5 DEF SerialInv
      <4>2. calls' = calls + 1 /\ callPending' /\ inFlight' \subseteq {calls'}
        BY <3>5, <4>1 DEF SendRequest
      <4>3. response < calls' /\ response <= calls'
        BY <2>a, <4>1, <4>2
      <4> QED BY <3>1, <3>3, <4>1, <4>2, <4>3 DEF SerialInv
    <3> QED BY <3>1, <3>4, <3>5
  <2>6. CASE RunCompletion
    <3>1. /\ guiQueue # <<>> /\ Head(guiQueue).kind # "attempt"
          /\ UNCHANGED <<imperative, calls, inFlight>>
          /\ ScheduleStoredCallAttempt(Tail(guiQueue)) \/ guiQueue' = Tail(guiQueue)
          /\ response' \in {response, Head(guiQueue).call}
      BY <2>6 DEF RunCompletion, ClearCallPending
    <3>2. SUFFICES ASSUME imperative = 0 PROVE SerialInv'
      BY <3>1 DEF SerialInv
    <3>3. /\ OneCompletion(Tail(guiQueue)) /\ Completed(Tail(guiQueue)) = {}
          /\ Head(guiQueue).call \in Completed(guiQueue)
      BY <2>a, <3>1, <3>2, TailCompleted DEF SerialInv
    <3>4. Tail(guiQueue) \in Seq(Events)
      BY <2>a, <3>1
    <3>5. OneCompletion(guiQueue') /\ Completed(guiQueue') = {}
      BY <3>1, <3>3, <3>4, ScheduleCompleted
    <3>6. inFlight = {} /\ Head(guiQueue).call = calls /\ response <= calls
      BY <3>2, <3>3 DEF SerialInv
    <3>7. response' <= calls
      BY <2>a, <3>1, <3>6
    <3> QED BY <3>1, <3>5, <3>6, <3>7 DEF SerialInv
  <2>7. ASSUME NEW c \in inFlight, Respond(c) PROVE SerialInv'
    <3>1. PICK kind \in {"reply", "failed"} : guiQueue' = Append(guiQueue, Completion(kind, c))
      BY <2>7 DEF Respond
    <3>2. inFlight' = inFlight \ {c} /\ UNCHANGED <<imperative, calls, callPending, response>>
      BY <2>7 DEF Respond
    <3>3. SUFFICES ASSUME imperative = 0 PROVE SerialInv'
      BY <3>2 DEF SerialInv
    <3>4. /\ Completion(kind, c) \in Events /\ Completion(kind, c).kind # "attempt"
          /\ Completion(kind, c).call = c
      BY DEF Completion, Events, TypeOK
    <3>5. Completed(guiQueue) = {} /\ c = calls /\ inFlight' = {} /\ OneCompletion(guiQueue)
      BY <3>2, <3>3 DEF SerialInv
    <3>6. Completed(guiQueue') = {c} /\ OneCompletion(guiQueue')
      BY <2>a, <3>1, <3>4, <3>5, AppendCompleted
    <3> QED BY <3>2, <3>3, <3>5, <3>6 DEF SerialInv
  <2>8. CASE UNCHANGED vars
    BY <2>8, <2>1, <2>2 DEF vars
  <2> QED BY <2>3, <2>4, <2>5, <2>6, <2>7, <2>8 DEF Next
<1>3. TypeOK /\ SerialInv => DeclarativeCallsSerialised
  <2> SUFFICES ASSUME TypeOK, SerialInv PROVE DeclarativeCallsSerialised
    OBVIOUS
  <2>1. DOMAIN guiQueue = 1..Len(guiQueue)
    BY DEF TypeOK
  <2>2. Outstanding = inFlight \union Completed(guiQueue)
    BY <2>1 DEF Outstanding, Posted, Completed
  <2> QED BY <2>2 DEF SerialInv, DeclarativeCallsSerialised
<1> QED BY <1>1, <1>2, <1>3, TypeCorrect, PTL DEF Spec
=============================================================================
