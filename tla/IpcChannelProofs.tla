-------------------------- MODULE IpcChannelProofs --------------------------
(***************************************************************************)
(* The safety of IpcChannel, for any number of callers, ids and requests.  *)
(* The inductive invariant has three parts that do not depend on each      *)
(* other except through the types: the calls, the order of the requests,   *)
(* and the order in which stop() waits for the threads.                    *)
(***************************************************************************)
EXTENDS IpcChannel, SequenceTheorems, TLAPS

\* A leaf that names no prover is SMT's, and has half a minute.
USE SMTT(30)

(* An id is given out once, so a call in progress has one that no other    *)
(* call ever had, and only the reply that names it fills its entry.        *)
Calls ==
    /\ PendingIsInProgress
    /\ \A c \in Callers : callId[c] < nextId /\ (caller[c] # "idle" => callId[c] # 0)
    /\ \A id \in Ids : response[id] \in {0, id}
    /\ OwnReply

(* The requests on the wire are the next ones, in order and without gaps. *)
Requests ==
    /\ \A i, j \in 1 .. Len(inbox) :
          i < j /\ inbox[i].kind = "request" /\ inbox[j].kind = "request" =>
              inbox[i].id < inbox[j].id
    /\ \A i \in 1 .. Len(inbox) :
          inbox[i].kind = "request" =>
              inbox[i].id \in Len(handled) + Len(queue) + 1 .. asked
    /\ \A n \in Len(handled) + Len(queue) + 1 .. asked :
          \E i \in 1 .. Len(inbox) : inbox[i] = Request(n)
    /\ Len(handled) + Len(queue) <= asked
    /\ \A i \in 1 .. Len(handled) : handled[i] = i
    /\ \A i \in 1 .. Len(queue) : queue[i] = Len(handled) + i

(* stop() goes on only after the thread it joins has ended. *)
Stopping ==
    /\ stopper \in {"alone", "notified", "done"} => reader = "done"
    /\ stopper = "done" => dispatcher = "done"
    /\ socket = "closed" => stopper = "done"

IInv == TypeOK /\ Calls /\ Requests /\ Stopping

-----------------------------------------------------------------------------
(* What a frame on the wire carries. *)
LEMMA FrameFacts ==
    ASSUME NEW f \in Frames
    PROVE  /\ f.kind = "reply" => f.id \in Ids
           /\ f.kind = "request" => f.id \in 1 .. MaxAsked /\ f = Request(f.id)
  BY IpcAssumption DEF Frames, Reply, Request, Garbage, Ids

(* The initial state satisfies the invariant. *)
LEMMA InitEstablishes == Init => IInv
  BY IpcAssumption
  DEF Init, IInv, TypeOK, Calls, Requests, Stopping, PendingIsInProgress, OwnReply, Ids

(* Appending a frame keeps the wire well typed. *)
LEMMA ArrivesTyped ==
    ASSUME TypeOK, NEW f \in Frames, Arrives(f)
    PROVE  /\ inbox' \in Seq(Frames)
            /\ Len(inbox') = Len(inbox) + 1
           /\ \A i \in 1 .. Len(inbox) : inbox'[i] = inbox[i]
           /\ inbox'[Len(inbox) + 1] = f
  <1>1. inbox \in Seq(Frames) /\ inbox' = Append(inbox, f)
    BY Zenon DEF TypeOK, Arrives
  <1>3. inbox' \in Seq(Frames)
    BY <1>1
  <1> QED
    BY <1>1, <1>3

(* Taking the first frame off keeps the wire well typed. *)
LEMMA ReadingTyped ==
    ASSUME TypeOK, NEW k, Reading(k)
    PROVE  /\ inbox # <<>> /\ Head(inbox) \in Frames /\ Head(inbox).kind = k
           /\ Head(inbox) = inbox[1] /\ Len(inbox) > 0
           /\ inbox' \in Seq(Frames)
            /\ Len(inbox') = Len(inbox) - 1
           /\ \A i \in 1 .. Len(inbox') : inbox'[i] = inbox[i + 1]
  <1>1. /\ inbox \in Seq(Frames) /\ inbox # <<>> /\ inbox' = Tail(inbox)
        /\ Head(inbox).kind = k
    BY Zenon DEF TypeOK, Reading
  <1>3. /\ Head(inbox) \in Frames /\ inbox' \in Seq(Frames) /\ Len(inbox') = Len(inbox) - 1
        /\ \A i \in 1 .. Len(inbox') : inbox'[i] = inbox[i + 1]
    BY <1>1, HeadTailProperties, Zenon
  <1> QED
    BY <1>1, <1>3

-----------------------------------------------------------------------------
(* Leaving send_request() by any path: the entry goes, and with it only    *)
(* this caller's part of the state.                                        *)
LEMMA ReturnTyped ==
    ASSUME IInv, NEW c \in Callers, NEW v \in 0 .. MaxIds, caller[c] # "idle", ReturnFrom(c, v)
    PROVE  /\ callId[c] \in pending
           /\ ready' \subseteq pending' /\ pending' \subseteq Ids
           /\ response' \in [Ids -> 0 .. MaxIds]
           /\ \A id \in Ids : response'[id] # 0 => id \in ready'
           /\ caller' \in [Callers -> {"idle", "registered", "waiting"}]
           /\ result' \in [Callers -> 0 .. MaxIds]
  <1>1. callId[c] \in pending
    BY Zenon DEF IInv, Calls, PendingIsInProgress
  <1>2. callId[c] \in Ids /\ 0 \in 0 .. MaxIds
    BY <1>1, IpcAssumption DEF IInv, TypeOK
  <1>3. ready' \subseteq pending' /\ pending' \subseteq Ids
    BY Zenon DEF IInv, TypeOK, ReturnFrom
  <1>4. response' \in [Ids -> 0 .. MaxIds]
    BY <1>2, Zenon DEF IInv, TypeOK, ReturnFrom
  <1>5. \A id \in Ids : response'[id] # 0 => id \in ready'
    BY <1>2, Zenon DEF IInv, TypeOK, ReturnFrom
  <1>6. /\ caller' \in [Callers -> {"idle", "registered", "waiting"}]
        /\ result' \in [Callers -> 0 .. MaxIds]
    BY Zenon DEF IInv, TypeOK, ReturnFrom
  <1> QED
    BY <1>1, <1>3, <1>4, <1>5, <1>6, Zenon

(* The returning caller keeps its id, so its result is its own reply. *)
LEMMA ReturnCalls ==
    ASSUME IInv, NEW c \in Callers, NEW v \in {0, callId[c]}, caller[c] # "idle",
           ReturnFrom(c, v), UNCHANGED <<callId, nextId>>
    PROVE  Calls'
  <1>1. callId[c] \in pending /\ callId[c] \in Ids
    BY DEF IInv, Calls, PendingIsInProgress, TypeOK
  <1>2. /\ caller'[c] = "idle" /\ result'[c] = v
        /\ \A d \in Callers \ {c} : caller'[d] = caller[d] /\ result'[d] = result[d]
    BY Zenon DEF ReturnFrom, IInv, TypeOK
  <1>3. PendingIsInProgress'
    BY <1>1, <1>2 DEF ReturnFrom, IInv, Calls, PendingIsInProgress
  <1>4. \A id \in Ids : response'[id] \in {0, id}
    BY <1>1, Zenon DEF ReturnFrom, IInv, Calls, TypeOK
  <1>5. OwnReply'
    BY <1>2, Zenon DEF IInv, Calls, OwnReply
  <1>6. \A d \in Callers : callId'[d] < nextId' /\ (caller'[d] # "idle" => callId'[d] # 0)
    BY <1>2, Zenon DEF IInv, Calls
  <1> QED
    BY <1>3, <1>4, <1>5, <1>6, Zenon DEF Calls

-----------------------------------------------------------------------------
(* Every step keeps the types. *)
LEMMA TypesStep == IInv /\ [Next]_vars => TypeOK'
  <1> SUFFICES ASSUME IInv, [Next]_vars
               PROVE  TypeOK'
    BY Zenon
  <1> USE IpcAssumption
  <1>t. TypeOK
    BY Zenon DEF IInv
  <1>1. ASSUME NEW c \in Callers, Register(c)
        PROVE  TypeOK'
    <2>1. nextId \in Ids /\ pending \subseteq Ids /\ nextId' \in 1 .. MaxIds + 1
      BY <1>1, <1>t DEF Register, TypeOK, Ids
    <2>2. callId' \in [Callers -> 0 .. MaxIds] /\ result' \in [Callers -> 0 .. MaxIds]
      BY <1>1, <1>t, <2>1 DEF Register, TypeOK, Ids
    <2> QED
      BY <1>1, <1>t, <2>1, <2>2, SMTT(30) DEF Register, TypeOK, wire, threads
  <1>2. ASSUME NEW c \in Callers, Write(c)
        PROVE  TypeOK'
    <2>1. callId[c] \in Ids
      BY <1>2, <1>t DEF Write, IInv, Calls, TypeOK, Ids
    <2> QED
      BY <1>2, <1>t, <2>1 DEF Write, TypeOK, threads
  <1>3. ASSUME NEW c \in Callers, WriteFails(c) \/ TimeOut(c)
        PROVE  TypeOK'
    <2>1. caller[c] # "idle" /\ ReturnFrom(c, 0) /\ 0 \in 0 .. MaxIds
          /\ UNCHANGED <<running, healthy, socket, wire, nextId, callId, threads, queue, handled>>
      BY <1>3 DEF WriteFails, TimeOut
    <2> QED
      BY <2>1, <1>t, ReturnTyped DEF TypeOK, wire, threads
  <1>4. ASSUME NEW c \in Callers, Wake(c)
        PROVE  TypeOK'
    <2>1. response[callId[c]] \in 0 .. MaxIds
      BY <1>4, <1>t, Zenon DEF Wake, TypeOK
    <2>2. caller[c] # "idle" /\ ReturnFrom(c, response[callId[c]])
          /\ UNCHANGED <<running, healthy, socket, wire, nextId, callId, threads, queue, handled>>
      BY <1>4, Zenon DEF Wake
    <2> QED
      BY <2>1, <2>2, <1>t, ReturnTyped DEF TypeOK, wire, threads
  <1>5. CASE SendOneWay
    <2>1. nextId' \in 1 .. MaxIds + 1
      BY <1>5, <1>t DEF SendOneWay, TypeOK
    <2> QED
      BY <1>5, <2>1, <1>t DEF SendOneWay, TypeOK, wire, calls, threads
  <1>6. CASE ReadReply
    <2>1. inbox' \in Seq(Frames)
      BY <1>6, <1>t, ReadingTyped, Zenon DEF ReadReply
    <2>2. /\ ready' \subseteq pending
          /\ response' \in [Ids -> 0 .. MaxIds]
          /\ \A id \in Ids : response'[id] # 0 => id \in ready'
      <3> DEFINE id == Head(inbox).id
      <3>1. CASE id \in pending
        <4>4. pending \subseteq Ids
          BY <1>t, Zenon DEF TypeOK
        <4>2. ready' = ready \cup {id} /\ response' = [response EXCEPT ![id] = id]
          BY <1>6, <3>1, Zenon DEF ReadReply
        <4>3. /\ response \in [Ids -> 0 .. MaxIds] /\ ready \subseteq pending
              /\ \A i \in Ids : response[i] # 0 => i \in ready
          BY <1>t, Zenon DEF TypeOK
        <4> HIDE DEF id
        <4>1. id \in Ids /\ id \in 0 .. MaxIds
          BY <4>4, <3>1 DEF Ids
        <4> QED
          BY <4>1, <4>2, <4>3, <3>1, Zenon
      <3>2. CASE id \notin pending
        BY <1>6, <3>2, <1>t, Zenon DEF ReadReply, TypeOK
      <3> QED
        BY <3>1, <3>2, Zenon
    <2> QED
      BY <1>6, <2>1, <2>2, <1>t DEF ReadReply, TypeOK
  <1>7. CASE ReadRequest
    <2>1. /\ Head(inbox) \in Frames /\ Head(inbox).kind = "request" /\ inbox' \in Seq(Frames)
      BY <1>7, <1>t, ReadingTyped, Zenon DEF ReadRequest
    <2>2. Head(inbox).id \in 1 .. MaxAsked
      BY <2>1, FrameFacts, Zenon
    <2>3. queue' \in Seq(1 .. MaxAsked)
      BY <1>7, <2>2, <1>t DEF ReadRequest, TypeOK
    <2> QED
      BY <1>7, <2>1, <2>3, <1>t DEF ReadRequest, TypeOK, calls
  <1>8. CASE ReadGarbage
    <2>1. inbox' \in Seq(Frames)
      BY <1>8, <1>t, ReadingTyped, Zenon DEF ReadGarbage
    <2> QED
      BY <1>8, <2>1, <1>t, ZenonT(30) DEF ReadGarbage, TypeOK, calls
  <1>9. CASE ReaderChecks \/ ReaderNotifies \/ ReadFails \/ ReaderLeaves
    <2>1. CASE ReaderChecks
      BY <2>1, <1>t DEF ReaderChecks, TypeOK, wire, calls
    <2>2. CASE ReaderNotifies
      BY <2>2, <1>t, Zenon DEF ReaderNotifies, NotifyDispatcher, TypeOK, wire, calls
    <2>3. CASE ReadFails
      BY <2>3, <1>t, ZenonT(30) DEF ReadFails, TypeOK, wire, calls
    <2>4. CASE ReaderLeaves
      BY <2>4, <1>t DEF ReaderLeaves, WakeEveryone, TypeOK, wire
    <2> QED
      BY <1>9, <2>1, <2>2, <2>3, <2>4, Zenon
  <1>10. CASE DispatcherTests
    <2>1. queue' \in Seq(1 .. MaxAsked) /\ handled' \in Seq(1 .. MaxAsked)
      <3>1. CASE queue # <<>>
        <4>1. Head(queue) \in 1 .. MaxAsked /\ Tail(queue) \in Seq(1 .. MaxAsked)
          BY <3>1, <1>t, HeadTailProperties, Zenon DEF TypeOK
        <4>2. queue' = Tail(queue) /\ handled' = Append(handled, Head(queue))
          BY <1>10, <3>1, Zenon DEF DispatcherTests
        <4>3. handled \in Seq(1 .. MaxAsked)
          BY <1>t, Zenon DEF TypeOK
        <4> QED
          BY <4>1, <4>2, <4>3, AppendProperties, Zenon
      <3>2. CASE queue = <<>>
        BY <1>10, <3>2, <1>t, Zenon DEF DispatcherTests, TypeOK
      <3> QED
        BY <3>1, <3>2, Zenon
    <2>2. dispatcher' \in {"handle", "blocking", "done"}
      BY <1>10, Zenon DEF DispatcherTests
    <2> QED
      BY <1>10, <2>1, <2>2, <1>t DEF DispatcherTests, TypeOK, wire, calls
  <1>11. CASE DispatcherSleeps \/ SpuriousWake \/ HandlerReturns
    BY <1>11, <1>t
    DEF DispatcherSleeps, SpuriousWake, HandlerReturns, TypeOK, wire, calls
  <1>12. CASE HandlerFails
    BY <1>12, <1>t, ZenonT(30) DEF HandlerFails, WakeEveryone, TypeOK, wire
  <1>13. CASE StopClearsRunning \/ StopShutsSocket \/ StopJoinsReader \/ StopJoinsDispatcher
    <2>1. CASE StopClearsRunning
      BY <2>1, <1>t, ZenonT(30) DEF StopClearsRunning, TypeOK, wire, calls
    <2>2. CASE StopShutsSocket
      BY <2>2, <1>t DEF StopShutsSocket, TypeOK, wire, calls
    <2>3. CASE StopJoinsReader
      BY <2>3, <1>t, Zenon DEF StopJoinsReader, TypeOK, wire, calls
    <2>4. CASE StopJoinsDispatcher
      BY <2>4, <1>t, Zenon DEF StopJoinsDispatcher, TypeOK, wire, calls
    <2> QED
      BY <1>13, <2>1, <2>2, <2>3, <2>4, Zenon
  <1>14. CASE StopWakesCallers \/ StopNotifies
    BY <1>14, <1>t
    DEF StopWakesCallers, StopNotifies, WakeEveryone, NotifyDispatcher, TypeOK, wire, calls
  <1>15. CASE PeerAnswers
    <2>1. PICK id \in unanswered : Arrives(Reply(id)) /\ unanswered' = unanswered \ {id}
      BY <1>15, Zenon DEF PeerAnswers
    <2>2. Reply(id) \in Frames
      BY <1>t, Zenon DEF TypeOK, Frames
    <2> QED
      BY <1>15, <2>1, <2>2, <1>t, ArrivesTyped, SMTT(30)
      DEF PeerAnswers, TypeOK, calls, threads
  <1>16. CASE PeerAsks
    <2>1. asked' \in 1 .. MaxAsked /\ Arrives(Request(asked'))
      BY <1>16, <1>t DEF PeerAsks, TypeOK
    <2>2. Request(asked') \in Frames
      BY <2>1, Zenon DEF Frames
    <2>3. inbox' \in Seq(Frames)
      BY <2>1, <2>2, <1>t, ArrivesTyped, Zenon
    <2> QED
      BY <1>16, <2>1, <2>3, <1>t DEF PeerAsks, TypeOK, calls, threads
  <1>17. CASE PeerSendsGarbage
    <2>1. Garbage \in Frames
      BY Zenon DEF Frames
    <2> QED
      BY <1>17, <2>1, <1>t, ArrivesTyped, SMTT(30) DEF PeerSendsGarbage, TypeOK, calls, threads
  <1>18. CASE PeerDies
    BY <1>18, <1>t DEF PeerDies, TypeOK, calls, threads
  <1>19. CASE UNCHANGED vars
    BY <1>19, <1>t DEF vars, TypeOK
  <1> QED
    BY <1>1, <1>2, <1>3, <1>4, <1>5, <1>6, <1>7, <1>8, <1>9, <1>10, <1>11, <1>12, <1>13,
       <1>14, <1>15, <1>16, <1>17, <1>18, <1>19, Zenon
    DEF Next, CallerStep, ReaderStep, DispatcherStep, StopStep, PeerStep

-----------------------------------------------------------------------------
(* Every step keeps the calls apart: the ids, the entries and the replies. *)
LEMMA CallsStep == IInv /\ [Next]_vars => Calls'
  <1> SUFFICES ASSUME IInv, [Next]_vars
               PROVE  Calls'
    BY Zenon
  <1>t. TypeOK /\ Calls
    BY Zenon DEF IInv
  <1>1. ASSUME NEW c \in Callers, Register(c)
        PROVE  Calls'
    <2>1. /\ caller[c] = "idle" /\ nextId \in Nat \ {0} /\ nextId' = nextId + 1
          /\ pending' = pending \cup {nextId} /\ UNCHANGED response
      BY <1>1, <1>t DEF Register, TypeOK
    <2>2. /\ caller'[c] = "registered" /\ callId'[c] = nextId /\ result'[c] = 0
          /\ \A d \in Callers \ {c} :
                caller'[d] = caller[d] /\ callId'[d] = callId[d] /\ result'[d] = result[d]
      BY <1>1, <1>t, Zenon DEF Register, TypeOK
    <2>3. \A d \in Callers : callId[d] \in Nat /\ callId[d] # nextId /\ callId[d] < nextId
      BY <1>t, <2>1 DEF TypeOK, Calls
    <2>4. PendingIsInProgress'
      <3>1. pending' = {callId'[d] : d \in {e \in Callers : caller'[e] # "idle"}}
        BY <2>1, <2>2, <1>t DEF Calls, PendingIsInProgress
      <3>2. \A d, e \in Callers :
               caller'[d] # "idle" /\ caller'[e] # "idle" /\ callId'[d] = callId'[e] => d = e
        BY <2>2, <2>3, <1>t DEF Calls, PendingIsInProgress
      <3> QED
        BY <3>1, <3>2, Zenon DEF PendingIsInProgress
    <2>5. OwnReply'
      BY <2>2, <1>t, Zenon DEF Calls, OwnReply
    <2>6. \A d \in Callers : callId'[d] < nextId' /\ (caller'[d] # "idle" => callId'[d] # 0)
      BY <2>1, <2>2, <2>3, <1>t DEF Calls
    <2> QED
      BY <2>1, <2>4, <2>5, <2>6, <1>t, Zenon DEF Calls
  <1>2. ASSUME NEW c \in Callers, Write(c)
        PROVE  Calls'
    <2>1. /\ caller[c] = "registered" /\ caller'[c] = "waiting"
          /\ \A d \in Callers \ {c} : caller'[d] = caller[d]
          /\ UNCHANGED <<pending, callId, nextId, response, result>>
      BY <1>2, <1>t, Zenon DEF Write, TypeOK
    <2>2. \A d \in Callers : caller'[d] = "idle" <=> caller[d] = "idle"
      BY <2>1, Zenon
    <2> QED
      BY <2>1, <2>2, <1>t DEF Calls, PendingIsInProgress, OwnReply
  <1>3. ASSUME NEW c \in Callers, WriteFails(c) \/ TimeOut(c)
        PROVE  Calls'
    BY <1>3, ReturnCalls, Zenon DEF WriteFails, TimeOut
  <1>4. ASSUME NEW c \in Callers, Wake(c)
        PROVE  Calls'
    <2>1. response[callId[c]] \in {0, callId[c]}
      BY <1>4, <1>t, Zenon DEF Wake, Calls, TypeOK
    <2> QED
      BY <1>4, <2>1, ReturnCalls, Zenon DEF Wake
  <1>5. CASE SendOneWay
    <2>1. nextId' = nextId + 1 /\ UNCHANGED calls /\ nextId \in Nat
      BY <1>5, <1>t DEF SendOneWay, TypeOK
    <2>2. \A d \in Callers : callId'[d] < nextId'
      BY <2>1, <1>t DEF Calls, TypeOK, calls
    <2> QED
      BY <2>1, <2>2, <1>t DEF calls, Calls, PendingIsInProgress, OwnReply
  <1>6. CASE ReadReply
    <2>1. UNCHANGED <<pending, caller, callId, result, nextId>>
      BY <1>6, Zenon DEF ReadReply
    <2>2. \A id \in Ids : response'[id] \in {0, id}
      BY <1>6, <1>t, ZenonT(30) DEF ReadReply, TypeOK, Calls
    <2> QED
      BY <2>1, <2>2, <1>t DEF Calls, PendingIsInProgress, OwnReply
  <1>7. CASE UNCHANGED <<pending, response, caller, callId, result, nextId>>
    BY <1>7, <1>t DEF Calls, PendingIsInProgress, OwnReply
  <1>8. ASSUME \/ ReadRequest \/ ReadGarbage \/ ReaderChecks \/ ReaderNotifies \/ ReadFails
               \/ ReaderLeaves
        PROVE  UNCHANGED <<pending, response, caller, callId, result, nextId>>
    BY <1>8, Zenon DEF ReadRequest, ReadGarbage, ReaderChecks, ReaderNotifies, ReadFails, ReaderLeaves, calls
  <1>9. ASSUME DispatcherStep \/ SpuriousWake
        PROVE  UNCHANGED <<pending, response, caller, callId, result, nextId>>
    BY <1>9, Zenon DEF DispatcherStep, DispatcherTests, DispatcherSleeps, SpuriousWake, HandlerReturns,
                HandlerFails, calls
  <1>10. ASSUME StopClearsRunning \/ StopStep
         PROVE  UNCHANGED <<pending, response, caller, callId, result, nextId>>
    BY <1>10, Zenon DEF StopStep, StopClearsRunning, StopWakesCallers, StopShutsSocket, StopJoinsReader,
                 StopNotifies, StopJoinsDispatcher, calls
  <1>11. ASSUME PeerStep \/ UNCHANGED vars
         PROVE  UNCHANGED <<pending, response, caller, callId, result, nextId>>
    BY <1>11, Zenon DEF PeerStep, PeerAnswers, PeerAsks, PeerSendsGarbage, PeerDies, calls, vars
  <1> QED
    BY <1>1, <1>2, <1>3, <1>4, <1>5, <1>6, <1>7, <1>8, <1>9, <1>10, <1>11, Zenon
    DEF Next, CallerStep, ReaderStep

-----------------------------------------------------------------------------
(* A frame that is no request leaves the requests on the wire as they are. *)
LEMMA OtherFrameArrives ==
    ASSUME IInv, NEW f \in Frames, f.kind # "request", Arrives(f),
           UNCHANGED <<asked, queue, handled>>
    PROVE  Requests'
  <1>1. /\ Len(inbox') = Len(inbox) + 1 /\ Len(inbox) \in Nat
        /\ \A i \in 1 .. Len(inbox) : inbox'[i] = inbox[i]
        /\ inbox'[Len(inbox) + 1] = f
    BY ArrivesTyped DEF IInv
  <1>2. \A i \in 1 .. Len(inbox') :
           inbox'[i].kind = "request" => i \in 1 .. Len(inbox) /\ inbox'[i] = inbox[i]
    BY <1>1
  <1>3. \A i, j \in 1 .. Len(inbox') :
           i < j /\ inbox'[i].kind = "request" /\ inbox'[j].kind = "request" =>
               inbox'[i].id < inbox'[j].id
    BY <1>2, ZenonT(30) DEF IInv, Requests
  <1>4. \A i \in 1 .. Len(inbox') :
           inbox'[i].kind = "request" =>
               inbox'[i].id \in Len(handled) + Len(queue) + 1 .. asked
    BY <1>2, Zenon DEF IInv, Requests
  <1>5. \A n \in Len(handled) + Len(queue) + 1 .. asked :
           \E i \in 1 .. Len(inbox') : inbox'[i] = Request(n)
    <2> SUFFICES ASSUME NEW n \in Len(handled) + Len(queue) + 1 .. asked
                 PROVE  \E i \in 1 .. Len(inbox') : inbox'[i] = Request(n)
      BY Zenon
    <2>1. PICK i \in 1 .. Len(inbox) : inbox[i] = Request(n)
      BY Zenon DEF IInv, Requests
    <2> QED
      BY <2>1, <1>1
  <1> QED
    BY <1>3, <1>4, <1>5, ZenonT(30) DEF IInv, Requests

(* So does taking one off. *)
LEMMA OtherFrameRead ==
    ASSUME IInv, NEW k, k # "request", Reading(k), UNCHANGED <<asked, queue, handled>>
    PROVE  Requests'
  <1>1. /\ inbox[1].kind = k /\ Len(inbox) \in Nat \ {0} /\ Len(inbox') = Len(inbox) - 1
        /\ \A i \in 1 .. Len(inbox') : inbox'[i] = inbox[i + 1]
    BY ReadingTyped DEF IInv
  <1>2. \A i \in 1 .. Len(inbox') : i + 1 \in 1 .. Len(inbox)
    BY <1>1
  <1>3. \A i \in 1 .. Len(inbox) :
           inbox[i].kind = "request" => i - 1 \in 1 .. Len(inbox') /\ inbox'[i - 1] = inbox[i]
    BY <1>1
  <1>4. \A i, j \in 1 .. Len(inbox') :
           i < j /\ inbox'[i].kind = "request" /\ inbox'[j].kind = "request" =>
               inbox'[i].id < inbox'[j].id
    <2> SUFFICES ASSUME NEW i \in 1 .. Len(inbox'), NEW j \in 1 .. Len(inbox'),
                        i < j, inbox'[i].kind = "request", inbox'[j].kind = "request"
                 PROVE  inbox'[i].id < inbox'[j].id
      BY Zenon
    <2>1. i + 1 \in 1 .. Len(inbox) /\ j + 1 \in 1 .. Len(inbox) /\ i + 1 < j + 1
      BY <1>1, <1>2
    <2> DEFINE m == i + 1  n == j + 1
    <2>2. inbox'[i] = inbox[m] /\ inbox'[j] = inbox[n]
      BY <1>1, Zenon
    <2>3. m \in 1 .. Len(inbox) /\ n \in 1 .. Len(inbox) /\ m < n
      BY <2>1, Zenon
    <2> HIDE DEF m, n
    <2> QED
      BY <2>2, <2>3, Zenon DEF IInv, Requests
  <1>5. \A i \in 1 .. Len(inbox') :
           inbox'[i].kind = "request" =>
               inbox'[i].id \in Len(handled) + Len(queue) + 1 .. asked
    <2>1. \A j \in 1 .. Len(inbox) :
             inbox[j].kind = "request" => inbox[j].id \in Len(handled) + Len(queue) + 1 .. asked
      BY Zenon DEF IInv, Requests
    <2> QED
      BY <1>1, <1>2, <2>1, Zenon
  <1>6. \A n \in Len(handled) + Len(queue) + 1 .. asked :
           \E i \in 1 .. Len(inbox') : inbox'[i] = Request(n)
    <2> SUFFICES ASSUME NEW n \in Len(handled) + Len(queue) + 1 .. asked
                 PROVE  \E i \in 1 .. Len(inbox') : inbox'[i] = Request(n)
      BY Zenon
    <2>1. PICK i \in 1 .. Len(inbox) : inbox[i] = Request(n)
      BY Zenon DEF IInv, Requests
    <2>2. inbox[i].kind = "request"
      BY <2>1 DEF Request
    <2> QED
      BY <2>1, <2>2, <1>3, Zenon
  <1> QED
    BY <1>4, <1>5, <1>6, Zenon DEF IInv, Requests

(* The peer asks: the new request is the next number, at the end. *)
LEMMA AsksStep ==
    ASSUME IInv, PeerAsks
    PROVE  Requests'
  <1>1. /\ asked \in Nat /\ asked' = asked + 1 /\ asked' \in 1 .. MaxAsked
        /\ Arrives(Request(asked')) /\ UNCHANGED <<queue, handled>>
    BY IpcAssumption DEF PeerAsks, IInv, TypeOK
  <1>2. Request(asked') \in Frames
    BY <1>1, Zenon DEF Frames
  <1>3. /\ Len(inbox') = Len(inbox) + 1 /\ Len(inbox) \in Nat
        /\ \A i \in 1 .. Len(inbox) : inbox'[i] = inbox[i]
        /\ inbox'[Len(inbox) + 1] = Request(asked')
    BY <1>1, <1>2, ArrivesTyped DEF IInv
  <1>4. Request(asked').kind = "request" /\ Request(asked').id = asked + 1
    BY <1>1, Zenon DEF Request
  <1>5. Len(handled) \in Nat /\ Len(queue) \in Nat /\ Len(handled) + Len(queue) <= asked
    BY DEF IInv, TypeOK, Requests
  <1>6. \A i \in 1 .. Len(inbox) :
           inbox[i].kind = "request" => inbox[i].id \in Int /\ inbox[i].id <= asked
    BY <1>1, <1>5 DEF IInv, Requests
  <1>7. \A i, j \in 1 .. Len(inbox') :
           i < j /\ inbox'[i].kind = "request" /\ inbox'[j].kind = "request" =>
               inbox'[i].id < inbox'[j].id
    <2> SUFFICES ASSUME NEW i \in 1 .. Len(inbox'), NEW j \in 1 .. Len(inbox'),
                        i < j, inbox'[i].kind = "request", inbox'[j].kind = "request"
                 PROVE  inbox'[i].id < inbox'[j].id
      BY Zenon
    <2>1. i \in 1 .. Len(inbox) /\ inbox'[i] = inbox[i]
      BY <1>3
    <2>2. CASE j \in 1 .. Len(inbox)
      BY <2>1, <2>2, <1>3, SMTT(30) DEF IInv, Requests
    <2>3. CASE j = Len(inbox) + 1
      BY <2>1, <2>3, <1>1, <1>3, <1>4, <1>6
    <2> QED
      BY <2>2, <2>3, <1>3
  <1>8. \A i \in 1 .. Len(inbox') :
           inbox'[i].kind = "request" =>
               inbox'[i].id \in Len(handled) + Len(queue) + 1 .. asked'
    <2> SUFFICES ASSUME NEW i \in 1 .. Len(inbox'), inbox'[i].kind = "request"
                 PROVE  inbox'[i].id \in Len(handled) + Len(queue) + 1 .. asked'
      BY Zenon
    <2>1. CASE i \in 1 .. Len(inbox)
      <3>1. inbox[i].id \in Len(handled) + Len(queue) + 1 .. asked
        BY <2>1, <1>3, Zenon DEF IInv, Requests
      <3> QED
        BY <3>1, <2>1, <1>1, <1>3, <1>5
    <2>2. CASE i = Len(inbox) + 1
      BY <2>2, <1>1, <1>3, <1>4, <1>5
    <2> QED
      BY <2>1, <2>2, <1>3
  <1>9. \A n \in Len(handled) + Len(queue) + 1 .. asked' :
           \E i \in 1 .. Len(inbox') : inbox'[i] = Request(n)
    <2> SUFFICES ASSUME NEW n \in Len(handled) + Len(queue) + 1 .. asked'
                 PROVE  \E i \in 1 .. Len(inbox') : inbox'[i] = Request(n)
      BY Zenon
    <2>1. CASE n = asked'
      BY <2>1, <1>3
    <2>2. CASE n \in Len(handled) + Len(queue) + 1 .. asked
      <3>1. PICK i \in 1 .. Len(inbox) : inbox[i] = Request(n)
        BY <2>2, Zenon DEF IInv, Requests
      <3> QED
        BY <3>1, <1>3
    <2> QED
      BY <2>1, <2>2, <1>1, <1>5
  <1> QED
    BY <1>1, <1>5, <1>7, <1>8, <1>9 DEF IInv, Requests

(* The reader queues a request: it is the one after those read so far,     *)
(* because the smaller numbers are gone and it stands before the greater.  *)
LEMMA ReadRequestStep ==
    ASSUME IInv, ReadRequest
    PROVE  Requests'
  <1> DEFINE read == Len(handled) + Len(queue)
  <1>1. /\ inbox[1] = Head(inbox) /\ Head(inbox) \in Frames /\ Head(inbox).kind = "request"
        /\ Len(inbox) \in Nat \ {0} /\ Len(inbox') = Len(inbox) - 1
        /\ \A i \in 1 .. Len(inbox') : inbox'[i] = inbox[i + 1]
    BY ReadingTyped DEF ReadRequest, IInv
  <1>2. /\ queue' = Append(queue, Head(inbox).id) /\ UNCHANGED <<handled, asked>>
        /\ queue \in Seq(1 .. MaxAsked) /\ Len(queue) \in Nat /\ Len(handled) \in Nat
        /\ asked \in Nat
    BY IpcAssumption DEF ReadRequest, IInv, TypeOK
  <1>3. Head(inbox).id \in 1 .. MaxAsked
    BY <1>1, FrameFacts, Zenon
  <1>4. Head(inbox).id \in read + 1 .. asked
    BY <1>1 DEF IInv, Requests
  <1>5. Head(inbox).id = read + 1
    <2>0. read + 1 \in read + 1 .. asked
      BY <1>2, <1>4
    <2>1. PICK i \in 1 .. Len(inbox) : inbox[i] = Request(read + 1)
      BY <2>0, Zenon DEF IInv, Requests
    <2>2. inbox[i].kind = "request" /\ inbox[i].id = read + 1
      BY <2>1 DEF Request
    <2>3. CASE i = 1
      BY <2>2, <2>3, <1>1, Zenon
    <2>4. CASE i # 1
      <3>1. inbox[1].id < inbox[i].id
        <4>1. 1 \in 1 .. Len(inbox) /\ 1 < i
          BY <2>1, <2>4, <1>1
        <4> QED
          BY <4>1, <2>2, <1>1, Zenon DEF IInv, Requests
      <3> QED
        BY <3>1, <2>2, <1>1, <1>2, <1>4
    <2> QED
      BY <2>3, <2>4, Zenon
  <1>6. /\ Len(queue') = Len(queue) + 1 /\ queue'[Len(queue) + 1] = read + 1
        /\ \A i \in 1 .. Len(queue) : queue'[i] = queue[i]
    BY <1>2, <1>3, <1>5, AppendProperties
  <1>7. \A i, j \in 1 .. Len(inbox') :
           i < j /\ inbox'[i].kind = "request" /\ inbox'[j].kind = "request" =>
               inbox'[i].id < inbox'[j].id
    <2> SUFFICES ASSUME NEW i \in 1 .. Len(inbox'), NEW j \in 1 .. Len(inbox'),
                        i < j, inbox'[i].kind = "request", inbox'[j].kind = "request"
                 PROVE  inbox'[i].id < inbox'[j].id
      BY Zenon
    <2> DEFINE m == i + 1  n == j + 1
    <2>1. inbox'[i] = inbox[m] /\ inbox'[j] = inbox[n]
      BY <1>1, Zenon
    <2>2. m \in 1 .. Len(inbox) /\ n \in 1 .. Len(inbox) /\ m < n
      BY <1>1
    <2> HIDE DEF m, n
    <2> QED
      BY <2>1, <2>2, Zenon DEF IInv, Requests
  <1>8. \A i \in 1 .. Len(inbox') :
           inbox'[i].kind = "request" => inbox'[i].id \in read + 2 .. asked
    <2> SUFFICES ASSUME NEW i \in 1 .. Len(inbox'), inbox'[i].kind = "request"
                 PROVE  inbox'[i].id \in read + 2 .. asked
      BY Zenon
    <2> DEFINE m == i + 1
    <2>1. inbox'[i] = inbox[m] /\ m \in 1 .. Len(inbox) /\ 1 \in 1 .. Len(inbox) /\ 1 < m
      BY <1>1
    <2> HIDE DEF m
    <2>2. inbox[1].id < inbox[m].id /\ inbox[m].id \in read + 1 .. asked
      BY <2>1, <1>1, Zenon DEF IInv, Requests
    <2> QED
      BY <2>1, <2>2, <1>1, <1>2, <1>5, SMTT(30)
  <1>9. \A n \in read + 2 .. asked : \E i \in 1 .. Len(inbox') : inbox'[i] = Request(n)
    <2> SUFFICES ASSUME NEW n \in read + 2 .. asked
                 PROVE  \E i \in 1 .. Len(inbox') : inbox'[i] = Request(n)
      BY Zenon
    <2>1. PICK i \in 1 .. Len(inbox) : inbox[i] = Request(n)
      BY <1>2 DEF IInv, Requests
    <2>2. inbox[i].id = n
      BY <2>1 DEF Request
    <2>3. i # 1
      BY <2>2, <1>1, <1>2, <1>5
    <2>4. i - 1 \in 1 .. Len(inbox') /\ inbox'[i - 1] = inbox[i]
      BY <2>3, <1>1
    <2> QED
      BY <2>1, <2>4, Zenon
  <1>10. Len(handled') + Len(queue') = read + 1 /\ read + 1 <= asked
    BY <1>2, <1>4, <1>6
  <1>11. \A i \in 1 .. Len(queue') : queue'[i] = Len(handled') + i
    <2> SUFFICES ASSUME NEW i \in 1 .. Len(queue')
                 PROVE  queue'[i] = Len(handled) + i
      BY <1>2, Zenon
    <2>1. CASE i \in 1 .. Len(queue)
      BY <2>1, <1>6, Zenon DEF IInv, Requests
    <2>2. CASE i = Len(queue) + 1
      BY <2>2, <1>2, <1>6
    <2> QED
      BY <2>1, <2>2, <1>2, <1>6
  <1>12. \A i \in 1 .. Len(handled') : handled'[i] = i
    BY <1>2, Zenon DEF IInv, Requests
  <1>13. /\ Len(handled') + Len(queue') + 1 = read + 2
         /\ Len(handled') + Len(queue') <= asked' /\ asked' = asked
    <2>1. read \in Nat
      BY <1>2
    <2> QED
      BY <2>1, <1>2, <1>10
  <1> HIDE DEF read
  <1> QED
    BY <1>7, <1>8, <1>9, <1>11, <1>12, <1>13, Zenon DEF Requests

(* The dispatch thread takes the first request of the queue. *)
LEMMA DispatcherTestsStep ==
    ASSUME IInv, DispatcherTests
    PROVE  Requests'
  <1>1. UNCHANGED <<inbox, asked>> /\ queue \in Seq(1 .. MaxAsked) /\ handled \in Seq(1 .. MaxAsked)
    BY Zenon DEF DispatcherTests, wire, IInv, TypeOK
  <1>2. CASE queue = <<>>
    <2>1. UNCHANGED <<queue, handled>>
      BY <1>2, Zenon DEF DispatcherTests
    <2> QED
      BY <2>1, <1>1, Zenon DEF IInv, Requests
  <1>3. CASE queue # <<>>
    <2>1. queue' = Tail(queue) /\ handled' = Append(handled, Head(queue))
      BY <1>3, Zenon DEF DispatcherTests
    <2>2. /\ Head(queue) \in 1 .. MaxAsked /\ Head(queue) = queue[1]
          /\ Len(queue) \in Nat \ {0} /\ Len(queue') = Len(queue) - 1
          /\ \A i \in 1 .. Len(queue') : queue'[i] = queue[i + 1]
      <3>1. Head(queue) = queue[1] /\ Len(queue) \in Nat \ {0}
        BY <1>1, <1>3
      <3> QED
        BY <3>1, <2>1, <1>1, <1>3, HeadTailProperties, ZenonT(30)
    <2>3. /\ Len(handled) \in Nat /\ Len(handled') = Len(handled) + 1
          /\ handled'[Len(handled) + 1] = Head(queue)
          /\ \A i \in 1 .. Len(handled) : handled'[i] = handled[i]
      BY <2>1, <2>2, <1>1, AppendProperties
    <2>4. Len(handled') + Len(queue') = Len(handled) + Len(queue)
      BY <2>2, <2>3
    <2>5. Head(queue) = Len(handled) + 1
      BY <2>2 DEF IInv, Requests
    <2>6. \A i \in 1 .. Len(handled') : handled'[i] = i
      BY <2>3, <2>5 DEF IInv, Requests
    <2>7. \A i \in 1 .. Len(queue') : queue'[i] = Len(handled') + i
      <3> SUFFICES ASSUME NEW i \in 1 .. Len(queue')
                   PROVE  queue'[i] = Len(handled') + i
        BY Zenon
      <3> DEFINE m == i + 1
      <3>1. m \in 1 .. Len(queue) /\ queue'[i] = queue[m]
        BY <2>2
      <3>2. queue[m] = Len(handled) + m
        BY <3>1, Zenon DEF IInv, Requests
      <3> QED
        BY <3>1, <3>2, <2>2, <2>3
    <2> QED
      BY <1>1, <2>4, <2>6, <2>7, Zenon DEF IInv, Requests
  <1> QED
    BY <1>2, <1>3, Zenon

(* Every step keeps the requests in order. *)
LEMMA RequestsStep == IInv /\ [Next]_vars => Requests'
  <1> SUFFICES ASSUME IInv, [Next]_vars
               PROVE  Requests'
    BY Zenon
  <1>1. CASE UNCHANGED <<inbox, asked, queue, handled>>
    BY <1>1, SMTT(30) DEF IInv, Requests
  <1>2. ASSUME NEW c \in Callers, CallerStep(c)
        PROVE  UNCHANGED <<inbox, asked, queue, handled>>
    BY <1>2, Zenon DEF CallerStep, Register, Write, WriteFails, Wake, TimeOut, wire
  <1>3. ASSUME SendOneWay \/ ReaderChecks \/ ReaderNotifies \/ ReadFails \/ ReaderLeaves
        PROVE  UNCHANGED <<inbox, asked, queue, handled>>
    BY <1>3, Zenon DEF SendOneWay, ReaderChecks, ReaderNotifies, ReadFails, ReaderLeaves, wire
  <1>4. ASSUME DispatcherSleeps \/ SpuriousWake \/ HandlerReturns \/ HandlerFails
        PROVE  UNCHANGED <<inbox, asked, queue, handled>>
    BY <1>4, Zenon DEF DispatcherSleeps, SpuriousWake, HandlerReturns, HandlerFails, wire
  <1>5. ASSUME StopClearsRunning \/ StopStep
        PROVE  UNCHANGED <<inbox, asked, queue, handled>>
    BY <1>5, Zenon DEF StopStep, StopClearsRunning, StopWakesCallers, StopShutsSocket, StopJoinsReader,
                StopNotifies, StopJoinsDispatcher, wire
  <1>6. ASSUME PeerDies \/ UNCHANGED vars
        PROVE  UNCHANGED <<inbox, asked, queue, handled>>
    BY <1>6, Zenon DEF PeerDies, vars
  <1>7. CASE ReadReply
    BY <1>7, OtherFrameRead, Zenon DEF ReadReply
  <1>8. CASE ReadGarbage
    BY <1>8, OtherFrameRead, Zenon DEF ReadGarbage
  <1>9. CASE PeerAnswers
    <2>1. PICK id \in unanswered : Arrives(Reply(id))
      BY <1>9, Zenon DEF PeerAnswers
    <2>2. Reply(id) \in Frames /\ Reply(id).kind # "request"
      BY Zenon DEF IInv, TypeOK, Frames, Reply
    <2> QED
      BY <1>9, <2>1, <2>2, OtherFrameArrives, Zenon DEF PeerAnswers
  <1>10. CASE PeerSendsGarbage
    <2>1. Garbage \in Frames /\ Garbage.kind # "request"
      BY Zenon DEF Frames, Garbage
    <2> QED
      BY <1>10, <2>1, OtherFrameArrives, Zenon DEF PeerSendsGarbage
  <1> QED
    BY <1>1, <1>2, <1>3, <1>4, <1>5, <1>6, <1>7, <1>8, <1>9, <1>10, ReadRequestStep, AsksStep,
       DispatcherTestsStep, SMTT(30)
    DEF Next, ReaderStep, DispatcherStep, PeerStep

(* Every step keeps the order of stop(): an ended thread stays ended. *)
LEMMA StoppingStep == IInv /\ [Next]_vars => Stopping'
  <1> SUFFICES ASSUME IInv, [Next]_vars
               PROVE  Stopping'
    BY Zenon
  <1>s. Stopping
    BY Zenon DEF IInv
  <1>1. CASE UNCHANGED <<reader, dispatcher, stopper, socket>>
    BY <1>1, <1>s, SMTT(30) DEF Stopping
  <1>2. ASSUME NEW c \in Callers, CallerStep(c)
        PROVE  UNCHANGED <<reader, dispatcher, stopper, socket>>
    BY <1>2, SMTT(30) DEF CallerStep, Register, Write, WriteFails, Wake, TimeOut, threads
  <1>3. ASSUME SendOneWay \/ PeerStep \/ UNCHANGED vars
        PROVE  UNCHANGED <<reader, dispatcher, stopper, socket>>
    BY <1>3, Zenon DEF SendOneWay, PeerStep, PeerAnswers, PeerAsks, PeerSendsGarbage, PeerDies, threads, vars
  <1>4. CASE ReaderStep
    <2>1. reader # "done" /\ UNCHANGED <<stopper, socket>> /\ (dispatcher = "done" => UNCHANGED dispatcher)
      BY <1>4, Zenon DEF ReaderStep, ReaderChecks, ReadReply, ReadRequest, ReaderNotifies, ReadGarbage,
                  ReadFails, ReaderLeaves, Reading, NotifyDispatcher
    <2> QED
      BY <2>1, <1>s, Zenon DEF Stopping
  <1>5. CASE DispatcherStep \/ SpuriousWake
    <2>1. dispatcher # "done" /\ UNCHANGED <<reader, stopper, socket>>
      BY <1>5, Zenon DEF DispatcherStep, DispatcherTests, DispatcherSleeps, SpuriousWake, HandlerReturns,
                  HandlerFails
    <2> QED
      BY <2>1, <1>s, Zenon DEF Stopping
  <1>6. CASE StopClearsRunning \/ StopStep
    BY <1>6, <1>s, Zenon
    DEF StopStep, StopClearsRunning, StopWakesCallers, StopShutsSocket, StopJoinsReader,
        StopNotifies, StopJoinsDispatcher, NotifyDispatcher, Stopping
  <1> QED
    BY <1>1, <1>2, <1>3, <1>4, <1>5, <1>6, Zenon DEF Next

-----------------------------------------------------------------------------
(* The four parts together are inductive. *)
LEMMA Invariance == Spec => []IInv
  <1>1. IInv /\ [Next]_vars => IInv'
    BY TypesStep, CallsStep, RequestsStep, StoppingStep, Zenon DEF IInv
  <1> QED
    BY InitEstablishes, <1>1, PTL DEF Spec

(* The type invariant. *)
THEOREM TypeCorrect == Spec => []TypeOK
  <1>1. IInv => TypeOK
    BY Zenon DEF IInv
  <1> QED
    BY <1>1, Invariance, PTL

(* pending_ holds exactly the calls in progress, whatever way the earlier  *)
(* ones ended.                                                             *)
THEOREM PendingCorrect == Spec => []PendingIsInProgress
  <1>1. IInv => PendingIsInProgress
    BY Zenon DEF IInv, Calls
  <1> QED
    BY <1>1, Invariance, PTL

(* send_request() returns the reply to its own request or nothing, however *)
(* many callers share the channel and however late replies arrive.         *)
THEOREM ReplyCorrect == Spec => []OwnReply
  <1>1. IInv => OwnReply
    BY Zenon DEF IInv, Calls
  <1> QED
    BY <1>1, Invariance, PTL

(* The handler is given the peer's requests once each, in the order sent. *)
THEOREM OrderCorrect == Spec => []ArrivalOrder
  <1>1. ASSUME IInv
        PROVE  ArrivalOrder
    <2>1. handled \in Seq(1 .. MaxAsked) /\ queue \in Seq(1 .. MaxAsked)
      BY <1>1, Zenon DEF IInv, TypeOK
    <2>2. /\ Len(handled \o queue) = Len(handled) + Len(queue)
          /\ \A i \in 1 .. Len(handled) + Len(queue) :
                (handled \o queue)[i] = IF i <= Len(handled) THEN handled[i]
                                        ELSE queue[i - Len(handled)]
      BY <2>1, ConcatProperties, Zenon
    <2>3. Len(handled) \in Nat /\ Len(queue) \in Nat
      BY <2>1
    <2> SUFFICES ASSUME NEW i \in 1 .. Len(handled) + Len(queue)
                 PROVE  (handled \o queue)[i] = i
      BY <2>2, Zenon DEF ArrivalOrder
    <2>4. CASE i <= Len(handled)
      <3>1. \A n \in 1 .. Len(handled) : handled[n] = n
        BY <1>1, Zenon DEF IInv, Requests
      <3>2. i \in 1 .. Len(handled)
        BY <2>3, <2>4
      <3> QED
        BY <2>2, <2>4, <3>1, <3>2, Zenon
    <2>5. CASE ~(i <= Len(handled))
      <3> DEFINE j == i - Len(handled)
      <3>1. j \in 1 .. Len(queue) /\ (handled \o queue)[i] = queue[j]
        BY <2>2, <2>3, <2>5, SMTT(30)
      <3>2. queue[j] = Len(handled) + j
        BY <3>1, <1>1, Zenon DEF IInv, Requests
      <3> QED
        BY <3>1, <3>2, <2>3
    <2> QED
      BY <2>4, <2>5, Zenon
  <1> QED
    BY <1>1, Invariance, PTL

(* The descriptor is closed after both threads have ended. *)
THEOREM CloseCorrect == Spec => []ClosedAfterJoin
  <1>1. IInv => ClosedAfterJoin
    BY Zenon DEF IInv, Stopping, ClosedAfterJoin
  <1> QED
    BY <1>1, Invariance, PTL

(* Both ends may rely on the channel, for any number of callers, requests  *)
(* and ids, and whatever the peer, the timeouts and stop() do.             *)
THEOREM ChannelCorrect == Spec => []ChannelIsSound
  <1>1. OwnReply /\ ArrivalOrder /\ PendingIsInProgress /\ ClosedAfterJoin => ChannelIsSound
    BY Zenon DEF ChannelIsSound
  <1> QED
    BY <1>1, PendingCorrect, ReplyCorrect, OrderCorrect, CloseCorrect, PTL
=============================================================================
