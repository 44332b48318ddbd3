-------------------------- MODULE AsyncSystemProofs --------------------------
(***************************************************************************)
(* Theorems about AsyncSystem for every set of writers, closers and        *)
(* consumers, every request and every behaviour of the cooler: its types,  *)
(* its safety from the inductive invariant ClientInv, what a step may      *)
(* never do, and that it implements WritePromise.                          *)
(***************************************************************************)
EXTENDS AsyncSystem, CoolerProofs

USE CoolerAssumption, ClientAssumption

-----------------------------------------------------------------------------
(* Types *)

\* A set of positions of a sequence has a first and a last one.
LEMMA FirstAndLast ==
  ASSUME NEW n \in Nat, NEW S, S \subseteq 1 .. n, S # {}
  PROVE  /\ Last(S) \in S /\ \A j \in S : j <= Last(S)
         /\ First(S) \in S /\ \A j \in S : First(S) <= j
  BY LeastAndGreatest DEF Last, First

\* What one chunk does to the state has the right types.
LEMMA ChunkTypes ==
  ASSUME TypeOK, NEW chunk \in Seq(ToClient)
  PROVE  /\ Feed(chunk) \in [Topics -> Seq(Int)]
         /\ Resolve(chunk) \in [Writers -> {"none", "pending", "lost", "cancelled"} \cup Verdicts]
         /\ [i \in DOMAIN chunk |-> EventOf(chunk[i])] \in Seq(Event)
<1>1. /\ Len(chunk) \in Nat /\ DOMAIN chunk = 1 .. Len(chunk)
      /\ \A i \in DOMAIN chunk : chunk[i] \in ToClient
  BY LenProperties
<1>2. \A i \in DOMAIN chunk : EventOf(chunk[i]) \in Event
  BY <1>1, DecodeType, EmptySeq DEF EventOf, Event, ToClient
<1>3. [i \in DOMAIN chunk |-> EventOf(chunk[i])] \in Seq(Event)
  BY <1>1, <1>2, FunctionIsSeq
<1>4. ASSUME NEW t \in Topics, Publishes(chunk, t) # {}
      PROVE  Decode(t, chunk[Last(Publishes(chunk, t))].words) \in Seq(Int)
  <2>1. Last(Publishes(chunk, t)) \in DOMAIN chunk
    BY <1>1, <1>4, FirstAndLast DEF Publishes
  <2>. QED
    BY <1>1, <2>1, DecodeType DEF ToClient
<1>5. Feed(chunk) \in [Topics -> Seq(Int)]
  BY <1>4 DEF Feed, TypeOK, ClientTypeOK
<1>6. ASSUME NEW w \in Writers, Decisive(w, chunk) # {}
      PROVE  Verdict(w, chunk[First(Decisive(w, chunk))]) \in Verdicts
  <2>1. First(Decisive(w, chunk)) \in Decisive(w, chunk)
    BY <1>1, <1>6, FirstAndLast DEF Decisive
  <2>2. Verdict(w, chunk[First(Decisive(w, chunk))]) # "none"
    BY <2>1 DEF Decisive
  <2>. QED
    BY <2>2 DEF Verdict, Matches, Verdicts
<1>7. Resolve(chunk) \in [Writers -> {"none", "pending", "lost", "cancelled"} \cup Verdicts]
  BY <1>6 DEF Resolve, TypeOK, ClientTypeOK
<1>. QED
  BY <1>3, <1>5, <1>7

\* Writing frames keeps the channel to the cooler typed.
LEMMA WriteType ==
  ASSUME TypeOK, NEW frames \in Seq(ToCooler), Write(frames)
  PROVE  toCooler' \in Seq(ToCooler) /\ toClient' = toClient /\ line' = line
  BY ConcatProperties DEF Write, TypeOK, CoolerTypeOK

\* The None that ends the stream is an event.
LEMMA EndType == End \in Event
  BY EmptySeq DEF End, Event, Topics

\* Every action of the client keeps the types.
LEMMA ClientStepType ==
  ASSUME TypeOK, ClientNext, UNCHANGED coolerVars
  PROVE  TypeOK'
<1>. USE DEF wireVars, coolerVars, readVars, writeVars, sockVars, eventVars, restVars
<1>. DEFINE FutType == [Writers -> {"none", "pending", "lost", "cancelled"} \cup Verdicts]
            TaskType == [Writers -> InFlight \cup {"idle", "done"}]
<1>1. CASE Connect
  <2>1. PICK subscribe \in BOOLEAN :
          Write(IF subscribe THEN [i \in DOMAIN Subscribed |-> SubscribeFrame(Subscribed[i])]
                             ELSE <<>>)
    BY <1>1 DEF Connect
  <2>2. /\ Len(Subscribed) \in Nat /\ DOMAIN Subscribed = 1 .. Len(Subscribed)
        /\ \A i \in DOMAIN Subscribed : Subscribed[i] \in Topics
    BY LenProperties
  <2>3. \A i \in DOMAIN Subscribed : SubscribeFrame(Subscribed[i]) \in ToCooler
    BY <2>2, EmptySeq DEF SubscribeFrame, ToCooler
  <2>4. [i \in DOMAIN Subscribed |-> SubscribeFrame(Subscribed[i])] \in Seq(ToCooler)
    BY <2>2, <2>3, FunctionIsSeq
  <2>5. toCooler' \in Seq(ToCooler) /\ toClient' = toClient /\ line' = line
    BY <2>1, <2>4, EmptySeq, WriteType
  <2>. QED
    BY <1>1, <2>5 DEF Connect, TypeOK, CoolerTypeOK, ClientTypeOK
<1>2. CASE ReaderStart \/ ReaderDropped
  BY <1>2 DEF ReaderStart, ReaderDropped, TypeOK, CoolerTypeOK, ClientTypeOK
<1>3. CASE ReadChunk
  <2>1. PICK n \in 1 .. Len(toClient) :
          LET chunk == SubSeq(toClient, 1, n) IN
            /\ values' = Feed(chunk)
            /\ fut' = Resolve(chunk)
            /\ queue' = queue \o [i \in DOMAIN chunk |-> EventOf(chunk[i])]
            /\ toClient' = SubSeq(toClient, n + 1, Len(toClient))
    BY <1>3 DEF ReadChunk
  <2>. DEFINE chunk == SubSeq(toClient, 1, n)
  <2>2. chunk \in Seq(ToClient) /\ toClient' \in Seq(ToClient)
    BY <2>1, SplitSeq DEF TypeOK, CoolerTypeOK
  <2>3. values' \in [Topics -> Seq(Int)] /\ fut' \in FutType
    BY <2>1, <2>2, ChunkTypes
  <2>4. queue' \in Seq(Event)
    BY <2>1, <2>2, ChunkTypes, ConcatProperties DEF TypeOK, ClientTypeOK
  <2>. QED
    BY <1>3, <2>2, <2>3, <2>4 DEF ReadChunk, TypeOK, CoolerTypeOK, ClientTypeOK
<1>4. CASE ReadEof \/ ReadError \/ ReaderCancelled
  <2>1. PICK reason \in {"none", "eof", "error"} : FinishReader(reason)
    BY <1>4 DEF ReadEof, ReadError, ReaderCancelled
  <2>2. queue' \in Seq(Event)
    BY <2>1, EndType, AppendProperties DEF FinishReader, TypeOK, ClientTypeOK
  <2>. QED
    BY <2>1, <2>2 DEF FinishReader, TypeOK, CoolerTypeOK, ClientTypeOK
<1>5. ASSUME NEW w \in Writers, Set(w)
      PROVE  TypeOK'
  <2>1. PICK r \in Requests :
       LET error == RefusedBy(values, r.topic, r.value, r.compartment)
           raised == IF error # "none" THEN error
                     ELSE IF closed THEN "closed"
                     ELSE IF line = "reset" THEN "oserror" ELSE "none"
       IN  \/ /\ raised # "none"
              /\ Return(w, raised)
              /\ UNCHANGED <<wireVars, fut>>
           \/ /\ raised = "none"
              /\ expectation' = [expectation EXCEPT ![w] =
                   [topic |-> r.topic, compartment |-> r.compartment,
                    value |-> Expected(values, r.topic, r.value, r.compartment)]]
              /\ fut' = [fut EXCEPT ![w] = "pending"]
              /\ pending' = pending \cup {w}
              /\ Write(<<[action |-> "SET", topic |-> r.topic, by |-> w,
                          words |-> Encode(r.topic, NewValue(values, r.topic,
                                                      r.value, r.compartment))]>>)
              /\ task' = [task EXCEPT ![w] = IF paused THEN "draining" ELSE "waiting"]
              /\ UNCHANGED outcome
    BY <1>5 DEF Set
  <2>. DEFINE error == RefusedBy(values, r.topic, r.value, r.compartment)
              new == NewValue(values, r.topic, r.value, r.compartment)
              frame == [action |-> "SET", topic |-> r.topic, by |-> w,
                        words |-> Encode(r.topic, new)]
  <2>2. r.topic \in Topics /\ r.value \in Int /\ r.compartment \in Nat
    OBVIOUS
  <2>3. CASE error = "none" /\ ~closed /\ line # "reset"
    <3>1. values \in [Topics -> Seq(Int)]
      BY DEF TypeOK, ClientTypeOK
    <3>2. new \in Seq(Int) /\ Expected(values, r.topic, r.value, r.compartment) \in Seq(Int)
      BY <2>2, <2>3, <3>1, NewValueType
    <3>3. frame \in ToCooler
      BY <2>2, <3>2, EncodeType DEF ToCooler
    <3>4. <<frame>> \in Seq(ToCooler)
      BY <3>3, FunctionIsSeq
    <3>5. toCooler' \in Seq(ToCooler) /\ toClient' = toClient /\ line' = line
      BY <2>1, <2>3, <3>4, WriteType
    <3>. DEFINE exp == [topic |-> r.topic, compartment |-> r.compartment,
                        value |-> Expected(values, r.topic, r.value, r.compartment)]
    <3>6. expectation' \in [Writers -> [topic : Topics, value : Seq(Int), compartment : Nat]]
      <4>1. exp \in [topic : Topics, value : Seq(Int), compartment : Nat]
        BY <2>2, <3>2
      <4>2. expectation' = [expectation EXCEPT ![w] = exp]
        BY <2>1, <2>3
      <4>. HIDE DEF exp
      <4>. QED
        BY <4>1, <4>2 DEF TypeOK, ClientTypeOK
    <3>7. fut' \in FutType /\ task' \in TaskType /\ pending' \subseteq Writers
      BY <2>1, <2>3 DEF TypeOK, ClientTypeOK, InFlight
    <3>. QED
      BY <1>5, <2>1, <2>3, <3>5, <3>6, <3>7 DEF Set, TypeOK, CoolerTypeOK, ClientTypeOK
  <2>4. CASE ~(error = "none" /\ ~closed /\ line # "reset")
    <3>1. PICK raised \in Outcomes : Return(w, raised) /\ UNCHANGED <<wireVars, fut>>
      BY <2>1, <2>4 DEF RefusedBy, Outcomes, LocalErrors
    <3>2. /\ task' \in TaskType /\ pending' \subseteq Writers
          /\ outcome' \in [Writers -> Outcomes \cup {"none"}] /\ UNCHANGED expectation
      BY <3>1 DEF Return, TypeOK, ClientTypeOK
    <3>. QED
      BY <1>5, <3>1, <3>2 DEF Set, TypeOK, CoolerTypeOK, ClientTypeOK
  <2>. QED
    BY <2>3, <2>4
<1>6. ASSUME NEW w \in Writers, SetDrained(w)
      PROVE  TypeOK'
  BY <1>6 DEF SetDrained, TypeOK, CoolerTypeOK, ClientTypeOK, InFlight
<1>7. ASSUME NEW w \in Writers, SetReturns(w)
      PROVE  TypeOK'
  <2>1. PICK o \in Outcomes \cup {"none"} : Return(w, o)
    BY <1>7 DEF SetReturns, TypeOK, ClientTypeOK, Outcomes, Verdicts
  <2>2. /\ task' \in TaskType /\ pending' \subseteq Writers
        /\ outcome' \in [Writers -> Outcomes \cup {"none"}] /\ UNCHANGED expectation
    BY <2>1 DEF Return, TypeOK, ClientTypeOK
  <2>. QED
    BY <1>7, <2>2 DEF SetReturns, TypeOK, CoolerTypeOK, ClientTypeOK
<1>8. ASSUME NEW w \in Writers, TimerFires(w) \/ Cancel(w)
      PROVE  TypeOK'
  <2>1. PICK to \in {"expiring", "cancelling"} : CancelWait(w, to)
    BY <1>8 DEF TimerFires, Cancel
  <2>2. fut' \in FutType /\ task' \in TaskType
    BY <2>1 DEF CancelWait, TypeOK, ClientTypeOK, InFlight
  <2>. QED
    BY <2>1, <2>2 DEF CancelWait, TypeOK, CoolerTypeOK, ClientTypeOK
<1>9. CASE PauseWriting
  <2>1. pauses' \in Nat
    BY <1>9 DEF PauseWriting, TypeOK, ClientTypeOK
  <2>. QED
    BY <1>9, <2>1, Zenon DEF PauseWriting, TypeOK, CoolerTypeOK, ClientTypeOK
<1>10. CASE ResumeWriting
  BY <1>10 DEF ResumeWriting, WakeDrains, TypeOK, CoolerTypeOK, ClientTypeOK, InFlight
<1>11. CASE ConnectionLost
  BY <1>11, EmptySeq DEF ConnectionLost, WakeDrains, TypeOK, CoolerTypeOK, ClientTypeOK, InFlight
<1>12. ASSUME NEW c \in Closers, CloseStart(c) \/ CloseSkipped(c)
       PROVE  TypeOK'
  <2>1. CASE CloseStart(c)
    BY <2>1 DEF CloseStart, TypeOK, CoolerTypeOK, ClientTypeOK
  <2>2. CASE CloseSkipped(c)
    BY <2>2 DEF CloseSkipped, TypeOK, CoolerTypeOK, ClientTypeOK
  <2>. QED
    BY <1>12, <2>1, <2>2
<1>13. ASSUME NEW c \in Closers, CloseJoined(c)
       PROVE  TypeOK'
  <2>1. PICK to \in {"resuming", "broken"} : WakeDrains(to)
    BY <1>13 DEF CloseJoined
  <2>2. task' \in TaskType
    BY <2>1 DEF WakeDrains, TypeOK, ClientTypeOK, InFlight
  <2>. QED
    BY <1>13, <2>2 DEF CloseJoined, TypeOK, CoolerTypeOK, ClientTypeOK
<1>14. ASSUME NEW c \in Closers, CloseFinish(c)
       PROVE  TypeOK'
  <2>1. queue' \in Seq(Event)
    BY <1>14, EndType, AppendProperties DEF CloseFinish, TypeOK, ClientTypeOK
  <2>. QED
    BY <1>14, <2>1 DEF CloseFinish, TypeOK, CoolerTypeOK, ClientTypeOK
<1>15. ASSUME NEW i \in Consumers, Deliver(i)
       PROVE  TypeOK'
  <2>1. Head(queue) \in Event /\ queue' \in Seq(Event)
    BY <1>15, HeadTailProperties DEF Deliver, TypeOK, ClientTypeOK
  <2>2. delivered' \in [Topics -> Seq(Int)] /\ consumer' \in [Consumers -> {"iterating", "done"}]
    BY <1>15, <2>1 DEF Deliver, TypeOK, ClientTypeOK, Event
  <2>. QED
    BY <1>15, <2>1, <2>2 DEF Deliver, TypeOK, CoolerTypeOK, ClientTypeOK
<1>. QED
  BY <1>1, <1>2, <1>3, <1>4, <1>5, <1>6, <1>7, <1>8, <1>9, <1>10, <1>11, <1>12, <1>13,
     <1>14, <1>15 DEF ClientNext, ReaderStep, SetStep, CloseStep

\* The initial states have their types.
LEMMA InitType == Init => TypeOK
<1>1. NoExpectation \in [topic : Topics, value : Seq(Int), compartment : Nat]
  BY EmptySeq DEF NoExpectation, Topics
<1>2. \A S : <<>> \in Seq(S)
  BY EmptySeq
<1>3. Init => CoolerTypeOK
  BY <1>2 DEF Init, WireInit, CoolerInit, CoolerTypeOK
<1>4. ASSUME ClientInit PROVE ClientTypeOK
  <2>1. values \in [Topics -> Seq(Int)] /\ delivered \in [Topics -> Seq(Int)]
    BY <1>2, <1>4 DEF ClientInit
  <2>2. expectation \in [Writers -> [topic : Topics, value : Seq(Int), compartment : Nat]]
    BY <1>1, <1>4 DEF ClientInit
  <2>3. queue \in Seq(Event) /\ pauses \in Nat
    BY <1>2, <1>4 DEF ClientInit
  <2>. QED
    BY <1>4, <2>1, <2>2, <2>3 DEF ClientInit, ClientTypeOK
<1>. QED
  BY <1>3, <1>4 DEF Init, TypeOK

\* Every reachable state has its type: the theorem every other one starts from.
THEOREM TypeCorrect == Spec => []TypeOK
<1>1. TypeOK /\ [Next]_vars => TypeOK'
  <2>1. ASSUME TypeOK, ClientStep PROVE TypeOK'
    BY <2>1, ClientStepType DEF ClientStep
  <2>2. ASSUME TypeOK, CoolerStep PROVE TypeOK'
    <3>1. CoolerTypeOK'
      BY <2>2, CoolerStepType DEF CoolerStep, TypeOK
    <3>2. ClientTypeOK'
      BY <2>2 DEF CoolerStep, TypeOK, ClientTypeOK, clientVars, restVars, readVars,
         writeVars, sockVars, eventVars
    <3>. QED
      BY <3>1, <3>2 DEF TypeOK
  <2>3. ASSUME TypeOK, UNCHANGED vars PROVE TypeOK'
    BY <2>3 DEF vars, wireVars, coolerVars, clientVars, restVars, readVars, writeVars,
       sockVars, eventVars, TypeOK, CoolerTypeOK, ClientTypeOK
  <2>. QED
    BY <2>1, <2>2, <2>3 DEF Next
<1>. QED
  BY InitType, <1>1, PTL DEF Spec

-----------------------------------------------------------------------------
(* Safety *)

\* The cooler changes nothing the invariant speaks of, except for what it may
\* do to the frames on the wire.
LEMMA InvCoolerStep ==
  ASSUME ClientInv, UNCHANGED clientVars
  PROVE  ClientInv'
  BY DEF ClientInv, PendingIffInFlight, NoOrphanWait, CloseReasonTellsWho, Closing, Asked,
     clientVars, restVars, readVars, writeVars, sockVars, eventVars

\* Resolve only settles futures of calls that wait, with a verdict.
LEMMA ResolveSettles ==
  ASSUME TypeOK, NEW chunk \in Seq(ToClient), NEW w \in Writers
  PROVE  \/ Resolve(chunk)[w] = fut[w]
         \/ /\ w \in pending /\ fut[w] = "pending"
            /\ Resolve(chunk)[w] \in Verdicts
<1>1. CASE w \in pending /\ fut[w] = "pending" /\ Decisive(w, chunk) # {}
  <2>1. Len(chunk) \in Nat /\ Decisive(w, chunk) \subseteq 1 .. Len(chunk)
    BY LenProperties DEF Decisive
  <2>2. First(Decisive(w, chunk)) \in Decisive(w, chunk)
    BY <1>1, <2>1, FirstAndLast
  <2>3. Verdict(w, chunk[First(Decisive(w, chunk))]) \in Verdicts
    BY <2>2 DEF Decisive, Verdict, Matches, Verdicts
  <2>. QED
    BY <1>1, <2>3 DEF Resolve
<1>2. CASE ~(w \in pending /\ fut[w] = "pending" /\ Decisive(w, chunk) # {})
  BY <1>2 DEF Resolve
<1>. QED
  BY <1>1, <1>2

\* Every action of the client preserves the invariant.
LEMMA InvClientStep ==
  ASSUME TypeOK, ClientInv, ClientNext
  PROVE  ClientInv'
<1>. USE DEF ClientInv, wireVars, readVars, writeVars, sockVars, eventVars, restVars
<1>1. CASE Connect \/ ReaderStart
  BY <1>1 DEF Connect, ReaderStart, PendingIffInFlight, NoOrphanWait, CloseReasonTellsWho,
     Closing
<1>2. CASE ReaderDropped
  BY <1>2 DEF ReaderDropped, PendingIffInFlight, NoOrphanWait, CloseReasonTellsWho, Closing
<1>3. CASE ReadChunk
  <2>1. \A w \in Writers :
          \/ fut'[w] = fut[w]
          \/ w \in pending /\ fut[w] = "pending" /\ fut'[w] \in Verdicts
    <3>1. PICK n \in 1 .. Len(toClient) : fut' = Resolve(SubSeq(toClient, 1, n))
      BY <1>3 DEF ReadChunk
    <3>2. SubSeq(toClient, 1, n) \in Seq(ToClient)
      BY SplitSeq DEF TypeOK, CoolerTypeOK
    <3>. QED
      BY <3>1, <3>2, ResolveSettles
  <2>2. reader = "reading" /\ UNCHANGED <<reader, closed, closeReason, pending, task, closer>>
    BY <1>3 DEF ReadChunk
  <2>. QED
    BY <2>1, <2>2 DEF PendingIffInFlight, NoOrphanWait, CloseReasonTellsWho, Closing, InFlight
<1>4. CASE ReadEof \/ ReadError \/ ReaderCancelled
  <2>1. PICK reason : /\ FinishReader(reason)
                      /\ reason = "none" <=> reader = "cancelling"
                      /\ reader \in {"reading", "cancelling"}
    BY <1>4 DEF ReadEof, ReadError, ReaderCancelled
  <2>2. PendingIffInFlight'
    BY <2>1 DEF FinishReader, PendingIffInFlight
  <2>3. NoOrphanWait'
    BY <2>1 DEF FinishReader, NoOrphanWait, PendingIffInFlight, InFlight, TypeOK, ClientTypeOK
  <2>4. CloseReasonTellsWho'
    BY <2>1 DEF FinishReader, CloseReasonTellsWho, Closing
  <2>. QED
    BY <2>1, <2>2, <2>3, <2>4 DEF FinishReader, Closing, PendingIffInFlight, InFlight
<1>5. ASSUME NEW w \in Writers, Set(w)
      PROVE  ClientInv'
  <2>1. task[w] = "idle" /\ fut[w] = "none"
    BY <1>5 DEF Set
  <2>2. \/ \E o : Return(w, o) /\ UNCHANGED fut
        \/ /\ ~closed
           /\ fut' = [fut EXCEPT ![w] = "pending"]
           /\ pending' = pending \cup {w}
           /\ \E p \in {"draining", "waiting"} : task' = [task EXCEPT ![w] = p]
    BY <1>5, Zenon DEF Set
  <2>3. UNCHANGED <<reader, closed, closeReason, closer>>
    BY <1>5 DEF Set
  <2>4. task \in [Writers -> InFlight \cup {"idle", "done"}] /\ DOMAIN fut = Writers
    BY DEF TypeOK, ClientTypeOK
  <2>5. CASE \E o : Return(w, o) /\ UNCHANGED fut
    BY <2>1, <2>3, <2>4, <2>5 DEF Return, PendingIffInFlight, NoOrphanWait,
       CloseReasonTellsWho, Closing, InFlight, Asked
  <2>6. CASE /\ ~closed
             /\ fut' = [fut EXCEPT ![w] = "pending"]
             /\ pending' = pending \cup {w}
             /\ \E p \in {"draining", "waiting"} : task' = [task EXCEPT ![w] = p]
    BY <2>1, <2>3, <2>4, <2>6 DEF PendingIffInFlight, NoOrphanWait,
       CloseReasonTellsWho, Closing, InFlight, Asked
  <2>. QED
    BY <2>2, <2>5, <2>6
<1>6. ASSUME NEW w \in Writers, SetDrained(w)
      PROVE  ClientInv'
  BY <1>6 DEF SetDrained, PendingIffInFlight, NoOrphanWait, CloseReasonTellsWho, Closing,
     InFlight, Asked, TypeOK, ClientTypeOK
<1>7. ASSUME NEW w \in Writers, SetReturns(w)
      PROVE  ClientInv'
  <2>1. \E o : Return(w, o)
    BY <1>7 DEF SetReturns
  <2>2. UNCHANGED <<fut, reader, closed, closeReason, closer>> /\ task[w] # "idle"
    BY <1>7 DEF SetReturns
  <2>. QED
    BY <2>1, <2>2 DEF Return, PendingIffInFlight, NoOrphanWait, CloseReasonTellsWho, Closing,
       InFlight, Asked, TypeOK, ClientTypeOK
<1>8. ASSUME NEW w \in Writers, TimerFires(w) \/ Cancel(w)
      PROVE  ClientInv'
  <2>1. PICK to \in {"expiring", "cancelling"} : CancelWait(w, to)
    BY <1>8 DEF TimerFires, Cancel
  <2>2. task[w] \in InFlight
    BY <1>8 DEF TimerFires, Cancel, InFlight
  <2>. QED
    BY <2>1, <2>2 DEF CancelWait, PendingIffInFlight, NoOrphanWait, CloseReasonTellsWho,
       Closing, InFlight, Asked, TypeOK, ClientTypeOK
<1>9. CASE PauseWriting
  BY <1>9 DEF PauseWriting, PendingIffInFlight, NoOrphanWait, CloseReasonTellsWho, Closing
<1>10. ASSUME NEW to \in {"resuming", "broken"}, WakeDrains(to),
              UNCHANGED <<reader, closed, closeReason, fut, pending>>,
              \/ UNCHANGED closer
              \/ \E c \in Closers : /\ closer[c] = "joining" /\ reader \in {"done", "dropped"}
                                    /\ closer' = [closer EXCEPT ![c] = "closing"]
       PROVE  ClientInv'
  <2>1. \A c \in Closers : Closing(c)' = Closing(c)
    BY <1>10 DEF Closing, TypeOK, ClientTypeOK
  <2>2. PendingIffInFlight' /\ NoOrphanWait'
    BY <1>10 DEF WakeDrains, PendingIffInFlight, NoOrphanWait, InFlight
  <2>3. \A c \in Closers : closer'[c] \in {"closing", "done"} => reader' \in {"done", "dropped"}
    BY <1>10 DEF TypeOK, ClientTypeOK
  <2>4. \A w \in Writers : /\ task'[w] = "idle" => task[w] = "idle"
                           /\ task'[w] \in Asked => task[w] \in Asked
    BY <1>10 DEF WakeDrains, Asked
  <2>. QED
    BY <1>10, <2>1, <2>2, <2>3, <2>4 DEF CloseReasonTellsWho
<1>11. CASE ResumeWriting \/ ConnectionLost
  BY <1>10, <1>11 DEF ResumeWriting, ConnectionLost
<1>12. ASSUME NEW c \in Closers, CloseStart(c)
       PROVE  ClientInv'
  <2>1. ~closed /\ closed' = TRUE /\ reader' \in {"unstarted", "cancelling"}
    BY <1>12 DEF CloseStart
  <2>2. \A d \in Closers : Closing(d)' <=> d = c
    BY <1>12, <2>1 DEF CloseStart, Closing, TypeOK, ClientTypeOK
  <2>3. \A d \in Closers : closer'[d] \notin {"closing", "done"}
    BY <1>12, <2>1, <2>2 DEF CloseStart, Closing, TypeOK, ClientTypeOK
  <2>. QED
    BY <1>12, <2>1, <2>2, <2>3 DEF CloseStart, PendingIffInFlight, NoOrphanWait,
       CloseReasonTellsWho
<1>13. ASSUME NEW c \in Closers, CloseSkipped(c) \/ CloseFinish(c)
       PROVE  ClientInv'
  <2>1. \A d \in Closers : Closing(d)' = Closing(d)
    BY <1>13 DEF CloseSkipped, CloseFinish, Closing, TypeOK, ClientTypeOK
  <2>2. \A d \in Closers : closer'[d] \in {"closing", "done"} => closer[d] \in {"closing", "done"}
    BY <1>13 DEF CloseSkipped, CloseFinish, TypeOK, ClientTypeOK
  <2>. QED
    BY <1>13, <2>1, <2>2 DEF CloseSkipped, CloseFinish, PendingIffInFlight, NoOrphanWait,
       CloseReasonTellsWho
<1>14. ASSUME NEW c \in Closers, CloseJoined(c)
       PROVE  ClientInv'
  BY <1>10, <1>14 DEF CloseJoined
<1>15. ASSUME NEW i \in Consumers, Deliver(i)
       PROVE  ClientInv'
  BY <1>15 DEF Deliver, PendingIffInFlight, NoOrphanWait, CloseReasonTellsWho, Closing
<1>. QED
  BY <1>1, <1>2, <1>3, <1>4, <1>5, <1>6, <1>7, <1>8, <1>9, <1>11, <1>12, <1>13, <1>14,
     <1>15 DEF ClientNext, ReaderStep, SetStep, CloseStep

\* The invariant holds in the initial states.
LEMMA InitInv == Init => ClientInv
  BY DEF Init, ClientInit, ClientInv, PendingIffInFlight, NoOrphanWait, CloseReasonTellsWho,
     Closing, Asked, InFlight

\* The inductive invariant holds in every reachable state.
THEOREM ClientInvariant == Spec => []ClientInv
<1>1. TypeOK /\ ClientInv /\ [Next]_vars => ClientInv'
  <2>1. UNCHANGED vars => UNCHANGED clientVars
    BY DEF vars, clientVars
  <2>. QED
    BY <2>1, InvClientStep, InvCoolerStep DEF Next, ClientStep, CoolerStep
<1>. QED
  BY InitInv, <1>1, TypeCorrect, PTL DEF Spec

\* _pending holds exactly the calls of set() in progress, however many there are.
THEOREM PendingExact == Spec => []PendingIffInFlight
<1>1. ClientInv => PendingIffInFlight
  BY DEF ClientInv
<1>. QED
  BY <1>1, ClientInvariant, PTL

\* When the reader task is over, every call of set() that still waits has been
\* told: none can be left to its timeout by a connection that is gone.
THEOREM NobodyLeftWaiting == Spec => []NoOrphanWait
<1>1. ClientInv => NoOrphanWait
  BY DEF ClientInv
<1>. QED
  BY <1>1, ClientInvariant, PTL

\* close_reason stays None exactly when the caller closed the client.
THEOREM CloseReasonCorrect == Spec => []CloseReasonTellsWho
<1>1. ClientInv => CloseReasonTellsWho
  BY DEF ClientInv
<1>. QED
  BY <1>1, ClientInvariant, PTL

-----------------------------------------------------------------------------
(* Steps, and the promise *)

\* A chunk settles futures of calls that wait, and no other future.
LEMMA ChunkSettles ==
  ASSUME TypeOK, ReadChunk, NEW w \in Writers
  PROVE  \/ fut'[w] = fut[w]
         \/ w \in pending /\ fut[w] = "pending" /\ fut'[w] \in Verdicts
<1>1. PICK n \in 1 .. Len(toClient) : fut' = Resolve(SubSeq(toClient, 1, n))
  BY DEF ReadChunk
<1>2. SubSeq(toClient, 1, n) \in Seq(ToClient)
  BY SplitSeq DEF TypeOK, CoolerTypeOK
<1>. QED
  BY <1>1, <1>2, ResolveSettles

\* Only Set, a chunk, the end of the reader and a cancellation touch a future.
LEMMA FutureSteps ==
  ASSUME TypeOK, ClientInv, ClientNext, NEW w \in Writers
  PROVE  fut[w] \notin {"none", "pending"} => fut'[w] = fut[w]
<1>. SUFFICES ASSUME fut[w] \notin {"none", "pending"}
              PROVE  fut'[w] = fut[w]
  OBVIOUS
<1>1. fut \in [Writers -> {"none", "pending", "lost", "cancelled"} \cup Verdicts]
  BY DEF TypeOK, ClientTypeOK
<1>2. CASE ReadChunk
  BY <1>2, ChunkSettles
<1>3. CASE ReadEof \/ ReadError \/ ReaderCancelled
  BY <1>3 DEF ReadEof, ReadError, ReaderCancelled, FinishReader
<1>4. ASSUME NEW v \in Writers, Set(v)
      PROVE  fut'[w] = fut[w]
  <2>1. task[v] = "idle" /\ fut[v] = "none"
    BY <1>4 DEF Set, ClientInv
  <2>2. fut' = fut \/ fut' = [fut EXCEPT ![v] = "pending"]
    BY <1>4, Zenon DEF Set
  <2>. QED
    BY <1>1, <2>1, <2>2
<1>5. ASSUME NEW v \in Writers, TimerFires(v) \/ Cancel(v)
      PROVE  fut'[w] = fut[w]
  BY <1>1, <1>5 DEF TimerFires, Cancel, CancelWait
<1>6. ASSUME UNCHANGED fut
      PROVE  fut'[w] = fut[w]
  BY <1>6
<1>. QED
  BY <1>2, <1>3, <1>4, <1>5, <1>6
     DEF ClientNext, ReaderStep, SetStep, CloseStep, Connect, ReaderStart, ReaderDropped,
         SetDrained, SetReturns, PauseWriting, ResumeWriting, ConnectionLost, CloseStart,
         CloseSkipped, CloseJoined, CloseFinish, Deliver

\* However answers, timeouts, cancellations and the end of the connection are
\* interleaved, a future is settled once.
THEOREM SettledOnce == Spec => FutureSettledOnce
<1>1. TypeOK /\ ClientInv /\ [Next]_vars =>
        [\A w \in Writers : fut[w] \notin {"none", "pending"} => fut'[w] = fut[w]]_vars
  <2>1. UNCHANGED clientVars => UNCHANGED fut
    BY DEF clientVars
  <2>. QED
    BY <2>1, FutureSteps DEF Next, ClientStep, CoolerStep
<1>. QED
  BY <1>1, TypeCorrect, ClientInvariant, PTL DEF Spec, FutureSettledOnce

-----------------------------------------------------------------------------

\* The steps that may follow the end of a call of close().
LEMMA QuietSteps ==
  ASSUME TypeOK, ClientInv, ClientNext, NEW c \in Closers, closer[c] = "done"
  PROVE  values' = values /\ Len(queue') <= Len(queue)
<1>. USE DEF readVars, restVars
<1>1. Len(queue) \in Nat /\ reader \in {"done", "dropped"}
  BY LenProperties DEF TypeOK, ClientTypeOK, ClientInv
<1>2. \A d \in Closers : closer[d] # "closing"
  BY DEF ClientInv, Closing
<1>3. ASSUME NEW i \in Consumers, Deliver(i)
      PROVE  values' = values /\ Len(queue') <= Len(queue)
  <2>1. Len(queue') = Len(queue) - 1
    BY <1>3, HeadTailProperties DEF Deliver, TypeOK, ClientTypeOK
  <2>. QED
    BY <1>1, <1>3, <2>1 DEF Deliver
<1>4. ASSUME NEW w \in Writers, Set(w)
      PROVE  UNCHANGED <<values, queue>>
  BY <1>4 DEF Set
<1>5. ASSUME UNCHANGED <<values, queue>>
      PROVE  values' = values /\ Len(queue') <= Len(queue)
  BY <1>1, <1>5
<1>. QED
  BY <1>1, <1>2, <1>3, <1>4, <1>5
     DEF ClientNext, ReaderStep, SetStep, CloseStep, Connect, ReaderStart, ReadChunk, ReadEof,
         ReadError, ReaderCancelled, ReaderDropped, SetDrained, SetReturns, TimerFires, Cancel,
         CancelWait, PauseWriting, ResumeWriting, ConnectionLost, CloseStart, CloseSkipped,
         CloseJoined, CloseFinish

\* When a call of close() has run to its end, no value changes any more and
\* nothing is added to the event stream.
THEOREM QuietAfterClose == Spec => NothingAfterClose
<1>1. TypeOK /\ ClientInv /\ [Next]_vars =>
        [(\E c \in Closers : closer[c] = "done") =>
           values' = values /\ Len(queue') <= Len(queue)]_vars
  <2>1. TypeOK => Len(queue) \in Nat
    BY LenProperties DEF TypeOK, ClientTypeOK
  <2>2. UNCHANGED clientVars => UNCHANGED <<values, queue>>
    BY DEF clientVars, restVars, readVars
  <2>. QED
    BY <2>1, <2>2, QuietSteps DEF Next, ClientStep, CoolerStep
<1>. QED
  BY <1>1, TypeCorrect, ClientInvariant, PTL DEF Spec, NothingAfterClose

-----------------------------------------------------------------------------
(* AsyncSystem implements WritePromise *)

\* Where the mapped variables of the promise depend on nothing that changed.
LEMMA PromiseStutters ==
  ASSUME UNCHANGED <<reader, task, fut, outcome>>
  PROVE  UNCHANGED Promise!vars
  BY DEF Promise!vars, promisePhase, promiseStatus, promiseAnswer

\* The promise takes new writes exactly while _closed is false.
LEMMA AcceptsUntilClosed ==
  ASSUME TypeOK, ClientInv
  PROVE  Promise!Accepting <=> ~closed
  BY DEF TypeOK, ClientTypeOK, ClientInv, Promise!Accepting, promisePhase

\* A step that wakes drains or goes from drain() to wait_for() keeps a call where
\* it was for the promise.
LEMMA StillAsked ==
  ASSUME TypeOK, NEW W, WakeDrains(W), W \in {"resuming", "broken"},
         UNCHANGED <<reader, fut, outcome>>
  PROVE  UNCHANGED Promise!vars
<1>1. \A w \in Writers : promiseStatus'[w] = promiseStatus[w]
  BY DEF WakeDrains, promiseStatus, Asked, TypeOK, ClientTypeOK
<1>2. promiseStatus' = promiseStatus
  BY <1>1 DEF promiseStatus
<1>. QED
  BY <1>2 DEF Promise!vars, promisePhase, promiseAnswer

\* The answers of a chunk are an Answer of the promise.
LEMMA ChunkAnswers ==
  ASSUME TypeOK, ClientInv, ReadChunk
  PROVE  Promise!Answer
<1>. DEFINE S == {w \in Writers : fut'[w] # fut[w]}
            f == [w \in S |-> fut'[w]]
<1>1. promisePhase = "open" /\ UNCHANGED <<promisePhase, task, outcome>>
  BY DEF ReadChunk, promisePhase, writeVars
<1>2. \A w \in S : /\ w \in pending /\ fut[w] = "pending" /\ fut'[w] \in Verdicts
                   /\ task[w] \in InFlight
  BY ChunkSettles DEF ClientInv, PendingIffInFlight
<1>3. S \subseteq Promise!Unanswered({"asked", "leaving"})
  BY <1>2 DEF Promise!Unanswered, promiseStatus, promiseAnswer, InFlight, Asked, Verdicts
<1>4. f \in [S -> Promise!Verdicts]
  BY <1>2 DEF Promise!Verdicts, Verdicts
<1>5. promiseAnswer' = [w \in Writers |-> IF w \in S THEN f[w] ELSE promiseAnswer[w]]
  BY <1>2 DEF promiseAnswer
<1>6. UNCHANGED promiseStatus
  BY <1>1 DEF promiseStatus
<1>. QED
  BY <1>1, <1>3, <1>4, <1>5, <1>6 DEF Promise!Answer

\* The end of the reader is a Lose of the promise.
LEMMA ReaderEndLoses ==
  ASSUME TypeOK, ClientInv, reader \in {"reading", "cancelling"},
         NEW reason, FinishReader(reason)
  PROVE  Promise!Lose
<1>. DEFINE S == {w \in Writers : /\ task[w] \in {"expiring", "cancelling"}
                                  /\ w \in pending /\ fut[w] = "pending"}
<1>1. /\ promisePhase \in {"open", "ending"} /\ promisePhase' = "over"
      /\ UNCHANGED <<task, outcome>>
  BY DEF FinishReader, promisePhase, writeVars
<1>2. S \subseteq Promise!Unanswered({"leaving"})
  BY DEF Promise!Unanswered, promiseStatus, promiseAnswer, Asked, Verdicts
<1>3. \A w \in Writers : w \in Promise!Unanswered({"asked"}) <=>
                           task[w] \in Asked /\ fut[w] = "pending"
  BY DEF Promise!Unanswered, promiseStatus, promiseAnswer, Asked, Verdicts, ClientInv
<1>4. \A w \in Writers : (w \in pending /\ fut[w] = "pending") <=>
                           w \in S \cup Promise!Unanswered({"asked"})
  BY <1>3 DEF ClientInv, PendingIffInFlight, InFlight, Asked
<1>5. promiseAnswer' = [w \in Writers |-> IF w \in S \cup Promise!Unanswered({"asked"})
                                          THEN "lost" ELSE promiseAnswer[w]]
  <2>1. \A w \in Writers : fut'[w] = IF w \in S \cup Promise!Unanswered({"asked"})
                                     THEN "lost" ELSE fut[w]
    BY <1>4 DEF FinishReader
  <2>. HIDE DEF S
  <2>. QED
    BY <2>1 DEF promiseAnswer
<1>6. UNCHANGED promiseStatus
  BY <1>1 DEF promiseStatus
<1>. QED
  BY <1>1, <1>2, <1>5, <1>6 DEF Promise!Lose

\* The end of a call is an EndWith of the promise.
LEMMA ReturnEnds ==
  ASSUME TypeOK, NEW w \in Writers, NEW r, Return(w, r), UNCHANGED <<reader, fut>>
  PROVE  Promise!EndWith(w, r)
<1>1. promiseStatus' = [promiseStatus EXCEPT ![w] = "ended"]
  BY DEF Return, promiseStatus, TypeOK, ClientTypeOK
<1>. QED
  BY <1>1 DEF Promise!EndWith, Return, promisePhase, promiseAnswer

\* The first step of a call asks, or fails with an error of its own.
LEMMA SetKeepsPromise ==
  ASSUME TypeOK, ClientInv, NEW w \in Writers, Set(w)
  PROVE  Promise!Ask(w) \/ Promise!Fail(w)
<1>1. /\ task[w] = "idle" /\ fut[w] = "none" /\ UNCHANGED reader
      /\ Promise!Accepting <=> ~closed
  BY AcceptsUntilClosed DEF Set, ClientInv, restVars, readVars
<1>2. promiseStatus[w] = "idle" /\ UNCHANGED promisePhase
  BY <1>1 DEF promiseStatus, promisePhase
<1>3. \/ \E r \in {"NotWritable", "StateUnknown", "ValueError", "closed", "oserror"} :
            /\ Return(w, r) /\ UNCHANGED fut
            /\ r = "closed" => closed
            /\ r = "oserror" => ~closed
      \/ /\ ~closed /\ UNCHANGED outcome
         /\ fut' = [fut EXCEPT ![w] = "pending"]
         /\ \E p \in {"draining", "waiting"} : task' = [task EXCEPT ![w] = p]
  <2>1. PICK q \in Requests :
       LET error == RefusedBy(values, q.topic, q.value, q.compartment)
           raised == IF error # "none" THEN error
                     ELSE IF closed THEN "closed"
                     ELSE IF line = "reset" THEN "oserror" ELSE "none"
       IN  \/ raised # "none" /\ Return(w, raised) /\ UNCHANGED fut
           \/ /\ raised = "none" /\ UNCHANGED outcome
              /\ fut' = [fut EXCEPT ![w] = "pending"]
              /\ \E p \in {"draining", "waiting"} : task' = [task EXCEPT ![w] = p]
    BY Zenon DEF Set
  <2>2. RefusedBy(values, q.topic, q.value, q.compartment)
          \in {"none", "NotWritable", "StateUnknown", "ValueError"}
    BY DEF RefusedBy
  <2>. QED
    BY <2>1, <2>2
<1>4. ASSUME NEW r \in {"NotWritable", "StateUnknown", "ValueError", "closed", "oserror"},
             Return(w, r), UNCHANGED fut, r = "closed" => closed, r = "oserror" => ~closed
      PROVE  Promise!Fail(w)
  BY <1>1, <1>2, <1>4, ReturnEnds DEF Promise!Fail, Promise!LocalErrors
<1>5. ASSUME ~closed, UNCHANGED outcome, fut' = [fut EXCEPT ![w] = "pending"],
             NEW p \in {"draining", "waiting"}, task' = [task EXCEPT ![w] = p]
      PROVE  Promise!Ask(w)
  <2>1. promiseStatus' = [promiseStatus EXCEPT ![w] = "asked"]
    BY <1>5 DEF promiseStatus, Asked, TypeOK, ClientTypeOK
  <2>2. promiseAnswer' = promiseAnswer
    BY <1>1, <1>5 DEF promiseAnswer, Verdicts, TypeOK, ClientTypeOK
  <2>. QED
    BY <1>1, <1>2, <1>5, <2>1, <2>2 DEF Promise!Ask
<1>. QED
  BY <1>3, <1>4, <1>5

\* The last step of a call ends it with its answer, or gives up.
LEMMA SetReturnsKeepsPromise ==
  ASSUME TypeOK, ClientInv, NEW w \in Writers, SetReturns(w)
  PROVE  Promise!End(w)
<1>1. UNCHANGED <<reader, fut>>
  BY DEF SetReturns, restVars, readVars
<1>2. CASE task[w] = "broken" /\ Return(w, "oserror")
  <2>1. promiseStatus[w] = "asked"
    BY <1>2 DEF promiseStatus, Asked
  <2>. QED
    BY <1>1, <1>2, <2>1, ReturnEnds DEF Promise!End
<1>3. CASE task[w] \in {"resuming", "waiting"} /\ fut[w] # "pending" /\ Return(w, fut[w])
  <2>1. promiseStatus[w] = "asked"
    BY <1>3 DEF promiseStatus, Asked
  <2>2. fut[w] \in Verdicts \cup {"lost"}
    BY <1>3 DEF ClientInv, Asked
  <2>3. promiseAnswer[w] = fut[w] /\ promiseAnswer[w] # "none"
    BY <2>2 DEF promiseAnswer, Verdicts
  <2>. QED
    BY <1>1, <1>3, <2>1, <2>3, ReturnEnds DEF Promise!End
<1>4. ASSUME task[w] \in {"expiring", "cancelling"},
             NEW r \in {"timeout", "cancelled"}, Return(w, r)
      PROVE  Promise!End(w)
  <2>1. promiseStatus[w] = "leaving"
    BY <1>4 DEF promiseStatus, Asked
  <2>. QED
    BY <1>1, <1>4, <2>1, ReturnEnds DEF Promise!End
<1>. QED
  BY <1>2, <1>3, <1>4 DEF SetReturns

\* The timer and the cancellation by the caller are a Leave, or nothing new.
LEMMA CancelKeepsPromise ==
  ASSUME TypeOK, NEW w \in Writers, NEW to \in {"expiring", "cancelling"},
         task[w] \in InFlight, CancelWait(w, to)
  PROVE  Promise!Leave(w) \/ UNCHANGED Promise!vars
<1>1. UNCHANGED <<promisePhase, outcome>>
  BY DEF CancelWait, promisePhase, restVars, readVars
<1>2. UNCHANGED promiseAnswer
  BY DEF CancelWait, promiseAnswer, Verdicts, TypeOK, ClientTypeOK
<1>3. promiseStatus' = [promiseStatus EXCEPT ![w] = "leaving"]
  BY DEF CancelWait, promiseStatus, Asked, TypeOK, ClientTypeOK
<1>4. promiseStatus[w] \in {"asked", "leaving"}
  BY DEF promiseStatus, InFlight, Asked
<1>5. CASE promiseStatus[w] = "asked"
  BY <1>1, <1>2, <1>3, <1>5 DEF Promise!Leave
<1>6. CASE promiseStatus[w] = "leaving"
  <2>1. promiseStatus' = promiseStatus
    BY <1>3, <1>6 DEF promiseStatus
  <2>. QED
    BY <1>1, <1>2, <2>1 DEF Promise!vars
<1>. QED
  BY <1>4, <1>5, <1>6

\* Every step of the system is a step of the promise or stutters.
LEMMA PromiseStep ==
  ASSUME TypeOK, ClientInv, ClientNext
  PROVE  Promise!Next \/ UNCHANGED Promise!vars
<1>. USE DEF writeVars, readVars, restVars
<1>1. CASE ReadChunk
  BY <1>1, ChunkAnswers DEF Promise!Next
<1>2. CASE ReadEof \/ ReadError \/ ReaderCancelled
  BY <1>2, ReaderEndLoses DEF ReadEof, ReadError, ReaderCancelled, Promise!Next
<1>3. ASSUME NEW w \in Writers, Set(w)
      PROVE  Promise!Next
  BY <1>3, SetKeepsPromise DEF Promise!Next
<1>4. ASSUME NEW w \in Writers, SetReturns(w)
      PROVE  Promise!Next
  BY <1>4, SetReturnsKeepsPromise DEF Promise!Next
<1>5. ASSUME NEW w \in Writers, TimerFires(w) \/ Cancel(w)
      PROVE  Promise!Next \/ UNCHANGED Promise!vars
  <2>1. PICK to \in {"expiring", "cancelling"} : CancelWait(w, to)
    BY <1>5 DEF TimerFires, Cancel
  <2>2. task[w] \in InFlight
    BY <1>5 DEF TimerFires, Cancel, InFlight
  <2>. QED
    BY <2>1, <2>2, CancelKeepsPromise DEF Promise!Next
<1>6. ASSUME NEW w \in Writers, SetDrained(w)
      PROVE  UNCHANGED Promise!vars
  <2>1. promiseStatus' = promiseStatus
    BY <1>6 DEF SetDrained, promiseStatus, Asked, TypeOK, ClientTypeOK
  <2>. QED
    BY <1>6, <2>1 DEF SetDrained, Promise!vars, promisePhase, promiseAnswer
<1>7. ASSUME NEW c \in Closers, CloseStart(c)
      PROVE  Promise!Next
  <2>1. reader \in {"new", "reading"} /\ UNCHANGED <<task, fut, outcome>>
    BY <1>7 DEF CloseStart, TypeOK, ClientTypeOK, ClientInv
  <2>2. UNCHANGED <<promiseStatus, promiseAnswer>>
    BY <2>1 DEF promiseStatus, promiseAnswer
  <2>3. CASE reader = "new"
    BY <1>7, <2>1, <2>2, <2>3 DEF CloseStart, promisePhase, Promise!Drop, Promise!Next
  <2>4. CASE reader = "reading"
    BY <1>7, <2>1, <2>2, <2>4 DEF CloseStart, promisePhase, Promise!Stop, Promise!Next
  <2>. QED
    BY <2>1, <2>3, <2>4
<1>8. CASE ResumeWriting \/ ConnectionLost \/ \E c \in Closers : CloseJoined(c)
  BY <1>8, StillAsked DEF ResumeWriting, ConnectionLost, CloseJoined
<1>9. CASE UNCHANGED <<reader, task, fut, outcome>>
  BY <1>9, PromiseStutters
<1>10. CASE ReaderStart
  <2>1. UNCHANGED <<promiseStatus, promiseAnswer, outcome>>
    BY <1>10 DEF ReaderStart, promiseStatus, promiseAnswer
  <2>. QED
    BY <1>10, <2>1 DEF ReaderStart, promisePhase, Promise!Listen, Promise!Next
<1>11. CASE Connect \/ ReaderDropped
  <2>1. UNCHANGED <<promisePhase, promiseStatus, promiseAnswer, outcome>>
    BY <1>11 DEF Connect, ReaderDropped, promisePhase, promiseStatus, promiseAnswer
  <2>. QED
    BY <2>1 DEF Promise!vars
<1>. QED
  BY <1>1, <1>2, <1>3, <1>4, <1>5, <1>6, <1>7, <1>8, <1>9, <1>10, <1>11
     DEF ClientNext, ReaderStep, SetStep, CloseStep, PauseWriting, CloseSkipped,
         CloseFinish, Deliver

\* set() keeps its promise with every number of callers: AsyncSystem implements
\* WritePromise.
THEOREM ImplementsPromise == Spec => PromiseKept
<1>1. Init => Promise!Init
  BY DEF Init, ClientInit, Promise!Init, promisePhase, promiseStatus, promiseAnswer, Verdicts
<1>2. TypeOK /\ ClientInv /\ [Next]_vars => [Promise!Next]_(Promise!vars)
  <2>1. UNCHANGED clientVars => UNCHANGED <<reader, task, fut, outcome>>
    BY DEF clientVars, restVars, readVars, writeVars
  <2>. QED
    BY <2>1, PromiseStep, PromiseStutters DEF Next, ClientStep, CoolerStep, vars
<1>. QED
  BY <1>1, <1>2, TypeCorrect, ClientInvariant, PTL DEF Spec, PromiseKept, Promise!Spec

-----------------------------------------------------------------------------
(* The stream of events *)

Agree == \A t \in Topics : values[t] = Latest(queue, t, delivered[t])

\* StreamAgreesWithState in terms of Latest.
LEMMA AgreeByLatest ==
  /\ StreamAgreesWithState <=> Agree
  /\ StreamAgreesWithState' <=> \A t \in Topics : values'[t] = Latest(queue', t, delivered'[t])
  BY DEF StreamAgreesWithState, Agree, Latest, Held, Last

\* session.feed() of a chunk does to a value what the events of the chunk say.
LEMMA FeedIsLatest ==
  ASSUME TypeOK, NEW chunk \in Seq(ToClient), NEW t \in Topics
  PROVE  Feed(chunk)[t] = Latest([i \in DOMAIN chunk |-> EventOf(chunk[i])], t, values[t])
<1>. DEFINE es == [i \in DOMAIN chunk |-> EventOf(chunk[i])]
<1>1. Publishes(chunk, t) = Held(es, t)
  BY DEF Publishes, Held, EventOf
<1>2. CASE Held(es, t) = {}
  BY <1>1, <1>2 DEF Feed, Latest
<1>3. CASE Held(es, t) # {}
  <2>1. Len(chunk) \in Nat /\ Publishes(chunk, t) \subseteq 1 .. Len(chunk)
    BY LenProperties DEF Publishes
  <2>2. Last(Publishes(chunk, t)) \in Publishes(chunk, t)
    BY <1>1, <1>3, <2>1, FirstAndLast
  <2>3. Latest(es, t, values[t]) = es[Last(Publishes(chunk, t))].value
    BY <1>1, <1>3 DEF Latest, Last
  <2>4. es[Last(Publishes(chunk, t))].value = Decode(t, chunk[Last(Publishes(chunk, t))].words)
    BY <2>2 DEF Publishes, EventOf
  <2>. QED
    BY <1>1, <1>3, <2>3, <2>4 DEF Feed
<1>. QED
  BY <1>2, <1>3

\* A None in the queue is no publish.
LEMMA EndIsNoPublish ==
  ASSUME TypeOK, NEW t, NEW d
  PROVE  Latest(Append(queue, End), t, d) = Latest(queue, t, d)
<1>1. queue \in Seq(Event) /\ End \in Event /\ End.kind # "PUBLISH"
  BY EndType DEF TypeOK, ClientTypeOK, End
<1>. QED
  BY <1>1, LatestAppend

\* Every action of the client keeps the stream in step with the state.
LEMMA StepAgree ==
  ASSUME TypeOK, Agree, ClientNext
  PROVE  StreamAgreesWithState'
<1>. USE DEF Agree
<1>0. /\ values \in [Topics -> Seq(Int)] /\ delivered \in [Topics -> Seq(Int)]
      /\ queue \in Seq(Event)
  BY DEF TypeOK, ClientTypeOK
<1>1. SUFFICES \A t \in Topics : values'[t] = Latest(queue', t, delivered'[t])
  BY AgreeByLatest
<1>2. CASE ReadChunk
  <2>1. PICK n \in 1 .. Len(toClient) :
          LET chunk == SubSeq(toClient, 1, n) IN
            /\ values' = Feed(chunk)
            /\ queue' = queue \o [i \in DOMAIN chunk |-> EventOf(chunk[i])]
    BY <1>2 DEF ReadChunk
  <2>. DEFINE chunk == SubSeq(toClient, 1, n)
              es == [i \in DOMAIN chunk |-> EventOf(chunk[i])]
  <2>2. chunk \in Seq(ToClient)
    BY SplitSeq DEF TypeOK, CoolerTypeOK
  <2>3. es \in Seq(Event)
    BY <2>2, ChunkTypes
  <2>4. UNCHANGED delivered
    BY <1>2 DEF ReadChunk, eventVars
  <2>5. values' = Feed(chunk) /\ queue' = queue \o es
    BY <2>1
  <2>. HIDE DEF chunk
  <2>6. \A t \in Topics : Feed(chunk)[t] = Latest(es, t, values[t])
    BY <2>2, FeedIsLatest
  <2>. HIDE DEF es
  <2>7. ASSUME NEW t \in Topics
        PROVE  Latest(queue \o es, t, delivered[t]) = Latest(es, t, Latest(queue, t, delivered[t]))
    BY <1>0, <2>3, LatestConcat
  <2>. QED
    BY <2>4, <2>5, <2>6, <2>7
<1>3. CASE ReadEof \/ ReadError \/ ReaderCancelled \/ (\E c \in Closers : CloseFinish(c))
  <2>1. UNCHANGED <<values, delivered>> /\ queue' = Append(queue, End)
    BY <1>3 DEF ReadEof, ReadError, ReaderCancelled, FinishReader, CloseFinish, readVars, eventVars
  <2>. QED
    BY <2>1, EndIsNoPublish
<1>4. ASSUME NEW i \in Consumers, Deliver(i)
      PROVE  \A t \in Topics : values'[t] = Latest(queue', t, delivered'[t])
  <2>. DEFINE e == Head(queue)
  <2>1. /\ UNCHANGED values /\ queue # <<>> /\ queue' = Tail(queue)
        /\ delivered' = IF e.kind = "PUBLISH"
                        THEN [delivered EXCEPT ![e.topic] = e.value] ELSE delivered
    BY <1>4 DEF Deliver, readVars
  <2>2. e \in Event
    BY <1>0, <2>1, HeadTailProperties
  <2>3. ASSUME NEW t \in Topics
        PROVE  Latest(queue, t, delivered[t]) = Latest(Tail(queue), t, delivered'[t])
    <3>1. delivered'[t] = IF e.kind = "PUBLISH" /\ e.topic = t THEN e.value ELSE delivered[t]
      BY <1>0, <2>1
    <3>. QED
      BY <1>0, <2>1, <3>1, LatestTail
  <2>. QED
    BY <2>1, <2>3
<1>5. CASE UNCHANGED <<values, queue, delivered>>
  BY <1>5
<1>6. Connect \/ ReaderStart \/ ReaderDropped \/ PauseWriting \/ ResumeWriting \/ ConnectionLost
        => UNCHANGED <<values, queue, delivered>>
  BY DEF Connect, ReaderStart, ReaderDropped, PauseWriting, ResumeWriting, ConnectionLost,
     readVars, eventVars
<1>7. \A w \in Writers : Set(w) \/ SetStep(w) \/ Cancel(w) => UNCHANGED <<values, queue, delivered>>
  BY DEF Set, SetStep, SetDrained, SetReturns, TimerFires, Cancel, CancelWait, restVars, readVars,
     eventVars
<1>8. \A c \in Closers : CloseStart(c) \/ CloseSkipped(c) \/ CloseJoined(c)
                           => UNCHANGED <<values, queue, delivered>>
  BY DEF CloseStart, CloseSkipped, CloseJoined, readVars, eventVars
<1>. QED
  BY <1>2, <1>3, <1>4, <1>5, <1>6, <1>7, <1>8 DEF ClientNext, ReaderStep, CloseStep

\* Folding the events that were yielded and those still queued gives the state
\* that session.state() reports, however the chunks were cut and whoever closed.
THEOREM StreamIsState == Spec => []StreamAgreesWithState
<1>1. Init => StreamAgreesWithState
  <2>1. \A t : Held(<<>>, t) = {}
    BY EmptySeq, LenProperties DEF Held
  <2>2. Init => Agree
    BY <2>1 DEF Init, ClientInit, Agree, Latest
  <2>. QED
    BY <2>2, AgreeByLatest
<1>2. TypeOK /\ StreamAgreesWithState /\ [Next]_vars => StreamAgreesWithState'
  <2>1. TypeOK /\ StreamAgreesWithState /\ ClientStep => StreamAgreesWithState'
    BY StepAgree, AgreeByLatest DEF ClientStep
  <2>2. StreamAgreesWithState /\ UNCHANGED clientVars => StreamAgreesWithState'
    <3>1. UNCHANGED clientVars => UNCHANGED <<values, queue, delivered>>
      BY DEF clientVars, restVars, readVars, eventVars
    <3>. QED
      BY <3>1, AgreeByLatest DEF Agree
  <2>. QED
    BY <2>1, <2>2 DEF Next, CoolerStep, vars
<1>. QED
  BY <1>1, <1>2, TypeCorrect, PTL DEF Spec

-----------------------------------------------------------------------------
(* Refusals *)

\* Some write to topic t was refused.  Its call has begun, so its expectation
\* changes no more.
Refused(t) ==
  \E v \in Writers : fate[v] = "refused" /\ expectation[v].topic = t /\ task[v] # "idle"

\* A SET on its way to the cooler is the one SET of a call that has begun, is
\* about the topic that call asks for, and has no fate yet.
SetsTraced ==
  \A k \in DOMAIN toCooler : toCooler[k].action = "SET" =>
    LET w == toCooler[k].by IN
      /\ w \in Writers /\ task[w] # "idle" /\ fate[w] = "none"
      /\ expectation[w].topic = toCooler[k].topic
      /\ \A j \in DOMAIN toCooler : toCooler[j].action = "SET" /\ toCooler[j].by = w => j = k

\* A SET the cooler is applying was accepted, so it is not refused any more.
ApplyingTraced ==
  \A k \in DOMAIN applying :
    LET w == applying[k].by IN
      /\ w \in Writers /\ fate[w] = "accepted"
      /\ \A j \in DOMAIN applying : applying[j].by = w => j = k

\* Every NAK on its way to the client, and every verdict it has led to, comes from
\* a refusal; a call that has not begun has no fate.
RefusalsTraced ==
  /\ \A k \in DOMAIN toClient : toClient[k].action = "NAK" => Refused(toClient[k].topic)
  /\ \A w \in Writers : fut[w] = "rejected" => Refused(expectation[w].topic)
  /\ \A w \in Writers : task[w] = "idle" => fate[w] = "none" /\ fut[w] = "none"

AnswerInv == SetsTraced /\ ApplyingTraced /\ RefusalsTraced

\* The same of the next state, for a topic of this one.
RefusedNext(t) ==
  \E v \in Writers : fate'[v] = "refused" /\ expectation'[v].topic = t /\ task'[v] # "idle"

\* Refusals are for good while fates and expectations that count do not change.
LEMMA RefusedStays ==
  ASSUME \A v \in Writers : /\ fate[v] = "refused" => fate'[v] = "refused"
                            /\ task[v] # "idle" => /\ task'[v] # "idle"
                                                   /\ expectation'[v].topic = expectation[v].topic
  PROVE  \A t : Refused(t) => RefusedNext(t)
  BY DEF Refused, RefusedNext

\* RefusalsTraced of the next state, spelt out.
LEMMA NextTraced ==
  ASSUME \A k \in DOMAIN toClient' : toClient'[k].action = "NAK" => RefusedNext(toClient'[k].topic),
         \A w \in Writers : fut'[w] = "rejected" => RefusedNext(expectation'[w].topic),
         \A w \in Writers : task'[w] = "idle" => fate'[w] = "none" /\ fut'[w] = "none"
  PROVE  RefusalsTraced'
  BY DEF RefusalsTraced, Refused, RefusedNext

\* A call that has begun does not begin again, and keeps its expectation.
LEMMA CallsGoOn ==
  ASSUME TypeOK, ClientNext, NEW v \in Writers, task[v] # "idle"
  PROVE  task'[v] # "idle" /\ expectation'[v] = expectation[v]
<1>1. /\ task \in [Writers -> InFlight \cup {"idle", "done"}]
      /\ DOMAIN expectation = Writers
  BY DEF TypeOK, ClientTypeOK
<1>2. CASE \E w \in Writers : Set(w)
  <2>1. PICK w \in Writers : Set(w)
    BY <1>2
  <2>2. task[w] = "idle"
    BY <2>1 DEF Set
  <2>3. \/ \E o : Return(w, o)
        \/ \E x, to : expectation' = [expectation EXCEPT ![w] = x] /\ task' = [task EXCEPT ![w] = to]
    BY <2>1, Zenon DEF Set
  <2>. QED
    BY <1>1, <2>2, <2>3 DEF Return
<1>3. CASE \E w \in Writers : SetStep(w) \/ Cancel(w)
  BY <1>1, <1>3 DEF SetStep, SetDrained, SetReturns, Return, TimerFires, Cancel, CancelWait
<1>4. CASE ResumeWriting \/ ConnectionLost \/ (\E c \in Closers : CloseJoined(c))
  BY <1>4 DEF ResumeWriting, ConnectionLost, CloseJoined, WakeDrains
<1>5. CASE \/ Connect \/ ReaderStep \/ PauseWriting
           \/ \E c \in Closers : CloseStart(c) \/ CloseSkipped(c) \/ CloseFinish(c)
           \/ \E i \in Consumers : Deliver(i)
  <2>1. UNCHANGED <<task, expectation>>
    BY <1>5 DEF Connect, ReaderStep, ReaderStart, ReadChunk, ReadEof, ReadError, ReaderCancelled,
       FinishReader, ReaderDropped, PauseWriting, CloseStart, CloseSkipped, CloseFinish, Deliver,
       writeVars
  <2>. QED
    BY <2>1
<1>. QED
  BY <1>2, <1>3, <1>4, <1>5 DEF ClientNext, CloseStep

\* What a step may do to a future.
LEMMA FutureMoves ==
  ASSUME TypeOK, ClientNext, NEW v \in Writers
  PROVE  \/ fut'[v] = fut[v]
         \/ fut[v] = "pending" /\ (ReadChunk \/ fut'[v] # "rejected")
         \/ fut'[v] = "pending" /\ task'[v] # "idle"
<1>1. /\ fut \in [Writers -> {"none", "pending", "lost", "cancelled"} \cup Verdicts]
      /\ task \in [Writers -> InFlight \cup {"idle", "done"}]
  BY DEF TypeOK, ClientTypeOK
<1>2. CASE ReadChunk
  <2>1. PICK n \in 1 .. Len(toClient) : fut' = Resolve(SubSeq(toClient, 1, n))
    BY <1>2 DEF ReadChunk
  <2>2. SubSeq(toClient, 1, n) \in Seq(ToClient)
    BY SplitSeq DEF TypeOK, CoolerTypeOK
  <2>. QED
    BY <1>2, <2>1, <2>2, ResolveSettles
<1>3. CASE ReadEof \/ ReadError \/ ReaderCancelled
  BY <1>3 DEF ReadEof, ReadError, ReaderCancelled, FinishReader
<1>4. CASE \E w \in Writers : Set(w)
  <2>1. PICK w \in Writers : Set(w)
    BY <1>4
  <2>2. \/ fut' = fut
        \/ /\ fut' = [fut EXCEPT ![w] = "pending"]
           /\ \E p \in {"draining", "waiting"} : task' = [task EXCEPT ![w] = p]
    BY <2>1, Zenon DEF Set
  <2>. QED
    BY <1>1, <2>2
<1>5. CASE \E w \in Writers : TimerFires(w) \/ Cancel(w)
  BY <1>1, <1>5 DEF TimerFires, Cancel, CancelWait
<1>6. CASE UNCHANGED fut
  BY <1>6
<1>. QED
  BY <1>2, <1>3, <1>4, <1>5, <1>6
     DEF ClientNext, ReaderStep, SetStep, CloseStep, Connect, ReaderStart, ReaderDropped,
         SetDrained, SetReturns, PauseWriting, ResumeWriting, ConnectionLost, CloseStart,
         CloseSkipped, CloseJoined, CloseFinish, Deliver

\* A chunk settles a future as rejected for a NAK in it that is about its topic.
LEMMA RejectedByNak ==
  ASSUME TypeOK, ReadChunk, NEW w \in Writers, fut'[w] = "rejected", fut[w] # "rejected"
  PROVE  \E k \in DOMAIN toClient : /\ toClient[k].action = "NAK"
                                    /\ toClient[k].topic = expectation[w].topic
<1>1. PICK n \in 1 .. Len(toClient) : fut' = Resolve(SubSeq(toClient, 1, n))
  BY DEF ReadChunk
<1>. DEFINE chunk == SubSeq(toClient, 1, n)
            S == Decisive(w, chunk)
<1>2. /\ Len(toClient) \in Nat /\ DOMAIN toClient = 1 .. Len(toClient)
      /\ chunk \in Seq(ToClient) /\ DOMAIN chunk = 1 .. n
      /\ \A k \in 1 .. n : chunk[k] = toClient[k]
  BY LenProperties, SubSeqProperties, SplitSeq DEF TypeOK, CoolerTypeOK
<1>. HIDE DEF chunk
<1>3. S # {} /\ Verdict(w, chunk[First(S)]) = "rejected"
  BY <1>1 DEF Resolve, chunk
<1>4. First(S) \in S /\ S \subseteq 1 .. n
  <2>1. S \subseteq 1 .. n /\ n \in Nat
    BY <1>2 DEF Decisive
  <2>. QED
    BY <1>3, <2>1, FirstAndLast
<1>5. chunk[First(S)].action = "NAK" /\ chunk[First(S)].topic = expectation[w].topic
  BY <1>3 DEF Verdict, Matches
<1>. QED
  BY <1>2, <1>4, <1>5

\* Every step of the client leaves the frames from the cooler as they were.
LEMMA ClientOnlyReads ==
  ASSUME TypeOK, ClientNext
  PROVE  \A k \in DOMAIN toClient' : \E j \in DOMAIN toClient : toClient'[k] = toClient[j]
<1>1. toClient' = toClient \/ toClient' = <<>> \/ ReadChunk
  BY DEF ClientNext, ReaderStep, SetStep, CloseStep, Connect, Write, ReaderStart, ReaderDropped,
     ReadEof, ReadError, ReaderCancelled, FinishReader, Set, SetDrained, SetReturns, TimerFires,
     Cancel, CancelWait, PauseWriting, ResumeWriting, ConnectionLost, CloseStart, CloseSkipped,
     CloseJoined, CloseFinish, Deliver, wireVars
<1>2. CASE ReadChunk
  <2>1. PICK n \in 1 .. Len(toClient) : toClient' = SubSeq(toClient, n + 1, Len(toClient))
    BY <1>2 DEF ReadChunk
  <2>2. Len(toClient) \in Nat /\ DOMAIN toClient = 1 .. Len(toClient)
    BY LenProperties DEF TypeOK, CoolerTypeOK
  <2>3. /\ DOMAIN toClient' = 1 .. Len(toClient) - n
        /\ \A k \in 1 .. Len(toClient) - n : toClient'[k] = toClient[n + k]
    BY <2>1, <2>2, SubSeqProperties, LenProperties DEF TypeOK, CoolerTypeOK
  <2>4. \A k \in 1 .. Len(toClient) - n : n + k \in DOMAIN toClient
    BY <2>2
  <2>. QED
    BY <2>3, <2>4
<1>. QED
  BY <1>1, <1>2, EmptySeq, LenProperties

\* What a step of the client writes: nothing, subscriptions, or the one SET of a
\* call that begins.
LEMMA ClientWrites ==
  ASSUME TypeOK, ClientNext
  PROVE  \/ toCooler' = toCooler \/ toCooler' = <<>>
         \/ \E frames \in Seq(ToCooler) :
              /\ toCooler' = toCooler \o frames
              /\ \A i \in DOMAIN frames : frames[i].action = "SUBSCRIBE"
         \/ \E w \in Writers : \E frame \in ToCooler :
              /\ toCooler' = toCooler \o <<frame>>
              /\ frame.action = "SET" /\ frame.by = w /\ task[w] = "idle" /\ task'[w] # "idle"
              /\ expectation'[w].topic = frame.topic
<1>1. CASE Connect
  <2>1. PICK subscribe \in BOOLEAN :
          Write(IF subscribe THEN [i \in DOMAIN Subscribed |-> SubscribeFrame(Subscribed[i])]
                             ELSE <<>>)
    BY <1>1 DEF Connect
  <2>. DEFINE frames == [i \in DOMAIN Subscribed |-> SubscribeFrame(Subscribed[i])]
  <2>2. /\ Len(Subscribed) \in Nat /\ DOMAIN Subscribed = 1 .. Len(Subscribed)
        /\ \A i \in DOMAIN Subscribed : Subscribed[i] \in Topics
    BY LenProperties
  <2>3. \A i \in DOMAIN Subscribed : SubscribeFrame(Subscribed[i]) \in ToCooler
    BY <2>2, EmptySeq DEF SubscribeFrame, ToCooler
  <2>4. /\ frames \in Seq(ToCooler) /\ DOMAIN frames = DOMAIN Subscribed
        /\ \A i \in DOMAIN frames : frames[i].action = "SUBSCRIBE"
    BY <2>2, <2>3, FunctionIsSeq DEF SubscribeFrame
  <2>5. <<>> \in Seq(ToCooler) /\ DOMAIN <<>> = {}
    BY EmptySeq
  <2>6. toCooler' = toCooler \/ toCooler' = toCooler \o frames \/ toCooler' = toCooler \o <<>>
    BY <2>1 DEF Write
  <2>. HIDE DEF frames
  <2>. QED
    BY <2>4, <2>5, <2>6
<1>2. ASSUME NEW w \in Writers, Set(w)
      PROVE  \/ toCooler' = toCooler
             \/ \E frame \in ToCooler :
                  /\ toCooler' = toCooler \o <<frame>>
                  /\ frame.action = "SET" /\ frame.by = w /\ task[w] = "idle" /\ task'[w] # "idle"
                  /\ expectation'[w].topic = frame.topic
  <2>1. PICK r \in Requests :
          LET error == RefusedBy(values, r.topic, r.value, r.compartment)
              raised == IF error # "none" THEN error
                        ELSE IF closed THEN "closed"
                        ELSE IF line = "reset" THEN "oserror" ELSE "none"
          IN  \/ UNCHANGED wireVars
              \/ /\ raised = "none"
                 /\ expectation' = [expectation EXCEPT ![w] =
                      [topic |-> r.topic, compartment |-> r.compartment,
                       value |-> Expected(values, r.topic, r.value, r.compartment)]]
                 /\ Write(<<[action |-> "SET", topic |-> r.topic, by |-> w,
                             words |-> Encode(r.topic, NewValue(values, r.topic,
                                                         r.value, r.compartment))]>>)
                 /\ task' = [task EXCEPT ![w] = IF paused THEN "draining" ELSE "waiting"]
    BY <1>2, Zenon DEF Set
  <2>. DEFINE new == NewValue(values, r.topic, r.value, r.compartment)
              frame == [action |-> "SET", topic |-> r.topic, by |-> w, words |-> Encode(r.topic, new)]
  <2>2. /\ r.topic \in Topics /\ r.value \in Int /\ r.compartment \in Nat
        /\ values \in [Topics -> Seq(Int)]
        /\ DOMAIN task = Writers /\ DOMAIN expectation = Writers
        /\ task[w] = "idle"
    BY <1>2 DEF Set, TypeOK, ClientTypeOK
  <2>3. CASE UNCHANGED wireVars
    BY <2>3 DEF wireVars
  <2>4. CASE ~(UNCHANGED wireVars)
    <3>1. RefusedBy(values, r.topic, r.value, r.compartment) = "none"
      BY <2>1, <2>4
    <3>2. frame \in ToCooler
      BY <2>2, <3>1, NewValueType, EncodeType DEF ToCooler
    <3>3. Write(<<frame>>) /\ task'[w] # "idle" /\ expectation'[w].topic = r.topic
      BY <2>1, <2>2, <2>4
    <3>4. frame.action = "SET" /\ frame.by = w /\ frame.topic = r.topic
      OBVIOUS
    <3>. HIDE DEF frame
    <3>. QED
      BY <2>2, <3>2, <3>3, <3>4 DEF Write
  <2>. QED
    BY <2>3, <2>4
<1>3. CASE ~Connect /\ ~(\E w \in Writers : Set(w))
  <2>1. toCooler' = toCooler \/ toCooler' = <<>>
    BY <1>3 DEF ClientNext, ReaderStep, SetStep, CloseStep, ReaderStart, ReadChunk, ReaderDropped,
       ReadEof, ReadError, ReaderCancelled, FinishReader, SetDrained, SetReturns, TimerFires,
       Cancel, CancelWait, PauseWriting, ResumeWriting, ConnectionLost, CloseStart, CloseSkipped,
       CloseJoined, CloseFinish, Deliver, wireVars
  <2>. QED
    BY <2>1
<1>. QED
  BY <1>1, <1>2, <1>3

\* Every step of the client keeps the SETs on their way traced.
LEMMA ClientTracesSets ==
  ASSUME TypeOK, SetsTraced, ApplyingTraced, RefusalsTraced, ClientNext, UNCHANGED coolerVars
  PROVE  SetsTraced' /\ ApplyingTraced'
<1>1. UNCHANGED <<fate, applying>>
  BY DEF coolerVars
<1>2. \A v \in Writers : task[v] # "idle" => task'[v] # "idle" /\ expectation'[v] = expectation[v]
  BY CallsGoOn
<1>3. ApplyingTraced'
  BY <1>1 DEF ApplyingTraced
<1>4. toCooler \in Seq(ToCooler) /\ Len(toCooler) \in Nat /\ DOMAIN toCooler = 1 .. Len(toCooler)
  BY LenProperties DEF TypeOK, CoolerTypeOK
<1>5. ASSUME \A k \in DOMAIN toCooler' : toCooler'[k].action = "SET" =>
               k \in DOMAIN toCooler /\ toCooler'[k] = toCooler[k]
      PROVE  SetsTraced'
  BY <1>1, <1>2, <1>5 DEF SetsTraced
<1>6. CASE toCooler' = toCooler \/ toCooler' = <<>>
  <2>1. DOMAIN <<>> = {}
    BY EmptySeq, LenProperties
  <2>2. \A k \in DOMAIN toCooler' : toCooler'[k].action = "SET" =>
          k \in DOMAIN toCooler /\ toCooler'[k] = toCooler[k]
    <3>1. CASE toCooler' = toCooler
      BY <3>1
    <3>2. CASE toCooler' = <<>>
      BY <2>1, <3>2
    <3>. QED
      BY <1>6, <3>1, <3>2
  <2>. QED
    BY <1>3, <1>5, <2>2
<1>7. ASSUME NEW frames \in Seq(ToCooler), toCooler' = toCooler \o frames,
             \A i \in DOMAIN frames : frames[i].action = "SUBSCRIBE"
      PROVE  SetsTraced'
  <2>1. \A k \in DOMAIN toCooler' : toCooler'[k].action = "SET" =>
          k \in DOMAIN toCooler /\ toCooler'[k] = toCooler[k]
    BY <1>4, <1>7, ConcatElements
  <2>. QED
    BY <1>5, <2>1
<1>8. ASSUME NEW w \in Writers, NEW frame \in ToCooler, toCooler' = toCooler \o <<frame>>,
             frame.action = "SET", frame.by = w, task[w] = "idle", task'[w] # "idle",
             expectation'[w].topic = frame.topic
      PROVE  SetsTraced'
  <2>. DEFINE n == Len(toCooler)
  <2>1. /\ DOMAIN toCooler' = 1 .. n + 1
        /\ \A k \in 1 .. n : toCooler'[k] = toCooler[k]
        /\ toCooler'[n + 1] = frame
    <3>1. toCooler' = Append(toCooler, frame)
      BY <1>4, <1>8, AppendIsConcat
    <3>. QED
      BY <1>4, <3>1, AppendProperties, LenProperties
  <2>2. \A k \in 1 .. n : toCooler[k].action = "SET" => toCooler[k].by # w
    BY <1>4, <1>8 DEF SetsTraced
  <2>3. fate'[w] = "none"
    BY <1>1, <1>8 DEF RefusalsTraced
  <2>4. ASSUME NEW k \in 1 .. n + 1, toCooler'[k].action = "SET"
        PROVE  LET v == toCooler'[k].by IN
                 /\ v \in Writers /\ task'[v] # "idle" /\ fate'[v] = "none"
                 /\ expectation'[v].topic = toCooler'[k].topic
                 /\ \A j \in 1 .. n + 1 : toCooler'[j].action = "SET" /\ toCooler'[j].by = v => j = k
    <3>1. CASE k = n + 1
      BY <1>4, <1>8, <2>1, <2>2, <2>3, <3>1
    <3>2. CASE k \in 1 .. n
      <4>1. /\ toCooler'[k] = toCooler[k] /\ toCooler[k].action = "SET" /\ toCooler[k].by # w
        BY <2>1, <2>2, <2>4, <3>2
      <4>2. LET v == toCooler[k].by IN
              /\ v \in Writers /\ task[v] # "idle" /\ fate[v] = "none"
              /\ expectation[v].topic = toCooler[k].topic
              /\ \A j \in 1 .. n : toCooler[j].action = "SET" /\ toCooler[j].by = v => j = k
        BY <1>4, <3>2, <4>1 DEF SetsTraced
      <4>. QED
        BY <1>1, <1>2, <1>4, <1>8, <2>1, <4>1, <4>2
    <3>. QED
      BY <1>4, <3>1, <3>2
  <2>. QED
    BY <2>1, <2>4 DEF SetsTraced
<1>. QED
  BY <1>3, <1>6, <1>7, <1>8, ClientWrites

\* Every step of the client keeps refusals traced.
LEMMA ClientTracesRefusals ==
  ASSUME TypeOK, ClientInv, RefusalsTraced, ClientNext, UNCHANGED coolerVars
  PROVE  RefusalsTraced'
<1>1. fate' = fate
  BY DEF coolerVars
<1>2. \A v \in Writers : task[v] # "idle" => task'[v] # "idle" /\ expectation'[v] = expectation[v]
  BY CallsGoOn
<1>3. \A t : Refused(t) => RefusedNext(t)
  BY <1>1, <1>2, RefusedStays
<1>4. \A k \in DOMAIN toClient' : toClient'[k].action = "NAK" => RefusedNext(toClient'[k].topic)
  BY <1>3, ClientOnlyReads DEF RefusalsTraced
<1>5. ASSUME NEW w \in Writers, fut'[w] = "rejected"
      PROVE  RefusedNext(expectation'[w].topic)
  <2>1. CASE fut[w] = "rejected"
    BY <1>2, <1>3, <2>1 DEF RefusalsTraced
  <2>2. CASE fut[w] # "rejected"
    <3>1. ReadChunk /\ fut[w] = "pending"
      BY <1>5, <2>2, FutureMoves
    <3>2. task[w] # "idle"
      BY <3>1 DEF RefusalsTraced
    <3>3. PICK k \in DOMAIN toClient : /\ toClient[k].action = "NAK"
                                       /\ toClient[k].topic = expectation[w].topic
      BY <1>5, <2>2, <3>1, RejectedByNak
    <3>. QED
      BY <1>2, <1>3, <3>2, <3>3 DEF RefusalsTraced
  <2>. QED
    BY <2>1, <2>2
<1>6. ASSUME NEW w \in Writers, task'[w] = "idle"
      PROVE  fate'[w] = "none" /\ fut'[w] = "none"
  <2>1. task[w] = "idle"
    BY <1>2, <1>6
  <2>2. fate[w] = "none" /\ fut[w] = "none"
    BY <2>1 DEF RefusalsTraced
  <2>3. fut'[w] = fut[w]
    BY <1>6, <2>2, FutureMoves
  <2>. QED
    BY <1>1, <2>2, <2>3
<1>. QED
  BY <1>4, <1>5, <1>6, NextTraced

\* The fate of a SET taken off the wire is settled once, and the other SETs stay
\* as they were.
LEMMA CoolerDecides ==
  ASSUME TypeOK, AnswerInv, Receive("SET"), UNCHANGED clientVars, NEW to,
         fate' = [fate EXCEPT ![Head(toCooler).by] = to]
  PROVE  /\ SetsTraced'
         /\ Head(toCooler).by \in Writers /\ task[Head(toCooler).by] # "idle"
         /\ expectation[Head(toCooler).by].topic = Head(toCooler).topic
         /\ fate[Head(toCooler).by] = "none" /\ fate'[Head(toCooler).by] = to
         /\ \A v \in Writers \ {Head(toCooler).by} : fate'[v] = fate[v]
<1>. DEFINE set == Head(toCooler)
<1>1. /\ toCooler # <<>> /\ set.action = "SET" /\ toCooler' = Tail(toCooler)
      /\ toCooler \in Seq(ToCooler) /\ DOMAIN fate = Writers
  BY DEF Receive, TypeOK, CoolerTypeOK
<1>2. /\ 1 \in DOMAIN toCooler /\ set = toCooler[1]
      /\ \A k \in DOMAIN toCooler' : k + 1 \in DOMAIN toCooler /\ k + 1 # 1
                                   /\ toCooler'[k] = toCooler[k + 1]
  BY <1>1, TailShift
<1>3. /\ set.by \in Writers /\ task[set.by] # "idle" /\ fate[set.by] = "none"
      /\ expectation[set.by].topic = set.topic
      /\ \A j \in DOMAIN toCooler : toCooler[j].action = "SET" /\ toCooler[j].by = set.by => j = 1
  BY <1>1, <1>2 DEF AnswerInv, SetsTraced
<1>4. fate'[set.by] = to /\ \A v \in Writers \ {set.by} : fate'[v] = fate[v]
  BY <1>1, <1>3
<1>. HIDE DEF set
<1>5. UNCHANGED <<task, expectation>>
  BY DEF clientVars, writeVars
<1>6. ASSUME NEW k \in DOMAIN toCooler', toCooler'[k].action = "SET"
      PROVE  LET w == toCooler'[k].by IN
               /\ w \in Writers /\ task'[w] # "idle" /\ fate'[w] = "none"
               /\ expectation'[w].topic = toCooler'[k].topic
               /\ \A j \in DOMAIN toCooler' : toCooler'[j].action = "SET" /\ toCooler'[j].by = w => j = k
  <2>1. /\ k + 1 \in DOMAIN toCooler /\ k + 1 # 1 /\ toCooler'[k] = toCooler[k + 1]
        /\ k \in Nat /\ DOMAIN toCooler' \subseteq Nat
    <3>1. toCooler' \in Seq(ToCooler)
      BY <1>1, HeadTailProperties
    <3>. QED
      BY <1>2, <3>1, LenProperties
  <2>2. LET w == toCooler[k + 1].by IN
          /\ w \in Writers /\ task[w] # "idle" /\ fate[w] = "none"
          /\ expectation[w].topic = toCooler[k + 1].topic
          /\ \A j \in DOMAIN toCooler : toCooler[j].action = "SET" /\ toCooler[j].by = w => j = k + 1
    BY <1>6, <2>1 DEF AnswerInv, SetsTraced
  <2>3. toCooler[k + 1].by # set.by
    BY <1>3, <1>6, <2>1
  <2>4. ASSUME NEW j \in DOMAIN toCooler', toCooler'[j].action = "SET",
               toCooler'[j].by = toCooler[k + 1].by
        PROVE  j = k
    <3>1. j + 1 \in DOMAIN toCooler /\ toCooler'[j] = toCooler[j + 1] /\ j \in Nat
      BY <1>2, <2>1
    <3>2. j + 1 = k + 1
      BY <2>2, <2>4, <3>1
    <3>. QED
      BY <2>1, <3>1, <3>2
  <2>. QED
    BY <1>4, <1>5, <2>1, <2>2, <2>3, <2>4
<1>7. SetsTraced'
  BY <1>6 DEF SetsTraced
<1>. QED
  BY <1>3, <1>4, <1>7 DEF set

\* A SET taken off the wire is none of those being applied.
LEMMA ApplyingStays ==
  ASSUME AnswerInv, UNCHANGED applying, NEW w \in Writers, fate[w] # "accepted",
         \A v \in Writers \ {w} : fate'[v] = fate[v]
  PROVE  ApplyingTraced'
  BY DEF AnswerInv, ApplyingTraced

\* Frames published keep refusals traced if they are no NAK, or one of a refusal.
LEMMA PublishTraces ==
  ASSUME TypeOK, AnswerInv, UNCHANGED clientVars, NEW n \in Nat, NEW frame \in ToClient,
         Publish(n, frame), frame.action = "NAK" => RefusedNext(frame.topic),
         \A v \in Writers : /\ fate[v] = "refused" => fate'[v] = "refused"
                            /\ task[v] = "idle" => fate'[v] = fate[v]
  PROVE  RefusalsTraced'
<1>1. UNCHANGED <<task, expectation, fut>>
  BY DEF clientVars, writeVars
<1>2. \A t : Refused(t) => RefusedNext(t)
  BY <1>1, RefusedStays
<1>3. \A k \in DOMAIN toClient' :
        toClient'[k] = frame \/ (\E j \in DOMAIN toClient : toClient'[k] = toClient[j])
  BY PublishElements DEF TypeOK
<1>4. \A k \in DOMAIN toClient' : toClient'[k].action = "NAK" => RefusedNext(toClient'[k].topic)
  BY <1>2, <1>3 DEF AnswerInv, RefusalsTraced
<1>5. \A w \in Writers : fut'[w] = "rejected" => RefusedNext(expectation'[w].topic)
  BY <1>1, <1>2 DEF AnswerInv, RefusalsTraced
<1>6. \A w \in Writers : task'[w] = "idle" => fate'[w] = "none" /\ fut'[w] = "none"
  BY <1>1 DEF AnswerInv, RefusalsTraced
<1>. QED
  BY <1>4, <1>5, <1>6, NextTraced

\* Every step of the cooler keeps the answers traced.
LEMMA CoolerTraces ==
  ASSUME TypeOK, AnswerInv, CoolerNext, UNCHANGED clientVars
  PROVE  AnswerInv'
<1>. USE DEF coolerVars
<1>1. /\ UNCHANGED <<task, expectation, fut>>
      /\ toCooler \in Seq(ToCooler) /\ applying \in Seq(ToCooler)
      /\ stored \in [Topics -> Seq(Int)] /\ CoolerTypeOK
      /\ fate \in [Writers -> {"none", "accepted", "applied", "refused", "ignored"}]
  BY DEF clientVars, writeVars, TypeOK, CoolerTypeOK
<1>. DEFINE set == Head(toCooler)
<1>2. ASSUME UNCHANGED <<fate, applying>>
      PROVE  ApplyingTraced'
  BY <1>2 DEF AnswerInv, ApplyingTraced
<1>3. ASSUME UNCHANGED <<fate, toClient>>
      PROVE  RefusalsTraced'
  BY <1>1, <1>3 DEF AnswerInv, RefusalsTraced, Refused
<1>4. ASSUME NEW action \in {"SUBSCRIBE", "GARBAGE"}, Receive(action), UNCHANGED fate
      PROVE  SetsTraced'
  <2>1. /\ toCooler # <<>> /\ toCooler' = Tail(toCooler)
        /\ \A k \in DOMAIN toCooler' : k + 1 \in DOMAIN toCooler /\ toCooler'[k] = toCooler[k + 1]
        /\ toCooler' \in Seq(ToCooler) /\ DOMAIN toCooler' \subseteq Nat
    BY <1>1, <1>4, TailShift, HeadTailProperties, LenProperties DEF Receive
  <2>2. ASSUME NEW k \in DOMAIN toCooler', NEW j \in DOMAIN toCooler', k + 1 = j + 1
        PROVE  k = j
    BY <2>1, <2>2
  <2>. QED
    BY <1>1, <1>4, <2>1, <2>2 DEF AnswerInv, SetsTraced
<1>5. CASE AnswerSubscribe
  <2>. DEFINE t == Head(toCooler).topic
              n == IF stored[t] = <<>> THEN 0 ELSE 1
              frame == Publication(t, stored[t])
  <2>1. /\ Publish(n, frame) /\ n \in Nat
        /\ Receive("SUBSCRIBE") /\ UNCHANGED <<fate, applying>>
    BY <1>5 DEF AnswerSubscribe
  <2>2. frame \in ToClient /\ frame.action # "NAK"
    <3>1. t \in Topics /\ stored[t] \in Seq(Int)
      BY <1>1, <2>1, ReceiveType
    <3>. QED
      BY <3>1, FrameTypes DEF Publication
  <2>. HIDE DEF n, frame
  <2>3. RefusalsTraced'
    BY <2>1, <2>2, PublishTraces
  <2>. QED
    BY <1>2, <1>4, <2>1, <2>3 DEF AnswerInv
<1>6. CASE Discard
  BY <1>2, <1>3, <1>4, <1>6 DEF Discard, AnswerInv
<1>7. CASE Accept
  <2>. DEFINE frame == Publication(set.topic, stored[set.topic])
  <2>1. PICK n \in Copies : Publish(n, frame)
    BY <1>7 DEF Accept
  <2>2. /\ Receive("SET") /\ applying' = Append(applying, set)
        /\ fate' = [fate EXCEPT ![set.by] = "accepted"]
    BY <1>7 DEF Accept
  <2>3. /\ set \in ToCooler
        /\ frame \in ToClient /\ frame.action # "NAK"
    <3>1. set \in ToCooler /\ set.topic \in Topics /\ stored[set.topic] \in Seq(Int)
      BY <1>1, <2>2, ReceiveType
    <3>. QED
      BY <3>1, FrameTypes DEF Publication
  <2>4. /\ SetsTraced'
        /\ set.by \in Writers /\ task[set.by] # "idle"
        /\ fate[set.by] = "none" /\ fate'[set.by] = "accepted"
        /\ \A v \in Writers \ {set.by} : fate'[v] = fate[v]
    BY <2>2, CoolerDecides
  <2>. HIDE DEF set, frame
  <2>5. RefusalsTraced'
    <3>1. n \in Nat
      OBVIOUS
    <3>2. \A v \in Writers : /\ fate[v] = "refused" => fate'[v] = "refused"
                             /\ task[v] = "idle" => fate'[v] = fate[v]
      BY <2>4
    <3>. QED
      BY <2>1, <2>3, <3>1, <3>2, PublishTraces
  <2>6. ApplyingTraced'
    <3>. DEFINE m == Len(applying)
    <3>1. /\ m \in Nat /\ DOMAIN applying = 1 .. m
          /\ DOMAIN applying' = 1 .. m + 1
          /\ applying'[m + 1] = set
          /\ \A k \in 1 .. m : applying'[k] = applying[k]
      BY <1>1, <2>2, <2>3, AppendProperties, LenProperties
    <3>2. \A k \in 1 .. m :
            LET w == applying[k].by IN
              /\ w \in Writers /\ fate[w] = "accepted" /\ w # set.by
              /\ \A j \in 1 .. m : applying[j].by = w => j = k
      BY <2>4, <3>1 DEF AnswerInv, ApplyingTraced
    <3>. HIDE DEF m
    <3>3. ASSUME NEW k \in 1 .. m + 1
          PROVE  LET w == applying'[k].by IN
                   /\ w \in Writers /\ fate'[w] = "accepted"
                   /\ \A j \in 1 .. m + 1 : applying'[j].by = w => j = k
      <4>1. CASE k = m + 1
        <5>1. \A j \in 1 .. m : applying'[j].by # set.by
          BY <3>1, <3>2
        <5>2. \A j \in 1 .. m + 1 : j \in 1 .. m \/ j = m + 1
          BY <3>1
        <5>. QED
          BY <2>4, <3>1, <4>1, <5>1, <5>2
      <4>2. CASE k \in 1 .. m
        <5>1. applying'[k] = applying[k]
          BY <3>1, <4>2
        <5>2. applying[k].by \in Writers /\ applying[k].by # set.by /\ fate[applying[k].by] = "accepted"
          BY <3>2, <4>2
        <5>3. \A j \in 1 .. m + 1 : applying'[j].by = applying[k].by => j = k
          BY <3>1, <3>2, <4>2, <5>2
        <5>. QED
          BY <2>4, <5>1, <5>2, <5>3
      <4>. QED
        BY <3>1, <4>1, <4>2
    <3>. QED
      BY <3>1, <3>3 DEF ApplyingTraced
  <2>. QED
    BY <2>4, <2>5, <2>6 DEF AnswerInv
<1>8. CASE Refuse
  <2>. DEFINE frame == Refusal(set.topic)
  <2>1. /\ Receive("SET") /\ Publish(1, frame) /\ UNCHANGED applying
        /\ fate' = [fate EXCEPT ![set.by] = "refused"]
    BY <1>8 DEF Refuse
  <2>2. frame \in ToClient /\ frame.topic = set.topic
    <3>1. set.topic \in Topics
      BY <1>1, <2>1, ReceiveType
    <3>. QED
      BY <3>1, FrameTypes, EmptySeq DEF Refusal
  <2>3. /\ SetsTraced'
        /\ set.by \in Writers /\ task[set.by] # "idle" /\ expectation[set.by].topic = set.topic
        /\ fate[set.by] = "none" /\ fate'[set.by] = "refused"
        /\ \A v \in Writers \ {set.by} : fate'[v] = fate[v]
    BY <2>1, CoolerDecides
  <2>. HIDE DEF set, frame
  <2>4. RefusedNext(set.topic)
    BY <1>1, <2>3 DEF RefusedNext
  <2>5. RefusalsTraced'
    <3>1. \A v \in Writers : /\ fate[v] = "refused" => fate'[v] = "refused"
                             /\ task[v] = "idle" => fate'[v] = fate[v]
      BY <2>3
    <3>. QED
      BY <2>1, <2>2, <2>4, <3>1, PublishTraces
  <2>6. ApplyingTraced'
    BY <2>1, <2>3, ApplyingStays
  <2>. QED
    BY <2>3, <2>5, <2>6 DEF AnswerInv
<1>9. CASE Ignore
  <2>1. /\ Receive("SET") /\ UNCHANGED <<applying, toClient>>
        /\ fate' = [fate EXCEPT ![set.by] = "ignored"]
    BY <1>9 DEF Ignore
  <2>2. /\ SetsTraced'
        /\ set.by \in Writers /\ task[set.by] # "idle"
        /\ fate[set.by] = "none" /\ fate'[set.by] = "ignored"
        /\ \A v \in Writers \ {set.by} : fate'[v] = fate[v]
    BY <2>1, CoolerDecides
  <2>. HIDE DEF set
  <2>3. \A t : Refused(t) => RefusedNext(t)
    BY <1>1, <2>2, RefusedStays
  <2>4. RefusalsTraced'
    BY <1>1, <2>1, <2>2, <2>3, NextTraced DEF AnswerInv, RefusalsTraced
  <2>5. ApplyingTraced'
    BY <2>1, <2>2, ApplyingStays
  <2>. QED
    BY <2>2, <2>4, <2>5 DEF AnswerInv
<1>10. CASE Apply
  <2>. DEFINE first == Head(applying)
              new == Grain(first.topic, first.words)
              frame == Publication(first.topic, new)
  <2>1. /\ applying # <<>> /\ applying' = Tail(applying) /\ UNCHANGED toCooler
        /\ fate' = [fate EXCEPT ![first.by] = "applied"]
    BY <1>10 DEF Apply
  <2>2. PICK n \in Copies : Publish(n, frame)
    BY <1>10 DEF Apply
  <2>3. /\ 1 \in DOMAIN applying /\ first = applying[1] /\ first \in ToCooler
        /\ \A k \in DOMAIN applying' : /\ k + 1 \in DOMAIN applying /\ k + 1 # 1
                                       /\ applying'[k] = applying[k + 1]
        /\ DOMAIN applying' \subseteq Nat
    <3>1. applying' \in Seq(ToCooler) /\ first \in ToCooler
      BY <1>1, <2>1, HeadTailProperties
    <3>. QED
      BY <1>1, <2>1, <3>1, TailShift, LenProperties
  <2>4. frame \in ToClient /\ frame.action # "NAK"
    <3>1. first.topic \in Topics /\ first.words \in Seq(Int)
      BY <2>3 DEF ToCooler
    <3>. QED
      BY <3>1, GrainType, FrameTypes DEF Publication
  <2>5. /\ first.by \in Writers /\ fate[first.by] = "accepted"
        /\ \A j \in DOMAIN applying : applying[j].by = first.by => j = 1
    BY <2>3 DEF AnswerInv, ApplyingTraced
  <2>6. fate'[first.by] = "applied" /\ \A v \in Writers \ {first.by} : fate'[v] = fate[v]
    BY <1>1, <2>1, <2>5
  <2>. HIDE DEF first, frame
  <2>7. RefusalsTraced'
    <3>1. \A v \in Writers : /\ fate[v] = "refused" => fate'[v] = "refused"
                             /\ task[v] = "idle" => fate'[v] = fate[v]
      BY <2>5, <2>6 DEF AnswerInv, RefusalsTraced
    <3>2. n \in Nat
      OBVIOUS
    <3>. QED
      BY <2>2, <2>4, <3>1, <3>2, PublishTraces
  <2>8. SetsTraced'
    BY <1>1, <2>1, <2>5, <2>6 DEF AnswerInv, SetsTraced
  <2>9. ApplyingTraced'
    <3>1. ASSUME NEW k \in DOMAIN applying', NEW j \in DOMAIN applying', k + 1 = j + 1
          PROVE  k = j
      BY <2>3, <3>1
    <3>. QED
      BY <2>3, <2>5, <2>6, <3>1 DEF AnswerInv, ApplyingTraced
  <2>. QED
    BY <2>7, <2>8, <2>9 DEF AnswerInv
<1>11. CASE Change
  <2>1. PICK f \in ForeignChanges : Publish(1, Publication(f.topic, f.words))
    BY <1>11 DEF Change
  <2>2. UNCHANGED <<toCooler, applying, fate>>
    BY <1>11 DEF Change
  <2>. DEFINE frame == Publication(f.topic, f.words)
  <2>3. frame \in ToClient /\ frame.action # "NAK"
    BY FrameTypes DEF Publication
  <2>. HIDE DEF frame
  <2>4. RefusalsTraced'
    <3>1. Publish(1, frame)
      BY <2>1 DEF frame
    <3>. QED
      BY <2>2, <2>3, <3>1, PublishTraces
  <2>5. SetsTraced'
    BY <1>1, <2>2 DEF AnswerInv, SetsTraced
  <2>. QED
    BY <1>2, <2>2, <2>4, <2>5 DEF AnswerInv
<1>12. CASE HangUp
  BY <1>1, <1>2, <1>3, <1>12 DEF HangUp, AnswerInv, SetsTraced
<1>. QED
  BY <1>5, <1>6, <1>7, <1>8, <1>9, <1>10, <1>11, <1>12 DEF CoolerNext

\* set() raises WriteRejected only for a refusal of the cooler: nothing the
\* client or the connection does, and no late or repeated frame, makes up one.
THEOREM RejectionIsRefusal == Spec => []RejectedOnlyAfterRefusal
<1>1. Init => AnswerInv
  <2>1. DOMAIN <<>> = {}
    BY EmptySeq, LenProperties
  <2>2. Init => /\ toCooler = <<>> /\ toClient = <<>> /\ applying = <<>>
                /\ \A w \in Writers : fate[w] = "none" /\ fut[w] = "none"
    BY DEF Init, WireInit, CoolerInit, ClientInit
  <2>. QED
    BY <2>1, <2>2 DEF AnswerInv, SetsTraced, ApplyingTraced, RefusalsTraced
<1>2. TypeOK /\ ClientInv /\ AnswerInv /\ [Next]_vars => AnswerInv'
  <2>1. TypeOK /\ ClientInv /\ AnswerInv /\ ClientStep => AnswerInv'
    BY ClientTracesSets, ClientTracesRefusals DEF ClientStep, AnswerInv
  <2>2. TypeOK /\ AnswerInv /\ CoolerStep => AnswerInv'
    BY CoolerTraces DEF CoolerStep
  <2>3. AnswerInv /\ UNCHANGED vars => AnswerInv'
    BY DEF vars, wireVars, coolerVars, clientVars, writeVars, AnswerInv, SetsTraced,
       ApplyingTraced, RefusalsTraced, Refused
  <2>. QED
    BY <2>1, <2>2, <2>3 DEF Next
<1>3. AnswerInv => RejectedOnlyAfterRefusal
  BY DEF AnswerInv, RefusalsTraced, Refused, RejectedOnlyAfterRefusal
<1>. QED
  BY <1>1, <1>2, <1>3, TypeCorrect, ClientInvariant, PTL DEF Spec
=============================================================================
