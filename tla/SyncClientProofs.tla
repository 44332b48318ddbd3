--------------------------- MODULE SyncClientProofs ---------------------------
(***************************************************************************)
(* Every action of a SyncClient keeps the types, whatever system it is a   *)
(* part of.                                                                *)
(***************************************************************************)
EXTENDS SyncClient, CoolerProofs

USE CoolerAssumption, SyncAssumption

-----------------------------------------------------------------------------
(* Types *)

\* connect() counts its subscriptions and has one left for every send it makes.
BurstBounded ==
  /\ task[NoWriter] \in {"idle", "dialled", "made"} => burst = 0
  /\ task[NoWriter] \in {"built", "locking", "sending"} => burst < Len(Subscribed)

\* The reader takes the lock to feed a chunk, never for nothing.
ChunkNotEmpty == reader \in {"waiting", "feeding"} => inbox # <<>>

\* The types are not inductive alone: the subscription connect() sends next and the
\* frame the reader feeds next have to exist.
Typed == CoolerTypeOK /\ SyncTypeOK /\ BurstBounded /\ ChunkNotEmpty

\* What an action leaves alone keeps its type.
LEMMA TypesKept ==
  ASSUME Typed
  PROVE  /\ UNCHANGED <<wireVars, coolerVars>> => CoolerTypeOK'
         /\ UNCHANGED readerVars => ReaderTypeOK' /\ ChunkNotEmpty'
         /\ UNCHANGED sendVars => SendTypeOK' /\ BurstBounded'
         /\ UNCHANGED <<sock, closed, closer>> => CloseTypeOK'
<1>. USE DEF Typed, SyncTypeOK
<1>1. UNCHANGED <<wireVars, coolerVars>> => CoolerTypeOK'
  BY DEF wireVars, coolerVars, CoolerTypeOK
<1>2. UNCHANGED readerVars => ReaderTypeOK' /\ ChunkNotEmpty'
  BY DEF readerVars, chunkVars, ReaderTypeOK, ChunkNotEmpty
<1>3. UNCHANGED sendVars => SendTypeOK' /\ BurstBounded'
  BY DEF sendVars, SendTypeOK, BurstBounded
<1>4. UNCHANGED <<sock, closed, closer>> => CloseTypeOK'
  BY DEF CloseTypeOK
<1>. QED
  BY <1>1, <1>2, <1>3, <1>4

\* The frames of connect() are frames to the cooler.
LEMMA SubscribeType ==
  ASSUME NEW i \in 1 .. Len(Subscribed)
  PROVE  SubscribeFrame(Subscribed[i]) \in ToCooler
<1>1. Subscribed[i] \in Topics
  BY ElementOfSeq
<1>. QED
  BY <1>1, EmptySeq DEF SubscribeFrame, ToCooler

\* connect() and its next subscription.
LEMMA SentType ==
  ASSUME Typed, NEW w \in Threads, task[w] = "sending", Sent(w), tail' = {}, UNCHANGED stalls,
         burst' = IF w = NoWriter THEN burst + 1 ELSE burst
  PROVE  SendTypeOK' /\ BurstBounded'
<1>. USE DEF Typed, SyncTypeOK, SendTypeOK, BurstBounded
<1>0. Len(Subscribed) \in Nat /\ NoWriter \in Threads
  BY LenProperties DEF Threads
<1>1. burst \in Nat /\ (w = NoWriter => burst < Len(Subscribed))
  BY <1>0
<1>2. burst' \in 0 .. Len(Subscribed)
  BY <1>0, <1>1
<1>3. CASE w = NoWriter /\ burst + 1 < Len(Subscribed)
  <2>1. SubscribeFrame(Subscribed[burst + 2]) \in ToCooler
    BY <1>0, <1>1, <1>3, SubscribeType
  <2>2. task' = [task EXCEPT ![w] = "built"] /\ burst' < Len(Subscribed)
    BY <1>0, <1>1, <1>3 DEF Sent, Goto
  <2>3. BurstBounded'
    BY <1>0, <1>3, <2>2
  <2>. QED
    BY <1>2, <1>3, <2>1, <2>2, <2>3 DEF Sent, Goto
<1>4. CASE ~(w = NoWriter /\ burst + 1 < Len(Subscribed))
  <2>1. End(w, "sent") /\ UNCHANGED job
    BY <1>4 DEF Sent
  <2>2. BurstBounded'
    BY <1>0, <2>1 DEF End
  <2>. QED
    BY <1>2, <2>1, <2>2 DEF End
<1>. QED
  BY <1>3, <1>4

\* set_frame() raises one of its errors or leaves a frame to send.
LEMMA SetFrameType ==
  ASSUME Typed, NEW w \in Writers, NEW r \in Requests, SetFrame(w, r),
         UNCHANGED <<burst, tail, stalls>>
  PROVE  SendTypeOK' /\ BurstBounded'
<1>. USE DEF Typed, SyncTypeOK, SendTypeOK, BurstBounded
<1>. DEFINE raised == RefusedBy(values, r.topic, r.value, r.compartment)
            frame == [action |-> "SET", topic |-> r.topic, by |-> w,
                      words |-> Encode(r.topic, NewValue(values, r.topic, r.value, r.compartment))]
<1>1. /\ r.topic \in Topics /\ r.value \in Int /\ r.compartment \in Nat
      /\ w \in Threads /\ w # NoWriter
  BY DEF Threads
<1>2. CASE raised = "none"
  <2>1. values \in [Topics -> Seq(Int)]
    BY DEF ReaderTypeOK
  <2>2. frame \in ToCooler
    BY <1>1, <1>2, <2>1, NewValueType, EncodeType DEF ToCooler
  <2>3. Goto(w, "built") /\ job' = [job EXCEPT ![w] = frame]
    BY <1>2 DEF SetFrame
  <2>. HIDE DEF frame
  <2>. QED
    BY <1>1, <2>2, <2>3 DEF Goto
<1>3. CASE raised # "none"
  <2>1. PICK e \in LocalErrors : End(w, e) /\ UNCHANGED job
    BY <1>3 DEF SetFrame, RefusedBy, LocalErrors
  <2>. QED
    BY <1>1, <2>1 DEF End
<1>. QED
  BY <1>2, <1>3

\* Every action of the reader keeps the types.
LEMMA ReaderStepType ==
  ASSUME Typed, ReaderStep, UNCHANGED coolerVars
  PROVE  Typed'
<1>. USE DEF readerVars, chunkVars, ReaderTypeOK, ChunkNotEmpty
<1>. DEFINE Rest == CoolerTypeOK' /\ SendTypeOK' /\ BurstBounded' /\ CloseTypeOK'
<1>0. /\ ReaderTypeOK /\ CoolerTypeOK /\ SendTypeOK /\ BurstBounded /\ CloseTypeOK /\ ChunkNotEmpty
      /\ Rest /\ ReaderTypeOK' /\ ChunkNotEmpty' => Typed'
  BY DEF Typed, SyncTypeOK
<1>1. CASE LoopTest \/ RecvTimesOut \/ FeedLock \/ CallbackReturns \/ OnCloseReturns
  <2>1. /\ UNCHANGED <<values, closeReason, error, chunkVars>> /\ UNCHANGED sendVars
        /\ UNCHANGED <<sock, closed, closer>> /\ UNCHANGED wireVars
    BY <1>1 DEF LoopTest, RecvTimesOut, FeedLock, CallbackReturns, OnCloseReturns, allButReader
  <2>2. ReaderTypeOK' /\ ChunkNotEmpty'
    BY <1>0, <1>1, <2>1 DEF LoopTest, RecvTimesOut, FeedLock, CallbackReturns, OnCloseReturns
  <2>. QED
    BY <1>0, <2>1, <2>2, TypesKept
<1>2. CASE Recv
  <2>1. PICK n \in 1 .. Len(toClient) : /\ inbox' = SubSeq(toClient, 1, n)
                                        /\ toClient' = SubSeq(toClient, n + 1, Len(toClient))
    BY <1>2 DEF Recv
  <2>2. inbox' \in Seq(ToClient) /\ toClient' \in Seq(ToClient) /\ Len(inbox') = n
    BY <1>0, <2>1, SplitSeq, SubSeqProperties, LenProperties DEF CoolerTypeOK
  <2>3. inbox' # <<>>
    BY <2>2, EmptySeq
  <2>4. CoolerTypeOK' /\ ReaderTypeOK' /\ ChunkNotEmpty'
    BY <1>0, <1>2, <2>2, <2>3 DEF Recv, CoolerTypeOK, coolerVars
  <2>. QED
    BY <1>0, <1>2, <2>4, TypesKept DEF Recv
<1>3. CASE RecvEnds
  BY <1>0, <1>3, TypesKept DEF RecvEnds
<1>4. CASE FeedFrame
  <2>. DEFINE f == Head(inbox)
  <2>1. f \in ToClient /\ Tail(inbox) \in Seq(ToClient)
    BY <1>0, <1>4, HeadTailProperties DEF FeedFrame
  <2>2. Decode(f.topic, f.words) \in Seq(Int) /\ <<>> \in Seq(Int)
    BY <2>1, DecodeType, EmptySeq DEF ToClient
  <2>. DEFINE v == IF f.action = "PUBLISH" THEN Decode(f.topic, f.words) ELSE <<>>
  <2>3. v \in Seq(Int)
    BY <2>2
  <2>4. /\ values' = IF f.action = "PUBLISH" THEN [values EXCEPT ![f.topic] = v] ELSE values
        /\ events' = Append(events, [kind |-> f.action, topic |-> f.topic, value |-> v])
    BY <1>4 DEF FeedFrame
  <2>5. [kind |-> f.action, topic |-> f.topic, value |-> v] \in Event
    BY <2>1, <2>3 DEF ToClient, Event
  <2>6. events' \in Seq(Event)
    BY <1>0, <2>4, <2>5, AppendProperties DEF Event
  <2>7. values' \in [Topics -> Seq(Int)]
    BY <1>0, <2>1, <2>3, <2>4 DEF ToClient
  <2>8. ReaderTypeOK' /\ ChunkNotEmpty'
    BY <1>0, <1>4, <2>1, <2>6, <2>7 DEF FeedFrame, Event
  <2>. QED
    BY <1>0, <1>4, <2>8, TypesKept DEF FeedFrame
<1>5. CASE Dispatch
  <2>1. events # <<>> => Head(events) \in Event /\ Tail(events) \in Seq(Event)
    BY <1>0, HeadTailProperties DEF Event
  <2>2. ReaderTypeOK' /\ ChunkNotEmpty'
    BY <1>0, <1>5, <2>1 DEF Dispatch, Event
  <2>. QED
    BY <1>0, <1>5, <2>2, TypesKept DEF Dispatch
<1>6. CASE ReaderMarks
  <2>1. ReaderTypeOK' /\ ChunkNotEmpty' /\ CloseTypeOK'
    BY <1>0, <1>6 DEF ReaderMarks, CloseTypeOK
  <2>. QED
    BY <1>0, <1>6, <2>1, TypesKept DEF ReaderMarks
<1>7. CASE ReaderCloses
  <2>1. CoolerTypeOK' /\ CloseTypeOK'
    BY <1>0, <1>7 DEF ReaderCloses, CloseSocket, CoolerTypeOK, coolerVars, CloseTypeOK
  <2>2. ReaderTypeOK' /\ ChunkNotEmpty'
    BY <1>0, <1>7 DEF ReaderCloses
  <2>. QED
    BY <1>0, <1>7, <2>1, <2>2, TypesKept DEF ReaderCloses
<1>. QED
  BY <1>1, <1>2, <1>3, <1>4, <1>5, <1>6, <1>7 DEF ReaderStep

\* So does every action of connect(), set(), send() and close().
LEMMA CallStepType ==
  ASSUME Typed, SyncNext, ~ReaderStep, UNCHANGED coolerVars
  PROVE  Typed'
<1>. USE DEF wireVars, sendVars
<1>0. /\ CoolerTypeOK /\ ReaderTypeOK /\ SendTypeOK /\ CloseTypeOK /\ BurstBounded /\ ChunkNotEmpty
      /\ Typed' = ( /\ CoolerTypeOK' /\ ReaderTypeOK' /\ SendTypeOK' /\ CloseTypeOK'
                    /\ BurstBounded' /\ ChunkNotEmpty' )
      /\ Len(Subscribed) \in Nat /\ NoWriter \in Threads
  BY LenProperties DEF Typed, SyncTypeOK, Threads
<1>1. CASE Dial
  <2>1. SendTypeOK' /\ BurstBounded' /\ CloseTypeOK'
    BY <1>0, <1>1 DEF Dial, Goto, End, SendTypeOK, BurstBounded, CloseTypeOK
  <2>. QED
    BY <1>0, <1>1, <2>1, TypesKept DEF Dial
<1>2. CASE MakeReader
  <2>1. SendTypeOK' /\ BurstBounded' /\ ReaderTypeOK' /\ ChunkNotEmpty'
    BY <1>0, <1>2 DEF MakeReader, Goto, chunkVars, SendTypeOK, BurstBounded, ReaderTypeOK,
       ChunkNotEmpty
  <2>. QED
    BY <1>0, <1>2, <2>1, TypesKept DEF MakeReader
<1>3. CASE StartReader
  <2>1. ReaderTypeOK' /\ ChunkNotEmpty'
    BY <1>0, <1>3 DEF StartReader, chunkVars, ReaderTypeOK, ChunkNotEmpty
  <2>2. Subscribed # <<>> => 0 < Len(Subscribed) /\ SubscribeFrame(Subscribed[1]) \in ToCooler
    BY <1>0, EmptySeq, SubscribeType
  <2>3. SendTypeOK' /\ BurstBounded'
    BY <1>0, <1>3, <2>2 DEF StartReader, Goto, End, SendTypeOK, BurstBounded
  <2>. QED
    BY <1>0, <1>3, <2>1, <2>3, TypesKept DEF StartReader
<1>4. ASSUME NEW w \in Writers, Build(w)
      PROVE  Typed'
  <2>1. PICK r \in Requests : SetFrame(w, r)
    BY <1>4 DEF Build
  <2>. QED
    BY <1>0, <1>4, <2>1, SetFrameType, TypesKept DEF Build
<1>5. ASSUME NEW w \in Threads, SendCheck(w) \/ SendStart(w)
      PROVE  Typed'
  <2>1. SendTypeOK' /\ BurstBounded'
    BY <1>0, <1>5 DEF SendCheck, SendStart, Goto, End, SendTypeOK, BurstBounded
  <2>. QED
    BY <1>0, <1>5, <2>1, TypesKept DEF SendCheck, SendStart
<1>6. ASSUME NEW w \in Threads, SendRest(w)
      PROVE  Typed'
  <2>1. Garbage \in ToCooler /\ job[w] \in ToCooler
    BY <1>0, EmptySeq DEF Garbage, ToCooler, Topics, SendTypeOK
  <2>2. toCooler' \in Seq(ToCooler)
    BY <1>0, <1>6, <2>1, AppendProperties DEF SendRest, CoolerTypeOK
  <2>3. CoolerTypeOK'
    BY <1>0, <1>6, <2>2 DEF SendRest, CoolerTypeOK, coolerVars
  <2>. QED
    BY <1>0, <1>6, <2>3, SentType, TypesKept DEF SendRest
<1>7. ASSUME NEW w \in Threads, SendFails(w)
      PROVE  Typed'
  <2>1. SendTypeOK' /\ BurstBounded'
    BY <1>0, <1>7 DEF SendFails, End, SendTypeOK, BurstBounded
  <2>. QED
    BY <1>0, <1>7, <2>1, TypesKept DEF SendFails
<1>8. ASSUME NEW c \in Closers, CloseTest(c) \/ CloseMark(c) \/ CloseJoin(c)
      PROVE  Typed'
  <2>1. CloseTypeOK'
    BY <1>0, <1>8 DEF CloseTest, CloseMark, CloseJoin, CloseTypeOK, Returned
  <2>. QED
    BY <1>0, <1>8, <2>1, TypesKept DEF CloseTest, CloseMark, CloseJoin
<1>9. ASSUME NEW c \in Closers, CloseShutdown(c)
      PROVE  Typed'
  <2>1. CloseTypeOK' /\ CoolerTypeOK'
    BY <1>0, <1>9 DEF CloseShutdown, CloseSocket, CloseTypeOK, CoolerTypeOK, coolerVars
  <2>. QED
    BY <1>0, <1>9, <2>1, TypesKept DEF CloseShutdown
<1>10. CASE Reset
  <2>1. CoolerTypeOK'
    BY <1>0, <1>10, EmptySeq DEF Reset, CoolerTypeOK, coolerVars
  <2>. QED
    BY <1>0, <1>10, <2>1, TypesKept DEF Reset, syncVars
<1>. QED
  BY <1>1, <1>2, <1>3, <1>4, <1>5, <1>6, <1>7, <1>8, <1>9, <1>10
     DEF SyncNext, ConnectStep, SendStep, CloseStep

\* The initial states have their types.
LEMMA InitTyped == WireInit /\ CoolerInit /\ SyncInit => Typed
<1>1. \A S : <<>> \in Seq(S)
  BY EmptySeq
<1>2. Len(Subscribed) \in Nat
  BY LenProperties
<1>3. SubscribeFrame("nocpt") \in ToCooler
  BY <1>1 DEF SubscribeFrame, ToCooler, Topics
<1>4. WireInit /\ CoolerInit => CoolerTypeOK
  BY <1>1 DEF WireInit, CoolerInit, CoolerTypeOK
<1>5. SyncInit => ReaderTypeOK /\ ChunkNotEmpty
  BY <1>1 DEF SyncInit, ReaderTypeOK, ChunkNotEmpty
<1>6. SyncInit => SendTypeOK /\ BurstBounded
  BY <1>2, <1>3 DEF SyncInit, SendTypeOK, BurstBounded, Threads
<1>7. SyncInit => CloseTypeOK
  BY DEF SyncInit, CloseTypeOK
<1>. QED
  BY <1>4, <1>5, <1>6, <1>7 DEF Typed, SyncTypeOK

\* What a client does, alone or beside the cooler, keeps the types.
LEMMA ClientTyped ==
  ASSUME Typed
  PROVE  /\ SyncNext /\ UNCHANGED coolerVars => Typed'
         /\ CoolerNext /\ UNCHANGED syncVars => Typed'
         /\ UNCHANGED <<wireVars, coolerVars, syncVars>> => Typed'
<1>1. SyncNext /\ UNCHANGED coolerVars => Typed'
  BY ReaderStepType, CallStepType
<1>2. CoolerNext /\ UNCHANGED syncVars => Typed'
  <2>1. CoolerNext => CoolerTypeOK'
    BY CoolerStepType DEF Typed
  <2>. QED
    BY <2>1, TypesKept DEF syncVars, Typed, SyncTypeOK
<1>3. UNCHANGED <<wireVars, coolerVars, syncVars>> => Typed'
  BY TypesKept DEF syncVars, Typed, SyncTypeOK
<1>. QED
  BY <1>1, <1>2, <1>3
=============================================================================
