--------------------------- MODULE SyncSystemProofs ---------------------------
(***************************************************************************)
(* The safety of SyncSystem, for every set of writers, closers and calls   *)
(* made in callbacks, every request and every behaviour of the cooler.     *)
(***************************************************************************)
EXTENDS SyncSystem, SyncClientProofs

USE CoolerAssumption, SyncAssumption

-----------------------------------------------------------------------------
(* Types *)

\* Every step keeps the types.
LEMMA StepTyped == Typed /\ [Next]_vars => Typed'
  BY ClientTyped DEF Next, ClientStep, CoolerStep, vars

\* Every reachable state of a SyncClient and its cooler has its type.
THEOREM SyncTypeCorrect == Spec => []TypeOK
<1>1. Init => Typed
  BY InitTyped DEF Init
<1>2. Typed => TypeOK
  BY DEF Typed, TypeOK
<1>. QED
  BY <1>1, <1>2, StepTyped, PTL DEF Spec

-----------------------------------------------------------------------------
(* The lock *)

\* What the lock gives: one thread at a time is in sendall() or in feed().
OneHolder ==
  /\ \A v, w \in Threads : task[v] = "sending" /\ task[w] = "sending" => v = w
  /\ reader = "feeding" => \A w \in Threads : task[w] # "sending"

\* While no send has failed, the only bytes without a terminator behind them are
\* those of the send in progress, and only frames have been written.
LinesWhole ==
  /\ \A w \in Threads :
       /\ task[w] = "sending" => w \in tail
       /\ outcome[w] = "closed" => task[w] = "done"
       /\ job[w] # Garbage
  /\ \/ \E w \in Threads : outcome[w] = "closed"
     \/ /\ \A w \in tail : task[w] = "sending"
        /\ \A k \in DOMAIN toCooler : toCooler[k] # Garbage

-----------------------------------------------------------------------------
(* The end of the connection *)

Ended == {"marked", "onclose", "done"}

SomeoneClosing == \E c \in Closers : Closing(c)

\* _closed is set by a call of close() in progress or over, or by the reader in
\* its finally block, and before the socket is closed.
ClosedBySomeone ==
  /\ closed => SomeoneClosing \/ reader \in Ended
  /\ sock = "closed" \/ reader \in Ended => closed
  /\ \A c \in Closers : Closing(c) /\ closer[c] # "marking" => closed

\* There is one reader, and connect() starts it once.
OneReader ==
  /\ task[NoWriter] \in {"idle", "dialled"} => reader = "none"
  /\ task[NoWriter] = "made" => reader = "made"

\* The reader has an error exactly if the connection ended by itself.
ErrorHonest ==
  /\ reader \notin Ended \cup {"ending"} => error = "none"
  /\ reader \in Ended => closeReason = error
  /\ reader \in Ended \cup {"ending"} =>
       IF error = "none" THEN SomeoneClosing ELSE line \in {"eof", "reset"}

\* A call of close() that joined the reader has seen it end; one that found none
\* has left a reader that starts later nothing but to end.
ReaderGone ==
  \A c \in Closers \ InCallback :
    /\ closer[c] = "joined" => reader = "done"
    /\ closer[c] = "detached" =>
         reader \in Ended \cup {"none", "made", "loop", "ending"}

\* The cooler takes lines from the wire and adds none; it touches nothing else of
\* what the invariant is about but an open line, which it may hang up.
LEMMA CoolerTakes ==
  ASSUME Typed, CoolerStep
  PROVE  /\ UNCHANGED syncVars
         /\ \A k \in DOMAIN toCooler' : \E j \in DOMAIN toCooler : toCooler'[k] = toCooler[j]
         /\ line \in {"eof", "reset"} => line' \in {"eof", "reset"}
<1>1. UNCHANGED syncVars /\ CoolerNext
  BY DEF CoolerStep
<1>2. toCooler' = toCooler \/ (toCooler # <<>> /\ toCooler' = Tail(toCooler))
  <2>1. CASE AnswerSubscribe \/ Accept \/ Refuse \/ Ignore \/ Discard
    BY <2>1, Zenon DEF AnswerSubscribe, Accept, Refuse, Ignore, Discard, Receive
  <2>2. CASE Apply \/ Change
    BY <2>2 DEF Apply, Change
  <2>3. CASE HangUp
    BY <2>3 DEF HangUp
  <2>. QED
    BY <1>1, <2>1, <2>2, <2>3 DEF CoolerNext
<1>3. line' = line \/ line = "up"
  BY <1>1 DEF CoolerNext, AnswerSubscribe, Accept, Refuse, Ignore, Discard, Apply, Change, HangUp,
     Publish
<1>4. toCooler # <<>> => \A k \in DOMAIN Tail(toCooler) :
                            k + 1 \in DOMAIN toCooler /\ Tail(toCooler)[k] = toCooler[k + 1]
  BY TailShift DEF Typed, TypeOK, CoolerTypeOK
<1>. QED
  BY <1>1, <1>2, <1>3, <1>4

\* Every step of a thread keeps what the lock gives.
LEMMA StepOneHolder ==
  ASSUME Typed, OneHolder, SyncNext
  PROVE  OneHolder'
<1>. USE DEF OneHolder, sendVars, readerVars
<1>1. task \in [Threads -> {"idle", "dialled", "made", "built", "locking", "sending", "done"}]
  BY DEF Typed, SyncTypeOK, SendTypeOK
<1>2. CASE ReaderStep
  BY <1>2 DEF ReaderStep, LoopTest, RecvTimesOut, Recv, RecvEnds, FeedLock, FeedFrame, Dispatch,
     CallbackReturns, ReaderMarks, ReaderCloses, OnCloseReturns, allButReader, LockFree
<1>3. CASE ConnectStep
  BY <1>1, <1>3 DEF ConnectStep, Dial, MakeReader, StartReader, Goto, End
<1>4. ASSUME NEW w \in Writers, Build(w)
      PROVE  OneHolder'
  BY <1>1, <1>4 DEF Build, SetFrame, Goto, End
<1>5. ASSUME NEW w \in Threads, SendStart(w)
      PROVE  OneHolder'
  BY <1>1, <1>5 DEF SendStart, LockFree, Goto
<1>6. ASSUME NEW w \in Threads, SendCheck(w) \/ SendRest(w) \/ SendFails(w)
      PROVE  OneHolder'
  BY <1>1, <1>6 DEF SendCheck, SendRest, Sent, SendFails, Goto, End
<1>7. ASSUME NEW c \in Closers, CloseTest(c) \/ CloseStep(c)
      PROVE  OneHolder'
  BY <1>7 DEF CloseTest, CloseStep, CloseMark, CloseShutdown, CloseJoin
<1>8. CASE Reset
  BY <1>8 DEF Reset, syncVars
<1>. QED
  BY <1>2, <1>3, <1>4, <1>5, <1>6, <1>7, <1>8 DEF SyncNext, SendStep

\* Every step of a thread keeps the lines whole.
LEMMA StepLinesWhole ==
  ASSUME Typed, OneHolder, LinesWhole, SyncNext
  PROVE  LinesWhole'
<1>. USE DEF LinesWhole, sendVars, readerVars, wireVars
<1>1. /\ task \in [Threads -> {"idle", "dialled", "made", "built", "locking", "sending", "done"}]
      /\ outcome \in [Threads -> LocalErrors \cup {"none", "sent", "closed", "oserror"}]
      /\ job \in [Threads -> ToCooler]
      /\ tail \subseteq Threads /\ toCooler \in Seq(ToCooler) /\ Len(toCooler) \in Nat
      /\ NoWriter \in Threads /\ Writers \subseteq Threads
  BY LenProperties DEF Threads, Typed, SyncTypeOK, SendTypeOK, CoolerTypeOK
<1>0. \A t : SubscribeFrame(t) # Garbage
  BY DEF SubscribeFrame, Garbage
<1>2. CASE ReaderStep
  <2>1. UNCHANGED sendVars /\ UNCHANGED toCooler
    BY <1>2 DEF ReaderStep, LoopTest, RecvTimesOut, Recv, RecvEnds, FeedLock, FeedFrame, Dispatch,
       CallbackReturns, ReaderMarks, ReaderCloses, CloseSocket, OnCloseReturns, allButReader
  <2>. QED
    BY <2>1
<1>3. CASE ConnectStep
  <2>1. /\ task[NoWriter] \notin {"sending", "done"} /\ task'[NoWriter] # "sending"
        /\ outcome'[NoWriter] # "closed"
        /\ \A w \in Threads \ {NoWriter} : task'[w] = task[w] /\ outcome'[w] = outcome[w]
    BY <1>1, <1>3 DEF ConnectStep, Dial, MakeReader, StartReader, Goto, End
  <2>2. UNCHANGED <<tail, toCooler>> /\ \A w \in Threads : job'[w] # Garbage
    BY <1>0, <1>1, <1>3 DEF ConnectStep, Dial, MakeReader, StartReader
  <2>. QED
    BY <1>1, <2>1, <2>2 DEF Threads
<1>4. ASSUME NEW w \in Writers, Build(w)
      PROVE  LinesWhole'
  <2>1. PICK r \in Requests : SetFrame(w, r)
    BY <1>4 DEF Build
  <2>2. RefusedBy(values, r.topic, r.value, r.compartment) # "closed"
    BY DEF RefusedBy
  <2>3. /\ task[w] = "idle" /\ task'[w] # "sending" /\ outcome'[w] # "closed"
        /\ \A x \in Threads \ {w} : task'[x] = task[x] /\ outcome'[x] = outcome[x]
    BY <1>1, <1>4, <2>1, <2>2 DEF Build, SetFrame, Goto, End
  <2>. DEFINE frame == [action |-> "SET", topic |-> r.topic, by |-> w,
                words |-> Encode(r.topic, NewValue(values, r.topic, r.value, r.compartment))]
  <2>4. frame # Garbage
    BY DEF Garbage
  <2>5. job' = job \/ job' = [job EXCEPT ![w] = frame]
    BY <2>1 DEF SetFrame
  <2>. HIDE DEF frame
  <2>6. UNCHANGED <<tail, toCooler>> /\ \A x \in Threads : job'[x] # Garbage
    BY <1>1, <1>4, <2>4, <2>5 DEF Build
  <2>. QED
    BY <1>1, <2>3, <2>6 DEF Threads
<1>5. ASSUME NEW w \in Threads, SendStart(w) \/ SendCheck(w)
      PROVE  LinesWhole'
  BY <1>1, <1>5 DEF SendStart, SendCheck, LockFree, Goto, End
<1>6. ASSUME NEW w \in Threads, SendRest(w)
      PROVE  LinesWhole'
  <2>1. /\ \A x \in Threads : job'[x] # Garbage /\ (outcome'[x] = "closed" <=> outcome[x] = "closed")
        /\ \A x \in Threads \ {w} : task'[x] = task[x] /\ task[x] # "sending"
        /\ task'[w] # "sending" /\ outcome[w] # "closed" /\ tail' = {}
    BY <1>0, <1>1, <1>6 DEF SendRest, Sent, Goto, End, OneHolder
  <2>2. CASE \E x \in Threads : outcome[x] = "closed"
    BY <2>1, <2>2
  <2>3. CASE ~(\E x \in Threads : outcome[x] = "closed")
    <3>1. tail = {w} /\ job[w] # Garbage
      BY <1>1, <1>6, <2>1, <2>3 DEF SendRest
    <3>2. toCooler' = toCooler \/ toCooler' = Append(toCooler, job[w])
      BY <1>6, <3>1 DEF SendRest
    <3>3. \A k \in DOMAIN toCooler' : toCooler'[k] # Garbage
      <4>1. \A k \in 1 .. Len(toCooler) : toCooler[k] # Garbage
        BY <1>1, <2>3, LenProperties
      <4>2. /\ DOMAIN Append(toCooler, job[w]) = 1 .. Len(toCooler) + 1
            /\ \A k \in 1 .. Len(toCooler) : Append(toCooler, job[w])[k] = toCooler[k]
            /\ Append(toCooler, job[w])[Len(toCooler) + 1] = job[w]
        BY <1>1, AppendProperties, LenProperties
      <4>3. \A k \in 1 .. Len(toCooler) + 1 : Append(toCooler, job[w])[k] # Garbage
        BY <1>1, <3>1, <4>1, <4>2
      <4>. QED
        BY <1>1, <2>3, <3>2, <4>2, <4>3
    <3>. QED
      BY <2>1, <3>3
  <2>. QED
    BY <2>2, <2>3
<1>7. ASSUME NEW w \in Threads, SendFails(w)
      PROVE  LinesWhole'
  BY <1>1, <1>7 DEF SendFails, End, OneHolder
<1>8. ASSUME NEW c \in Closers, CloseTest(c) \/ CloseStep(c)
      PROVE  LinesWhole'
  BY <1>8 DEF CloseTest, CloseStep, CloseMark, CloseShutdown, CloseSocket, CloseJoin
<1>9. CASE Reset
  BY <1>9 DEF Reset, syncVars
<1>. QED
  BY <1>2, <1>3, <1>4, <1>5, <1>6, <1>7, <1>8, <1>9 DEF SyncNext, SendStep

\* A call of close() past its first line is on its way, or over, for good; only
\* its own steps change where it is.
LEMMA ClosingStays ==
  ASSUME Typed, SyncNext
  PROVE  /\ \A c \in Closers : Closing(c) => Closing(c)'
         /\ SomeoneClosing => SomeoneClosing'
         /\ closed => closed'
<1>. USE DEF sendVars, readerVars
<1>1. closer \in [Closers -> {"idle", "marking", "closing", "joining"} \cup Returned]
  BY DEF Typed, SyncTypeOK, CloseTypeOK
<1>2. ReaderStep => UNCHANGED closer /\ (closed => closed')
  BY DEF ReaderStep, LoopTest, RecvTimesOut, Recv, RecvEnds, FeedLock, FeedFrame, Dispatch,
     CallbackReturns, ReaderMarks, ReaderCloses, OnCloseReturns, allButReader
<1>3. ConnectStep \/ Reset => UNCHANGED <<closer, closed>>
  BY DEF ConnectStep, Dial, MakeReader, StartReader, Reset, syncVars
<1>4. ASSUME NEW w \in Threads, Build(w) \/ SendStep(w)
      PROVE  UNCHANGED <<closer, closed>>
  BY <1>4 DEF Build, SendStep, SendStart, SendCheck, SendRest, SendFails
<1>5. ASSUME NEW d \in Closers, CloseTest(d) \/ CloseStep(d)
      PROVE  (\A c \in Closers : Closing(c) => Closing(c)') /\ (closed => closed')
  BY <1>1, <1>5 DEF CloseTest, CloseStep, CloseMark, CloseShutdown, CloseJoin, Closing
<1>6. UNCHANGED closer => \A c \in Closers : Closing(c) => Closing(c)'
  BY DEF Closing
<1>7. (\A c \in Closers : Closing(c) => Closing(c)') /\ (closed => closed')
  BY <1>2, <1>3, <1>4, <1>5, <1>6 DEF SyncNext, Threads
<1>. QED
  BY <1>7 DEF SomeoneClosing

\* connect() makes its one reader before it sends.
LEMMA StepOneReader ==
  ASSUME Typed, OneReader, SyncNext
  PROVE  OneReader'
<1>. USE DEF OneReader, sendVars, readerVars
<1>1. /\ task \in [Threads -> {"idle", "dialled", "made", "built", "locking", "sending", "done"}]
      /\ NoWriter \in Threads /\ NoWriter \notin Writers
  BY DEF Threads, Typed, SyncTypeOK, SendTypeOK
<1>2. CASE ReaderStep
  BY <1>2 DEF ReaderStep, LoopTest, RecvTimesOut, Recv, RecvEnds, FeedLock, FeedFrame, Dispatch,
     CallbackReturns, ReaderMarks, ReaderCloses, OnCloseReturns, allButReader
<1>3. CASE ConnectStep
  BY <1>1, <1>3 DEF ConnectStep, Dial, MakeReader, StartReader, Goto, End
<1>4. ASSUME NEW w \in Writers, Build(w)
      PROVE  OneReader'
  BY <1>1, <1>4 DEF Build, SetFrame, Goto, End
<1>5. ASSUME NEW w \in Threads, SendStep(w)
      PROVE  OneReader'
  BY <1>1, <1>5 DEF SendStep, SendStart, SendCheck, SendRest, Sent, SendFails, Goto, End
<1>6. ASSUME NEW c \in Closers, CloseTest(c) \/ CloseStep(c)
      PROVE  OneReader'
  BY <1>6 DEF CloseTest, CloseStep, CloseMark, CloseShutdown, CloseJoin
<1>7. CASE Reset
  BY <1>7 DEF Reset, syncVars
<1>. QED
  BY <1>2, <1>3, <1>4, <1>5, <1>6, <1>7 DEF SyncNext

\* _closed, the socket and the calls of close() stay in step.
LEMMA StepClosedBySomeone ==
  ASSUME Typed, OneReader, ClosedBySomeone, SyncNext
  PROVE  ClosedBySomeone'
<1>. USE DEF ClosedBySomeone, sendVars, readerVars, Ended
<1>0. closed => closed'
  BY ClosingStays
<1>1. /\ closer \in [Closers -> {"idle", "marking", "closing", "joining"} \cup Returned]
      /\ SomeoneClosing => SomeoneClosing'
  BY ClosingStays DEF Typed, SyncTypeOK, CloseTypeOK
<1>2. CASE ReaderStep
  <2>1. UNCHANGED closer
    BY <1>2 DEF ReaderStep, LoopTest, RecvTimesOut, Recv, RecvEnds, FeedLock, FeedFrame,
       Dispatch, CallbackReturns, ReaderMarks, ReaderCloses, OnCloseReturns, allButReader
  <2>2. closed' => closed \/ reader' \in Ended
    BY <1>2 DEF ReaderStep, LoopTest, RecvTimesOut, Recv, RecvEnds, FeedLock, FeedFrame,
       Dispatch, CallbackReturns, ReaderMarks, ReaderCloses, OnCloseReturns, allButReader
  <2>3. reader \in Ended => reader' \in Ended
    BY <1>2 DEF ReaderStep, LoopTest, RecvTimesOut, Recv, RecvEnds, FeedLock, FeedFrame,
       Dispatch, CallbackReturns, ReaderMarks, ReaderCloses, OnCloseReturns, allButReader
  <2>4. sock' = "closed" \/ reader' \in Ended => closed'
    BY <1>2 DEF ReaderStep, LoopTest, RecvTimesOut, Recv, RecvEnds, FeedLock, FeedFrame,
       Dispatch, CallbackReturns, ReaderMarks, ReaderCloses, CloseSocket, OnCloseReturns,
       allButReader
  <2>. QED
    BY <1>0, <1>1, <2>1, <2>2, <2>3, <2>4 DEF Closing
<1>3. CASE ConnectStep
  BY <1>1, <1>3 DEF ConnectStep, Dial, MakeReader, StartReader, OneReader, Closing
<1>4. ASSUME NEW w \in Threads, Build(w) \/ SendStep(w)
      PROVE  ClosedBySomeone'
  <2>1. UNCHANGED <<closer, closed, sock, reader>>
    BY <1>4 DEF Build, SendStep, SendStart, SendCheck, SendRest, SendFails
  <2>. QED
    BY <1>1, <2>1 DEF Closing
<1>5. ASSUME NEW c \in Closers, CloseTest(c)
      PROVE  ClosedBySomeone'
  <2>1. UNCHANGED <<closed, sock, reader>>
    BY <1>5 DEF CloseTest
  <2>2. \A d \in Closers : Closing(d)' /\ closer'[d] # "marking" =>
          Closing(d) /\ closer[d] # "marking"
    BY <1>1, <1>5 DEF CloseTest, Closing
  <2>. QED
    BY <1>1, <2>1, <2>2
<1>6. ASSUME NEW c \in Closers, CloseMark(c)
      PROVE  ClosedBySomeone'
  <2>1. closed' /\ Closing(c)'
    BY <1>1, <1>6 DEF CloseMark, Closing
  <2>. QED
    BY <2>1 DEF SomeoneClosing
<1>7. ASSUME NEW c \in Closers, CloseShutdown(c) \/ CloseJoin(c)
      PROVE  ClosedBySomeone'
  <2>1. UNCHANGED <<closed, reader>> /\ (sock' = sock \/ CloseShutdown(c))
    BY <1>7 DEF CloseShutdown, CloseJoin
  <2>2. closed
    BY <1>7 DEF CloseShutdown, CloseJoin, Closing
  <2>. QED
    BY <1>1, <2>1, <2>2
<1>8. CASE Reset
  BY <1>1, <1>8 DEF Reset, syncVars, Closing
<1>. QED
  BY <1>2, <1>3, <1>4, <1>5, <1>6, <1>7, <1>8 DEF SyncNext, CloseStep, Threads

\* The error of the reader and close_reason are honest.
LEMMA StepErrorHonest ==
  ASSUME Typed, OneReader, ClosedBySomeone, ErrorHonest, SyncNext
  PROVE  ErrorHonest'
<1>. USE DEF ErrorHonest, Ended, sendVars, readerVars
<1>0. SomeoneClosing => SomeoneClosing'
  BY ClosingStays
<1>1. line \in {"eof", "reset"} => line' \in {"eof", "reset"}
  BY DEF SyncNext, ReaderStep, LoopTest, RecvTimesOut, Recv, RecvEnds, FeedLock, FeedFrame,
     Dispatch, CallbackReturns, ReaderMarks, ReaderCloses, CloseSocket, OnCloseReturns,
     allButReader, wireVars, ConnectStep, Dial, MakeReader, StartReader, Build, SendStep,
     SendCheck, SendStart, SendRest, SendFails, CloseTest, CloseStep, CloseMark, CloseShutdown,
     CloseJoin, Reset
<1>2. CASE LoopTest
  BY <1>0, <1>2 DEF LoopTest, allButReader, ClosedBySomeone
<1>3. CASE RecvEnds
  <2>1. closed => SomeoneClosing
    BY <1>3 DEF RecvEnds, ClosedBySomeone
  <2>2. error' # "none" => line \in {"eof", "reset"}
    BY <1>3 DEF RecvEnds, ClosedBySomeone
  <2>3. error' = "none" => closed
    BY <1>3 DEF RecvEnds
  <2>. QED
    BY <1>0, <1>1, <1>3, <2>1, <2>2, <2>3 DEF RecvEnds
<1>4. CASE ReaderMarks
  BY <1>0, <1>1, <1>4 DEF ReaderMarks
<1>5. CASE Recv \/ RecvTimesOut \/ FeedLock \/ FeedFrame \/ Dispatch \/ CallbackReturns
  BY <1>5 DEF RecvTimesOut, Recv, FeedLock, FeedFrame, Dispatch, CallbackReturns, allButReader
<1>6. CASE ReaderCloses \/ OnCloseReturns
  BY <1>0, <1>1, <1>6 DEF ReaderCloses, OnCloseReturns, allButReader
<1>7. CASE ConnectStep
  BY <1>0, <1>1, <1>7 DEF ConnectStep, Dial, MakeReader, StartReader, OneReader
<1>8. CASE Reset \/ (\E w \in Threads : Build(w) \/ SendStep(w))
           \/ (\E c \in Closers : CloseTest(c) \/ CloseStep(c))
  <2>1. UNCHANGED <<reader, error, closeReason>>
    BY <1>8 DEF Reset, syncVars, Build, SendStep, SendStart, SendCheck, SendRest, SendFails,
       CloseTest, CloseStep, CloseMark, CloseShutdown, CloseJoin
  <2>. QED
    BY <1>0, <1>1, <2>1
<1>. QED
  BY <1>2, <1>3, <1>4, <1>5, <1>6, <1>7, <1>8 DEF SyncNext, ReaderStep, Threads

\* Once a call of close() has come back from its join, the reader has nothing to
\* deliver.
LEMMA StepReaderGone ==
  ASSUME Typed, OneReader, ClosedBySomeone, ReaderGone, SyncNext
  PROVE  ReaderGone'
<1>. USE DEF ReaderGone, Ended, sendVars, readerVars
<1>1. closer \in [Closers -> {"idle", "marking", "closing", "joining"} \cup Returned]
  BY DEF Typed, SyncTypeOK, CloseTypeOK
<1>2. \A c \in Closers : closer[c] = "detached" => closed
  BY DEF ClosedBySomeone, Closing
<1>3. CASE ReaderStep
  <2>1. UNCHANGED closer
    BY <1>3 DEF ReaderStep, LoopTest, RecvTimesOut, Recv, RecvEnds, FeedLock, FeedFrame,
       Dispatch, CallbackReturns, ReaderMarks, ReaderCloses, OnCloseReturns, allButReader
  <2>2. reader # "done"
    BY <1>3 DEF ReaderStep, LoopTest, RecvTimesOut, Recv, RecvEnds, FeedLock, FeedFrame,
       Dispatch, CallbackReturns, ReaderMarks, ReaderCloses, OnCloseReturns
  <2>3. /\ closed /\ reader = "loop" => reader' = "ending"
        /\ reader \in {"ending", "marked", "onclose", "none", "made"} => reader' \in Ended
    BY <1>3 DEF ReaderStep, LoopTest, RecvTimesOut, Recv, RecvEnds, FeedLock, FeedFrame,
       Dispatch, CallbackReturns, ReaderMarks, ReaderCloses, OnCloseReturns
  <2>. QED
    BY <1>2, <2>1, <2>2, <2>3
<1>4. CASE ConnectStep
  BY <1>4 DEF ConnectStep, Dial, MakeReader, StartReader, OneReader
<1>5. CASE Reset \/ (\E w \in Threads : Build(w) \/ SendStep(w))
  <2>1. UNCHANGED <<reader, closer>>
    BY <1>5 DEF Reset, syncVars, Build, SendStep, SendStart, SendCheck, SendRest, SendFails
  <2>. QED
    BY <2>1
<1>6. ASSUME NEW c \in Closers, CloseTest(c) \/ CloseStep(c)
      PROVE  ReaderGone'
  BY <1>1, <1>6 DEF CloseTest, CloseStep, CloseMark, CloseShutdown, CloseJoin
<1>. QED
  BY <1>3, <1>4, <1>5, <1>6 DEF SyncNext, Threads

-----------------------------------------------------------------------------
(* The callbacks *)

\* CallbacksAgreeWithState in terms of Latest.
LEMMA AgreeByLatest ==
  CallbacksAgreeWithState <=> \A t \in Topics : values[t] = Latest(events, t, seen[t])
  BY DEF CallbacksAgreeWithState, Latest, Held

\* What does not touch the three of them keeps them in step.
LEMMA CallbacksKept ==
  ASSUME CallbacksAgreeWithState, UNCHANGED <<values, events, seen>>
  PROVE  CallbacksAgreeWithState'
<1>1. \A t \in Topics : values'[t] = Latest(events', t, seen'[t])
  BY AgreeByLatest
<1>. QED
  BY <1>1 DEF CallbacksAgreeWithState, Latest, Held

\* A frame fed and an event handed over keep the callbacks in step with the values.
LEMMA StepCallbacksAgree ==
  ASSUME Typed, CallbacksAgreeWithState, SyncNext
  PROVE  CallbacksAgreeWithState'
<1>. DEFINE Agree == \A t \in Topics : values[t] = Latest(events, t, seen[t])
<1>0. /\ values \in [Topics -> Seq(Int)] /\ seen \in [Topics -> Seq(Int)]
      /\ events \in Seq(Event) /\ inbox \in Seq(ToClient)
  BY DEF Typed, SyncTypeOK, ReaderTypeOK, Event
<1>1. Agree
  BY AgreeByLatest
<1>2. SUFFICES \A t \in Topics : values'[t] = Latest(events', t, seen'[t])
  BY DEF CallbacksAgreeWithState, Latest, Held
<1>3. CASE UNCHANGED <<values, events, seen>>
  BY <1>1, <1>3
<1>4. CASE FeedFrame
  <2>. DEFINE f == Head(inbox)
              v == IF f.action = "PUBLISH" THEN Decode(f.topic, f.words) ELSE <<>>
              e == [kind |-> f.action, topic |-> f.topic, value |-> v]
  <2>1. f \in ToClient
    BY <1>0, <1>4, HeadTailProperties DEF FeedFrame, Typed, ChunkNotEmpty
  <2>2. v \in Seq(Int)
    BY <2>1, DecodeType, EmptySeq DEF ToClient
  <2>3. /\ values' = IF f.action = "PUBLISH" THEN [values EXCEPT ![f.topic] = v] ELSE values
        /\ events' = Append(events, e) /\ seen' = seen
    BY <1>4 DEF FeedFrame
  <2>. HIDE DEF v
  <2>4. e \in Event /\ e.kind = f.action /\ e.topic = f.topic /\ e.value = v
    BY <2>1, <2>2 DEF ToClient, Event
  <2>. HIDE DEF e
  <2>5. ASSUME NEW t \in Topics PROVE values'[t] = Latest(events', t, seen'[t])
    <3>1. Latest(events', t, seen'[t]) =
            IF e.kind = "PUBLISH" /\ e.topic = t THEN e.value ELSE Latest(events, t, seen[t])
      BY <1>0, <2>3, <2>4, LatestAppend
    <3>2. values'[t] = IF f.action = "PUBLISH" /\ f.topic = t THEN v ELSE values[t]
      BY <1>0, <2>3
    <3>. QED
      BY <1>1, <2>4, <3>1, <3>2
  <2>. QED
    BY <2>5
<1>5. CASE Dispatch /\ events # <<>>
  <2>. DEFINE e == Head(events)
  <2>1. /\ UNCHANGED values /\ events' = Tail(events)
        /\ seen' = IF e.kind = "PUBLISH" THEN [seen EXCEPT ![e.topic] = e.value] ELSE seen
    BY <1>5 DEF Dispatch
  <2>2. e \in Event
    BY <1>0, <1>5, HeadTailProperties
  <2>3. ASSUME NEW t \in Topics PROVE values'[t] = Latest(events', t, seen'[t])
    <3>1. seen'[t] = IF e.kind = "PUBLISH" /\ e.topic = t THEN e.value ELSE seen[t]
      BY <1>0, <2>1
    <3>2. Latest(events, t, seen[t]) = Latest(Tail(events), t, seen'[t])
      BY <1>0, <1>5, <3>1, LatestTail
    <3>. QED
      BY <1>1, <2>1, <3>2
  <2>. QED
    BY <2>3
<1>6. CASE ReaderStep /\ ~FeedFrame /\ ~(Dispatch /\ events # <<>>)
  <2>1. UNCHANGED <<values, events, seen>>
    BY <1>6 DEF ReaderStep, LoopTest, RecvTimesOut, Recv, RecvEnds, FeedLock, Dispatch,
       CallbackReturns, ReaderMarks, ReaderCloses, OnCloseReturns, allButReader, chunkVars
  <2>. QED
    BY <1>3, <2>1
<1>7. CASE ~ReaderStep
  <2>1. UNCHANGED <<values, events, seen>>
    BY <1>7 DEF SyncNext, ConnectStep, Dial, MakeReader, StartReader, Reset, syncVars, readerVars,
       chunkVars, Build, SendStep, SendStart, SendCheck, SendRest, SendFails, CloseTest, CloseStep,
       CloseMark, CloseShutdown, CloseJoin
  <2>. QED
    BY <1>3, <2>1
<1>. QED
  BY <1>4, <1>5, <1>6, <1>7

-----------------------------------------------------------------------------
(* The theorems *)

\* The inductive invariant: types, lock, lines, and how the connection ends.
SyncInv ==
  /\ Typed /\ OneHolder /\ LinesWhole
  /\ OneReader /\ ClosedBySomeone /\ ErrorHonest /\ ReaderGone
  /\ CallbacksAgreeWithState

\* The invariant holds initially.
LEMMA InitSyncInv == Init => SyncInv
<1>. SUFFICES ASSUME Init PROVE SyncInv
  OBVIOUS
<1>. USE DEF Init, SyncInit, WireInit
<1>1. OneHolder /\ OneReader /\ ErrorHonest
  BY DEF OneHolder, OneReader, ErrorHonest, Ended, Threads
<1>2. ClosedBySomeone /\ ReaderGone
  BY DEF ClosedBySomeone, SomeoneClosing, Closing, ReaderGone, Ended
<1>3. LinesWhole
  BY EmptySeq DEF LinesWhole, SubscribeFrame, Garbage
<1>4. CallbacksAgreeWithState
  <2>1. \A t : Held(<<>>, t) = {}
    BY EmptySeq, LenProperties DEF Held
  <2>2. \A t \in Topics : values[t] = Latest(events, t, seen[t])
    BY <2>1 DEF Latest
  <2>. QED
    BY <2>2, AgreeByLatest
<1>. QED
  BY InitTyped, <1>1, <1>2, <1>3, <1>4 DEF SyncInv

\* Every step keeps it.
LEMMA StepSyncInv == SyncInv /\ [Next]_vars => SyncInv'
<1>1. ASSUME SyncInv, ClientStep PROVE SyncInv'
  BY <1>1, StepTyped, StepOneHolder, StepLinesWhole, StepOneReader, StepClosedBySomeone,
     StepErrorHonest, StepReaderGone, StepCallbacksAgree DEF SyncInv, Next, ClientStep
<1>2. ASSUME SyncInv, CoolerStep PROVE SyncInv'
  <2>1. /\ UNCHANGED syncVars
        /\ \A k \in DOMAIN toCooler' : \E j \in DOMAIN toCooler : toCooler'[k] = toCooler[j]
        /\ line \in {"eof", "reset"} => line' \in {"eof", "reset"}
    BY <1>2, CoolerTakes DEF SyncInv
  <2>. USE DEF syncVars, readerVars, sendVars, chunkVars
  <2>2. OneHolder' /\ OneReader' /\ ClosedBySomeone' /\ ErrorHonest' /\ ReaderGone'
    BY <1>2, <2>1 DEF SyncInv, OneHolder, OneReader, ClosedBySomeone, SomeoneClosing, Closing,
       ErrorHonest, ReaderGone
  <2>3. LinesWhole'
    BY <1>2, <2>1 DEF SyncInv, LinesWhole
  <2>4. CallbacksAgreeWithState'
    BY <1>2, <2>1, CallbacksKept DEF SyncInv
  <2>. QED
    BY <1>2, <2>2, <2>3, <2>4, StepTyped DEF SyncInv, Next
<1>3. ASSUME SyncInv, UNCHANGED vars PROVE SyncInv'
  <2>. USE DEF vars, wireVars, syncVars, readerVars, sendVars, chunkVars
  <2>1. OneHolder' /\ LinesWhole' /\ OneReader'
    BY <1>3 DEF SyncInv, OneHolder, LinesWhole, OneReader
  <2>2. ClosedBySomeone' /\ ErrorHonest' /\ ReaderGone'
    BY <1>3 DEF SyncInv, ClosedBySomeone, SomeoneClosing, Closing, ErrorHonest, ReaderGone
  <2>3. CallbacksAgreeWithState'
    BY <1>3, CallbacksKept DEF SyncInv
  <2>. QED
    BY <1>3, <2>1, <2>2, <2>3, StepTyped DEF SyncInv
<1>. QED
  BY <1>1, <1>2, <1>3 DEF Next

\* The inductive invariant of the client holds in every reachable state.
THEOREM SyncInvariant == Spec => []SyncInv
  BY InitSyncInv, StepSyncInv, PTL DEF Spec

\* The lock keeps the lines of two sends apart, however many threads send, until
\* a send raises half-way through its line.
THEOREM SyncLinesApart == Spec => []LinesNotMixed
<1>1. SyncInv => LinesNotMixed
  <2>1. SyncInv => tail \subseteq Threads
    BY DEF SyncInv, Typed, SyncTypeOK, SendTypeOK
  <2>. QED
    BY <2>1 DEF SyncInv, OneHolder, LinesWhole, LinesNotMixed
<1>. QED
  BY SyncInvariant, <1>1, PTL

\* No callback is lost or called out of order, wherever the connection ends.
THEOREM SyncCallbacksAgree == Spec => []CallbacksAgreeWithState
<1>1. SyncInv => CallbacksAgreeWithState
  BY DEF SyncInv
<1>. QED
  BY SyncInvariant, <1>1, PTL

\* on_close gets an error only if the connection ended by itself, and none only if
\* some close() was called, from whatever thread or callback.
THEOREM SyncCloseReason == Spec => []CloseReasonHonest
<1>1. SyncInv => CloseReasonHonest
  BY DEF SyncInv, ErrorHonest, Ended, SomeoneClosing, CloseReasonHonest
<1>. QED
  BY SyncInvariant, <1>1, PTL

\* After a close() that joined the reader or found none, no call of on_event runs
\* or starts, no event is added and no value changes, however the threads are
\* scheduled; on_close may still be called.
THEOREM SyncQuietAfterClose == Spec => NothingAfterClose
<1>. DEFINE Quiet == (\E c \in Closers \ InCallback : closer[c] \in {"joined", "detached"}) =>
                       /\ reader' # "calling"
                       /\ UNCHANGED <<inbox, events, values, seen>>
<1>1. ASSUME SyncInv, [Next]_vars PROVE [Quiet]_vars
  <2>. USE DEF readerVars, sendVars, chunkVars, syncVars
  <2>1. SUFFICES ASSUME Next, NEW c \in Closers \ InCallback, closer[c] \in {"joined", "detached"}
                 PROVE  reader' # "calling" /\ UNCHANGED <<inbox, events, values, seen>>
    BY <1>1 DEF vars, wireVars
  <2>2. reader \in Ended \cup {"none", "made", "loop", "ending"}
    BY <1>1, <2>1 DEF SyncInv, ReaderGone, Ended
  <2>3. CASE ClientStep /\ ReaderStep
    BY <2>2, <2>3 DEF ReaderStep, LoopTest, RecvTimesOut, Recv, RecvEnds, FeedLock, FeedFrame,
       Dispatch, CallbackReturns, ReaderMarks, ReaderCloses, OnCloseReturns, allButReader, Ended
  <2>4. CASE ClientStep /\ ~ReaderStep
    BY <2>2, <2>4 DEF Ended, ClientStep, SyncNext, ConnectStep, Dial, MakeReader, StartReader,
       Reset, Build, SendStep, SendStart, SendCheck, SendRest, SendFails, CloseTest, CloseStep, CloseMark,
       CloseShutdown, CloseJoin
  <2>5. CASE CoolerStep
    BY <2>2, <2>5 DEF CoolerStep, Ended
  <2>. QED
    BY <2>1, <2>3, <2>4, <2>5 DEF Next
<1>2. Spec => [][Quiet]_vars
  BY SyncInvariant, <1>1, PTL DEF Spec
<1>. QED
  BY <1>2 DEF NothingAfterClose
=============================================================================
