---------------------------- MODULE CommandProofs ----------------------------
(***************************************************************************)
(* What a command tells of the cooler, for every request, every behaviour  *)
(* of the cooler and every schedule of the two threads.                    *)
(***************************************************************************)
EXTENDS CommandSystem, SyncClientProofs

USE CoolerAssumption, SyncAssumption

-----------------------------------------------------------------------------
(* Types *)

\* The main thread makes one write and one call of close().
LEMMA OneWriter ==
  /\ Writers = {Write} /\ Closers = {Shut} /\ InCallback = {}
  /\ Write # NoWriter /\ Threads = {Write, NoWriter}
<1>1. PICK w \in Writers : Writers = {w}
  BY CommandAssumption
<1>2. PICK c \in Closers : Closers = {c}
  BY CommandAssumption
<1>3. Write = w /\ Shut = c
  BY <1>1, <1>2 DEF Write, Shut
<1>. QED
  BY <1>1, <1>2, <1>3, CommandAssumption DEF Threads

\* Everything but the building of the frame is a step of the client, or none.
LEMMA CommandSteps ==
  ASSUME CommandNext
  PROVE  SyncNext \/ UNCHANGED <<wireVars, syncVars>> \/ Prepare
<1>. USE DEF MainOnly
<1>1. CASE MainStep
  <2>1. CASE Begin \/ Connected \/ WatchEnds \/ State \/ ClearEvents \/ Poll \/ Exited
    BY <2>1 DEF Begin, Connected, WatchEnds, State, ClearEvents, Poll, Exited
  <2>2. CASE Connecting
    <3>1. NoWriter \in Threads
      BY DEF Threads
    <3>. QED
      BY <2>2, <3>1 DEF Connecting, SyncNext, ConnectStep
  <2>3. CASE Sending
    BY <2>3, OneWriter DEF Sending, SyncNext
  <2>4. CASE Closing
    BY <2>4, OneWriter DEF Closing, SyncNext
  <2>. QED
    BY <1>1, <2>1, <2>2, <2>3, <2>4 DEF MainStep
<1>2. CASE Interrupt \/ DeadlinePasses
  BY <1>2 DEF Interrupt, DeadlinePasses
<1>3. CASE ReaderRuns
  BY <1>3 DEF ReaderRuns, EventArrives, SyncNext, ReaderStep
<1>4. CASE Reset
  BY <1>4 DEF SyncNext
<1>. QED
  BY <1>1, <1>2, <1>3, <1>4 DEF CommandNext

\* set_frame() leaves a frame and what its expectation expects, or raises.
LEMMA PrepareType ==
  ASSUME Typed, CommandTypeOK, Prepare
  PROVE  /\ SendTypeOK' /\ BurstBounded'
         /\ expected' \in Seq(Int)
<1>1. request \in Requests /\ SetFrame(Write, request) /\ Write \in Writers
  BY OneWriter DEF CommandTypeOK, Prepare
<1>2. SendTypeOK' /\ BurstBounded'
  BY <1>1, SetFrameType DEF Prepare
<1>3. expected' \in Seq(Int)
  <2>. DEFINE r == request
              raised == RefusedBy(values, r.topic, r.value, r.compartment)
  <2>1. r.topic \in Topics /\ r.value \in Int /\ r.compartment \in Nat
        /\ values \in [Topics -> Seq(Int)] /\ DOMAIN task = Threads
    BY <1>1 DEF Typed, SyncTypeOK, ReaderTypeOK, SendTypeOK
  <2>2. CASE raised = "none"
    <3>1. Expected(values, r.topic, r.value, r.compartment) \in Seq(Int)
      BY <2>1, <2>2, NewValueType
    <3>. QED
      BY <3>1 DEF Prepare, CommandTypeOK
  <2>3. CASE raised # "none"
    <3>1. task'[Write] = "done"
      BY <1>1, <2>1, <2>3, OneWriter DEF SetFrame, End
    <3>. QED
      BY <3>1 DEF Prepare, CommandTypeOK
  <2>. QED
    BY <2>2, <2>3
<1>. QED
  BY <1>2, <1>3

\* Every step of a command, its client and the cooler keeps the types of the
\* latter two.
LEMMA StepTyped == Typed /\ CommandTypeOK /\ [Next]_vars => Typed'
<1>1. ASSUME Typed, CommandTypeOK, Prepare, UNCHANGED coolerVars PROVE Typed'
  BY <1>1, PrepareType, TypesKept DEF Prepare, Typed, SyncTypeOK
<1>2. ASSUME Typed, CommandTypeOK, CommandNext, UNCHANGED coolerVars PROVE Typed'
  BY <1>1, <1>2, CommandSteps, ClientTyped
<1>. QED
  BY <1>2, ClientTyped DEF Next, vars

\* What the reader hands to on_event() is an event.
LEMMA HeadEvent ==
  ASSUME Typed, events # <<>>
  PROVE  Head(events) \in Event
  BY HeadTailProperties DEF Typed, SyncTypeOK, ReaderTypeOK

\* Every step keeps the types of the command.
LEMMA StepCommandType == Typed /\ CommandTypeOK /\ [Next]_vars => CommandTypeOK'
<1>. SUFFICES ASSUME Typed, CommandTypeOK, [Next]_vars PROVE CommandTypeOK'
  OBVIOUS
<1>. USE DEF CommandTypeOK, MainOnly, Goes, Exits, arguments, progress
<1>1. CASE MainStep
  <2>1. CASE Begin \/ Connected \/ WatchEnds \/ State \/ Exited
    BY <2>1 DEF Begin, Connected, WatchEnds, State, Exited
  <2>2. CASE Connecting \/ Closing
    BY <2>2 DEF Connecting, Closing, commandVars
  <2>3. CASE Prepare
    BY <2>3, PrepareType DEF Prepare
  <2>4. CASE ClearEvents
    BY <2>4, EmptySeq DEF ClearEvents
  <2>5. CASE Sending
    BY <2>5 DEF Sending
  <2>6. CASE Poll
    BY <2>6, EmptySeq DEF Poll, FirstAnswer, Verdict
  <2>. QED
    BY <1>1, <2>1, <2>2, <2>3, <2>4, <2>5, <2>6 DEF MainStep
<1>2. CASE Interrupt \/ DeadlinePasses
  BY <1>2 DEF Interrupt, DeadlinePasses
<1>3. CASE EventArrives
  <2>1. CASE UNCHANGED <<received, arrived>>
    BY <1>3, <2>1 DEF EventArrives
  <2>2. CASE ~UNCHANGED <<received, arrived>>
    <3>1. /\ events # <<>> /\ Head(events) \in Event
          /\ received' = Append(received, Head(events))
          /\ arrived' = Append(arrived, Head(events))
      BY <1>3, <2>2, HeadEvent DEF EventArrives
    <3>2. \A es \in Seq(Event) : Append(es, Head(events)) \in Seq(Event)
      BY <3>1, AppendProperties
    <3>. QED
      BY <1>3, <3>1, <3>2 DEF EventArrives
  <2>. QED
    BY <2>1, <2>2
<1>4. CASE UNCHANGED commandVars
  BY <1>4 DEF commandVars
<1>. QED
  BY <1>1, <1>2, <1>3, <1>4 DEF Next, CommandNext, ReaderRuns, vars

\* Every reachable state of a command has its type.
THEOREM CommandTypeCorrect == Spec => []TypeOK
<1>1. Init => Typed /\ CommandTypeOK
  BY InitTyped, EmptySeq DEF Init, CommandInit, CommandTypeOK
<1>2. (Typed /\ CommandTypeOK) /\ [Next]_vars => (Typed /\ CommandTypeOK)'
  BY StepTyped, StepCommandType
<1>3. Typed /\ CommandTypeOK => TypeOK
  BY DEF Typed, TypeOK
<1>. QED
  BY <1>1, <1>2, <1>3, PTL DEF Spec

-----------------------------------------------------------------------------
(* The SET on its way *)

\* A write that was asked for and confirmed with --yes.
Wanted == command = "write" /\ yes

\* How far the main thread is with its send(), and how it got there.
Placed ==
  /\ step \notin {"closing", "exited"} => code = -1
  /\ code \in {3, 4} => Wanted
  /\ step \in {"start", "connecting", "open"} => task[Write] = "idle"
  /\ step = "clearing" => task[Write] = "built"
  /\ step = "sending" => task[Write] \in {"built", "locking", "sending"}
  /\ step = "polling" => task[Write] = "done"
  /\ step \in {"closing", "exited"} => task[Write] \in {"idle", "built", "done"}
  /\ step \in {"clearing", "sending", "polling"} => Wanted

\* The SET is written once, by a command that may, and decided on once.
SetTraced ==
  /\ \A w \in Threads : job[w].action = "SET" => w = Write /\ job[w].by = Write
  /\ fate[Write] # "none" => task[Write] = "done"
  /\ fate[Write] # "none" \/ Write \in tail => Wanted
  /\ \A k \in DOMAIN toCooler : toCooler[k].action = "SET" =>
       /\ toCooler[k].by = Write /\ task[Write] = "done" /\ fate[Write] = "none" /\ Wanted
       /\ \A j \in DOMAIN toCooler : toCooler[j].action = "SET" => j = k
  /\ \A k \in DOMAIN applying : k = 1 /\ applying[k].by = Write /\ fate[Write] = "accepted"

\* What follows of the types.
LEMMA SendTyped ==
  ASSUME Typed
  PROVE  /\ toCooler \in Seq(ToCooler) /\ applying \in Seq(ToCooler)
         /\ task \in [Threads -> {"idle", "dialled", "made", "built", "locking", "sending", "done"}]
         /\ job \in [Threads -> ToCooler] /\ DOMAIN outcome = Threads /\ DOMAIN fate = Writers
  BY DEF Typed, CoolerTypeOK, SyncTypeOK, SendTypeOK

\* A SET in the channel after a step was there before it.
NoNewSet == \A k \in DOMAIN toCooler' : toCooler'[k].action = "SET" =>
              k \in DOMAIN toCooler /\ toCooler'[k] = toCooler[k]

\* Only the write of the command itself builds a SET, and only its send() has to
\* do with it.
LEMMA OthersSendNoSet ==
  ASSUME Typed, SetTraced, CommandNext, ~Prepare, ~Sending
  PROVE  /\ task'[Write] = task[Write]
         /\ \A w \in Threads : job'[w].action = "SET" => job'[w] = job[w]
         /\ Write \in tail' => Write \in tail
         /\ NoNewSet
<1>. DEFINE Goal == /\ task'[Write] = task[Write]
                    /\ \A w \in Threads : job'[w].action = "SET" => job'[w] = job[w]
                    /\ Write \in tail' => Write \in tail
                    /\ NoNewSet
<1>. USE OneWriter, SendTyped
<1>1. UNCHANGED <<toCooler, task, job, tail>> => Goal
  BY DEF NoNewSet
<1>2. CASE Dial \/ MakeReader
  BY <1>2 DEF Dial, MakeReader, Goto, End, wireVars, NoNewSet
<1>3. CASE StartReader
  BY <1>3 DEF StartReader, Goto, End, wireVars, NoNewSet, SubscribeFrame
<1>4. CASE SendCheck(NoWriter) \/ SendStart(NoWriter) \/ SendFails(NoWriter)
  BY <1>4 DEF SendCheck, SendStart, SendFails, Goto, End, wireVars, NoNewSet
<1>5. CASE SendRest(NoWriter)
  <2>. DEFINE g == IF tail = {NoWriter} THEN job[NoWriter] ELSE Garbage
  <2>1. Garbage \in ToCooler /\ Garbage.action # "SET"
    BY EmptySeq DEF Garbage, ToCooler, Topics
  <2>2. g \in ToCooler /\ g.action # "SET"
    BY <2>1 DEF SetTraced
  <2>3. toCooler' = toCooler \/ toCooler' = Append(toCooler, g)
    BY <1>5 DEF SendRest
  <2>. HIDE DEF g
  <2>4. /\ DOMAIN Append(toCooler, g) = DOMAIN toCooler \cup {Len(toCooler) + 1}
        /\ Append(toCooler, g)[Len(toCooler) + 1] = g
        /\ \A k \in DOMAIN toCooler : Append(toCooler, g)[k] = toCooler[k]
    BY <2>2, AppendElements
  <2>5. Sent(NoWriter) /\ tail' = {}
    BY <1>5 DEF SendRest
  <2>6. task'[Write] = task[Write]
    BY <2>5 DEF Sent, Goto, End
  <2>7. \A w \in Threads : job'[w].action = "SET" => job'[w] = job[w]
    BY <2>5 DEF Sent, SubscribeFrame
  <2>8. NoNewSet
    BY <2>2, <2>3, <2>4 DEF NoNewSet
  <2>. QED
    BY <2>5, <2>6, <2>7, <2>8
<1>6. CASE Reset
  BY <1>6, EmptySeq DEF Reset, syncVars, sendVars, NoNewSet
<1>7. CASE MainStep
  <2>1. CASE Begin \/ Connected \/ WatchEnds \/ State \/ ClearEvents \/ Poll \/ Exited
    BY <1>1, <2>1 DEF Begin, Connected, WatchEnds, State, ClearEvents, Poll, Exited, MainOnly,
       wireVars, syncVars, sendVars
  <2>2. CASE Connecting
    BY <1>2, <1>3, <1>4, <1>5, <2>2 DEF Connecting, SendStep
  <2>3. CASE Closing
    BY <1>1, <2>3 DEF Closing, CloseTest, CloseStep, CloseMark, CloseShutdown, CloseSocket,
       CloseJoin, wireVars, sendVars
  <2>. QED
    BY <1>7, <2>1, <2>2, <2>3 DEF MainStep
<1>8. CASE Interrupt \/ DeadlinePasses
  BY <1>1, <1>8 DEF Interrupt, DeadlinePasses, MainOnly, wireVars, syncVars, sendVars
<1>9. CASE ReaderStep
  BY <1>1, <1>9 DEF ReaderStep, LoopTest, RecvTimesOut, Recv, RecvEnds, FeedLock, FeedFrame,
     Dispatch, CallbackReturns, ReaderMarks, ReaderCloses, CloseSocket, OnCloseReturns,
     allButReader, wireVars, sendVars
<1>. QED
  BY <1>6, <1>7, <1>8, <1>9 DEF CommandNext, ReaderRuns, EventArrives, ReaderStep

\* Nobody changes the arguments.
LEMMA ArgumentsFixed ==
  ASSUME CommandNext
  PROVE  UNCHANGED <<command, request, yes>>
<1>. USE DEF MainOnly, arguments, commandVars
<1>1. MainStep => UNCHANGED <<command, request, yes>>
  BY DEF MainStep, Begin, Connecting, Connected, WatchEnds, State, Prepare, ClearEvents, Sending,
     Poll, Closing, Exited
<1>2. Interrupt \/ DeadlinePasses \/ ReaderRuns => UNCHANGED <<command, request, yes>>
  BY DEF Interrupt, DeadlinePasses, ReaderRuns, EventArrives
<1>. QED
  BY <1>1, <1>2 DEF CommandNext

\* What send() does to the thread that calls it.
LEMMA SendMoves ==
  ASSUME Typed, Sending
  PROVE  /\ step = "sending"
         /\ UNCHANGED job
         /\ task'[Write] \in {"locking", "sending", "done"}
         /\ \A w \in Threads : w # Write => task'[w] = task[w]
         /\ IF task'[Write] # "done" THEN UNCHANGED <<step, code>>
            ELSE step' \in {"polling", "closing"} /\ IF step' = "polling" THEN code' = code
                                                                        ELSE code' = 1
         /\ UNCHANGED <<expected, received, arrived, late>>
         /\ \/ toCooler' = toCooler
            \/ /\ task'[Write] = "done"
               /\ toCooler' = Append(toCooler, job[Write]) \/ toCooler' = Append(toCooler, Garbage)
<1>. USE OneWriter, SendTyped DEF Sending, Goes, Exits, progress, wireVars
<1>1. CASE SendCheck(Write)
  BY <1>1 DEF SendCheck, Goto, End
<1>2. CASE SendStart(Write)
  BY <1>2 DEF SendStart, Goto
<1>3. CASE SendRest(Write)
  BY <1>3 DEF SendRest, Sent, End
<1>4. CASE SendFails(Write)
  BY <1>4 DEF SendFails, End
<1>. QED
  BY <1>1, <1>2, <1>3, <1>4 DEF SendStep

\* What building the frame does to it.
LEMMA PrepareMoves ==
  ASSUME Typed, CommandTypeOK, Prepare
  PROVE  /\ step = "open" /\ command = "write"
         /\ \A w \in Threads : w # Write => job'[w] = job[w]
         /\ \/ task'[Write] = "done" /\ UNCHANGED job /\ step' = "closing" /\ code' = 1
            \/ /\ task'[Write] = "built" /\ job'[Write].by = Write
               /\ IF yes THEN step' = "clearing" /\ UNCHANGED code
                         ELSE step' = "closing" /\ code' = 2
         /\ UNCHANGED <<toCooler, tail>>
  BY OneWriter, SendTyped DEF Prepare, SetFrame, Goto, End, Goes, Exits, wireVars

\* The main thread keeps its place.
LEMMA StepPlaced ==
  ASSUME Typed, CommandTypeOK, Placed, SetTraced, CommandNext
  PROVE  Placed'
<1>. USE DEF Placed, Wanted
<1>0. UNCHANGED <<command, yes>>
  BY ArgumentsFixed
<1>1. CASE Prepare
  BY <1>0, <1>1, PrepareMoves
<1>2. CASE Sending
  BY <1>0, <1>2, SendMoves
<1>3. CASE ~Prepare /\ ~Sending
  <2>1. task'[Write] = task[Write]
    BY <1>3, OthersSendNoSet
  <2>. USE <1>0, <2>1 DEF Goes, Exits, MainOnly
  <2>2. CASE MainStep
    <3>1. CASE Begin \/ Connected \/ WatchEnds \/ State
      BY <3>1 DEF Begin, Connected, WatchEnds, State
    <3>2. CASE Connecting \/ Closing
      BY <3>2 DEF Connecting, Closing, commandVars
    <3>3. CASE ClearEvents \/ Poll
      BY <3>3 DEF ClearEvents, Poll, FirstAnswer, Verdict
    <3>4. CASE Exited
      BY <3>4 DEF Exited
    <3>. QED
      BY <1>3, <2>2, <3>1, <3>2, <3>3, <3>4 DEF MainStep
  <2>3. CASE Interrupt \/ DeadlinePasses
    BY <2>3 DEF Interrupt, DeadlinePasses
  <2>4. CASE ReaderRuns \/ UNCHANGED commandVars
    BY <2>4 DEF ReaderRuns, EventArrives, commandVars
  <2>. QED
    BY <2>2, <2>3, <2>4 DEF CommandNext
<1>. QED
  BY <1>1, <1>2, <1>3

\* A step of the command keeps track of the SET.
LEMMA CommandSetTraced ==
  ASSUME Typed, CommandTypeOK, Placed, SetTraced, CommandNext, UNCHANGED coolerVars
  PROVE  SetTraced'
<1>. USE OneWriter, SendTyped DEF coolerVars, Wanted
<1>0. UNCHANGED <<command, yes, fate, applying>>
  BY ArgumentsFixed
<1>1. CASE ~Prepare /\ ~Sending
  BY <1>0, <1>1, OthersSendNoSet DEF SetTraced, NoNewSet
<1>2. CASE Prepare
  <2>1. task[Write] = "idle"
    BY <1>2, PrepareMoves DEF Placed
  <2>2. fate[Write] = "none" /\ applying = <<>>
        /\ \A k \in DOMAIN toCooler : toCooler[k].action # "SET"
    BY <2>1, EmptySeq DEF SetTraced
  <2>3. UNCHANGED <<toCooler, tail>> /\ \A w \in Threads : job'[w].action = "SET" =>
                                           w = Write /\ job'[w].by = Write
    BY <1>2, PrepareMoves DEF SetTraced
  <2>. QED
    BY <1>0, <2>2, <2>3, EmptySeq DEF SetTraced
<1>3. CASE Sending
  <2>1. task[Write] # "done" /\ Wanted
    BY <1>3, SendMoves DEF Placed
  <2>2. fate[Write] = "none" /\ applying = <<>>
        /\ \A k \in DOMAIN toCooler : toCooler[k].action # "SET"
    BY <2>1, EmptySeq DEF SetTraced
  <2>3. Garbage \in ToCooler /\ Garbage.action # "SET" /\ job[Write] \in ToCooler
    BY EmptySeq DEF Garbage, ToCooler, Topics
  <2>4. ASSUME NEW k \in DOMAIN toCooler', toCooler'[k].action = "SET"
        PROVE  /\ k = Len(toCooler) + 1 /\ toCooler'[k].by = Write
               /\ task'[Write] = "done"
    <3>1. CASE toCooler' = toCooler
      BY <2>2, <2>4, <3>1
    <3>2. CASE toCooler' = Append(toCooler, job[Write])
      BY <1>3, <2>2, <2>3, <2>4, <3>2, SendMoves, AppendElements DEF SetTraced
    <3>3. CASE toCooler' = Append(toCooler, Garbage)
      BY <1>3, <2>2, <2>3, <2>4, <3>3, SendMoves, AppendElements DEF SetTraced
    <3>. QED
      BY <1>3, <3>1, <3>2, <3>3, SendMoves
  <2>5. UNCHANGED job
    BY <1>3, SendMoves
  <2>. QED
    BY <1>0, <2>1, <2>2, <2>4, <2>5, EmptySeq DEF SetTraced
<1>. QED
  BY <1>1, <1>2, <1>3

\* The cooler decides on the SET once, and what it is applying it has accepted.
LEMMA CoolerSetTraced ==
  ASSUME Typed, SetTraced, CoolerNext, UNCHANGED <<syncVars, commandVars>>
  PROVE  /\ SetTraced'
         /\ fate[Write] \in {"refused", "applied"} => UNCHANGED fate
<1>. DEFINE Goal == SetTraced' /\ (fate[Write] \in {"refused", "applied"} => UNCHANGED fate)
<1>. USE OneWriter, SendTyped DEF Wanted
<1>0. UNCHANGED <<job, task, tail, command, yes>>
  BY DEF syncVars, sendVars, commandVars, arguments
<1>1. toCooler # <<>> => /\ 1 \in DOMAIN toCooler /\ Head(toCooler) = toCooler[1]
                         /\ \A k \in DOMAIN Tail(toCooler) :
                              /\ k + 1 \in DOMAIN toCooler /\ k + 1 # 1
                              /\ Tail(toCooler)[k] = toCooler[k + 1]
                         /\ DOMAIN Tail(toCooler) \subseteq Nat
  BY TailShift, HeadTailProperties, LenProperties
<1>2. CASE AnswerSubscribe \/ Discard
  <2>1. toCooler # <<>> /\ toCooler' = Tail(toCooler) /\ UNCHANGED <<applying, fate>>
    BY <1>2 DEF AnswerSubscribe, Discard, Receive, coolerVars
  <2>2. ASSUME NEW k \in DOMAIN toCooler', toCooler'[k].action = "SET"
        PROVE  /\ toCooler'[k].by = Write /\ task[Write] = "done" /\ fate[Write] = "none" /\ Wanted
               /\ \A j \in DOMAIN toCooler' : toCooler'[j].action = "SET" => j = k
    <3>1. k + 1 \in DOMAIN toCooler /\ toCooler[k + 1] = toCooler'[k]
      BY <1>1, <2>1, <2>2
    <3>2. ASSUME NEW j \in DOMAIN toCooler', toCooler'[j].action = "SET" PROVE j = k
      <4>1. j + 1 = k + 1
        BY <1>1, <2>1, <2>2, <3>1, <3>2 DEF SetTraced
      <4>. QED
        BY <1>1, <2>1, <2>2, <3>2, <4>1
    <3>. QED
      BY <2>2, <3>1, <3>2 DEF SetTraced
  <2>. QED
    BY <1>0, <2>1, <2>2 DEF SetTraced
<1>3. ASSUME Receive("SET")
      PROVE  /\ toCooler # <<>> /\ Head(toCooler).by = Write /\ fate[Write] = "none"
             /\ task[Write] = "done" /\ Wanted /\ applying = <<>>
             /\ toCooler' = Tail(toCooler)
             /\ \A k \in DOMAIN toCooler' : toCooler'[k].action # "SET"
  BY <1>1, <1>3, EmptySeq DEF Receive, SetTraced
<1>4. CASE Accept
  <2>1. applying' = Append(applying, Head(toCooler)) /\ Head(toCooler) \in ToCooler
    BY <1>4, HeadTailProperties DEF Accept, Receive
  <2>2. \A k \in DOMAIN applying' : k = 1 /\ applying'[k] = Head(toCooler)
    BY <1>3, <1>4, <2>1, AppendProperties, LenProperties DEF Accept
  <2>3. fate' = [fate EXCEPT ![Write] = "accepted"]
    BY <1>3, <1>4 DEF Accept
  <2>. QED
    BY <1>0, <1>3, <1>4, <2>2, <2>3 DEF Accept, SetTraced
<1>5. CASE Refuse \/ Ignore
  <2>1. UNCHANGED applying /\ fate'[Write] \in {"refused", "ignored"}
    BY <1>3, <1>5 DEF Refuse, Ignore
  <2>. QED
    BY <1>0, <1>3, <1>5, <2>1, EmptySeq DEF Refuse, Ignore, SetTraced
<1>6. CASE Apply
  <2>1. /\ applying # <<>> /\ Head(applying).by = Write /\ fate[Write] = "accepted"
        /\ Tail(applying) = <<>>
    <3>1. applying # <<>>
      BY <1>6 DEF Apply
    <3>2. 1 \in DOMAIN applying /\ Head(applying) = applying[1]
      BY <3>1, TailShift
    <3>3. Tail(applying) = <<>>
      <4>1. Tail(applying) \in Seq(ToCooler)
        BY <3>1, HeadTailProperties
      <4>2. \A k \in DOMAIN Tail(applying) : FALSE
        BY <3>1, TailShift DEF SetTraced
      <4>. QED
        BY <4>1, <4>2, LenProperties, EmptySeq
    <3>. QED
      BY <3>1, <3>2, <3>3 DEF SetTraced
  <2>2. applying' = <<>> /\ fate' = [fate EXCEPT ![Write] = "applied"] /\ UNCHANGED toCooler
    BY <1>6, <2>1 DEF Apply
  <2>3. /\ \A k \in DOMAIN toCooler : toCooler[k].action # "SET"
        /\ task[Write] = "done" /\ Wanted
    BY <2>1 DEF SetTraced
  <2>. QED
    BY <1>0, <2>1, <2>2, <2>3, EmptySeq DEF SetTraced
<1>7. CASE Change \/ HangUp
  BY <1>0, <1>7 DEF Change, HangUp, coolerVars, SetTraced
<1>. QED
  BY <1>2, <1>4, <1>5, <1>6, <1>7 DEF CoolerNext

-----------------------------------------------------------------------------
(* What is on its way to the list *)

\* Nothing has changed the values of the cooler.
Untouched == changes = 0 /\ fate[Write] # "applied"

\* A NAK on its way has a refusal behind it, and a publish the value the cooler
\* started with, or a change.
FrameHonest(f) ==
  /\ f.action = "NAK" => fate[Write] = "refused"
  /\ f.action = "PUBLISH" /\ Untouched => f.words = InitialStore[f.topic]

EventHonest(e) ==
  /\ e.kind = "NAK" => fate[Write] = "refused"
  /\ e.kind = "PUBLISH" /\ Untouched => e.value = Decode(e.topic, InitialStore[e.topic])

Honest ==
  /\ Untouched => stored = InitialStore
  /\ \A k \in DOMAIN toClient : FrameHonest(toClient[k])
  /\ \A k \in DOMAIN inbox : FrameHonest(inbox[k])
  /\ \A k \in DOMAIN events : EventHonest(events[k])
  /\ \A k \in DOMAIN received : EventHonest(received[k])

\* The event session.feed() makes of a frame.
EventOf(f) ==
  [kind |-> f.action, topic |-> f.topic,
   value |-> IF f.action = "PUBLISH" THEN Decode(f.topic, f.words) ELSE <<>>]

\* Nothing is in a channel or list of the client that was not in the one before it.
LEMMA CommandPasses ==
  ASSUME Typed, CommandTypeOK, CommandNext
  PROVE  /\ Members(toClient') \subseteq Members(toClient)
         /\ Members(inbox') \subseteq Members(inbox) \cup Members(toClient)
         /\ Members(events') \subseteq Members(events) \cup {EventOf(f) : f \in Members(inbox)}
         /\ Members(received') \subseteq Members(received) \cup Members(events)
<1>. DEFINE Goal ==
         /\ Members(toClient') \subseteq Members(toClient)
         /\ Members(inbox') \subseteq Members(inbox) \cup Members(toClient)
         /\ Members(events') \subseteq Members(events) \cup {EventOf(f) : f \in Members(inbox)}
         /\ Members(received') \subseteq Members(received) \cup Members(events)
<1>0. /\ toClient \in Seq(ToClient) /\ inbox \in Seq(ToClient) /\ events \in Seq(Event)
      /\ received \in Seq(Event) /\ Members(<<>>) = {}
  BY EmptySeq, LenProperties DEF Typed, CoolerTypeOK, SyncTypeOK, ReaderTypeOK, CommandTypeOK,
     Members
<1>1. UNCHANGED <<toClient, inbox, events>> /\ (UNCHANGED received \/ received' = <<>>) => Goal
  BY <1>0
<1>2. CASE Recv /\ UNCHANGED commandVars
  <2>1. UNCHANGED <<events, received>>
    BY <1>2 DEF Recv, commandVars, progress
  <2>2. PICK n \in 1 .. Len(toClient) : /\ inbox' = SubSeq(toClient, 1, n)
                                        /\ toClient' = SubSeq(toClient, n + 1, Len(toClient))
    BY <1>2 DEF Recv
  <2>. QED
    BY <1>0, <2>1, <2>2, MembersOf
<1>3. CASE FeedFrame /\ UNCHANGED commandVars
  <2>1. UNCHANGED <<toClient, received>> /\ inbox # <<>> /\ inbox' = Tail(inbox)
        /\ events' = Append(events, EventOf(Head(inbox)))
    BY <1>3 DEF FeedFrame, commandVars, progress, wireVars, EventOf, Typed, ChunkNotEmpty
  <2>2. Head(inbox) \in ToClient
    BY <1>0, <2>1, HeadTailProperties
  <2>3. EventOf(Head(inbox)) \in Event
    BY <2>2, DecodeType, EmptySeq DEF EventOf, Event, ToClient
  <2>. QED
    BY <1>0, <2>1, <2>3, MembersOf
<1>4. CASE EventArrives
  <2>1. UNCHANGED <<toClient, inbox>>
    BY <1>4 DEF EventArrives, Dispatch, wireVars
  <2>2. CASE events = <<>>
    BY <1>1, <1>4, <2>1, <2>2 DEF EventArrives, Dispatch
  <2>3. CASE events # <<>>
    <3>1. /\ events' = Tail(events)
          /\ received' = received \/ received' = Append(received, Head(events))
      BY <1>4, <2>3 DEF EventArrives, Dispatch
    <3>2. Head(events) \in Members(events) /\ Members(Tail(events)) \subseteq Members(events)
      BY <1>0, <2>3, MembersOf
    <3>3. Members(Append(received, Head(events))) = Members(received) \cup {Head(events)}
      BY <1>0, <2>3, HeadEvent, MembersOf
    <3>. QED
      BY <2>1, <3>1, <3>2, <3>3
  <2>. QED
    BY <2>2, <2>3
<1>6. CASE MainStep
  <2>1. CASE Begin \/ Connected \/ WatchEnds \/ State \/ ClearEvents \/ Poll \/ Exited
    BY <1>1, <2>1 DEF Begin, Connected, WatchEnds, State, ClearEvents, Poll, Exited, MainOnly,
       wireVars, syncVars, readerVars, chunkVars, progress
  <2>2. CASE Connecting
    BY <1>1, <2>2 DEF Connecting, Dial, MakeReader, StartReader, SendStep, SendCheck, SendStart,
       SendRest, SendFails, wireVars, readerVars, chunkVars, commandVars, progress
  <2>3. CASE Prepare
    BY <1>1, <2>3 DEF Prepare, wireVars, readerVars, chunkVars
  <2>4. CASE Sending
    BY <1>1, <2>4 DEF Sending, SendStep, SendCheck, SendStart, SendRest, SendFails, wireVars,
       readerVars, chunkVars, progress
  <2>5. CASE Closing
    BY <1>1, <2>5 DEF Closing, CloseTest, CloseStep, CloseMark, CloseShutdown, CloseSocket,
       CloseJoin, wireVars, readerVars, chunkVars, commandVars, progress
  <2>. QED
    BY <1>6, <2>1, <2>2, <2>3, <2>4, <2>5 DEF MainStep
<1>7. CASE Interrupt \/ DeadlinePasses
  BY <1>1, <1>7 DEF Interrupt, DeadlinePasses, MainOnly, wireVars, syncVars, readerVars,
     chunkVars, progress
<1>8. CASE reader # "dispatching" /\ ReaderStep /\ UNCHANGED commandVars /\ ~Recv /\ ~FeedFrame
  BY <1>1, <1>8 DEF ReaderStep, LoopTest, RecvTimesOut, RecvEnds, FeedLock, Dispatch,
     CallbackReturns, ReaderMarks, ReaderCloses, CloseSocket, OnCloseReturns, allButReader,
     wireVars, chunkVars, commandVars, progress
<1>9. CASE Reset /\ UNCHANGED commandVars
  <2>1. toClient' = <<>> /\ UNCHANGED <<inbox, events, received>>
    BY <1>9 DEF Reset, syncVars, readerVars, chunkVars, commandVars, progress
  <2>. QED
    BY <1>0, <2>1
<1>. QED
  BY <1>2, <1>3, <1>4, <1>6, <1>7, <1>8, <1>9 DEF CommandNext, ReaderRuns

\* Honesty, said of members.
LEMMA HonestMembers ==
  /\ Honest <=> /\ Untouched => stored = InitialStore
                /\ \A f \in Members(toClient) \cup Members(inbox) : FrameHonest(f)
                /\ \A e \in Members(events) \cup Members(received) : EventHonest(e)
  /\ Honest' <=> /\ Untouched' => stored' = InitialStore
                 /\ \A f \in Members(toClient') \cup Members(inbox') : FrameHonest(f)'
                 /\ \A e \in Members(events') \cup Members(received') : EventHonest(e)'
  BY DEF Honest, Members

\* The client passes on what is honest.
LEMMA CommandHonest ==
  ASSUME Typed, CommandTypeOK, Honest, CommandNext, UNCHANGED coolerVars
  PROVE  Honest'
<1>0. UNCHANGED <<stored, changes, fate>>
  BY DEF coolerVars
<1>1. \A f : FrameHonest(f)' <=> FrameHonest(f)
  BY <1>0 DEF FrameHonest, Untouched
<1>2. \A e : EventHonest(e)' <=> EventHonest(e)
  BY <1>0 DEF EventHonest, Untouched
<1>3. ASSUME NEW f \in Members(inbox) PROVE EventHonest(EventOf(f))
  <2>1. FrameHonest(f)
    BY HonestMembers
  <2>. QED
    BY <2>1 DEF FrameHonest, EventHonest, EventOf
<1>4. \A f \in Members(toClient') \cup Members(inbox') : FrameHonest(f)'
  BY <1>1, CommandPasses, HonestMembers
<1>5. \A e \in Members(events') \cup Members(received') : EventHonest(e)'
  BY <1>2, <1>3, CommandPasses, HonestMembers
<1>6. Untouched' => stored' = InitialStore
  BY <1>0 DEF Honest, Untouched
<1>. QED
  BY <1>4, <1>5, <1>6, HonestMembers

\* The cooler publishes what it holds, and a NAK only when it refuses.
LEMMA CoolerHonest ==
  ASSUME Typed, SetTraced, Honest, CoolerNext, UNCHANGED <<syncVars, commandVars>>
  PROVE  Honest'
<1>0. CoolerTypeOK /\ UNCHANGED <<inbox, events, received>>
  BY DEF Typed, syncVars, readerVars, chunkVars, commandVars, progress
<1>1. fate[Write] \in {"refused", "applied"} => UNCHANGED fate
  BY CoolerSetTraced
<1>2. Untouched' => Untouched
  <2>1. changes' \in {changes, changes + 1} /\ changes \in Nat
    BY <1>0 DEF CoolerTypeOK, CoolerNext, AnswerSubscribe, Accept, Refuse, Ignore, Discard, Apply,
       Change, HangUp, coolerVars
  <2>. QED
    BY <1>1, <2>1 DEF Untouched
<1>3. \A f : FrameHonest(f) => FrameHonest(f)'
  BY <1>1, <1>2 DEF FrameHonest
<1>4. \A e : EventHonest(e) => EventHonest(e)'
  BY <1>1, <1>2 DEF EventHonest
<1>5. SUFFICES /\ Untouched' => stored' = InitialStore
               /\ \A f \in Members(toClient') : FrameHonest(f)'
  BY <1>0, <1>3, <1>4, HonestMembers
<1>6. ASSUME NEW n \in Nat, NEW frame \in ToClient, Publish(n, frame), FrameHonest(frame)'
      PROVE  \A f \in Members(toClient') : FrameHonest(f)'
  <2>1. \A f \in Members(toClient') : f = frame \/ f \in Members(toClient)
    BY <1>0, <1>6, PublishElements DEF Members
  <2>. QED
    BY <1>3, <1>6, <2>1, HonestMembers
<1>7. CASE AnswerSubscribe
  <2>. DEFINE t == Head(toCooler).topic
              n == IF stored[t] = <<>> THEN 0 ELSE 1
  <2>1. t \in Topics /\ stored[t] \in Seq(Int) /\ UNCHANGED stored
    BY <1>0, <1>7, ReceiveType DEF AnswerSubscribe, CoolerTypeOK, coolerVars
  <2>2. PICK p \in ToClient : p = Publication(t, stored[t])
    BY <2>1, FrameTypes
  <2>3. Publish(n, p)
    BY <1>7, <2>2 DEF AnswerSubscribe
  <2>4. FrameHonest(p)'
    BY <1>2, <2>2 DEF FrameHonest, Publication, Honest
  <2>5. Untouched' => stored' = InitialStore
    BY <1>2, <2>1 DEF Honest
  <2>. HIDE DEF t
  <2>. QED
    BY <1>6, <2>3, <2>4, <2>5
<1>8. CASE Accept
  <2>. DEFINE t == Head(toCooler).topic
  <2>1. t \in Topics /\ stored[t] \in Seq(Int) /\ UNCHANGED stored
    BY <1>0, <1>8, ReceiveType DEF Accept, CoolerTypeOK
  <2>2. PICK p \in ToClient : p = Publication(t, stored[t])
    BY <2>1, FrameTypes
  <2>3. PICK n \in Copies : Publish(n, p)
    BY <1>8, <2>2 DEF Accept
  <2>4. FrameHonest(p)'
    BY <1>2, <2>2 DEF FrameHonest, Publication, Honest
  <2>5. Untouched' => stored' = InitialStore
    BY <1>2, <2>1 DEF Honest
  <2>. HIDE DEF t
  <2>. QED
    BY <1>6, <2>3, <2>4, <2>5
<1>9. CASE Refuse
  <2>. DEFINE t == Head(toCooler).topic
  <2>1. t \in Topics /\ UNCHANGED stored
    BY <1>0, <1>9, ReceiveType DEF Refuse
  <2>2. PICK p \in ToClient : p = Refusal(t)
    BY <2>1, EmptySeq, FrameTypes
  <2>3. Publish(1, p)
    BY <1>9, <2>2 DEF Refuse
  <2>4. fate'[Write] = "refused"
    <3>1. Head(toCooler).by = Write
      <4>1. toCooler # <<>> /\ 1 \in DOMAIN toCooler /\ Head(toCooler) = toCooler[1]
        BY <1>9, SendTyped, TailShift DEF Refuse, Receive
      <4>. QED
        BY <1>9, <4>1 DEF Refuse, Receive, SetTraced
    <3>. QED
      BY <1>9, <3>1, SendTyped, OneWriter DEF Refuse
  <2>5. FrameHonest(p)'
    BY <2>2, <2>4 DEF FrameHonest, Refusal
  <2>6. Untouched' => stored' = InitialStore
    BY <1>2, <2>1 DEF Honest
  <2>. HIDE DEF t
  <2>. QED
    BY <1>6, <2>3, <2>5, <2>6
<1>10. CASE Apply
  <2>. DEFINE set == Head(applying)
              new == Grain(set.topic, set.words)
  <2>1. set \in ToCooler /\ set.by = Write
    <3>1. 1 \in DOMAIN applying /\ set = applying[1] /\ set \in ToCooler
      BY <1>10, SendTyped, TailShift, HeadTailProperties DEF Apply
    <3>. QED
      BY <3>1 DEF SetTraced
  <2>2. set.topic \in Topics /\ new \in Seq(Int)
    BY <2>1, GrainType DEF ToCooler
  <2>3. PICK p \in ToClient : p = Publication(set.topic, new)
    BY <2>2, FrameTypes
  <2>4. PICK n \in Copies : Publish(n, p)
    BY <1>10, <2>3 DEF Apply
  <2>5. ~Untouched'
    BY <1>10, <2>1, SendTyped, OneWriter DEF Apply, Untouched
  <2>6. FrameHonest(p)'
    BY <2>3, <2>5 DEF FrameHonest, Publication
  <2>. QED
    BY <1>6, <2>4, <2>5, <2>6
<1>11. CASE Change
  <2>1. PICK f \in ForeignChanges : Publish(1, Publication(f.topic, f.words))
    BY <1>11 DEF Change
  <2>2. Publication(f.topic, f.words) \in ToClient
    BY FrameTypes
  <2>3. ~Untouched'
    BY <1>0, <1>11 DEF Change, Untouched, CoolerTypeOK
  <2>4. FrameHonest(Publication(f.topic, f.words))'
    BY <2>3 DEF FrameHonest, Publication
  <2>. QED
    BY <1>6, <2>1, <2>2, <2>3, <2>4
<1>12. CASE Ignore \/ Discard \/ HangUp
  <2>1. UNCHANGED <<toClient, stored>>
    BY <1>12 DEF Ignore, Discard, HangUp, coolerVars
  <2>. QED
    BY <1>2, <1>3, <2>1, HonestMembers
<1>. QED
  BY <1>7, <1>8, <1>9, <1>10, <1>11, <1>12 DEF CoolerNext

-----------------------------------------------------------------------------
(* The list of events *)

Drained == Len(arrived) - Len(received)

\* The list is the end of what arrived; nothing that was polled from it decided
\* unless the command is over.
ListKept ==
  /\ Drained \in Nat
  /\ \A k \in DOMAIN received : received[k] = arrived[Drained + k]
  /\ step \in {"sending", "polling"} => \A k \in 1 .. Drained : Verdict(arrived[k]) = "none"

\* The lists of a command are sequences.
LEMMA ListTyped ==
  ASSUME CommandTypeOK
  PROVE  /\ received \in Seq(Event) /\ arrived \in Seq(Event)
         /\ Len(received) \in Nat /\ DOMAIN received = 1 .. Len(received)
         /\ Len(arrived) \in Nat /\ DOMAIN arrived = 1 .. Len(arrived)
  BY LenProperties DEF CommandTypeOK

\* Every event has one of three verdicts.
LEMMA ThreeVerdicts == \A e : Verdict(e) \in {"none", "confirmed", "rejected"}
  BY DEF Verdict

\* The verdict that ends the loop is that of the first event that has one.
LEMMA FirstAnswerIsFirst ==
  ASSUME NEW es \in Seq(Event)
  PROVE  \/ FirstAnswer(es) = "none" /\ \A k \in DOMAIN es : Verdict(es[k]) = "none"
         \/ FirstAnswer(es) \in {"confirmed", "rejected"} /\ Decides(es, FirstAnswer(es))
<1>. DEFINE decisive == {k \in DOMAIN es : Verdict(es[k]) # "none"}
            first == CHOOSE k \in decisive : \A j \in decisive : k <= j
<1>1. Len(es) \in Nat /\ DOMAIN es = 1 .. Len(es)
  BY LenProperties
<1>2. CASE decisive = {}
  BY <1>2 DEF FirstAnswer
<1>3. CASE decisive # {}
  <2>1. \E k \in decisive : \A j \in decisive : k <= j
    BY <1>1, <1>3, LeastAndGreatest
  <2>2. first \in decisive /\ \A j \in decisive : first <= j
    BY <2>1
  <2>3. FirstAnswer(es) = Verdict(es[first])
    BY <1>3 DEF FirstAnswer
  <2>. HIDE DEF first
  <2>4. \A j \in 1 .. first - 1 : Verdict(es[j]) = "none"
    <3>1. \A j \in 1 .. first - 1 : j \in DOMAIN es /\ ~(first <= j)
      BY <1>1, <2>2
    <3>. QED
      BY <2>2, <3>1
  <2>5. FirstAnswer(es) \in {"confirmed", "rejected"}
    BY <2>2, <2>3, ThreeVerdicts
  <2>. QED
    BY <2>2, <2>3, <2>4, <2>5 DEF Decides
<1>. QED
  BY <1>2, <1>3

\* What decides the end of the list decides all of it, if nothing before it does.
LEMMA DecidesBehind ==
  ASSUME CommandTypeOK, ListKept, step = "polling", NEW v, Decides(received, v)
  PROVE  Decides(arrived, v)
<1>1. PICK k \in DOMAIN received : /\ Verdict(received[k]) = v
                                   /\ \A j \in 1 .. k - 1 : Verdict(received[j]) = "none"
  BY DEF Decides
<1>2. Drained \in Nat /\ Drained + k \in DOMAIN arrived /\ received[k] = arrived[Drained + k]
  BY ListTyped DEF ListKept, Drained
<1>. DEFINE m == Drained + k
<1>3. ASSUME NEW j \in 1 .. m - 1 PROVE Verdict(arrived[j]) = "none"
  <2>1. CASE j \in 1 .. Drained
    BY <2>1 DEF ListKept
  <2>2. CASE j - Drained \in 1 .. k - 1
    <3>1. j - Drained \in DOMAIN received /\ Drained + (j - Drained) = j
      BY <1>1, <1>2, <2>2, ListTyped
    <3>. QED
      BY <1>1, <2>2, <3>1 DEF ListKept
  <2>. QED
    BY <1>1, <1>2, <2>1, <2>2, ListTyped
<1>4. m \in DOMAIN arrived /\ Verdict(arrived[m]) = v
  BY <1>1, <1>2
<1>. HIDE DEF m
<1>. QED
  BY <1>3, <1>4 DEF Decides

\* A decision stays the first when more events come.
LEMMA DecidesAppend ==
  ASSUME NEW es \in Seq(Event), NEW e \in Event, NEW v, Decides(es, v)
  PROVE  Decides(Append(es, e), v)
<1>1. PICK k \in DOMAIN es : /\ Verdict(es[k]) = v
                             /\ \A j \in 1 .. k - 1 : Verdict(es[j]) = "none"
  BY DEF Decides
<1>2. DOMAIN es = 1 .. Len(es) /\ Len(es) \in Nat
  BY LenProperties
<1>3. /\ DOMAIN es \subseteq DOMAIN Append(es, e)
      /\ \A j \in DOMAIN es : Append(es, e)[j] = es[j]
  BY AppendElements
<1>4. \A j \in 1 .. k - 1 : j \in DOMAIN es
  BY <1>2
<1>. QED
  BY <1>1, <1>3, <1>4 DEF Decides

\* The four ways a step treats the lists.
LEMMA ListSteps ==
  ASSUME Typed, CommandTypeOK, CommandNext
  PROVE  \/ UNCHANGED <<received, arrived>>
         \/ /\ UNCHANGED <<expected, step, code>> /\ events # <<>>
            /\ received' = Append(received, Head(events))
            /\ arrived' = Append(arrived, Head(events))
         \/ ClearEvents
         \/ Poll
<1>. USE DEF MainOnly, commandVars, progress
<1>1. CASE MainStep
  <2>1. CASE Begin \/ Connected \/ WatchEnds \/ State \/ Exited
    BY <2>1 DEF Begin, Connected, WatchEnds, State, Exited
  <2>2. CASE Connecting \/ Prepare \/ Sending \/ Closing
    BY <2>2 DEF Connecting, Prepare, Sending, Closing
  <2>. QED
    BY <1>1, <2>1, <2>2 DEF MainStep
<1>2. CASE Interrupt \/ DeadlinePasses
  BY <1>2 DEF Interrupt, DeadlinePasses
<1>3. CASE EventArrives
  BY <1>3 DEF EventArrives
<1>. QED
  BY <1>1, <1>2, <1>3 DEF CommandNext, ReaderRuns

\* How the main thread moves when the lists stay as they are.
LEMMA MainMoves ==
  ASSUME Typed, CommandTypeOK, Placed, CommandNext, ~ClearEvents, ~Poll
  PROVE  /\ UNCHANGED code \/ (code = -1 /\ code' \in {1, 2})
            \/ (command # "write" /\ code' \in {0, 1})
         /\ code # -1 => UNCHANGED expected
         /\ step' \in {"sending", "polling"} =>
              step \in {"sending", "polling"} /\ UNCHANGED expected
<1>. USE DEF MainOnly, commandVars, progress, Goes, Exits, Placed
<1>1. CASE MainStep
  <2>1. CASE Begin \/ Connected \/ WatchEnds \/ State \/ Exited
    BY <2>1 DEF Begin, Connected, WatchEnds, State, Exited
  <2>2. CASE Connecting \/ Closing
    BY <2>2 DEF Connecting, Closing
  <2>3. CASE Prepare
    BY <2>3, PrepareMoves DEF Prepare
  <2>4. CASE Sending
    BY <2>4, SendMoves
  <2>. QED
    BY <1>1, <2>1, <2>2, <2>3, <2>4 DEF MainStep
<1>2. CASE Interrupt \/ DeadlinePasses
  BY <1>2 DEF Interrupt, DeadlinePasses
<1>3. CASE ReaderRuns \/ UNCHANGED commandVars
  BY <1>3 DEF ReaderRuns, EventArrives
<1>. QED
  BY <1>1, <1>2, <1>3 DEF CommandNext

\* Every step of the command keeps the list and the promise about its end.
LEMMA CommandList ==
  ASSUME Typed, CommandTypeOK, Placed, ListKept, FirstAnswerDecides, CommandNext
  PROVE  ListKept' /\ FirstAnswerDecides'
<1>. USE ListTyped
<1>0. UNCHANGED <<command, request, yes>>
  BY ArgumentsFixed
<1>1. UNCHANGED expected => \A e : Verdict(e)' = Verdict(e)
  BY <1>0 DEF Verdict
<1>2. UNCHANGED expected => \A es, v : Decides(es, v)' = Decides(es, v)
  BY <1>1 DEF Decides
<1>3. CASE ClearEvents
  <2>1. /\ step' = "sending" /\ code' = -1 /\ received' = <<>> /\ arrived' = <<>>
    BY <1>3 DEF ClearEvents, Goes, Placed
  <2>2. Drained' = 0
    BY <2>1, EmptySeq DEF Drained
  <2>. QED
    BY <2>1, <2>2, EmptySeq DEF ListKept, FirstAnswerDecides
<1>4. CASE Poll /\ late
  <2>1. /\ UNCHANGED <<received, arrived, expected>> /\ step = "polling"
        /\ step' = "closing" /\ code' = 4
    BY <1>4 DEF Poll, Exits
  <2>2. Drained' = Drained
    BY <2>1 DEF Drained
  <2>. QED
    BY <1>1, <2>1, <2>2 DEF ListKept, FirstAnswerDecides, Drained
<1>5. CASE Poll /\ ~late
  <2>1. /\ UNCHANGED <<arrived, expected>> /\ received' = <<>> /\ step = "polling"
    BY <1>5 DEF Poll
  <2>2. Drained' = Len(arrived)
    BY <2>1, EmptySeq DEF Drained
  <2>3. CASE FirstAnswer(received) = "none"
    <3>1. UNCHANGED <<step, code>> /\ code = -1
      BY <1>5, <2>3 DEF Poll, Placed
    <3>2. ASSUME NEW k \in 1 .. Len(arrived) PROVE Verdict(arrived[k]) = "none"
      <4>1. CASE k \in 1 .. Drained
        BY <2>1, <4>1 DEF ListKept
      <4>2. CASE k - Drained \in DOMAIN received
        <5>1. received[k - Drained] = arrived[k] /\ Verdict(received[k - Drained]) = "none"
          <6>1. Drained + (k - Drained) = k
            BY DEF ListKept
          <6>2. Verdict(received[k - Drained]) = "none"
            BY <2>3, <4>2, FirstAnswerIsFirst
          <6>. QED
            BY <4>2, <6>1, <6>2 DEF ListKept
        <5>. QED
          BY <5>1
      <4>. QED
        BY <4>1, <4>2 DEF ListKept, Drained
    <3>3. \A k \in 1 .. Drained' : Verdict(arrived[k])' = "none"
      BY <1>1, <2>1, <2>2, <3>2
    <3>. QED
      BY <2>1, <2>2, <3>1, <3>3, EmptySeq DEF ListKept, FirstAnswerDecides
  <2>4. CASE FirstAnswer(received) # "none"
    <3>1. /\ FirstAnswer(received) \in {"confirmed", "rejected"}
          /\ Decides(arrived, FirstAnswer(received))
      BY <2>1, <2>4, FirstAnswerIsFirst, DecidesBehind
    <3>2. /\ step' = "closing"
          /\ code' = IF FirstAnswer(received) = "confirmed" THEN 0 ELSE 3
      BY <1>5, <3>1 DEF Poll, Exits
    <3>3. /\ code' = 0 => Decides(arrived, "confirmed")'
          /\ code' = 3 => Decides(arrived, "rejected")'
      BY <1>2, <2>1, <3>1, <3>2 
    <3>. QED
      BY <2>1, <2>2, <3>2, <3>3, EmptySeq DEF ListKept, FirstAnswerDecides
  <2>. QED
    BY <2>3, <2>4
<1>6. CASE UNCHANGED <<received, arrived>> /\ ~ClearEvents /\ ~Poll
  <2>1. Drained' = Drained
    BY <1>6 DEF Drained
  <2>2. ListKept'
    BY <1>1, <1>6, <2>1, MainMoves DEF ListKept
  <2>3. FirstAnswerDecides'
    <3>1. CASE UNCHANGED <<code, expected>>
      BY <1>0, <1>1, <1>2, <1>6, <3>1 DEF FirstAnswerDecides
    <3>2. CASE ~UNCHANGED <<code, expected>>
      <4>1. code' \in {-1, 1, 2} \/ (command # "write" /\ code' \in {0, 1})
        BY <1>6, <3>2, MainMoves
      <4>. QED
        BY <1>0, <4>1 DEF FirstAnswerDecides
    <3>. QED
      BY <3>1, <3>2
  <2>. QED
    BY <2>2, <2>3
<1>7. ASSUME UNCHANGED <<expected, step, code>>, events # <<>>,
             received' = Append(received, Head(events)), arrived' = Append(arrived, Head(events))
      PROVE  ListKept' /\ FirstAnswerDecides'
  <2>. DEFINE e == Head(events)
              n == Len(received)
              m == Len(arrived)
  <2>1. e \in Event
    BY <1>7, HeadEvent
  <2>2. /\ DOMAIN received' = 1 .. n + 1 /\ Len(received') = n + 1
        /\ received'[n + 1] = e /\ \A k \in 1 .. n : received'[k] = received[k]
        /\ Len(arrived') = m + 1
        /\ arrived'[m + 1] = e /\ \A k \in 1 .. m : arrived'[k] = arrived[k]
    <3>1. /\ Len(received') = n + 1 /\ received' \in Seq(Event)
          /\ Len(arrived') = m + 1
      BY <1>7, <2>1, AppendProperties
    <3>2. received'[n + 1] = e /\ \A k \in 1 .. n : received'[k] = received[k]
      BY <1>7, <2>1, AppendElements
    <3>3. arrived'[m + 1] = e /\ \A k \in 1 .. m : arrived'[k] = arrived[k]
      BY <1>7, <2>1, AppendElements
    <3>. QED
      BY <3>1, <3>2, <3>3, LenProperties
  <2>. HIDE DEF e
  <2>3. Drained' = Drained
    BY <2>2 DEF Drained
  <2>4. n \in Nat /\ m \in Nat /\ Drained \in Nat /\ m = Drained + n
    BY DEF ListKept, Drained
  <2>5. ASSUME NEW k \in DOMAIN received' PROVE received'[k] = arrived'[Drained' + k]
    <3>1. CASE k \in 1 .. n
      <4>1. Drained + k \in 1 .. m
        BY <2>4, <3>1
      <4>. QED
        BY <2>2, <2>3, <3>1, <4>1 DEF ListKept
    <3>2. CASE k = n + 1
      <4>1. Drained + k = m + 1
        BY <2>4, <3>2
      <4>. QED
        BY <2>2, <2>3, <3>2, <4>1
    <3>3. k \in 1 .. n \/ k = n + 1
      <4>1. k \in 1 .. n + 1
        BY <2>2
      <4>. QED
        BY <2>4, <4>1
    <3>. QED
      BY <3>1, <3>2, <3>3
  <2>6. \A k \in 1 .. Drained : arrived'[k] = arrived[k]
    BY <2>2, <2>4
  <2>7. ListKept'
    BY <1>1, <1>7, <2>3, <2>4, <2>5, <2>6 DEF ListKept
  <2>8. FirstAnswerDecides'
    <3>1. ASSUME NEW v, Decides(arrived, v) PROVE Decides(arrived, v)'
      <4>1. Decides(arrived', v)
        BY <1>7, <2>1, <3>1, DecidesAppend DEF e
      <4>2. PICK k \in DOMAIN arrived' : /\ Verdict(arrived'[k]) = v
                                         /\ \A i \in 1 .. k - 1 : Verdict(arrived'[i]) = "none"
        BY <4>1 DEF Decides
      <4>3. Verdict(arrived[k])' = v /\ \A i \in 1 .. k - 1 : Verdict(arrived[i])' = "none"
        BY <1>1, <1>7, <4>2
      <4>. QED
        BY <4>3 DEF Decides
    <3>2. code = 4 => \A k \in 1 .. (Len(arrived) - Len(received))' : Verdict(arrived[k])' = "none"
      BY <1>1, <1>7, <2>3, <2>6 DEF FirstAnswerDecides, Drained
    <3>. QED
      BY <1>0, <1>7, <3>1, <3>2 DEF FirstAnswerDecides
  <2>. QED
    BY <2>7, <2>8
<1>. QED
  BY <1>3, <1>4, <1>5, <1>6, <1>7, ListSteps

-----------------------------------------------------------------------------
(* The theorems *)

\* A step of the command exits with what it knows.
LEMMA CommandExitTells ==
  ASSUME Typed, CommandTypeOK, Placed, Honest, ExitTellsFate, CommandNext, UNCHANGED coolerVars
  PROVE  ExitTellsFate'
<1>0. UNCHANGED <<command, request, yes, changes, fate>>
  BY ArgumentsFixed DEF coolerVars
<1>1. CASE ClearEvents \/ (Poll /\ late)
  <2>1. code' \in {-1, 4}
    BY <1>1 DEF ClearEvents, Poll, Goes, Exits, Placed
  <2>. QED
    BY <2>1 DEF ExitTellsFate
<1>2. CASE Poll /\ ~late
  <2>1. UNCHANGED expected /\ code = -1
    BY <1>2 DEF Poll, Placed
  <2>2. CASE FirstAnswer(received) = "none"
    BY <1>2, <2>1, <2>2 DEF Poll, ExitTellsFate
  <2>3. CASE FirstAnswer(received) # "none"
    <3>1. FirstAnswer(received) \in {"confirmed", "rejected"}
          /\ Decides(received, FirstAnswer(received))
      BY <2>3, ListTyped, FirstAnswerIsFirst
    <3>2. PICK k \in DOMAIN received : Verdict(received[k]) = FirstAnswer(received)
      BY <3>1 DEF Decides
    <3>3. received[k] \in Event /\ EventHonest(received[k])
      BY ListTyped, LenProperties DEF Honest
    <3>4. CASE FirstAnswer(received) = "rejected"
      <4>1. code' = 3
        BY <1>2, <3>4 DEF Poll, Exits
      <4>2. fate[Write] = "refused"
        BY <3>2, <3>3, <3>4 DEF Verdict, EventHonest
      <4>. QED
        BY <1>0, <4>1, <4>2 DEF ExitTellsFate
    <3>5. CASE FirstAnswer(received) = "confirmed"
      <4>1. code' = 0
        BY <1>2, <3>5 DEF Poll, Exits
      <4>2. /\ received[k].topic = request.topic /\ received[k].kind = "PUBLISH"
            /\ Close(request.topic, received[k].value, expected)
        BY <3>2, <3>3, <3>5 DEF Verdict, Event
      <4>3. Untouched => Close(request.topic, Decode(request.topic, InitialStore[request.topic]),
                               expected)
        BY <3>3, <4>2 DEF EventHonest
      <4>. QED
        BY <1>0, <2>1, <4>1, <4>3 DEF ExitTellsFate, Untouched
    <3>. QED
      BY <3>1, <3>4, <3>5
  <2>. QED
    BY <2>2, <2>3
<1>3. CASE ~ClearEvents /\ ~Poll
  <2>1. CASE UNCHANGED <<code, expected>>
    BY <1>0, <2>1 DEF ExitTellsFate
  <2>2. CASE ~UNCHANGED <<code, expected>>
    <3>1. code' \in {-1, 1, 2} \/ (command # "write" /\ code' \in {0, 1})
      BY <1>3, <2>2, MainMoves
    <3>. QED
      BY <1>0, <3>1 DEF ExitTellsFate
  <2>. QED
    BY <2>1, <2>2
<1>. QED
  BY <1>1, <1>2, <1>3

\* What the cooler decided on a SET stays decided.
LEMMA CoolerExitTells ==
  ASSUME Typed, SetTraced, ExitTellsFate, CoolerNext, UNCHANGED <<syncVars, commandVars>>
  PROVE  ExitTellsFate'
<1>1. fate[Write] \in {"refused", "applied"} => UNCHANGED fate
  BY CoolerSetTraced
<1>2. changes' \in {changes, changes + 1} /\ changes \in Nat
  BY DEF Typed, CoolerTypeOK, CoolerNext, AnswerSubscribe, Accept, Refuse, Ignore, Discard, Apply,
     Change, HangUp, coolerVars
<1>3. UNCHANGED <<code, command, request, expected>>
  BY DEF commandVars, arguments, progress
<1>. QED
  BY <1>1, <1>2, <1>3 DEF ExitTellsFate

\* The inductive invariant: types, the place of the main thread, the SET on its way,
\* honest answers, and the list.
CommandInv ==
  /\ Typed /\ CommandTypeOK /\ Placed /\ SetTraced /\ Honest
  /\ ListKept /\ FirstAnswerDecides /\ ExitTellsFate

\* The invariant holds initially.
LEMMA InitCommandInv == Init => CommandInv
<1>. SUFFICES ASSUME Init PROVE CommandInv
  OBVIOUS
<1>. USE OneWriter DEF Init, CommandInit
<1>1. Typed /\ CommandTypeOK
  BY InitTyped, EmptySeq DEF CommandTypeOK
<1>2. DOMAIN <<>> = {} /\ Len(<<>>) = 0
  BY EmptySeq, LenProperties
<1>3. Placed /\ FirstAnswerDecides /\ ExitTellsFate
  BY DEF Placed, SyncInit, FirstAnswerDecides, ExitTellsFate
<1>4. SetTraced
  BY <1>2 DEF SetTraced, WireInit, CoolerInit, SyncInit, SubscribeFrame
<1>5. Honest
  BY <1>2 DEF Honest, Untouched, WireInit, CoolerInit, SyncInit
<1>6. ListKept
  BY <1>2 DEF ListKept, Drained
<1>. QED
  BY <1>1, <1>3, <1>4, <1>5, <1>6 DEF CommandInv

\* What the invariant speaks of stays when nothing moves but the cooler, as far as it
\* does not speak of the cooler.
LEMMA CommandInvRest ==
  ASSUME Placed, ListKept, FirstAnswerDecides, UNCHANGED <<syncVars, commandVars>>
  PROVE  Placed' /\ ListKept' /\ FirstAnswerDecides'
<1>. USE DEF syncVars, sendVars, commandVars, arguments, progress
<1>1. Placed'
  BY DEF Placed, Wanted
<1>2. ListKept'
  BY DEF ListKept, Drained, Verdict
<1>3. FirstAnswerDecides'
  BY DEF FirstAnswerDecides, Decides, Verdict
<1>. QED
  BY <1>1, <1>2, <1>3

\* Every step keeps it.
LEMMA StepCommandInv == CommandInv /\ [Next]_vars => CommandInv'
<1>. SUFFICES ASSUME CommandInv, [Next]_vars PROVE CommandInv'
  OBVIOUS
<1>. USE DEF CommandInv
<1>1. Typed' /\ CommandTypeOK'
  BY StepTyped, StepCommandType
<1>2. CASE CommandNext /\ UNCHANGED coolerVars
  BY <1>1, <1>2, StepPlaced, CommandSetTraced, CommandHonest, CommandList, CommandExitTells
<1>3. CASE CoolerNext /\ UNCHANGED <<syncVars, commandVars>>
  BY <1>1, <1>3, CommandInvRest, CoolerSetTraced, CoolerHonest, CoolerExitTells
<1>4. CASE UNCHANGED vars
  <2>. USE <1>4 DEF vars, wireVars, coolerVars, syncVars, readerVars, chunkVars, sendVars,
                    commandVars, arguments, progress
  <2>1. Placed' /\ ListKept' /\ FirstAnswerDecides'
    BY CommandInvRest
  <2>2. SetTraced'
    BY DEF SetTraced, Wanted
  <2>3. Honest'
    BY DEF Honest, FrameHonest, EventHonest, Untouched
  <2>4. ExitTellsFate'
    BY DEF ExitTellsFate
  <2>. QED
    BY <1>1, <2>1, <2>2, <2>3, <2>4
<1>. QED
  BY <1>2, <1>3, <1>4 DEF Next

\* The inductive invariant of a command holds in every reachable state.
THEOREM CommandInvariant == Spec => []CommandInv
  BY InitCommandInv, StepCommandInv, PTL DEF Spec

\* The exit code of a write is the first answer after the list was cleared, however
\* the reader thread appends and the main thread drains.
THEOREM FirstAnswerCounts == Spec => []FirstAnswerDecides
<1>1. CommandInv => FirstAnswerDecides
  BY DEF CommandInv
<1>. QED
  BY CommandInvariant, <1>1, PTL

\* 0 says that the cooler applied the SET, if its value could come from nowhere else,
\* and 3 that it refused it.
THEOREM ExitCodeTrue == Spec => []ExitTellsFate
<1>1. CommandInv => ExitTellsFate
  BY DEF CommandInv
<1>. QED
  BY CommandInvariant, <1>1, PTL

\* A dry run and a command that reads write no byte of a SET.
THEOREM DryRunWritesNothing == Spec => []OnlyYesWrites
<1>1. CommandInv => OnlyYesWrites
  BY DEF CommandInv, SetTraced, Wanted, OnlyYesWrites
<1>. QED
  BY CommandInvariant, <1>1, PTL
=============================================================================
