------------------------------ MODULE SyncClient ------------------------------
(***************************************************************************)
(* sync_client.SyncClient: the reader thread, a thread in connect(), and   *)
(* the threads that call set() and close(), some of them from inside a     *)
(* callback of the reader.  Threads may be switched anywhere; what one     *)
(* does under _lock is split only where another thread could see a part    *)
(* of it, and the lock is held exactly in the states LockFree excludes.    *)
(*                                                                         *)
(* sendall() writes a line in pieces: tail has the threads whose piece has *)
(* no terminator behind it yet.                                            *)
(***************************************************************************)
EXTENDS Cooler

CONSTANTS
  Closers,      \* the calls of close()
  InCallback,   \* the calls made by on_event or on_close, in the reader thread
  Subscribed,   \* Session.topics
  Requests,     \* the arguments a caller may give set()
  MaxStalls     \* bound on the sends that time out on a connection that is up

ASSUME SyncAssumption ==
  /\ NoWriter \notin Closers /\ Writers \cap Closers = {}
  /\ InCallback \subseteq Writers \cup Closers
  /\ Subscribed \in Seq(Topics)
  /\ Requests \subseteq [topic : Topics, value : Int, compartment : Nat]
  /\ MaxStalls \in Nat

\* NoWriter stands for the thread in connect().
Threads == Writers \cup {NoWriter}

VARIABLES
  values,       \* session.values
  sock,         \* the socket: "none" before it is assigned, "open", "closed"
  closed,       \* _closed
  closeReason,  \* close_reason
  reader,       \* the reader thread
  error,        \* its local variable
  inbox,        \* frames of the chunk it has not fed to the session yet
  events,       \* events of the chunk it has not called on_event for yet
  seen,         \* history: the last value on_event was given for each topic
  task,         \* where each thread is in set() or connect()
  outcome,      \* how the call ended
  job,          \* the frame it sends
  burst,        \* subscriptions sent
  closer,       \* where each call of close() is
  tail,         \* threads whose bytes end the stream to the cooler, without "\r"
  stalls        \* sends that timed out so far

chunkVars == <<inbox, events, seen>>
readerVars == <<values, closeReason, reader, error, chunkVars>>
sendVars == <<task, outcome, job, burst, tail, stalls>>
syncVars == <<readerVars, sendVars, sock, closed, closer>>
allButReader ==
  <<wireVars, values, closeReason, error, chunkVars, sendVars, sock, closed, closer>>

Returned == {"skipped", "raised", "detached", "joined", "gaveup"}

LocalErrors == {"NotWritable", "StateUnknown", "ValueError"}

Event == [kind : {"PUBLISH", "NAK"}, topic : Topics, value : Seq(Int)]

ReaderTypeOK ==
  /\ values \in [Topics -> Seq(Int)]
  /\ closeReason \in {"none", "eof", "error"}
  /\ reader \in {"none", "made", "loop", "recv", "waiting", "feeding", "dispatching",
                 "calling", "ending", "marked", "onclose", "done"}
  /\ error \in {"none", "eof", "error"}
  /\ inbox \in Seq(ToClient)
  /\ events \in Seq(Event)
  /\ seen \in [Topics -> Seq(Int)]

SendTypeOK ==
  /\ task \in [Threads -> {"idle", "dialled", "made", "built", "locking", "sending", "done"}]
  /\ outcome \in [Threads -> LocalErrors \cup {"none", "sent", "closed", "oserror"}]
  /\ job \in [Threads -> ToCooler]
  /\ burst \in 0 .. Len(Subscribed)
  /\ tail \subseteq Threads
  /\ stalls \in Nat

CloseTypeOK ==
  /\ sock \in {"none", "open", "closed"}
  /\ closed \in BOOLEAN
  /\ closer \in [Closers -> {"idle", "marking", "closing", "joining"} \cup Returned]

SyncTypeOK == ReaderTypeOK /\ SendTypeOK /\ CloseTypeOK

SubscribeFrame(t) ==
  [action |-> "SUBSCRIBE", topic |-> t, words |-> <<>>, by |-> NoWriter]

SyncInit ==
  /\ values = [t \in Topics |-> <<>>]
  /\ sock = "none" /\ closed = FALSE /\ closeReason = "none"
  /\ reader = "none" /\ error = "none"
  /\ inbox = <<>> /\ events = <<>> /\ seen = [t \in Topics |-> <<>>]
  /\ task = [w \in Threads |-> "idle"]
  /\ outcome = [w \in Threads |-> "none"]
  /\ job = [w \in Threads |-> SubscribeFrame("nocpt")]
  /\ burst = 0
  /\ closer = [c \in Closers |-> "idle"]
  /\ tail = {} /\ stalls = 0

-----------------------------------------------------------------------------

LockFree == reader # "feeding" /\ \A w \in Threads : task[w] # "sending"

\* A callback is in the middle of a call.
Nesting ==
  \/ \E w \in InCallback \cap Writers : task[w] \notin {"idle", "done"}
  \/ \E c \in InCallback \cap Closers : closer[c] \notin {"idle"} \cup Returned

MayStart(x) == x \in InCallback => reader \in {"calling", "onclose"} /\ ~Nesting

Goto(w, to) == task' = [task EXCEPT ![w] = to] /\ UNCHANGED outcome

End(w, o) ==
  /\ task' = [task EXCEPT ![w] = "done"]
  /\ outcome' = [outcome EXCEPT ![w] = o]

-----------------------------------------------------------------------------
(* connect() *)

\* create_connection() and the assignment of _sock.
Dial ==
  /\ task[NoWriter] = "idle"
  /\ \/ sock' = "open" /\ Goto(NoWriter, "dialled")
     \/ UNCHANGED sock /\ End(NoWriter, "oserror")
  /\ UNCHANGED <<wireVars, readerVars, closed, closer, job, burst, tail, stalls>>

\* _reader is assigned before the thread is started.
MakeReader ==
  /\ task[NoWriter] = "dialled"
  /\ reader' = "made"
  /\ Goto(NoWriter, "made")
  /\ UNCHANGED <<wireVars, values, closeReason, error, chunkVars, sock, closed, closer,
                 job, burst, tail, stalls>>

StartReader ==
  /\ task[NoWriter] = "made"
  /\ reader' = "loop"
  /\ \E subscribe \in BOOLEAN :
       IF subscribe /\ Subscribed # <<>>
       THEN /\ Goto(NoWriter, "built")
            /\ job' = [job EXCEPT ![NoWriter] = SubscribeFrame(Subscribed[1])]
       ELSE End(NoWriter, "sent") /\ UNCHANGED job
  /\ UNCHANGED <<wireVars, values, closeReason, error, chunkVars, sock, closed, closer,
                 burst, tail, stalls>>

-----------------------------------------------------------------------------
(* set() and send() *)

\* set_frame(): it raises, or w has a frame to send.
SetFrame(w, r) ==
  LET raised == RefusedBy(values, r.topic, r.value, r.compartment) IN
    IF raised # "none" THEN End(w, raised) /\ UNCHANGED job
    ELSE /\ Goto(w, "built")
         /\ job' = [job EXCEPT ![w] =
              [action |-> "SET", topic |-> r.topic, by |-> w,
               words |-> Encode(r.topic, NewValue(values, r.topic, r.value, r.compartment))]]

\* set() builds the frame under the lock.
Build(w) ==
  /\ task[w] = "idle" /\ MayStart(w) /\ LockFree
  /\ \E r \in Requests : SetFrame(w, r)
  /\ UNCHANGED <<wireVars, readerVars, sock, closed, closer, burst, tail, stalls>>

SendCheck(w) ==
  /\ task[w] = "built"
  /\ IF sock = "none" \/ closed THEN End(w, "closed") ELSE Goto(w, "locking")
  /\ UNCHANGED <<wireVars, readerVars, sock, closed, closer, job, burst, tail, stalls>>

\* Mutant: sendall() without the lock.
SendUnlocked(w) ==
  /\ task[w] = "locking"
  /\ Goto(w, "sending")
  /\ tail' = tail \cup {w}
  /\ UNCHANGED <<wireVars, readerVars, sock, closed, closer, job, burst, stalls>>

\* The lock, and the first piece of the line.
SendStart(w) ==
  /\ task[w] = "locking" /\ LockFree
  /\ Goto(w, "sending")
  /\ tail' = tail \cup {w}
  /\ UNCHANGED <<wireVars, readerVars, sock, closed, closer, job, burst, stalls>>

\* Mutant: connect() sends one subscription too many.
SentOneMore(w) ==
  IF w = NoWriter /\ burst < Len(Subscribed)
  THEN /\ Goto(w, "built")
       /\ job' = [job EXCEPT ![w] = SubscribeFrame(Subscribed[Len(Subscribed)])]
  ELSE End(w, "sent") /\ UNCHANGED job

\* connect() goes on with its next subscription.
Sent(w) ==
  IF w = NoWriter /\ burst + 1 < Len(Subscribed)
  THEN /\ Goto(w, "built")
       /\ job' = [job EXCEPT ![w] = SubscribeFrame(Subscribed[burst + 2])]
  ELSE End(w, "sent") /\ UNCHANGED job

\* The rest of the line.  A piece that another send left behind is in the same
\* line, which is then no frame at all.
SendRest(w) ==
  /\ task[w] = "sending" /\ sock = "open"
  /\ toCooler' = IF line = "up"
                 THEN Append(toCooler, IF tail = {w} THEN job[w] ELSE Garbage)
                 ELSE toCooler
  /\ tail' = {}
  /\ Sent(w)
  /\ burst' = IF w = NoWriter THEN burst + 1 ELSE burst
  /\ UNCHANGED <<toClient, line, readerVars, sock, closed, closer, stalls>>

\* Mutant: a send that failed is tried again.
SendRetries(w) ==
  /\ task[w] = "sending"
  /\ \/ (sock = "closed" \/ line # "up") /\ UNCHANGED stalls
     \/ stalls < MaxStalls /\ stalls' = stalls + 1
  /\ tail' \in {tail, tail \ {w}}
  /\ Goto(w, "locking")
  /\ UNCHANGED <<wireVars, readerVars, sock, closed, closer, job, burst>>

\* sendall() raises: the socket is closed, the connection gone, or the peer did
\* not read for the second of the socket's timeout.  A piece may have been sent.
SendFails(w) ==
  /\ task[w] = "sending"
  /\ \/ (sock = "closed" \/ line # "up") /\ UNCHANGED stalls
     \/ stalls < MaxStalls /\ stalls' = stalls + 1
  /\ tail' \in {tail, tail \ {w}}
  /\ End(w, "closed")
  /\ UNCHANGED <<wireVars, readerVars, sock, closed, closer, job, burst>>

-----------------------------------------------------------------------------
(* _read_loop *)

LoopTest ==
  /\ reader = "loop"
  /\ reader' = IF closed THEN "ending" ELSE "recv"
  /\ UNCHANGED allButReader

RecvTimesOut ==
  /\ reader = "recv" /\ sock = "open" /\ line = "up" /\ toClient = <<>>
  /\ reader' = "loop"
  /\ UNCHANGED allButReader

Recv ==
  /\ reader = "recv" /\ sock = "open"
  /\ \E n \in 1 .. Len(toClient) :
       /\ inbox' = SubSeq(toClient, 1, n)
       /\ toClient' = SubSeq(toClient, n + 1, Len(toClient))
  /\ reader' = "waiting"
  /\ UNCHANGED <<toCooler, line, values, closeReason, error, events, seen, sendVars, sock,
                 closed, closer>>

\* recv() returned nothing or raised; _closed tells whether that was expected.
RecvEnds ==
  /\ reader = "recv"
  /\ \E e \in {"eof", "error"} :
       /\ IF e = "eof" THEN line = "eof" /\ toClient = <<>>
                       ELSE sock = "closed" \/ line = "reset"
       /\ error' = IF closed THEN "none" ELSE e
  /\ reader' = "ending"
  /\ UNCHANGED <<wireVars, values, closeReason, chunkVars, sendVars, sock, closed, closer>>

FeedLock ==
  /\ reader = "waiting" /\ LockFree
  /\ reader' = "feeding"
  /\ UNCHANGED allButReader

\* One frame of session.feed(); the lock is released after the last one.
FeedFrame ==
  /\ reader = "feeding"
  /\ LET f == Head(inbox)
         published == f.action = "PUBLISH"
         v == IF published THEN Decode(f.topic, f.words) ELSE <<>>
     IN  /\ values' = IF published THEN [values EXCEPT ![f.topic] = v] ELSE values
         /\ events' = Append(events, [kind |-> f.action, topic |-> f.topic, value |-> v])
  /\ inbox' = Tail(inbox)
  /\ reader' = IF Tail(inbox) = <<>> THEN "dispatching" ELSE "feeding"
  /\ UNCHANGED <<wireVars, closeReason, error, seen, sendVars, sock, closed, closer>>

\* Mutant: the dispatch loop stops when the client is closed.
DispatchUnlessClosed ==
  /\ reader = "dispatching"
  /\ IF events = <<>> \/ closed
     THEN reader' = "loop" /\ events' = <<>> /\ UNCHANGED seen
     ELSE LET e == Head(events) IN
            /\ reader' = "calling"
            /\ events' = Tail(events)
            /\ seen' = IF e.kind = "PUBLISH" THEN [seen EXCEPT ![e.topic] = e.value] ELSE seen
  /\ UNCHANGED <<wireVars, values, closeReason, error, inbox, sendVars, sock, closed, closer>>

\* on_event is called without the lock.
Dispatch ==
  /\ reader = "dispatching"
  /\ IF events = <<>> THEN reader' = "loop" /\ UNCHANGED <<events, seen>>
     ELSE LET e == Head(events) IN
            /\ reader' = "calling"
            /\ events' = Tail(events)
            /\ seen' = IF e.kind = "PUBLISH" THEN [seen EXCEPT ![e.topic] = e.value] ELSE seen
  /\ UNCHANGED <<wireVars, values, closeReason, error, inbox, sendVars, sock, closed, closer>>

CallbackReturns ==
  /\ reader = "calling" /\ ~Nesting
  /\ reader' = "dispatching"
  /\ UNCHANGED allButReader

\* The finally block.
ReaderMarks ==
  /\ reader = "ending"
  /\ reader' = "marked"
  /\ closeReason' = error
  /\ closed' = TRUE
  /\ UNCHANGED <<wireVars, values, error, chunkVars, sendVars, sock, closer>>

CloseSocket ==
  /\ sock' = IF sock = "none" THEN "none" ELSE "closed"
  /\ line' = IF sock = "open" /\ line = "up" THEN "shut" ELSE line
  /\ UNCHANGED <<toCooler, toClient>>

\* Mutant: the reader leaves the socket to close().
ReaderKeepsSocket ==
  /\ reader = "marked"
  /\ reader' = "onclose"
  /\ UNCHANGED allButReader

ReaderCloses ==
  /\ reader = "marked"
  /\ CloseSocket
  /\ reader' = "onclose"
  /\ UNCHANGED <<values, closeReason, error, chunkVars, sendVars, closed, closer>>

OnCloseReturns ==
  /\ reader = "onclose" /\ ~Nesting
  /\ reader' = "done"
  /\ UNCHANGED allButReader

-----------------------------------------------------------------------------
(* close() *)

\* _closed is tested and set in two steps, two calls may both go on.
CloseTest(c) ==
  /\ closer[c] = "idle" /\ MayStart(c)
  /\ closer' = [closer EXCEPT ![c] = IF closed THEN "skipped" ELSE "marking"]
  /\ UNCHANGED <<wireVars, readerVars, sendVars, sock, closed>>

\* Mutant: _closed is set by the reader alone.
CloseDoesNotMark(c) ==
  /\ closer[c] = "marking"
  /\ closer' = [closer EXCEPT ![c] = "closing"]
  /\ UNCHANGED <<wireVars, readerVars, sendVars, sock, closed>>

CloseMark(c) ==
  /\ closer[c] = "marking"
  /\ closed' = TRUE
  /\ closer' = [closer EXCEPT ![c] = "closing"]
  /\ UNCHANGED <<wireVars, readerVars, sendVars, sock>>

CloseShutdown(c) ==
  /\ closer[c] = "closing"
  /\ CloseSocket
  /\ closer' = [closer EXCEPT ![c] = "joining"]
  /\ UNCHANGED <<readerVars, sendVars, closed>>

\* Mutant: no join.
CloseAtOnce(c) ==
  /\ closer[c] = "joining"
  /\ closer' = [closer EXCEPT ![c] = "joined"]
  /\ UNCHANGED <<wireVars, readerVars, sendVars, sock, closed>>

\* Mutant: join() without a timeout, in a callback too.
CloseJoinsItself(c) ==
  /\ closer[c] = "joining" /\ reader \in {"none", "made", "done"}
  /\ closer' = [closer EXCEPT ![c] =
       CASE reader = "none" -> "detached"
         [] reader = "made" -> "raised"
         [] reader = "done" -> "joined"]
  /\ UNCHANGED <<wireVars, readerVars, sendVars, sock, closed>>

\* join() waits 1.5 s.  It raises RuntimeError for a thread not started yet, and
\* is left out when there is no reader or close() runs in it.
CloseJoin(c) ==
  /\ closer[c] = "joining"
  /\ closer' = [closer EXCEPT ![c] =
       IF reader = "none" \/ c \in InCallback THEN "detached"
       ELSE IF reader = "made" THEN "raised"
       ELSE IF reader = "done" THEN "joined" ELSE "gaveup"]
  /\ UNCHANGED <<wireVars, readerVars, sendVars, sock, closed>>

-----------------------------------------------------------------------------

\* The connection breaks.
Reset ==
  /\ sock = "open" /\ line # "reset"
  /\ line' = "reset" /\ toCooler' = <<>> /\ toClient' = <<>>
  /\ UNCHANGED syncVars

ConnectStep == Dial \/ MakeReader \/ StartReader

SendStep(w) == SendCheck(w) \/ SendStart(w) \/ SendRest(w) \/ SendFails(w)

ReaderStep ==
  \/ LoopTest \/ RecvTimesOut \/ Recv \/ RecvEnds
  \/ FeedLock \/ FeedFrame \/ Dispatch \/ CallbackReturns
  \/ ReaderMarks \/ ReaderCloses \/ OnCloseReturns

CloseStep(c) == CloseMark(c) \/ CloseShutdown(c) \/ CloseJoin(c)

SyncNext ==
  \/ ConnectStep \/ ReaderStep \/ Reset
  \/ \E w \in Writers : Build(w)
  \/ \E w \in Threads : SendStep(w)
  \/ \E c \in Closers : CloseTest(c) \/ CloseStep(c)
=============================================================================
