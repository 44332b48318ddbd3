----------------------------- MODULE AsyncClient -----------------------------
(***************************************************************************)
(* aio.AsyncClient: the reader task, the concurrent calls of set() and     *)
(* close(), and the consumers of events(), on one asyncio loop.  Between   *)
(* two suspensions a coroutine runs alone, so an action is what one task   *)
(* or one loop callback does from one await to the next.                   *)
(*                                                                         *)
(* Suspension points: read() in _read_loop; drain() (only while the        *)
(* transport has paused writing) and wait_for(fut) in set(); the reader    *)
(* task and wait_closed() in close(); get() in events().  The event queue  *)
(* has no limit, so put() never suspends and a chunk is handled in one go. *)
(***************************************************************************)
EXTENDS Cooler, FiniteSets

CONSTANTS
  Closers,      \* the calls of close()
  Consumers,    \* the iterations of events()
  Subscribed,   \* Session.topics: what connect() subscribes to, in order
  Requests,     \* the arguments a caller may give set()
  Cancellable,  \* the writers whose caller may cancel them
  MaxPauses     \* bound on how often the transport pauses writing

ASSUME ClientAssumption ==
  /\ Subscribed \in Seq(Topics)
  /\ Requests \subseteq [topic : Topics, value : Int, compartment : Nat]
  /\ MaxPauses \in Nat

VARIABLES
  values,       \* session.values, <<>> while unpublished
  expectation,  \* the WriteExpectation each set() built
  fut,          \* the future each set() waits for, and how it was settled
  pending,      \* _pending, by writer
  task,         \* where each call of set() is
  outcome,      \* how each call of set() ended: what it returned or raised
  closed,       \* _closed
  closeReason,  \* close_reason
  reader,       \* the reader task
  closer,       \* where each call of close() is
  transport,    \* whether the socket is still open on the client's side
  paused,       \* the transport's write buffer is over its high-water mark
  pauses,       \* how often it was
  queue,        \* _events
  consumer,     \* where each iteration of events() is
  delivered     \* history: the last value events() yielded for each topic

readVars  == <<values, closed, closeReason, reader>>
writeVars == <<expectation, pending, task, outcome>>
sockVars  == <<transport, paused, pauses>>
eventVars == <<consumer, delivered>>
restVars  == <<readVars, closer, sockVars, queue, eventVars>>  \* not touched by set()
clientVars == <<writeVars, fut, restVars>>

InFlight == {"draining", "resuming", "broken", "waiting", "expiring", "cancelling"}

Verdicts == {"confirmed", "rejected"}

LocalErrors == {"NotWritable", "StateUnknown", "ValueError", "closed"}

Outcomes == Verdicts \cup LocalErrors \cup {"lost", "timeout", "cancelled", "oserror"}

Event == [kind : {"PUBLISH", "NAK", "end"}, topic : Topics, value : Seq(Int)]

\* The None of _events: "no more events".
End == [kind |-> "end", topic |-> "nocpt", value |-> <<>>]

NoExpectation == [topic |-> "nocpt", value |-> <<>>, compartment |-> 0]

ClientTypeOK ==
  /\ values \in [Topics -> Seq(Int)]
  /\ expectation \in [Writers -> [topic : Topics, value : Seq(Int), compartment : Nat]]
  /\ fut \in [Writers -> {"none", "pending", "lost", "cancelled"} \cup Verdicts]
  /\ pending \subseteq Writers
  /\ task \in [Writers -> InFlight \cup {"idle", "done"}]
  /\ outcome \in [Writers -> Outcomes \cup {"none"}]
  /\ closed \in BOOLEAN
  /\ closeReason \in {"none", "eof", "error"}
  /\ reader \in {"none", "new", "reading", "cancelling", "unstarted", "done", "dropped"}
  /\ closer \in [Closers -> {"idle", "joining", "closing", "done", "skipped"}]
  /\ transport \in {"open", "closed"}
  /\ paused \in BOOLEAN
  /\ pauses \in Nat
  /\ queue \in Seq(Event)
  /\ consumer \in [Consumers -> {"iterating", "done"}]
  /\ delivered \in [Topics -> Seq(Int)]

ClientInit ==
  /\ values = [t \in Topics |-> <<>>]
  /\ expectation = [w \in Writers |-> NoExpectation]
  /\ fut = [w \in Writers |-> "none"]
  /\ pending = {}
  /\ task = [w \in Writers |-> "idle"]
  /\ outcome = [w \in Writers |-> "none"]
  /\ closed = FALSE
  /\ closeReason = "none"
  /\ reader = "none"
  /\ closer = [c \in Closers |-> "idle"]
  /\ transport = "open"
  /\ paused = FALSE
  /\ pauses = 0
  /\ queue = <<>>
  /\ consumer = [i \in Consumers |-> "iterating"]
  /\ delivered = [t \in Topics |-> <<>>]

-----------------------------------------------------------------------------
(* connect() and send() *)

\* A write on a connection the cooler closed reaches nobody.
Write(frames) ==
  /\ toCooler' = IF line = "up" THEN toCooler \o frames ELSE toCooler
  /\ UNCHANGED <<toClient, line>>

SubscribeFrame(t) ==
  [action |-> "SUBSCRIBE", topic |-> t, words |-> <<>>, by |-> NoWriter]

\* The burst is far below the high-water mark, so none of its drains suspends
\* and the reader task has not run when connect() returns.
Connect ==
  /\ reader = "none"
  /\ reader' = "new"
  /\ \E subscribe \in BOOLEAN :
       Write(IF subscribe THEN [i \in DOMAIN Subscribed |-> SubscribeFrame(Subscribed[i])]
                          ELSE <<>>)
  /\ UNCHANGED <<values, closed, closeReason, writeVars, fut, closer, sockVars,
                 queue, eventVars>>

-----------------------------------------------------------------------------
(* _read_loop and _resolve *)

ReaderStart ==
  /\ reader = "new"
  /\ reader' = "reading"
  /\ UNCHANGED <<wireVars, values, closed, closeReason, writeVars, fut, closer,
                 sockVars, queue, eventVars>>

EventOf(frame) ==
  [kind |-> frame.action, topic |-> frame.topic,
   value |-> IF frame.action = "PUBLISH" THEN Decode(frame.topic, frame.words)
                                         ELSE <<>>]

Publishes(chunk, t) ==
  {i \in DOMAIN chunk : chunk[i].action = "PUBLISH" /\ chunk[i].topic = t}

Last(S) == CHOOSE i \in S : \A j \in S : j <= i

First(S) == CHOOSE i \in S : \A j \in S : i <= j

\* Mutant: the new values replace the dictionary instead of updating it.
FeedForgets(chunk) ==
  [t \in {u \in Topics : Publishes(chunk, u) # {}} |->
     Decode(t, chunk[Last(Publishes(chunk, t))].words)]

\* Mutant: the first publish of a chunk wins.
FeedFirst(chunk) ==
  [t \in Topics |-> IF Publishes(chunk, t) = {} THEN values[t]
                    ELSE Decode(t, chunk[First(Publishes(chunk, t))].words)]

\* session.feed(): the value of a topic is its last publish.
Feed(chunk) ==
  [t \in Topics |-> IF Publishes(chunk, t) = {} THEN values[t]
                    ELSE Decode(t, chunk[Last(Publishes(chunk, t))].words)]

Verdict(w, frame) == Matches(expectation[w].topic, expectation[w].value, frame)

Decisive(w, chunk) == {i \in DOMAIN chunk : Verdict(w, chunk[i]) # "none"}

\* Mutant: no fut.done() check.
ResolveAgain(chunk) ==
  [w \in Writers |->
     IF w \in pending /\ Decisive(w, chunk) # {}
     THEN Verdict(w, chunk[First(Decisive(w, chunk))])
     ELSE fut[w]]

\* _resolve, event after event: the first decisive one settles a future, and a
\* settled one is skipped.
Resolve(chunk) ==
  [w \in Writers |->
     IF w \in pending /\ fut[w] = "pending" /\ Decisive(w, chunk) # {}
     THEN Verdict(w, chunk[First(Decisive(w, chunk))])
     ELSE fut[w]]

\* read() returned the first n frames that are there.
ReadChunk ==
  /\ reader = "reading"
  /\ \E n \in 1 .. Len(toClient) :
       LET chunk == SubSeq(toClient, 1, n) IN
         /\ values' = Feed(chunk)
         /\ fut' = Resolve(chunk)
         /\ queue' = queue \o [i \in DOMAIN chunk |-> EventOf(chunk[i])]
         /\ toClient' = SubSeq(toClient, n + 1, Len(toClient))
  /\ UNCHANGED <<toCooler, line, closed, closeReason, reader, writeVars, closer,
                 sockVars, eventVars>>

\* Mutant: the finally block does not look at _pending.
FinishReaderSilently(reason) ==
  /\ reader' = "done" /\ closeReason' = reason /\ closed' = TRUE
  /\ queue' = Append(queue, End)
  /\ UNCHANGED <<wireVars, values, fut, writeVars, closer, sockVars, eventVars>>

\* Mutant: it leaves the end of the stream to close().
FinishReaderNoEnd(reason) ==
  /\ reader' = "done" /\ closeReason' = reason /\ closed' = TRUE
  /\ fut' = [w \in Writers |-> IF w \in pending /\ fut[w] = "pending"
                               THEN "lost" ELSE fut[w]]
  /\ UNCHANGED <<wireVars, values, queue, writeVars, closer, sockVars, eventVars>>

\* The finally block of _read_loop.  It does not close the writer.
FinishReader(reason) ==
  /\ reader' = "done"
  /\ closeReason' = reason
  /\ closed' = TRUE
  /\ fut' = [w \in Writers |-> IF w \in pending /\ fut[w] = "pending"
                               THEN "lost" ELSE fut[w]]
  /\ queue' = Append(queue, End)
  /\ UNCHANGED <<wireVars, values, writeVars, closer, sockVars, eventVars>>

ReadEof ==
  /\ reader = "reading" /\ line = "eof" /\ toClient = <<>>
  /\ FinishReader("eof")

ReadError ==
  /\ reader = "reading" /\ line = "reset"
  /\ FinishReader("error")

\* Mutant: except Exception also catches the cancellation and keeps it as error.
ReaderCancelledAsError ==
  /\ reader = "cancelling"
  /\ FinishReader("error")

\* Mutant: the loop swallows the cancellation and reads on.
ReaderNotCancelled ==
  /\ reader = "cancelling"
  /\ reader' = "reading"
  /\ UNCHANGED <<wireVars, values, closed, closeReason, writeVars, fut, closer,
                 sockVars, queue, eventVars>>

ReaderCancelled ==
  /\ reader = "cancelling"
  /\ FinishReader("none")

\* A task cancelled before its first step never enters the try block.
ReaderDropped ==
  /\ reader = "unstarted"
  /\ reader' = "dropped"
  /\ UNCHANGED <<wireVars, values, closed, closeReason, writeVars, fut, closer,
                 sockVars, queue, eventVars>>

-----------------------------------------------------------------------------
(* set() *)

\* Mutant: set() leaves its entry in _pending.
ReturnKeepsEntry(w, o) ==
  /\ task' = [task EXCEPT ![w] = "done"]
  /\ outcome' = [outcome EXCEPT ![w] = o]
  /\ UNCHANGED <<expectation, pending>>

\* The finally block of set().
Return(w, o) ==
  /\ task' = [task EXCEPT ![w] = "done"]
  /\ outcome' = [outcome EXCEPT ![w] = o]
  /\ pending' = pending \ {w}
  /\ UNCHANGED expectation

\* From the call to its first suspension.  set_frame() runs before the
\* connection is looked at; a transport that is gone makes drain() raise.
Set(w) ==
  /\ task[w] = "idle" /\ reader # "none"
  /\ \E r \in Requests :
       LET error == RefusedBy(values, r.topic, r.value, r.compartment)
           raised == IF error # "none" THEN error
                     ELSE IF closed THEN "closed"
                     ELSE IF line = "reset" THEN "oserror" ELSE "none"
       IN  \/ /\ raised # "none"
              /\ Return(w, raised)
              /\ UNCHANGED <<wireVars, fut>>
           \/ /\ raised = "none"
              /\ expectation' = [expectation EXCEPT ![w] =
                   [topic |-> r.topic, compartment |-> r.compartment,
                    value |-> Expected(values, r.topic, r.value, r.compartment)]]
              /\ fut' = [fut EXCEPT ![w] = "pending"]
              /\ pending' = pending \cup {w}
              /\ Write(<<[action |-> "SET", topic |-> r.topic, by |-> w,
                          words |-> Encode(r.topic, NewValue(values, r.topic,
                                                      r.value, r.compartment))]>>)
              /\ task' = [task EXCEPT ![w] = IF paused THEN "draining" ELSE "waiting"]
              /\ UNCHANGED outcome
  /\ UNCHANGED restVars

\* The task goes on after drain(): the timeout starts only now.
SetDrained(w) ==
  /\ task[w] = "resuming" /\ fut[w] = "pending"
  /\ task' = [task EXCEPT ![w] = "waiting"]
  /\ UNCHANGED <<wireVars, expectation, outcome, pending, fut, restVars>>

\* The end of set(): drain() raised, the future is settled, or the task was
\* cancelled, by the timer or by the caller.
SetReturns(w) ==
  /\ \/ task[w] = "broken" /\ Return(w, "oserror")
     \/ task[w] \in {"resuming", "waiting"} /\ fut[w] # "pending" /\ Return(w, fut[w])
     \/ task[w] = "expiring" /\ Return(w, "timeout")
     \/ task[w] = "cancelling" /\ Return(w, "cancelled")
  /\ UNCHANGED <<wireVars, fut, restVars>>

\* Cancelling a task that waits for a future cancels the future, unless the
\* future is already settled: then the task still gets the CancelledError.
CancelWait(w, to) ==
  /\ task' = [task EXCEPT ![w] = to]
  /\ fut' = [fut EXCEPT ![w] = IF task[w] = "waiting" /\ fut[w] = "pending"
                               THEN "cancelled" ELSE fut[w]]
  /\ UNCHANGED <<wireVars, expectation, pending, outcome, restVars>>

\* Mutant: the deadline is only looked at once an answer came.
TimerFiresLate(w) ==
  /\ task[w] = "waiting" /\ fut[w] # "pending"
  /\ CancelWait(w, "expiring")

\* The callback of wait_for's timer.  It can be ready in the loop iteration in
\* which the reader settles the future, before set() has run again.
TimerFires(w) ==
  /\ task[w] = "waiting"
  /\ CancelWait(w, "expiring")

\* The caller cancels the task that runs set().
Cancel(w) ==
  /\ w \in Cancellable
  /\ task[w] \in InFlight \ {"cancelling"}
  /\ CancelWait(w, "cancelling")

-----------------------------------------------------------------------------
(* The transport *)

PauseWriting ==
  /\ transport = "open" /\ ~paused /\ reader # "none"
  /\ pauses < MaxPauses
  /\ pauses' = pauses + 1
  /\ paused' = TRUE
  /\ UNCHANGED <<wireVars, readVars, writeVars, fut, closer, transport, queue, eventVars>>

\* Every drain() that waits goes on in the same way.
WakeDrains(to) ==
  task' = [w \in Writers |-> IF task[w] = "draining" THEN to ELSE task[w]]

ResumeWriting ==
  /\ transport = "open" /\ paused
  /\ paused' = FALSE
  /\ WakeDrains("resuming")
  /\ UNCHANGED <<wireVars, readVars, expectation, pending, outcome, fut, closer,
                 transport, pauses, queue, eventVars>>

\* The connection breaks: frames on the way are lost, the transport closes
\* itself and drain() raises in whoever waits for it.
ConnectionLost ==
  /\ transport = "open" /\ reader # "none"
  /\ transport' = "closed"
  /\ line' = "reset" /\ toCooler' = <<>> /\ toClient' = <<>>
  /\ WakeDrains("broken")
  /\ UNCHANGED <<readVars, expectation, pending, outcome, fut, closer, paused,
                 pauses, queue, eventVars>>

-----------------------------------------------------------------------------
(* close() *)

\* Mutant: _closed is left to the finally block of the reader.
CloseStartLate(c) ==
  /\ closer[c] = "idle" /\ reader # "none" /\ ~closed
  /\ reader' = IF reader = "new" THEN "unstarted" ELSE "cancelling"
  /\ closer' = [closer EXCEPT ![c] = "joining"]
  /\ UNCHANGED <<wireVars, values, closed, closeReason, writeVars, fut, sockVars, queue,
                 eventVars>>

CloseStart(c) ==
  /\ closer[c] = "idle" /\ reader # "none" /\ ~closed
  /\ closed' = TRUE
  /\ reader' = IF reader = "new" THEN "unstarted" ELSE "cancelling"
  /\ closer' = [closer EXCEPT ![c] = "joining"]
  /\ UNCHANGED <<wireVars, values, closeReason, writeVars, fut, sockVars, queue, eventVars>>

CloseSkipped(c) ==
  /\ closer[c] = "idle" /\ closed
  /\ closer' = [closer EXCEPT ![c] = "skipped"]
  /\ UNCHANGED <<wireVars, readVars, writeVars, fut, sockVars, queue, eventVars>>

\* Mutant: close() does not wait for the reader task it cancelled.
CloseNotJoined(c) ==
  /\ closer[c] = "joining"
  /\ closer' = [closer EXCEPT ![c] = "closing"]
  /\ transport' = "closed"
  /\ line' = IF line = "up" THEN "shut" ELSE line
  /\ \E to \in {"resuming", "broken"} : WakeDrains(to)
  /\ UNCHANGED <<toCooler, toClient, readVars, expectation, pending, outcome, fut,
                 paused, pauses, queue, eventVars>>

\* The reader task is over: shutdown() and writer.close().  A drain that waits
\* goes on, or raises if the shutdown made the unsent rest fail.
CloseJoined(c) ==
  /\ closer[c] = "joining" /\ reader \in {"done", "dropped"}
  /\ closer' = [closer EXCEPT ![c] = "closing"]
  /\ transport' = "closed"
  /\ line' = IF line = "up" THEN "shut" ELSE line
  /\ \E to \in {"resuming", "broken"} : WakeDrains(to)
  /\ UNCHANGED <<toCooler, toClient, readVars, expectation, pending, outcome, fut,
                 paused, pauses, queue, eventVars>>

CloseFinish(c) ==
  /\ closer[c] = "closing"
  /\ closer' = [closer EXCEPT ![c] = "done"]
  /\ queue' = Append(queue, End)
  /\ UNCHANGED <<wireVars, readVars, writeVars, fut, sockVars, eventVars>>

-----------------------------------------------------------------------------
(* events() *)

Deliver(i) ==
  /\ consumer[i] = "iterating" /\ queue # <<>>
  /\ LET event == Head(queue) IN
       /\ consumer' = [consumer EXCEPT ![i] =
                         IF event = End THEN "done" ELSE "iterating"]
       /\ delivered' = IF event.kind = "PUBLISH"
                       THEN [delivered EXCEPT ![event.topic] = event.value]
                       ELSE delivered
  /\ queue' = Tail(queue)
  /\ UNCHANGED <<wireVars, readVars, writeVars, fut, closer, sockVars>>

-----------------------------------------------------------------------------

ReaderStep ==
  ReaderStart \/ ReadChunk \/ ReadEof \/ ReadError \/ ReaderCancelled \/ ReaderDropped

\* What the loop runs of a set() once it is due.
SetStep(w) == SetDrained(w) \/ SetReturns(w) \/ TimerFires(w)

CloseStep(c) == CloseJoined(c) \/ CloseFinish(c)

ClientNext ==
  \/ Connect
  \/ ReaderStep
  \/ \E w \in Writers : Set(w) \/ SetStep(w) \/ Cancel(w)
  \/ PauseWriting \/ ResumeWriting \/ ConnectionLost
  \/ \E c \in Closers : CloseStart(c) \/ CloseSkipped(c) \/ CloseStep(c)
  \/ \E i \in Consumers : Deliver(i)
=============================================================================
