----------------------------- MODULE AsyncSystem -----------------------------
(***************************************************************************)
(* An AsyncClient and the cooler on one connection: the specification, the *)
(* fairness of the event loop, and the properties.                         *)
(***************************************************************************)
EXTENDS AsyncClient

vars == <<wireVars, coolerVars, clientVars>>

Init == WireInit /\ CoolerInit /\ ClientInit

CoolerStep == CoolerNext /\ UNCHANGED clientVars

ClientStep == ClientNext /\ UNCHANGED coolerVars

Next == ClientStep \/ CoolerStep

Spec == Init /\ [][Next]_vars

(***************************************************************************)
(* The loop runs every callback that is ready and every timer that is due, *)
(* and a coroutine that can go on is resumed.  Nothing is assumed of the   *)
(* cooler, of the callers, or of the peer's reading (ResumeWriting).       *)
(***************************************************************************)
LoopFairness ==
  /\ WF_vars(ReaderStep /\ UNCHANGED coolerVars)
  /\ \A w \in Writers : WF_vars(SetStep(w) /\ UNCHANGED coolerVars)
  /\ \A c \in Closers : WF_vars(CloseStep(c) /\ UNCHANGED coolerVars)
  /\ \A i \in Consumers : WF_vars(Deliver(i) /\ UNCHANGED coolerVars)

FairSpec == Spec /\ LoopFairness

-----------------------------------------------------------------------------
(* Safety *)

\* Every variable has its type.
TypeOK == CoolerTypeOK /\ ClientTypeOK

\* _pending (aio.py:111, 121-123) holds exactly the calls of set() in progress:
\* an entry never outlives its call, however the call ended, and no call in
\* progress has been taken out, which would leave it without an answer.
PendingIffInFlight == pending = {w \in Writers : task[w] \in InFlight}

\* Once the reader task is over no call of set() is left waiting for an answer
\* that nobody can give: the ones that were in _pending were told
\* (aio.py:160-162) and none is added later (the check in send(), aio.py:91).
\* A reader cancelled before its first step is the exception.
NoOrphanWait ==
  reader = "done" =>
    \A w \in Writers : task[w] \in {"draining", "resuming", "waiting"}
                         => fut[w] # "pending"

\* set() raises WriteRejected only if the cooler refused some SET of this client
\* to the same topic (session.py:72-77): a publish of another value is no refusal,
\* whatever the docstring of WriteRejected says (errors.py:25).  A NAK rejects every
\* pending write to its topic, so the refused SET need not be the one of this call.
RejectedOnlyAfterRefusal ==
  \A w \in Writers : fut[w] = "rejected" =>
    \E v \in Writers : /\ fate[v] = "refused"
                       /\ expectation[v].topic = expectation[w].topic

\* The value session.state() reports for a topic is the value of the last
\* publish that events() yielded or still holds: a consumer that folds the
\* stream ends with the same state (aio.py:150-153).
StreamAgreesWithState ==
  \A t \in Topics :
    LET held == {k \in DOMAIN queue : queue[k].kind = "PUBLISH" /\ queue[k].topic = t}
    IN  values[t] = IF held = {} THEN delivered[t] ELSE queue[Last(held)].value

\* The calls of close() that found the connection open.
Closing(c) == closer[c] \in {"joining", "closing", "done"}

\* close_reason (aio.py:158) tells who ended the connection: it stays None
\* exactly when a call of close() cancelled the reader.
CloseReasonTellsWho ==
  reader = "done" =>
    (closeReason = "none" <=> \E c \in Closers : Closing(c))

\* Where set() may still be answered.
Asked == {"draining", "resuming", "broken", "waiting"}

\* The inductive invariant of the client.  Beside the invariants above: _closed
\* says whether the reader task has been told to end or has ended; one call of
\* close() at most runs to its end, and only a cancelled reader has one; and a
\* call that can still be answered has a future that was not given up.
ClientInv ==
  /\ PendingIffInFlight
  /\ NoOrphanWait
  /\ CloseReasonTellsWho
  /\ closed <=> reader \in {"cancelling", "unstarted", "done", "dropped"}
  /\ \A c, d \in Closers : Closing(c) /\ Closing(d) => c = d
  /\ \A c \in Closers : Closing(c) => closed
  /\ \A c \in Closers : closer[c] \in {"closing", "done"} => reader \in {"done", "dropped"}
  /\ reader \in {"cancelling", "unstarted"} => \E c \in Closers : Closing(c)
  /\ \A w \in Writers : task[w] = "idle" => fut[w] = "none"
  /\ \A w \in Writers : task[w] \in Asked => fut[w] \in {"pending", "lost"} \cup Verdicts

\* A future is settled once (the fut.done() checks, aio.py:161 and 167): a late
\* answer changes neither the result nor the exception of a write.
FutureSettledOnce ==
  [][\A w \in Writers : fut[w] \notin {"none", "pending"} => fut'[w] = fut[w]]_vars

\* Once a call of close() has run to its end the connection is over for good:
\* no value changes and nothing is added to the event stream, because close()
\* waits for the reader task before it puts the last None (aio.py:68-80).
NothingAfterClose ==
  [][(\E c \in Closers : closer[c] = "done") =>
       values' = values /\ Len(queue') <= Len(queue)]_vars

\* While a drain() is stuck the timeout of set() has not started (aio.py:115-116).
\* Apart from that wait, every call of set() ends, with a cooler that never
\* answers and with a connection that breaks.
WritesEnd ==
  \A w \in Writers : task[w] \notin {"idle", "draining"} ~> task[w] = "done"

\* close() returns (aio.py:64-80), whatever the reader and the writers do.
CloseReturns ==
  \A c \in Closers : closer[c] = "joining" ~> closer[c] = "done"

\* The iteration of events() ends after the connection did (aio.py:133-139).
EventsEnd ==
  \A i \in Consumers : closed ~> consumer[i] = "done"

-----------------------------------------------------------------------------
(* The promise of set() *)

promiseStatus ==
  [w \in Writers |-> IF task[w] = "idle" THEN "idle"
                     ELSE IF task[w] = "done" THEN "ended"
                     ELSE IF task[w] \in Asked THEN "asked" ELSE "leaving"]

promiseAnswer ==
  [w \in Writers |-> IF fut[w] \in Verdicts \cup {"lost"} THEN fut[w] ELSE "none"]

promisePhase ==
  CASE reader \in {"none", "new"} -> "unheard"
    [] reader = "reading"         -> "open"
    [] reader = "cancelling"      -> "ending"
    [] reader = "done"            -> "over"
    [] OTHER                      -> "dropped"

Promise == INSTANCE WritePromise WITH
  phase <- promisePhase, status <- promiseStatus, answer <- promiseAnswer,
  result <- outcome

\* The client keeps the promise of WritePromise: answers come once and only while
\* the reader task reads, a reader that has read ends by telling every call that
\* still waits (aio.py:160-162), and a call ends with the answer it got.  A reader
\* that close() cancels before its first step (aio.py:68) tells nobody: it is the
\* Drop of WritePromise, and only such a reader is.
PromiseKept == Promise!Spec

-----------------------------------------------------------------------------
(* What the documentation says and the code does not do *)

\* close() frees the connection: when calls of it returned and none is still
\* running, the socket is closed.
CloseFreesSocket ==
  (\E c \in Closers : closer[c] \in {"done", "skipped"})
    /\ (\A c \in Closers : closer[c] \notin {"joining", "closing"})
    => transport = "closed"

\* A write to one compartment preserves the other compartments: applying its SET
\* changes none of them.
OtherCompartmentsPreserved ==
  [][\A w \in Writers :
       (fate[w] = "accepted" /\ fate'[w] = "applied") =>
         LET t == expectation[w].topic IN
           \A k \in DOMAIN stored[t] :
             k # expectation[w].compartment + 1 => stored'[t][k] = stored[t][k]]_vars
=============================================================================
