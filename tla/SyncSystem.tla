------------------------------ MODULE SyncSystem ------------------------------
(***************************************************************************)
(* A SyncClient and the cooler on one connection.                          *)
(***************************************************************************)
EXTENDS SyncClient

vars == <<wireVars, coolerVars, syncVars>>

Init == WireInit /\ CoolerInit /\ SyncInit

ClientStep == SyncNext /\ UNCHANGED coolerVars

CoolerStep == sock # "none" /\ CoolerNext /\ UNCHANGED syncVars

Next == ClientStep \/ CoolerStep

Spec == Init /\ [][Next]_vars

(***************************************************************************)
(* The scheduler runs every thread that can go on; recv(), sendall() and   *)
(* join() have timeouts; callbacks return.  Each thread takes the lock a   *)
(* bounded number of times between two waits, so that a thread waiting for *)
(* it is not passed over forever.  Whether a thread calls connect(), set() *)
(* or close() is its own business, and nothing is assumed of the cooler.   *)
(***************************************************************************)
ThreadFairness ==
  /\ WF_vars(ReaderStep /\ UNCHANGED coolerVars)
  /\ WF_vars((MakeReader \/ StartReader) /\ UNCHANGED coolerVars)
  /\ \A w \in Threads : WF_vars(SendStep(w) /\ UNCHANGED coolerVars)
  /\ \A c \in Closers : WF_vars(CloseStep(c) /\ UNCHANGED coolerVars)

FairSpec == Spec /\ ThreadFairness

-----------------------------------------------------------------------------

\* Every variable has its type.
TypeOK == CoolerTypeOK /\ SyncTypeOK

\* The lines of two sends are never mixed (the lock around sendall(),
\* sync_client.py:126-130), unless some send raised half-way through its line.
LinesNotMixed ==
  (\/ \E v, w \in tail : v # w
   \/ \E k \in DOMAIN toCooler : toCooler[k] = Garbage)
    => \E w \in Threads : outcome[w] = "closed"

\* What on_event was called with, followed by what it is going to be called
\* with, adds up to session.values: no callback is lost, not even when the
\* connection ends in the middle of a chunk (sync_client.py:176-184).
CallbacksAgreeWithState ==
  \A t \in Topics :
    LET held == {k \in DOMAIN events : events[k].kind = "PUBLISH" /\ events[k].topic = t}
    IN  values[t] = IF held = {} THEN seen[t]
                    ELSE events[CHOOSE k \in held : \A j \in held : j <= k].value

\* A call of close() that did not return at its first line.
Closing(c) == closer[c] \notin {"idle", "marking", "skipped"}

\* on_close is given an error only if the connection ended by itself, and none only
\* if some close() was called: _closed is set before the socket is shut down
\* (sync_client.py:102-106, 169, 173).
CloseReasonHonest ==
  reader \in {"marked", "onclose", "done"} =>
    IF closeReason = "none" THEN \E c \in Closers : Closing(c)
                            ELSE line \in {"eof", "reset"}

\* Once a call of close() has joined the reader, or found that there is none,
\* on_event neither runs nor is called, nothing more is received or fed to the
\* session, and no value changes (sync_client.py:98-111, 163).  A connect() that
\* was still dialling gets a reader that ends before it reads.  on_close is left
\* out: that reader still calls it, after close() returned.
NothingAfterClose ==
  [][(\E c \in Closers \ InCallback : closer[c] \in {"joined", "detached"}) =>
       /\ reader' # "calling"
       /\ UNCHANGED <<inbox, events, values, seen>>]_vars

\* "Frees the cooler's connection slot": after close() returned, in whatever
\* way, the socket does not stay open, nor does one that a concurrent connect()
\* was just opening (sync_client.py:98-111, 163, 189).
SlotFreed ==
  (\E c \in Closers : closer[c] \in Returned) ~> sock # "open"

\* Every set() and the burst of connect() end: sendall() does not hold the lock
\* for more than its timeout (sync_client.py:89).
SendsEnd ==
  \A w \in Threads : task[w] \in {"built", "locking", "sending"} ~> task[w] = "done"

\* Every call of close() returns, also one inside a callback.
CloseReturns ==
  \A c \in Closers : closer[c] = "marking" ~> closer[c] \in Returned

\* "The client is not connected": a send that raises ConnectionClosed leaves a
\* client that says so, or a connection that is gone.
ClosedMeansNotConnected ==
  [][\A w \in Threads : (outcome[w] # "closed" /\ outcome'[w] = "closed") =>
       sock' = "none" \/ closed' \/ line' # "up"]_vars
=============================================================================
