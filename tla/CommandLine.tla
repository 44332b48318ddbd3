------------------------------ MODULE CommandLine ------------------------------
(***************************************************************************)
(* The commands of __main__.py that talk to a cooler: watch, state, set    *)
(* and set-temp.  The main thread makes one SyncClient, whose reader       *)
(* thread appends to the list of events that a write polls.  The main      *)
(* thread is NoWriter in connect(), Write in send() and Shut in close().   *)
(* What is printed is left out.                                            *)
(***************************************************************************)
EXTENDS SyncClient

ASSUME CommandAssumption ==
  /\ \E w \in Writers : Writers = {w}
  /\ \E c \in Closers : Closers = {c}
  /\ InCallback = {} /\ Subscribed # <<>>

Write == CHOOSE w \in Writers : TRUE

Shut == CHOOSE c \in Closers : TRUE

VARIABLES
  command,    \* "watch", "state" or "write"
  request,    \* the arguments of a write
  yes,
  step,       \* where the main thread is
  expected,   \* what the expectation of set_frame expects
  received,   \* the list `events`
  arrived,    \* history: the events since the list was cleared
  late,       \* the echo timeout is over
  code        \* the exit code, -1 before it is known

arguments == <<command, request, yes>>
progress == <<expected, received, arrived, late>>
commandVars == <<arguments, progress, step, code>>

CommandTypeOK ==
  /\ command \in {"watch", "state", "write"}
  /\ request \in Requests /\ yes \in BOOLEAN
  /\ step \in {"start", "connecting", "open", "clearing", "sending", "polling", "closing",
              "exited"}
  /\ expected \in Seq(Int)
  /\ received \in Seq(Event) /\ arrived \in Seq(Event)
  /\ late \in BOOLEAN
  /\ code \in {-1, 0, 1, 2, 3, 4}

CommandInit ==
  /\ command \in {"watch", "state", "write"}
  /\ request \in Requests /\ yes \in BOOLEAN
  /\ step = "start" /\ code = -1
  /\ expected = <<>> /\ received = <<>> /\ arrived = <<>> /\ late = FALSE

MainOnly == UNCHANGED <<wireVars, syncVars, arguments, progress>>

Goes(to) == step' = to /\ UNCHANGED code

Exits(c, to) == code' = c /\ step' = to

-----------------------------------------------------------------------------
(* _connect() *)

\* A write to a topic that is not writable is refused before connect().
Begin ==
  /\ step = "start" /\ MainOnly
  /\ IF command = "write" /\ request.topic \notin Writable THEN Exits(2, "exited")
                                                           ELSE Goes("connecting")

Connecting ==
  /\ step = "connecting"
  /\ \/ Dial \/ MakeReader \/ SendStep(NoWriter)
     \/ StartReader /\ task'[NoWriter] = "built"
  /\ UNCHANGED commandVars

\* When connect() raises nobody closes the client.
Connected ==
  /\ step = "connecting" /\ task[NoWriter] = "done" /\ MainOnly
  /\ IF outcome[NoWriter] = "sent" THEN Goes("open") ELSE Exits(1, "exited")

-----------------------------------------------------------------------------
(* cmd_watch and cmd_state *)

\* Mutant: on_close sets the event only if the connection broke.
WatchSeesErrors ==
  /\ step = "open" /\ command = "watch" /\ MainOnly
  /\ reader = "done" /\ closeReason = "error"
  /\ Exits(1, "closing")

\* on_close has set closed_event.
WatchEnds ==
  /\ step = "open" /\ command = "watch" /\ MainOnly
  /\ reader = "done"
  /\ Exits(1, "closing")

Interrupt ==
  /\ step = "open" /\ command = "watch" /\ MainOnly
  /\ Exits(0, "closing")

\* state() returns: it would raise, and the command exit with 1, if the last nocpt
\* ended in a part of a word (models.py:134, StateRaises of SessionFeed), which the
\* cooler of this system never sends.
State ==
  /\ step = "open" /\ command = "state" /\ MainOnly
  /\ Exits(0, "closing")

-----------------------------------------------------------------------------
(* _write() *)

\* Mutant: --yes is tested after the send.
PrepareAnyway ==
  /\ step = "open" /\ command = "write"
  /\ SetFrame(Write, request)
  /\ IF task'[Write] = "done" THEN Exits(1, "closing") /\ UNCHANGED expected
     ELSE /\ expected' = Expected(values, request.topic, request.value, request.compartment)
          /\ Goes("clearing")
  /\ UNCHANGED <<wireVars, readerVars, sock, closed, closer, burst, tail, stalls,
                 arguments, received, arrived, late>>

\* set_frame() without the lock of the client, and the dry run.
Prepare ==
  /\ step = "open" /\ command = "write"
  /\ SetFrame(Write, request)
  /\ IF task'[Write] = "done" THEN Exits(1, "closing") /\ UNCHANGED expected
     ELSE /\ expected' = Expected(values, request.topic, request.value, request.compartment)
          /\ IF yes THEN Goes("clearing") ELSE Exits(2, "closing")
  /\ UNCHANGED <<wireVars, readerVars, sock, closed, closer, burst, tail, stalls,
                 arguments, received, arrived, late>>

ClearEvents ==
  /\ step = "clearing" /\ Goes("sending")
  /\ received' = <<>> /\ arrived' = <<>>
  /\ UNCHANGED <<wireVars, syncVars, arguments, expected, late>>

Sending ==
  /\ step = "sending" /\ SendStep(Write)
  /\ IF task'[Write] # "done" THEN UNCHANGED <<step, code>>
     ELSE IF outcome'[Write] = "sent" THEN Goes("polling") ELSE Exits(1, "closing")
  /\ UNCHANGED <<arguments, progress>>

DeadlinePasses ==
  /\ step = "polling" /\ ~late
  /\ late' = TRUE
  /\ UNCHANGED <<wireVars, syncVars, arguments, expected, received, arrived, step, code>>

\* Mutant: any publish of the topic confirms.
AnyPublishConfirms(e) ==
  IF e.topic # request.topic THEN "none"
  ELSE IF e.kind = "NAK" THEN "rejected" ELSE "confirmed"

\* expectation.matches(); the value of an event is decoded already.
Verdict(e) ==
  IF e.topic # request.topic THEN "none"
  ELSE IF e.kind = "NAK" THEN "rejected"
  ELSE IF Close(e.topic, e.value, expected) THEN "confirmed" ELSE "none"

\* Mutant: the last answer counts.
LastAnswer(es) ==
  LET decisive == {k \in DOMAIN es : Verdict(es[k]) # "none"} IN
    IF decisive = {} THEN "none"
    ELSE Verdict(es[CHOOSE k \in decisive : \A j \in decisive : j <= k])

\* The verdict that ends the loop over the events.
FirstAnswer(es) ==
  LET decisive == {k \in DOMAIN es : Verdict(es[k]) # "none"} IN
    IF decisive = {} THEN "none"
    ELSE Verdict(es[CHOOSE k \in decisive : \A j \in decisive : k <= j])

\* One round of the loop.
Poll ==
  /\ step = "polling"
  /\ IF late THEN Exits(4, "closing") /\ UNCHANGED received
     ELSE /\ received' = <<>>
          /\ CASE FirstAnswer(received) = "confirmed" -> Exits(0, "closing")
               [] FirstAnswer(received) = "rejected"  -> Exits(3, "closing")
               [] FirstAnswer(received) = "none"      -> UNCHANGED <<step, code>>
  /\ UNCHANGED <<wireVars, syncVars, arguments, expected, arrived, late>>

-----------------------------------------------------------------------------

Closing ==
  /\ step = "closing"
  /\ CloseTest(Shut) \/ CloseStep(Shut)
  /\ UNCHANGED commandVars

\* The reader thread is a daemon: it ends with the process.
Exited ==
  /\ step = "closing" /\ closer[Shut] \in Returned /\ MainOnly
  /\ step' = "exited" /\ UNCHANGED code

MainStep ==
  \/ Begin \/ Connecting \/ Connected \/ WatchEnds \/ State
  \/ Prepare \/ ClearEvents \/ Sending \/ Poll \/ Closing \/ Exited

\* on_event of _write().
EventArrives ==
  /\ reader = "dispatching" /\ Dispatch
  /\ IF events = <<>> \/ command # "write" THEN UNCHANGED <<received, arrived>>
     ELSE /\ received' = Append(received, Head(events))
          /\ arrived' = Append(arrived, Head(events))
  /\ UNCHANGED <<arguments, expected, late, step, code>>

ReaderRuns ==
  /\ step # "exited"
  /\ \/ EventArrives
     \/ reader # "dispatching" /\ ReaderStep /\ UNCHANGED commandVars

CommandNext ==
  \/ MainStep \/ Interrupt \/ DeadlinePasses \/ ReaderRuns
  \/ step # "exited" /\ Reset /\ UNCHANGED commandVars
=============================================================================
