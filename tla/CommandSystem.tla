----------------------------- MODULE CommandSystem -----------------------------
(***************************************************************************)
(* A command, its SyncClient and the cooler, and what the exit code of the *)
(* command says of the cooler.                                             *)
(***************************************************************************)
EXTENDS CommandLine

vars == <<wireVars, coolerVars, syncVars, commandVars>>

Init == WireInit /\ CoolerInit /\ SyncInit /\ CommandInit

Next ==
  \/ CommandNext /\ UNCHANGED coolerVars
  \/ sock # "none" /\ CoolerNext /\ UNCHANGED <<syncVars, commandVars>>

Spec == Init /\ [][Next]_vars

\* The main thread and the reader run when they can, and time passes.  Nobody has
\* to press Ctrl-C, and the cooler may be silent.
FairSpec ==
  /\ Spec
  /\ WF_vars(MainStep /\ UNCHANGED coolerVars)
  /\ WF_vars(DeadlinePasses /\ UNCHANGED coolerVars)
  /\ WF_vars(ReaderRuns /\ UNCHANGED coolerVars)

-----------------------------------------------------------------------------

\* Every variable has its type.
TypeOK == CoolerTypeOK /\ SyncTypeOK /\ CommandTypeOK

\* The first of the events es that matters has verdict v.
Decides(es, v) ==
  \E k \in DOMAIN es : Verdict(es[k]) = v /\ \A j \in 1 .. k - 1 : Verdict(es[j]) = "none"

\* The exit code of a write follows from the first answer that came after the list
\* was cleared; one that came in time is lost only if the deadline passed before it
\* was polled, and then none was polled (__main__.py:147-169).
FirstAnswerDecides ==
  /\ code = 0 /\ command = "write" => Decides(arrived, "confirmed")
  /\ code = 3 => Decides(arrived, "rejected")
  /\ code = 4 => \A k \in 1 .. Len(arrived) - Len(received) : Verdict(arrived[k]) = "none"

\* Whatever republished values and other topics' events are in between: 0 says
\* that the cooler has the new value, unless it had it before or somebody else made
\* the change, and 3 that it refused the SET (__main__.py:155-162).
ExitTellsFate ==
  /\ /\ code = 0 /\ command = "write" /\ changes = 0
     /\ ~Close(request.topic, Decode(request.topic, InitialStore[request.topic]), expected)
     => fate[Write] = "applied"
  /\ code = 3 => fate[Write] = "refused"

\* "dry run: pass --yes to send": without --yes, or in a command that only reads,
\* no byte of a SET leaves and the cooler decides on none (__main__.py:144-146).
OnlyYesWrites ==
  command # "write" \/ ~yes =>
    /\ fate[Write] = "none" /\ Write \notin tail
    /\ \A k \in DOMAIN toCooler : toCooler[k].action # "SET"

\* Every command ends: a write with a silent cooler or a connection that broke, a
\* watch when its connection has ended (__main__.py:110-116, 150-171).
CommandEnds == (command # "watch" \/ closed) ~> step = "exited"
=============================================================================
