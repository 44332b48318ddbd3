------------------------------- MODULE Cooler -------------------------------
(***************************************************************************)
(* The cooler at the other end of the connection, an external component:   *)
(* what src/README.md ("How the cooler answers a write") and               *)
(* src/tests/fake_cooler.py say the clients may meet.  A SUBSCRIBE is      *)
(* answered by a publish of the stored value.  A SET is refused with a     *)
(* NAK that carries the address only, silently ignored, or accepted: then  *)
(* the old value is published again, and the new one once it is applied.   *)
(***************************************************************************)
EXTENDS SessionOps, Wire

CONSTANTS
  Writers,         \* the calls of set() a client makes, one write each
  NoWriter,        \* the ghost owner of a SUBSCRIBE
  InitialStore,    \* what the cooler holds when the client connects
  ForeignChanges,  \* changes made at the panel or by another client
  MaxChanges,      \* bound on the changes of one behaviour
  Copies           \* how often the cooler may publish the value of a SET

ASSUME CoolerAssumption ==
  /\ NoWriter \notin Writers
  /\ InitialStore \in [Topics -> Seq(Int)]
  /\ ForeignChanges \subseteq [topic : Topics, words : Seq(Int)]
  /\ MaxChanges \in Nat
  /\ Copies \subseteq Nat

VARIABLES
  stored,    \* the words the cooler holds for each topic
  applying,  \* accepted SETs it has not applied yet, oldest first
  changes,   \* foreign changes made so far
  fate       \* ghost: what became of each writer's SET

coolerVars == <<stored, applying, changes, fate>>

ToCooler == [action : {"SUBSCRIBE", "SET", "GARBAGE"}, topic : Topics,
             words : Seq(Int), by : Writers \cup {NoWriter}]

ToClient == [action : {"PUBLISH", "NAK"}, topic : Topics, words : Seq(Int)]

Publication(t, words) == [action |-> "PUBLISH", topic |-> t, words |-> words]

\* A line that is no frame.
Garbage == [action |-> "GARBAGE", topic |-> "nocpt", words |-> <<>>, by |-> NoWriter]

Refusal(t) == [action |-> "NAK", topic |-> t, words |-> <<>>]

CoolerTypeOK ==
  /\ toCooler \in Seq(ToCooler)
  /\ toClient \in Seq(ToClient)
  /\ line \in {"up", "eof", "reset", "shut"}
  /\ stored \in [Topics -> Seq(Int)]
  /\ applying \in Seq(ToCooler)
  /\ changes \in Nat
  /\ fate \in [Writers -> {"none", "accepted", "applied", "refused", "ignored"}]

CoolerInit ==
  /\ stored = InitialStore
  /\ applying = <<>>
  /\ changes = 0
  /\ fate = [w \in Writers |-> "none"]

-----------------------------------------------------------------------------

\* Nothing published after the connection went away reaches the client.
Publish(n, frame) ==
  /\ toClient' = IF line = "up" THEN toClient \o [i \in 1..n |-> frame]
                                ELSE toClient
  /\ UNCHANGED line

\* The next frame; what the client wrote before shutting the socket down still
\* arrives.
Receive(action) ==
  /\ line \in {"up", "shut"}
  /\ toCooler # <<>>
  /\ Head(toCooler).action = action
  /\ toCooler' = Tail(toCooler)

AnswerSubscribe ==
  /\ Receive("SUBSCRIBE")
  /\ LET t == Head(toCooler).topic IN
       Publish(IF stored[t] = <<>> THEN 0 ELSE 1, Publication(t, stored[t]))
  /\ UNCHANGED coolerVars

Accept ==
  /\ Receive("SET")
  /\ LET set == Head(toCooler) IN
       /\ applying' = Append(applying, set)
       /\ fate' = [fate EXCEPT ![set.by] = "accepted"]
       /\ \E n \in Copies : Publish(n, Publication(set.topic, stored[set.topic]))
  /\ UNCHANGED <<stored, changes>>

Refuse ==
  /\ Receive("SET")
  /\ LET set == Head(toCooler) IN
       /\ fate' = [fate EXCEPT ![set.by] = "refused"]
       /\ Publish(1, Refusal(set.topic))
  /\ UNCHANGED <<stored, applying, changes>>

Ignore ==
  /\ Receive("SET")
  /\ fate' = [fate EXCEPT ![Head(toCooler).by] = "ignored"]
  /\ UNCHANGED <<toClient, line, stored, applying, changes>>

\* "Anything else is silently ignored, like the real firmware."
Discard ==
  /\ Receive("GARBAGE")
  /\ UNCHANGED <<toClient, line, coolerVars>>

\* Set-points are stored in tenths of a degree (2.2222 becomes 2.2).
Grain(t, words) ==
  IF t = "csettemp" THEN Each(LAMBDA x : 100 * ((x + 50) \div 100), words)
                    ELSE words

Apply ==
  /\ applying # <<>>
  /\ LET set == Head(applying)
         new == Grain(set.topic, set.words)
     IN  /\ stored' = [stored EXCEPT ![set.topic] = new]
         /\ fate' = [fate EXCEPT ![set.by] = "applied"]
         /\ \E n \in Copies : Publish(n, Publication(set.topic, new))
  /\ applying' = Tail(applying)
  /\ UNCHANGED <<toCooler, changes>>

\* A value changes without this client: a sensor, the panel, another client.
Change ==
  /\ changes < MaxChanges
  /\ changes' = changes + 1
  /\ \E f \in ForeignChanges :
       /\ stored' = [stored EXCEPT ![f.topic] = f.words]
       /\ Publish(1, Publication(f.topic, f.words))
  /\ UNCHANGED <<toCooler, applying, fate>>

\* The cooler closes its side; what it published before still arrives.
HangUp ==
  /\ line = "up"
  /\ line' = "eof"
  /\ UNCHANGED <<toCooler, toClient, coolerVars>>

CoolerNext ==
  \/ AnswerSubscribe \/ Accept \/ Refuse \/ Ignore \/ Discard
  \/ Apply \/ Change \/ HangUp
=============================================================================
