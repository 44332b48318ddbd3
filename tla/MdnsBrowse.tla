------------------------------ MODULE MdnsBrowse ------------------------------
(***************************************************************************)
(* discovery.query_mdns and _MdnsCollector: one browse for the service,    *)
(* follow-up questions for what the answers did not carry, and an early    *)
(* stop.  Packets are UDP multicast: any answer to a question that was     *)
(* sent, and whatever somebody else asked for, may come at any time, any   *)
(* number of times, or never.                                              *)
(***************************************************************************)
EXTENDS Integers, Sequences

CONSTANTS
  Instances, Hosts, Addresses,   \* names; two that differ in case only are one here
  Packets,      \* records with the question they answer
  Timeout, Gap, Linger, Poll,    \* of the browse, between questions, 0.3 s and 0.25 s
  Delays,       \* how long recvfrom() may wait for a packet
  MaxPackets    \* bound on the packets of one browse

None == "none"

Question(type, name) == [type |-> type, name |-> name]

Browse == Question("PTR", None)

\* The question of a packet that somebody else asked for.
Unasked == Question("ANY", None)

Questions == [type : {"PTR", "SRV", "TXT", "A"}, name : Instances \cup Hosts \cup {None}]

\* A PTR record of the service has the instance as its value, an SRV record the host,
\* an A record the address.  A TXT record names the firmware or does not.  Other records
\* are not looked at.
Texts == {"firmware", "bare"}

Records ==
  [type : {"PTR"}, name : {None}, value : Instances]
    \cup [type : {"SRV"}, name : Instances, value : Hosts]
    \cup [type : {"TXT"}, name : Instances, value : Texts]
    \cup [type : {"A"}, name : Hosts, value : Addresses]

ASSUME BrowseAssumption ==
  /\ None \notin Instances \cup Hosts \cup Addresses
  /\ Packets \subseteq [answers : Questions \cup {Unasked}, records : Seq(Records)]
  /\ {Timeout, Linger} \subseteq Nat /\ {Gap, Poll} \subseteq Nat \ {0}
  /\ Delays \subseteq 0 .. Poll
  /\ MaxPackets \in Nat

VARIABLES
  loop,        \* "idle", at the "top" of the loop, in "recv", "done" or "raised"
  clock,       \* time since the first query
  deadline, nextSend, asked,
  sent,        \* the questions on the network
  collector,   \* instances, srv, txt, addresses (without repetitions)
  packets,     \* packets received so far
  failed,      \* recvfrom() raised
  heard,       \* history: all records received
  since        \* history: for how long each follow-up has been missing

browseVars == <<loop, clock, deadline, nextSend, asked, sent, collector, packets, failed,
                heard, since>>

BrowseInit ==
  /\ loop = "idle" /\ clock = 0 /\ deadline = Timeout /\ nextSend = 0
  /\ asked = {} /\ sent = {}
  /\ collector = [instances |-> {},
                  srv |-> [i \in Instances |-> None],
                  txt |-> [i \in Instances |-> None],
                  addresses |-> [h \in Hosts |-> <<>>]]
  /\ packets = 0 /\ failed = FALSE
  /\ heard = {} /\ since = <<>>

-----------------------------------------------------------------------------
(* _MdnsCollector *)

ElementsOf(seq) == {seq[n] : n \in DOMAIN seq}

\* Mutant: an address is kept only for a host that is known.
AddKnownHost(c, r) ==
  CASE r.type = "PTR" -> [c EXCEPT !.instances = @ \cup {r.value}]
    [] r.type = "SRV" -> [c EXCEPT !.srv[r.name] = r.value]
    [] r.type = "TXT" -> [c EXCEPT !.txt[r.name] = r.value]
    [] r.type = "A" /\ \A i \in Instances : c.srv[i] # r.name -> c
    [] OTHER -> [c EXCEPT !.addresses[r.name] =
                   IF r.value \in ElementsOf(@) THEN @ ELSE Append(@, r.value)]

\* A later SRV or TXT replaces an earlier one.  The code keeps records whose names
\* differ in case apart and looks the exact name up first.
Add(c, r) ==
  CASE r.type = "PTR" -> [c EXCEPT !.instances = @ \cup {r.value}]
    [] r.type = "SRV" -> [c EXCEPT !.srv[r.name] = r.value]
    [] r.type = "TXT" -> [c EXCEPT !.txt[r.name] = r.value]
    [] r.type = "A"   -> [c EXCEPT !.addresses[r.name] =
                            IF r.value \in ElementsOf(@) THEN @ ELSE Append(@, r.value)]

\* add(): the records of one packet, in their order; what the first n of them make
\* of the collector.
AddAll(c, records) ==
  LET after[n \in 0 .. Len(records)] ==
        IF n = 0 THEN c ELSE Add(after[n - 1], records[n])
  IN  after[Len(records)]

\* The instances that services() reports, and what it says of each.
Services(c) == {i \in c.instances : c.srv[i] # None}

Service(c, i) ==
  [host |-> c.srv[i], addresses |-> c.addresses[c.srv[i]], txt |-> c.txt[i]]

\* Without an SRV record both are asked for, the TXT even when it is known.
Missing(c) ==
  {Question("SRV", i) : i \in c.instances \ Services(c)}
    \cup {Question("TXT", i) :
            i \in {j \in c.instances : j \notin Services(c) \/ c.txt[j] = None}}
    \cup {Question("A", c.srv[i]) : i \in {j \in Services(c) : c.addresses[c.srv[j]] = <<>>}}

-----------------------------------------------------------------------------
(* query_mdns *)

Earlier(a, b) == IF a <= b THEN a ELSE b

\* The first query is the one send that may raise.
Start ==
  /\ loop = "idle"
  /\ \/ loop' = "top" /\ sent' = {Browse}
     \/ loop' = "raised" /\ UNCHANGED sent
  /\ UNCHANGED <<clock, deadline, nextSend, asked, collector, packets, failed, heard, since>>

\* Mutant: one follow-up in each round.
FollowUpsOneByOne ==
  LET open == Missing(collector) \ asked
  IN  IF open = {} THEN {} ELSE {CHOOSE q \in open : TRUE}

FollowUps == Missing(collector) \ asked

\* The follow-ups, or the browse again while nobody has answered it.
Due ==
  IF FollowUps = {} /\ collector.instances = {} THEN {Browse} ELSE FollowUps

\* The test of the loop, and the questions that are due.  A send that fails is
\* not noticed.
Ask ==
  /\ loop = "top"
  /\ IF clock >= deadline THEN loop' = "done" /\ UNCHANGED <<nextSend, asked, sent>>
     ELSE /\ loop' = "recv"
          /\ IF clock < nextSend THEN UNCHANGED <<nextSend, asked, sent>>
             ELSE /\ asked' = asked \cup FollowUps
                  /\ sent' \in {sent, sent \cup Due}
                  /\ nextSend' = clock + Gap
  /\ UNCHANGED <<clock, deadline, collector, packets, failed, heard, since>>

RecvTimesOut ==
  /\ loop = "recv"
  /\ clock' = clock + Poll
  /\ loop' = "top"
  /\ UNCHANGED <<deadline, nextSend, asked, sent, collector, packets, failed, heard, since>>

\* Mutants: some service is resolved; the deadline is moved every time.
StopWhenAnyResolved(c, now) ==
  IF \E i \in Services(c) : c.addresses[c.srv[i]] # <<>>
  THEN Earlier(deadline, now + Linger) ELSE deadline

StopLater(c, now) ==
  IF c.instances # {} /\ Missing(c) = {} THEN now + Linger ELSE deadline

\* Everything is resolved: stragglers have a moment.
Stop(c, now) ==
  IF c.instances # {} /\ Missing(c) = {} THEN Earlier(deadline, now + Linger) ELSE deadline

Recv ==
  /\ loop = "recv" /\ packets < MaxPackets
  /\ packets' = packets + 1
  /\ \E p \in Packets, d \in Delays :
       LET c == AddAll(collector, p.records) IN
         /\ p.answers \in sent \cup {Unasked}
         /\ clock' = clock + d
         /\ collector' = c
         /\ deadline' = Stop(c, clock + d)
         /\ heard' = heard \cup ElementsOf(p.records)
         /\ since' = [q \in Missing(c) |-> IF q \in DOMAIN since THEN since[q]
                                                                 ELSE clock + d]
  /\ loop' = "top"
  /\ UNCHANGED <<nextSend, asked, sent, failed>>

RecvFails ==
  /\ loop = "recv"
  /\ loop' = "done" /\ failed' = TRUE
  /\ UNCHANGED <<clock, deadline, nextSend, asked, sent, collector, packets, heard, since>>

BrowseNext == Start \/ Ask \/ RecvTimesOut \/ Recv \/ RecvFails
=============================================================================
