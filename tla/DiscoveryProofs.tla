---------------------------- MODULE DiscoveryProofs ----------------------------
(***************************************************************************)
(* The invariants of discover(), for every timeout, interval and wait,     *)
(* every number of coolers and whatever packets come: first the timing of  *)
(* the browse, where only the moment of a packet matters, then what the    *)
(* collector keeps of the records, then what the merged list keeps of the  *)
(* browse and of the answers.                                              *)
(***************************************************************************)
EXTENDS DiscoverySystem, WellFoundedInduction, TLAPS

TimesOK ==
  /\ loop \in {"idle", "top", "recv", "done", "raised"}
  /\ {clock, deadline, nextSend} \subseteq Nat
  /\ DOMAIN since = Missing(collector)
  /\ \A q \in DOMAIN since : since[q] \in Nat /\ since[q] <= clock

\* The loop waits only before its deadline, so it passes it by less than one wait.
DeadlineKept ==
  /\ deadline <= Timeout
  /\ clock < deadline + Poll
  /\ loop = "recv" => clock < deadline
  /\ loop = "done" /\ ~failed => deadline <= clock

\* A wait ends less than one wait after nextSend, and nextSend is at most one
\* interval later than the moment an open question that was not asked went missing.
QuestionsDue ==
  /\ nextSend <= clock + Gap
  /\ clock < nextSend + Poll
  /\ loop = "recv" => clock < nextSend
  /\ \A q \in DOMAIN since \ asked : nextSend <= since[q] + Gap

\* A deadline that was moved is near, and nearer to every question that opened since.
StopIsRecent ==
  deadline # Timeout =>
    /\ deadline <= clock + Linger
    /\ \A q \in DOMAIN since : deadline <= since[q] + Linger

BrowseInv == TimesOK /\ DeadlineKept /\ QuestionsDue /\ StopIsRecent

LEMMA InvInit == DiscoverInit => BrowseInv
<1>. SUFFICES ASSUME DiscoverInit PROVE BrowseInv
  OBVIOUS
<1>1. Missing(collector) = {}
  BY DEF DiscoverInit, BrowseInit, Missing, Services
<1>2. DOMAIN since = {}
  BY DEF DiscoverInit, BrowseInit
<1>3. /\ loop = "idle"
      /\ clock = 0 /\ deadline = Timeout /\ nextSend = 0
  BY DEF DiscoverInit, BrowseInit
<1>4. Timeout \in Nat /\ Gap \in Nat /\ Poll \in Nat /\ Poll > 0
  BY BrowseAssumption
<1>5. TimesOK
  BY <1>1, <1>2, <1>3, <1>4 DEF TimesOK
<1>6. DeadlineKept /\ QuestionsDue /\ StopIsRecent
  BY <1>2, <1>3, <1>4 DEF DeadlineKept, QuestionsDue, StopIsRecent
<1>. QED
  BY <1>5, <1>6 DEF BrowseInv

\* Only a packet changes what is missing and since when.
LEMMA InvWithoutPacket ==
  ASSUME BrowseInv, Start \/ Ask \/ RecvTimesOut \/ RecvFails
  PROVE  BrowseInv'
<1>. USE BrowseAssumption DEF BrowseInv, TimesOK, DeadlineKept, QuestionsDue, StopIsRecent
<1>1. UNCHANGED <<collector, since, deadline>> /\ Missing(collector)' = Missing(collector)
  BY DEF Start, Ask, RecvTimesOut, RecvFails
<1>2. CASE Start
  BY <1>1, <1>2 DEF Start
<1>3. CASE Ask
  <2>1. DOMAIN since' \ asked' = DOMAIN since \ asked \/ DOMAIN since' \ asked' = {}
    BY <1>1, <1>3 DEF Ask, FollowUps
  <2>2. CASE clock >= deadline \/ clock < nextSend
    BY <1>1, <1>3, <2>2 DEF Ask
  <2>3. CASE ~(clock >= deadline \/ clock < nextSend)
    <3>1. DOMAIN since' \ asked' = {} /\ nextSend' = clock + Gap /\ loop' = "recv"
      BY <1>1, <1>3, <2>3 DEF Ask, FollowUps
    <3>2. UNCHANGED <<clock, failed>>
      BY <1>3 DEF Ask
    <3>. QED
      BY <1>1, <2>3, <3>1, <3>2
  <2>. QED
    BY <2>2, <2>3
<1>4. CASE RecvTimesOut
  BY <1>1, <1>4 DEF RecvTimesOut
<1>5. CASE RecvFails
  BY <1>1, <1>5 DEF RecvFails
<1>. QED
  BY <1>2, <1>3, <1>4, <1>5

LEMMA InvPacket ==
  ASSUME BrowseInv, Recv
  PROVE  BrowseInv'
<1>1. PICK p \in Packets, d \in Delays :
        /\ clock' = clock + d
        /\ collector' = AddAll(collector, p.records)
        /\ deadline' = Stop(AddAll(collector, p.records), clock + d)
        /\ since' = [q \in Missing(AddAll(collector, p.records)) |->
                       IF q \in DOMAIN since THEN since[q] ELSE clock + d]
  BY DEF Recv
<1>2. loop = "recv" /\ loop' = "top" /\ UNCHANGED <<nextSend, asked>>
  BY DEF Recv
<1>3. clock \in Nat /\ deadline \in Nat /\ nextSend \in Nat
  BY DEF BrowseInv, TimesOK
<1>4. Timeout \in Nat /\ Linger \in Nat /\ Gap \in Nat /\ Poll \in Nat /\ d \in 0 .. Poll
  BY BrowseAssumption
<1>5. clock' = clock + d /\ clock' \in Nat /\ clock <= clock' /\ clock' <= clock + Poll
  BY <1>1, <1>3, <1>4
<1>6. DOMAIN since' = Missing(collector')
  BY <1>1
<1>7. \A q \in DOMAIN since' :
        \/ q \in DOMAIN since /\ since'[q] = since[q]
        \/ q \notin DOMAIN since /\ since'[q] = clock'
  BY <1>1
<1>8. \A q \in DOMAIN since' : since'[q] \in Nat /\ since'[q] <= clock'
  BY <1>3, <1>5, <1>7 DEF BrowseInv, TimesOK
<1>9. \/ deadline' = deadline
      \/ /\ DOMAIN since' = {}
         /\ deadline' \in {deadline, clock' + Linger}
         /\ deadline' <= deadline /\ deadline' <= clock' + Linger
  <2>1. \/ deadline' = deadline
        \/ /\ Missing(collector') = {}
           /\ deadline' = Earlier(deadline, clock' + Linger)
    BY <1>1 DEF Stop
  <2>. QED
    BY <1>3, <1>4, <1>5, <1>6, <2>1 DEF Earlier
<1>10. TimesOK'
  BY <1>2, <1>3, <1>4, <1>5, <1>6, <1>8, <1>9 DEF TimesOK
<1>11. DeadlineKept'
  <2>1. deadline <= Timeout /\ clock < deadline
    BY <1>2 DEF BrowseInv, DeadlineKept
  <2>2. deadline' <= Timeout /\ clock' < deadline' + Poll
    BY <1>3, <1>4, <1>5, <1>9, <2>1, BrowseAssumption
  <2>. QED
    BY <1>2, <2>2 DEF DeadlineKept
<1>12. QuestionsDue'
  <2>1. /\ nextSend <= clock + Gap /\ clock < nextSend
        /\ \A q \in DOMAIN since \ asked : nextSend <= since[q] + Gap
    BY <1>2 DEF BrowseInv, QuestionsDue
  <2>2. nextSend' <= clock' + Gap /\ clock' < nextSend' + Poll
    BY <1>2, <1>3, <1>4, <1>5, <2>1
  <2>3. \A q \in DOMAIN since' \ asked' : nextSend' <= since'[q] + Gap
    BY <1>2, <1>7, <2>1, <2>2
  <2>. QED
    BY <1>2, <2>2, <2>3 DEF QuestionsDue
<1>13. StopIsRecent'
  <2>1. CASE deadline' = deadline
    <3>. SUFFICES ASSUME deadline # Timeout PROVE
                    /\ deadline <= clock' + Linger
                    /\ \A q \in DOMAIN since' : deadline <= since'[q] + Linger
      BY <2>1 DEF StopIsRecent
    <3>1. /\ deadline <= clock + Linger
          /\ \A q \in DOMAIN since : deadline <= since[q] + Linger
      BY DEF BrowseInv, StopIsRecent
    <3>2. deadline <= clock' + Linger
      BY <1>3, <1>4, <1>5, <3>1
    <3>. QED
      BY <1>7, <3>1, <3>2
  <2>2. CASE DOMAIN since' = {} /\ deadline' <= clock' + Linger
    BY <2>2 DEF StopIsRecent
  <2>. QED
    BY <1>9, <2>1, <2>2
<1>. QED
  BY <1>10, <1>11, <1>12, <1>13 DEF BrowseInv

LEMMA InvStep == BrowseInv /\ [Next]_vars => BrowseInv'
<1>. SUFFICES ASSUME BrowseInv, [Next]_vars PROVE BrowseInv'
  OBVIOUS
<1>1. CASE BrowseNext
  BY <1>1, InvWithoutPacket, InvPacket DEF BrowseNext
<1>2. CASE UNCHANGED browseVars
  BY <1>2 DEF browseVars, BrowseInv, TimesOK, DeadlineKept, QuestionsDue, StopIsRecent,
     Missing, Services
<1>. QED
  BY <1>1, <1>2 DEF Next, vars, BrowseStep, BrowseReturns, Hit, HitsDone, Broadcast, ProbeHost,
     HostsDone, Raises

\* The timing of the loop holds in every reachable state.
THEOREM BrowseInvariant == Spec => []BrowseInv
  BY InvInit, InvStep, PTL DEF Spec

\* The browse ends less than one wait after its time, however many packets come.
THEOREM BrowseEndsInTime == Spec => []EndsInTime
<1>1. BrowseInv => EndsInTime
  BY BrowseAssumption DEF BrowseInv, TimesOK, DeadlineKept, EndsInTime
<1>. QED
  BY <1>1, BrowseInvariant, PTL

\* No question that went missing waits longer than one interval and one wait.
THEOREM FollowUpsInTime == Spec => []FollowUpInTime
<1>1. BrowseInv => FollowUpInTime
  BY BrowseAssumption DEF BrowseInv, TimesOK, QuestionsDue, FollowUpInTime
<1>. QED
  BY <1>1, BrowseInvariant, PTL

\* A browse that stops early leaves open only what opened in its last moment.
THEOREM EarlyStopIsFair == Spec => []EarlyStopLeavesNothingOld
<1>1. BrowseInv => EarlyStopLeavesNothingOld
  <2>. SUFFICES ASSUME BrowseInv, clock < Timeout, loop = "done", ~failed,
                       NEW q \in Missing(collector)
                PROVE  clock < since[q] + Linger + Poll
    BY DEF EarlyStopLeavesNothingOld
  <2>. QED
    BY BrowseAssumption DEF BrowseInv, TimesOK, DeadlineKept, StopIsRecent
<1>. QED
  BY <1>1, BrowseInvariant, PTL
-----------------------------------------------------------------------------
(* What the collector keeps of the records *)

\* A set of numbers that is not empty has a least one.
LEMMA LeastNumber ==
  ASSUME NEW S, S \subseteq Nat, S # {}
  PROVE  \E m \in S : \A n \in S : m <= n
<1>1. PICK m \in S : \A n \in S : ~ (<<n, m>> \in OpToRel(<, Nat))
  BY WFMin, NatLessThanWellFounded
<1>2. \A n \in S : ~ (n < m)
  BY <1>1, Zenon DEF OpToRel
<1>3. \A n \in S : m <= n
  BY <1>2
<1>. QED
  BY <1>3

\* The recursive function of AddAll exists, and AddAll is what all records make of the
\* collector.
LEMMA AddAllStepByStep ==
  ASSUME NEW c, NEW records \in Seq(Records)
  PROVE  \E after :
           /\ after[0] = c
           /\ \A n \in 1 .. Len(records) : after[n] = Add(after[n - 1], records[n])
           /\ AddAll(c, records) = after[Len(records)]
<1>. DEFINE
       Step(g, n) == IF n = 0 THEN c ELSE Add(g[n - 1], records[n])
       Upto(g, m) == g = [n \in 0 .. m |-> Step(g, n)]
       Short == {m \in 0 .. Len(records) : ~ \E g : Upto(g, m)}
       After == CHOOSE g : Upto(g, Len(records))
<1>1. Len(records) \in Nat
  OBVIOUS
<1>2. \A m \in 0 .. Len(records) : m \notin Short => \E g : Upto(g, m)
  OBVIOUS
<1>3. \A m \in Short : m \in 0 .. Len(records) /\ ~ \E g : Upto(g, m)
  OBVIOUS
<1>. HIDE DEF Short
<1>4. Short = {}
  <2>. SUFFICES ASSUME Short # {} PROVE FALSE
    OBVIOUS
  <2>1. PICK m \in Short : \A n \in Short : m <= n
    <3>1. Short \subseteq Nat
      BY <1>3
    <3>. QED
      BY <3>1, LeastNumber
  <2>2. m \in 0 .. Len(records) /\ ~ \E g : Upto(g, m)
    BY <1>3, <2>1
  <2>3. CASE m = 0
    <3>. DEFINE z == [n \in 0 .. 0 |-> c]
    <3>1. z = [n \in 0 .. 0 |-> Step(z, n)]
      OBVIOUS
    <3>. QED
      BY <2>2, <2>3, <3>1
  <2>4. CASE m > 0
    <3>1. m - 1 \in 0 .. Len(records) /\ m - 1 < m
      BY <1>1, <2>2, <2>4
    <3>2. m - 1 \notin Short
      BY <2>1, <2>2, <3>1
    <3>3. PICK g : Upto(g, m - 1)
      BY <1>2, <3>1, <3>2
    <3>. DEFINE h == [n \in 0 .. m |-> IF n = m THEN Step(g, m) ELSE g[n]]
    <3>4. \A n \in 0 .. m - 1 : g[n] = Step(g, n)
      BY <3>3
    <3>5. \A n \in 0 .. m : h[n] = Step(h, n)
      <4>. SUFFICES ASSUME NEW n \in 0 .. m PROVE h[n] = Step(h, n)
        OBVIOUS
      <4>1. n = 0 => h[n] = c
        BY <2>2, <2>4, <3>4
      <4>2. CASE n \in 1 .. m
        <5>1. n - 1 \in 0 .. m - 1 /\ n - 1 # m /\ n # 0
          BY <2>2, <4>2
        <5>2. h[n - 1] = g[n - 1]
          BY <2>2, <5>1
        <5>3. h[n] = Step(g, n)
          BY <2>2, <3>4, <4>2
        <5>. QED
          BY <5>1, <5>2, <5>3
      <4>. QED
        BY <2>2, <4>1, <4>2
    <3>6. h = [n \in 0 .. m |-> Step(h, n)]
      BY <3>5
    <3>. QED
      BY <2>2, <3>6
  <2>. QED
    BY <2>2, <2>3, <2>4
<1>5. \E g : Upto(g, Len(records))
  BY <1>1, <1>2, <1>4
<1>6. Upto(After, Len(records))
  BY <1>5
<1>7. AddAll(c, records) = After[Len(records)]
  BY DEF AddAll
<1>. HIDE DEF After
<1>8. After[0] = c
  BY <1>1, <1>6
<1>9. \A n \in 1 .. Len(records) : After[n] = Add(After[n - 1], records[n])
  BY <1>1, <1>6
<1>. QED
  BY <1>7, <1>8, <1>9

\* What the collector says of the records that came.
Collectors ==
  [instances : SUBSET Instances, srv : [Instances -> Hosts \cup {None}],
   txt : [Instances -> Texts \cup {None}], addresses : [Hosts -> Seq(Addresses)]]

Kept(c, came) ==
  /\ c \in Collectors
  /\ c.instances = Values(came, "PTR", None)
  /\ \A i \in Instances :
       /\ IF c.srv[i] = None THEN Values(came, "SRV", i) = {}
                             ELSE c.srv[i] \in Values(came, "SRV", i)
       /\ IF c.txt[i] = None THEN Values(came, "TXT", i) = {}
                             ELSE c.txt[i] \in Values(came, "TXT", i)
  /\ \A h \in Hosts : ElementsOf(c.addresses[h]) = Values(came, "A", h)

\* A record adds its value to those of its type and name, and to no others.
LEMMA OneMoreValue ==
  ASSUME NEW came, NEW r, NEW type, NEW name
  PROVE  /\ r.type = type /\ r.name = name =>
              Values(came \cup {r}, type, name) = Values(came, type, name) \cup {r.value}
         /\ r.type # type \/ r.name # name =>
              Values(came \cup {r}, type, name) = Values(came, type, name)
  BY DEF Values

\* Each record is kept.
LEMMA AddKeeps ==
  ASSUME NEW c, NEW came, Kept(c, came), NEW r \in Records
  PROVE  Kept(Add(c, r), came \cup {r})
<1>. DEFINE all == came \cup {r}
<1>. HIDE DEF all
<1>. SUFFICES Kept(Add(c, r), all)
  BY DEF all
<1>1. \A type, name :
        /\ r.type = type /\ r.name = name =>
             Values(all, type, name) = Values(came, type, name) \cup {r.value}
        /\ r.type # type \/ r.name # name => Values(all, type, name) = Values(came, type, name)
  BY OneMoreValue DEF all
<1>2. c \in Collectors
  BY DEF Kept
<1>3. /\ c.instances \subseteq Instances /\ c.srv \in [Instances -> Hosts \cup {None}]
      /\ c.txt \in [Instances -> Texts \cup {None}] /\ c.addresses \in [Hosts -> Seq(Addresses)]
  BY <1>2 DEF Collectors
<1>4. CASE r \in [type : {"PTR"}, name : {None}, value : Instances]
  <2>1. Add(c, r) = [instances |-> c.instances \cup {r.value}, srv |-> c.srv, txt |-> c.txt,
                     addresses |-> c.addresses]
    BY <1>4, <1>2 DEF Add, Collectors
  <2>2. /\ Add(c, r) \in Collectors /\ Add(c, r).instances = c.instances \cup {r.value}
        /\ Add(c, r).srv = c.srv /\ Add(c, r).txt = c.txt /\ Add(c, r).addresses = c.addresses
    <3>1. c.instances \cup {r.value} \in SUBSET Instances
      BY <1>4, <1>3
    <3>. QED
      BY <1>3, <2>1, <3>1 DEF Collectors
  <2>3. Values(all, "PTR", None) = Values(came, "PTR", None) \cup {r.value}
    BY <1>4, <1>1
  <2>4. \A name : /\ Values(all, "SRV", name) = Values(came, "SRV", name)
                  /\ Values(all, "TXT", name) = Values(came, "TXT", name)
                  /\ Values(all, "A", name) = Values(came, "A", name)
    BY <1>4, <1>1
  <2>. QED
    BY <2>3, <2>4, <2>2 DEF Kept
<1>5. CASE r \in [type : {"SRV"}, name : Instances, value : Hosts]
  <2>1. Add(c, r) = [instances |-> c.instances, srv |-> [c.srv EXCEPT ![r.name] = r.value],
                     txt |-> c.txt, addresses |-> c.addresses]
    BY <1>5, <1>2 DEF Add, Collectors
  <2>2. /\ Add(c, r) \in Collectors /\ Add(c, r).srv = [c.srv EXCEPT ![r.name] = r.value]
        /\ Add(c, r).instances = c.instances /\ Add(c, r).txt = c.txt
        /\ Add(c, r).addresses = c.addresses
    <3>1. [c.srv EXCEPT ![r.name] = r.value] \in [Instances -> Hosts \cup {None}]
      BY <1>5, <1>3
    <3>. QED
      BY <1>3, <2>1, <3>1 DEF Collectors
  <2>3. \A i \in Instances : Add(c, r).srv[i] = IF i = r.name THEN r.value ELSE c.srv[i]
    BY <1>2, <2>2 DEF Collectors
  <2>4. Values(all, "SRV", r.name) = Values(came, "SRV", r.name) \cup {r.value}
    BY <1>5, <1>1
  <2>5. \A name : /\ Values(all, "PTR", name) = Values(came, "PTR", name)
                  /\ name # r.name => Values(all, "SRV", name) = Values(came, "SRV", name)
                  /\ Values(all, "TXT", name) = Values(came, "TXT", name)
                  /\ Values(all, "A", name) = Values(came, "A", name)
    BY <1>5, <1>1
  <2>6. r.value # None
    BY <1>5, BrowseAssumption
  <2>. QED
    BY <2>4, <2>5, <2>6, <2>2, <2>3 DEF Kept
<1>6. CASE r \in [type : {"TXT"}, name : Instances, value : Texts]
  <2>1. Add(c, r) = [instances |-> c.instances, srv |-> c.srv,
                     txt |-> [c.txt EXCEPT ![r.name] = r.value], addresses |-> c.addresses]
    BY <1>6, <1>2 DEF Add, Collectors
  <2>2. /\ Add(c, r) \in Collectors /\ Add(c, r).txt = [c.txt EXCEPT ![r.name] = r.value]
        /\ Add(c, r).instances = c.instances /\ Add(c, r).srv = c.srv
        /\ Add(c, r).addresses = c.addresses
    <3>1. [c.txt EXCEPT ![r.name] = r.value] \in [Instances -> Texts \cup {None}]
      BY <1>6, <1>3
    <3>. QED
      BY <1>3, <2>1, <3>1 DEF Collectors
  <2>3. \A i \in Instances : Add(c, r).txt[i] = IF i = r.name THEN r.value ELSE c.txt[i]
    BY <1>2, <2>2 DEF Collectors
  <2>4. r.value \in Values(all, "TXT", r.name) /\ r.value # None
    BY <1>6, <1>1 DEF Texts, None
  <2>5. \A name : /\ Values(all, "PTR", name) = Values(came, "PTR", name)
                  /\ Values(all, "SRV", name) = Values(came, "SRV", name)
                  /\ name # r.name => Values(all, "TXT", name) = Values(came, "TXT", name)
                  /\ Values(all, "A", name) = Values(came, "A", name)
    BY <1>6, <1>1
  <2>6. \A i \in Instances :
          IF Add(c, r).txt[i] = None THEN Values(all, "TXT", i) = {}
                                     ELSE Add(c, r).txt[i] \in Values(all, "TXT", i)
    BY <2>4, <2>5, <2>3 DEF Kept
  <2>7. Add(c, r).instances = Values(all, "PTR", None)
    BY <2>5, <2>2 DEF Kept
  <2>8. \A i \in Instances :
          IF Add(c, r).srv[i] = None THEN Values(all, "SRV", i) = {}
                                     ELSE Add(c, r).srv[i] \in Values(all, "SRV", i)
    BY <2>5, <2>2 DEF Kept
  <2>9. \A h \in Hosts : ElementsOf(Add(c, r).addresses[h]) = Values(all, "A", h)
    BY <2>5, <2>2 DEF Kept
  <2>. QED
    BY <2>2, <2>6, <2>7, <2>8, <2>9, Zenon DEF Kept
<1>7. CASE r \in [type : {"A"}, name : Hosts, value : Addresses]
  <2>. DEFINE seq == c.addresses[r.name]
              kept == IF r.value \in ElementsOf(seq) THEN seq ELSE Append(seq, r.value)
  <2>1. Add(c, r) = [instances |-> c.instances, srv |-> c.srv, txt |-> c.txt,
                     addresses |-> [c.addresses EXCEPT ![r.name] = kept]]
    BY <1>7, <1>2 DEF Add, Collectors
  <2>2. seq \in Seq(Addresses) /\ r.value \in Addresses
    BY <1>7, <1>2 DEF Collectors
  <2>. HIDE DEF seq
  <2>3. kept \in Seq(Addresses) /\ ElementsOf(kept) = ElementsOf(seq) \cup {r.value}
    <3>1. /\ Append(seq, r.value) \in Seq(Addresses)
          /\ DOMAIN Append(seq, r.value) = 1 .. Len(seq) + 1
          /\ Append(seq, r.value)[Len(seq) + 1] = r.value
          /\ \A n \in DOMAIN seq : Append(seq, r.value)[n] = seq[n]
      BY <2>2
    <3>2. DOMAIN seq = 1 .. Len(seq) /\ Len(seq) \in Nat
      BY <2>2
    <3>3. ElementsOf(Append(seq, r.value)) = ElementsOf(seq) \cup {r.value}
      BY <3>1, <3>2 DEF ElementsOf
    <3>. QED
      BY <2>2, <3>1, <3>3
  <2>4. Values(all, "A", r.name) = Values(came, "A", r.name) \cup {r.value}
    BY <1>7, <1>1
  <2>5. \A name : /\ Values(all, "PTR", name) = Values(came, "PTR", name)
                  /\ Values(all, "SRV", name) = Values(came, "SRV", name)
                  /\ Values(all, "TXT", name) = Values(came, "TXT", name)
                  /\ name # r.name => Values(all, "A", name) = Values(came, "A", name)
    BY <1>7, <1>1
  <2>. HIDE DEF kept
  <2>6. /\ Add(c, r) \in Collectors /\ Add(c, r).addresses = [c.addresses EXCEPT ![r.name] = kept]
        /\ Add(c, r).instances = c.instances /\ Add(c, r).srv = c.srv
        /\ Add(c, r).txt = c.txt
    <3>1. [c.addresses EXCEPT ![r.name] = kept] \in [Hosts -> Seq(Addresses)]
      BY <1>7, <1>3, <2>3
    <3>. QED
      BY <1>3, <2>1, <3>1 DEF Collectors
  <2>7. \A h \in Hosts :
          ElementsOf(Add(c, r).addresses[h]) =
            IF h = r.name THEN ElementsOf(c.addresses[r.name]) \cup {r.value}
                          ELSE ElementsOf(c.addresses[h])
    BY <1>7, <1>2, <2>3, <2>6 DEF Collectors, seq
  <2>. QED
    BY <2>3, <2>4, <2>5, <2>6, <2>7 DEF Kept
<1>. QED
  BY <1>4, <1>5, <1>6, <1>7 DEF Records

\* So is each packet, whatever its records and their order.
LEMMA AddAllKeeps ==
  ASSUME NEW c, NEW came, Kept(c, came), NEW records \in Seq(Records)
  PROVE  Kept(AddAll(c, records), came \cup ElementsOf(records))
<1>1. PICK after :
        /\ after[0] = c
        /\ \A n \in 1 .. Len(records) : after[n] = Add(after[n - 1], records[n])
        /\ AddAll(c, records) = after[Len(records)]
  BY AddAllStepByStep
<1>. DEFINE
       Came(m) == came \cup {records[n] : n \in 1 .. m}
       Lost == {m \in 0 .. Len(records) : ~ Kept(after[m], Came(m))}
<1>2. Len(records) \in Nat
  OBVIOUS
<1>3. \A m \in 0 .. Len(records) : m \notin Lost => Kept(after[m], Came(m))
  OBVIOUS
<1>4. \A m \in Lost : ~ Kept(after[m], Came(m))
  OBVIOUS
<1>5. Lost \subseteq 0 .. Len(records)
  OBVIOUS
<1>. HIDE DEF Lost
<1>6. Lost = {}
  <2>. SUFFICES ASSUME Lost # {} PROVE FALSE
    OBVIOUS
  <2>1. PICK m \in Lost : \A n \in Lost : m <= n
    <3>1. Lost \subseteq Nat
      BY <1>2, <1>5
    <3>. QED
      BY <3>1, LeastNumber
  <2>2. m \in 0 .. Len(records) /\ ~ Kept(after[m], Came(m))
    BY <1>4, <1>5, <2>1
  <2>3. CASE m = 0
    <3>1. Came(0) = came
      OBVIOUS
    <3>. QED
      BY <1>1, <2>2, <2>3, <3>1
  <2>4. CASE m \in 1 .. Len(records)
    <3>1. m - 1 \in 0 .. Len(records) /\ m - 1 < m
      BY <1>2, <2>4
    <3>2. m - 1 \notin Lost
      BY <2>1, <2>2, <3>1
    <3>3. Kept(after[m - 1], Came(m - 1))
      BY <1>3, <3>1, <3>2
    <3>4. records[m] \in Records
      BY <2>4
    <3>5. Came(m) = Came(m - 1) \cup {records[m]}
      BY <2>4
    <3>6. after[m] = Add(after[m - 1], records[m])
      BY <1>1, <2>4
    <3>. HIDE DEF Came
    <3>. QED
      BY <2>2, <3>4, <3>5, <3>6, <3>3, AddKeeps
  <2>. QED
    BY <1>2, <2>2, <2>3, <2>4
<1>7. Kept(after[Len(records)], Came(Len(records)))
  <2>1. Len(records) \in 0 .. Len(records) /\ Len(records) \notin Lost
    BY <1>2, <1>6
  <2>. QED
    BY <1>3, <2>1
<1>8. Came(Len(records)) = came \cup ElementsOf(records)
  BY DEF ElementsOf
<1>. QED
  BY <1>1, <1>7, <1>8

\* The collector and all that was heard.
KeptInv == Kept(collector, heard)

LEMMA KeptInit == DiscoverInit => KeptInv
<1>. SUFFICES ASSUME DiscoverInit PROVE KeptInv
  OBVIOUS
<1>1. /\ collector = [instances |-> {}, srv |-> [i \in Instances |-> None],
                      txt |-> [i \in Instances |-> None],
                      addresses |-> [h \in Hosts |-> <<>>]]
      /\ heard = {}
  BY DEF DiscoverInit, BrowseInit
<1>2. collector \in Collectors
  BY <1>1 DEF Collectors
<1>3. \A type, name : Values(heard, type, name) = {}
  BY <1>1 DEF Values
<1>4. \A h \in Hosts : ElementsOf(collector.addresses[h]) = {}
  BY <1>1 DEF ElementsOf
<1>. QED
  BY <1>1, <1>2, <1>3, <1>4 DEF KeptInv, Kept

LEMMA KeptStep == KeptInv /\ [Next]_vars => KeptInv'
<1>. SUFFICES ASSUME KeptInv, [Next]_vars PROVE KeptInv'
  OBVIOUS
<1>1. CASE Recv
  <2>1. PICK p \in Packets : /\ collector' = AddAll(collector, p.records)
                             /\ heard' = heard \cup ElementsOf(p.records)
    BY <1>1 DEF Recv
  <2>2. p.records \in Seq(Records)
    BY BrowseAssumption
  <2>3. Kept(AddAll(collector, p.records), heard \cup ElementsOf(p.records))
    BY <2>2, AddAllKeeps DEF KeptInv
  <2>. QED
    BY <2>1, <2>3 DEF KeptInv
<1>2. CASE UNCHANGED <<collector, heard>>
  BY <1>2 DEF KeptInv
<1>. QED
  BY <1>1, <1>2 DEF Next, vars, browseVars, BrowseStep, BrowseNext, Start, Ask, RecvTimesOut,
     RecvFails, BrowseReturns, Hit, HitsDone, Broadcast, ProbeHost, HostsDone, Raises

\* What the collector keeps is what the records said, in every reachable state.
THEOREM CollectorInvariant == Spec => []KeptInv
  BY KeptInit, KeptStep, PTL DEF Spec

\* Whatever the packets, their number and their order, every service whose PTR and SRV
\* came is reported, with all the addresses that came for it and with a TXT that came, if one did.
THEOREM NothingIsLost == Spec => []NothingHeardIsLost
<1>1. KeptInv => NothingHeardIsLost
  <2>. SUFFICES ASSUME KeptInv PROVE NothingHeardIsLost
    OBVIOUS
  <2>1. \A i \in Services(collector) : collector.srv[i] \in Hosts /\ i \in Instances
    BY DEF KeptInv, Kept, Collectors, Services
  <2>2. Services(collector) = {i \in HeardValues("PTR", None) : HeardValues("SRV", i) # {}}
    BY DEF KeptInv, Kept, Collectors, Services, HeardValues
  <2>3. ASSUME NEW i \in Services(collector)
        PROVE  /\ collector.srv[i] \in HeardValues("SRV", i)
               /\ ElementsOf(Service(collector, i).addresses) =
                    HeardValues("A", collector.srv[i])
               /\ LET txt == Service(collector, i).txt IN
                    IF txt = None THEN HeardValues("TXT", i) = {}
                                  ELSE txt \in HeardValues("TXT", i)
    BY <2>1, <2>3 DEF KeptInv, Kept, Collectors, Services, Service, HeardValues
  <2>. QED
    BY <2>2, <2>3 DEF NothingHeardIsLost
<1>. QED
  BY <1>1, CollectorInvariant, PTL
-----------------------------------------------------------------------------
(* What the merged list keeps *)

\* The hits that were merged so far.
Merged ==
  CASE stage = "mdns" -> {}
    [] stage = "hits" -> Services(collector) \ todo
    [] OTHER          -> Services(collector)

\* One entry holds all that some answers and some hits say.
Says(entry, replies, hits) ==
  /\ entry.sources = {a.source : a \in replies} \cup {"mdns" : i \in hits}
  /\ entry.id = (replies # {})
  /\ entry.firmware = \E i \in hits : collector.txt[i] = "firmware"
  /\ (entry.instance = None) = (hits = {})
  /\ (entry.ip = None) =
       (replies = {} /\ \A i \in hits : Service(collector, i).addresses = <<>>)

AnswersTyped ==
  \A a \in answers : a.cooler \in Coolers /\ a.ip = Location[a.cooler]

MergeInv ==
  /\ AnswersTyped
  /\ stage = "hits" => todo \subseteq Services(collector)
  /\ stage # "raised" =>
       /\ found = [c \in Coolers |-> found[c]]
       /\ \A c \in Coolers : Says(found[c], AnswersOf(c), HitsOf(c) \cap Merged)

\* A reply adds what it says.
LEMMA ReplyAdds ==
  ASSUME NEW entry, NEW replies, NEW hits, Says(entry, replies, hits),
         NEW a, a.ip # None
  PROVE  Says(Merge(entry, FromReply(a)), replies \cup {a}, hits)
<1>. DEFINE d == FromReply(a)
<1>1. /\ d.id = TRUE /\ d.ip = a.ip /\ d.instance = None /\ d.firmware = FALSE
      /\ d.sources = {a.source}
  BY DEF FromReply, Unknown
<1>. HIDE DEF d
<1>. DEFINE e == Merge(entry, d)
<1>2. /\ e.id = (entry.id \/ d.id) /\ e.ip = Or(entry.ip, d.ip)
      /\ e.instance = Or(entry.instance, d.instance)
      /\ e.firmware = (entry.firmware \/ d.firmware)
      /\ e.sources = entry.sources \cup d.sources
  BY DEF Merge
<1>. HIDE DEF e
<1>3. e.sources = {b.source : b \in replies \cup {a}} \cup {"mdns" : i \in hits}
  <2>1. entry.sources = {b.source : b \in replies} \cup {"mdns" : i \in hits}
    BY DEF Says
  <2>. QED
    BY <1>1, <1>2, <2>1
<1>4. e.id = (replies \cup {a} # {})
  <2>1. e.id = TRUE
    BY <1>1, <1>2
  <2>. QED
    BY <2>1
<1>5. e.firmware = \E i \in hits : collector.txt[i] = "firmware"
  <2>1. entry.firmware = \E i \in hits : collector.txt[i] = "firmware"
    BY DEF Says
  <2>. QED
    BY <1>1, <1>2, <2>1
<1>6. (e.instance = None) = (hits = {})
  BY <1>1, <1>2 DEF Or, Says
<1>7. e.ip # None /\ replies \cup {a} # {}
  BY <1>1, <1>2 DEF Or
<1>. QED
  BY <1>3, <1>4, <1>5, <1>6, <1>7 DEF Says, e, d

\* A hit adds what it says.
LEMMA HitAdds ==
  ASSUME NEW entry, NEW replies, NEW hits, Says(entry, replies, hits),
         KeptInv, NEW i \in Services(collector)
  PROVE  Says(Merge(entry, FromService(i)), replies, hits \cup {i})
<1>. DEFINE d == FromService(i)
            addresses == Service(collector, i).addresses
<1>1. /\ d.id = FALSE /\ d.instance = i /\ d.firmware = (collector.txt[i] = "firmware")
      /\ d.sources = {"mdns"}
      /\ d.ip = IF addresses = <<>> THEN None ELSE Head(addresses)
  BY DEF FromService, Service
<1>2. i \in Instances /\ i # None /\ addresses \in Seq(Addresses)
  BY BrowseAssumption DEF KeptInv, Kept, Collectors, Services, Service
<1>3. (d.ip = None) = (addresses = <<>>)
  <2>1. addresses # <<>> => Head(addresses) \in Addresses
    BY <1>2
  <2>2. addresses # <<>> => Head(addresses) # None
    BY <2>1, BrowseAssumption
  <2>. QED
    BY <1>1, <2>2
<1>. HIDE DEF d, addresses
<1>. DEFINE e == Merge(entry, d)
<1>4. /\ e.id = (entry.id \/ d.id) /\ e.ip = Or(entry.ip, d.ip)
      /\ e.instance = Or(entry.instance, d.instance)
      /\ e.firmware = (entry.firmware \/ d.firmware)
      /\ e.sources = entry.sources \cup d.sources
  BY DEF Merge
<1>. HIDE DEF e
<1>5. e.sources = {a.source : a \in replies} \cup {"mdns" : j \in hits \cup {i}}
  <2>1. entry.sources = {a.source : a \in replies} \cup {"mdns" : j \in hits}
    BY DEF Says
  <2>. QED
    BY <1>1, <1>4, <2>1
<1>6. e.id = (replies # {})
  <2>1. entry.id = (replies # {})
    BY DEF Says
  <2>. QED
    BY <1>1, <1>4, <2>1
<1>7. e.firmware = \E j \in hits \cup {i} : collector.txt[j] = "firmware"
  <2>1. entry.firmware = \E j \in hits : collector.txt[j] = "firmware"
    BY DEF Says
  <2>2. (\E j \in hits \cup {i} : collector.txt[j] = "firmware") =
          ((\E j \in hits : collector.txt[j] = "firmware") \/ collector.txt[i] = "firmware")
    BY <1>2
  <2>. QED
    BY <1>1, <1>4, <2>1, <2>2
<1>8. (e.instance = None) = (hits \cup {i} = {})
  BY <1>1, <1>2, <1>4 DEF Or
<1>9. (e.ip = None) =
        (replies = {} /\ \A j \in hits \cup {i} : Service(collector, j).addresses = <<>>)
  <2>1. (entry.ip = None) =
          (replies = {} /\ \A j \in hits : Service(collector, j).addresses = <<>>)
    BY DEF Says
  <2>2. (e.ip = None) = (entry.ip = None /\ d.ip = None)
    BY <1>4 DEF Or
  <2>3. (\A j \in hits \cup {i} : Service(collector, j).addresses = <<>>) =
          ((\A j \in hits : Service(collector, j).addresses = <<>>) /\ addresses = <<>>)
    BY DEF addresses
  <2>. QED
    BY <1>3, <2>1, <2>2, <2>3
<1>. QED
  BY <1>5, <1>6, <1>7, <1>8, <1>9 DEF Says, e, d

\* The replies of one probe, at most one of each cooler.
OneEach(replies) ==
  /\ \A a \in replies : a.cooler \in Coolers /\ a.ip = Location[a.cooler]
  /\ \A a, b \in replies : a.cooler = b.cooler => a = b

\* They reach the entries of the coolers that gave them, and no others.
LEMMA RepliesAdd ==
  ASSUME NEW f, NEW hits, NEW replies, OneEach(replies), NEW c \in Coolers,
         Says(f[c], AnswersOf(c), hits)
  PROVE  Says(RememberReplies(f, replies)[c], {a \in answers \cup replies : a.cooler = c}, hits)
<1>1. CASE \E a \in replies : a.cooler = c
  <2>1. PICK a \in replies : a.cooler = c /\ a = CHOOSE b \in replies : b.cooler = c
    BY <1>1
  <2>2. RememberReplies(f, replies)[c] = Merge(f[c], FromReply(a))
    BY <1>1, <2>1 DEF RememberReplies
  <2>3. {b \in answers \cup replies : b.cooler = c} = AnswersOf(c) \cup {a}
    BY <2>1 DEF OneEach, AnswersOf
  <2>4. a.ip # None
    <3>1. a.ip = Location[c] /\ Location[c] \in Addresses
      BY <2>1, DiscoveryAssumption DEF OneEach
    <3>. QED
      BY <3>1, BrowseAssumption
  <2>. QED
    BY <2>2, <2>3, <2>4, ReplyAdds
<1>2. CASE ~ \E a \in replies : a.cooler = c
  <2>1. RememberReplies(f, replies)[c] = f[c]
    BY <1>2 DEF RememberReplies
  <2>2. {a \in answers \cup replies : a.cooler = c} = AnswersOf(c)
    BY <1>2 DEF AnswersOf
  <2>. QED
    BY <2>1, <2>2
<1>. QED
  BY <1>1, <1>2

LEMMA ProbeAnswersOnce ==
  ASSUME NEW ip, NEW source, NEW replies \in Probe(ip, source)
  PROVE  OneEach(replies)
  BY DEF Probe, Answer, OneEach

LEMMA MergeInit == DiscoverInit => MergeInv
<1>. SUFFICES ASSUME DiscoverInit PROVE MergeInv
  OBVIOUS
<1>1. answers = {} /\ found = [c \in Coolers |-> Unknown] /\ stage \in {"mdns", "broadcast"}
  BY DEF DiscoverInit
<1>2. Services(collector) = {}
  BY DEF DiscoverInit, BrowseInit, Services
<1>3. \A c \in Coolers : AnswersOf(c) = {} /\ HitsOf(c) = {}
  BY <1>1, <1>2 DEF AnswersOf, HitsOf
<1>4. \A c \in Coolers : Says(found[c], AnswersOf(c), HitsOf(c) \cap Merged)
  BY <1>1, <1>3 DEF Says, Unknown
<1>. QED
  BY <1>1, <1>4 DEF MergeInv, AnswersTyped

\* A host name belongs to one cooler.
LEMMA OneCoolerPerHost ==
  ASSUME NEW h \in Hosts
  PROVE  /\ CoolerOf(h) \in Coolers /\ HostOf[CoolerOf(h)] = h
         /\ \A c \in Coolers : HostOf[c] = h => c = CoolerOf(h)
<1>1. \E c \in Coolers : HostOf[c] = h
  BY DiscoveryAssumption
<1>2. CoolerOf(h) \in Coolers /\ HostOf[CoolerOf(h)] = h
  BY <1>1 DEF CoolerOf
<1>. QED
  BY <1>2, DiscoveryAssumption

\* A step of the list reaches each cooler: the answers that it adds and the hits.
LEMMA HitKeepsMerge ==
  ASSUME KeptInv, MergeInv, Hit
  PROVE  MergeInv'
<1>1. PICK i \in todo :
        \E replies :
          /\ OneEach(replies)
          /\ found' = Remember(RememberReplies(found, replies), CoolerOf(collector.srv[i]),
                               FromService(i))
          /\ answers' = answers \cup replies
          /\ todo' = todo \ {i}
  <2>1. PICK i \in todo :
          \E replies \in IF FromService(i).ip = None THEN {{}}
                         ELSE Probe(FromService(i).ip, "probe") :
            /\ found' = Remember(RememberReplies(found, replies),
                                 CoolerOf(collector.srv[i]), FromService(i))
            /\ answers' = answers \cup replies
            /\ todo' = todo \ {i}
    BY DEF Hit
  <2>2. OneEach({})
    BY DEF OneEach
  <2>. QED
    BY <2>1, <2>2, ProbeAnswersOnce
<1>2. PICK replies :
        /\ OneEach(replies)
        /\ found' = Remember(RememberReplies(found, replies), CoolerOf(collector.srv[i]),
                             FromService(i))
        /\ answers' = answers \cup replies
        /\ todo' = todo \ {i}
  BY <1>1
<1>3. stage = "hits" /\ stage' = "hits" /\ collector' = collector
  BY DEF Hit, browseVars
<1>4. /\ AnswersTyped /\ todo \subseteq Services(collector)
      /\ \A c \in Coolers : Says(found[c], AnswersOf(c), HitsOf(c) \cap Merged)
  BY <1>3 DEF MergeInv
<1>5. i \in Services(collector) /\ collector.srv[i] \in Hosts
  BY <1>4 DEF KeptInv, Kept, Collectors, Services
<1>. DEFINE g == RememberReplies(found, replies)
            d == CoolerOf(collector.srv[i])
<1>6. /\ d \in Coolers /\ HostOf[d] = collector.srv[i]
      /\ \A c \in Coolers : HostOf[c] = collector.srv[i] => c = d
  BY <1>5, OneCoolerPerHost
<1>7. /\ g = [c \in Coolers |-> g[c]]
      /\ found' = [g EXCEPT ![d] = Merge(@, FromService(i))]
  BY <1>2 DEF RememberReplies, Remember
<1>8. /\ Merged = Services(collector) \ todo
      /\ Merged' = Services(collector) \ (todo \ {i})
      /\ \A c : HitsOf(c)' = HitsOf(c)
  BY <1>2, <1>3 DEF Merged, HitsOf, Services
<1>9. ASSUME NEW c \in Coolers
      PROVE  Says(g[c], {a \in answers \cup replies : a.cooler = c}, HitsOf(c) \cap Merged)
  BY <1>2, <1>4, <1>9, RepliesAdd
<1>. HIDE DEF g, d
<1>10. ASSUME NEW c \in Coolers
      PROVE  Says(found'[c], {a \in answers \cup replies : a.cooler = c}, HitsOf(c)' \cap Merged')
  <2>. DEFINE replied == {a \in answers \cup replies : a.cooler = c}
  <2>1. Says(g[c], replied, HitsOf(c) \cap Merged)
    BY <1>9
  <2>. HIDE DEF replied
  <2>2. CASE c = d
    <3>1. i \in HitsOf(c)
      BY <1>5, <1>6, <2>2 DEF HitsOf
    <3>2. HitsOf(c)' \cap Merged' = (HitsOf(c) \cap Merged) \cup {i}
      BY <1>4, <1>8, <3>1 DEF HitsOf
    <3>3. found'[c] = Merge(g[c], FromService(i))
      BY <1>6, <1>7, <2>2
    <3>. QED
      BY <1>5, <2>1, <3>2, <3>3, HitAdds DEF replied
  <2>3. CASE c # d
    <3>1. i \notin HitsOf(c)
      BY <1>6, <2>3 DEF HitsOf
    <3>2. HitsOf(c)' \cap Merged' = HitsOf(c) \cap Merged
      BY <1>8, <3>1
    <3>3. found'[c] = g[c]
      BY <1>7, <2>3
    <3>. QED
      BY <2>1, <3>2, <3>3 DEF replied
  <2>. QED
    BY <2>2, <2>3
<1>11. \A c \in Coolers : Says(found[c], AnswersOf(c), HitsOf(c) \cap Merged)'
  BY <1>2, <1>3, <1>10 DEF Says, AnswersOf, Service
<1>12. AnswersTyped'
  BY <1>2, <1>4 DEF AnswersTyped, OneEach
<1>13. found' = [c \in Coolers |-> found'[c]]
  BY <1>7
<1>14. (stage = "hits" => todo \subseteq Services(collector))'
  BY <1>2, <1>3, <1>4 DEF Services
<1>. QED
  BY <1>11, <1>12, <1>13, <1>14 DEF MergeInv

\* The broadcast and the addresses that the caller named.
LEMMA ProbesKeepMerge ==
  ASSUME MergeInv, NEW replies, OneEach(replies),
         stage \in {"broadcast", "hosts"}, stage' = "hosts",
         found' = RememberReplies(found, replies), answers' = answers \cup replies,
         UNCHANGED browseVars
  PROVE  MergeInv'
<1>1. /\ AnswersTyped
      /\ \A c \in Coolers : Says(found[c], AnswersOf(c), HitsOf(c) \cap Merged)
  BY DEF MergeInv
<1>2. collector' = collector
  BY DEF browseVars
<1>3. /\ Merged' = Merged
      /\ \A c : HitsOf(c)' = HitsOf(c)
  BY <1>2 DEF Merged, HitsOf, Services
<1>4. ASSUME NEW c \in Coolers
      PROVE  Says(found'[c], {a \in answers \cup replies : a.cooler = c},
                  HitsOf(c)' \cap Merged')
  BY <1>1, <1>3, <1>4, RepliesAdd
<1>5. \A c \in Coolers : Says(found[c], AnswersOf(c), HitsOf(c) \cap Merged)'
  BY <1>2, <1>4 DEF Says, AnswersOf, Service
<1>6. AnswersTyped'
  BY <1>1 DEF AnswersTyped, OneEach
<1>7. found' = [c \in Coolers |-> found'[c]]
  BY DEF RememberReplies
<1>. QED
  BY <1>5, <1>6, <1>7 DEF MergeInv

\* The steps that merge nothing.
LEMMA OthersKeepMerge ==
  ASSUME MergeInv, UNCHANGED <<found, answers>>, stage \in {"mdns", "hits", "hosts"},
         Merged' = Merged, stage' \in {"mdns", "hits", "broadcast", "done"},
         stage' = "hits" => todo' \subseteq Services(collector'),
         collector' = collector \/ Merged = {}
  PROVE  MergeInv'
<1>1. AnswersTyped'
  BY DEF MergeInv, AnswersTyped
<1>2. /\ found = [c \in Coolers |-> found[c]]
      /\ \A c \in Coolers : Says(found[c], AnswersOf(c), HitsOf(c) \cap Merged)
  BY DEF MergeInv
<1>3. \A c \in Coolers : Says(found[c], AnswersOf(c), HitsOf(c) \cap Merged)'
  <2>1. CASE collector' = collector
    <3>1. \A c : HitsOf(c)' = HitsOf(c)
      BY <2>1 DEF HitsOf, Services
    <3>2. \A c \in Coolers : Says(found'[c], AnswersOf(c), HitsOf(c)' \cap Merged')
      BY <1>2, <3>1
    <3>. QED
      BY <2>1, <3>2 DEF Says, AnswersOf, Service
  <2>2. CASE Merged = {}
    <3>1. \A c : HitsOf(c)' \cap Merged' = {} /\ HitsOf(c) \cap Merged = {}
      BY <2>2
    <3>2. \A c \in Coolers : Says(found'[c], AnswersOf(c), {})
      BY <1>2, <3>1
    <3>3. \A c \in Coolers : Says(found[c], AnswersOf(c), {})'
      BY <3>2 DEF Says, AnswersOf
    <3>. QED
      BY <3>1, <3>3
  <2>. QED
    BY <2>1, <2>2
<1>4. (stage = "hits" => todo \subseteq Services(collector))'
  BY DEF Services
<1>. QED
  BY <1>1, <1>2, <1>3, <1>4 DEF MergeInv

LEMMA MergeStep == KeptInv /\ MergeInv /\ [Next]_vars => MergeInv'
<1>. SUFFICES ASSUME KeptInv, MergeInv, [Next]_vars PROVE MergeInv'
  OBVIOUS
<1>1. CASE BrowseStep
  <2>1. stage = "mdns" /\ UNCHANGED <<stage, found, answers>>
    BY <1>1 DEF BrowseStep, discoverVars
  <2>2. Merged = {} /\ Merged' = {}
    BY <2>1 DEF Merged
  <2>. QED
    BY <2>1, <2>2, OthersKeepMerge
<1>2. CASE BrowseReturns
  <2>1. /\ stage = "mdns" /\ stage' = "hits" /\ todo' = Services(collector)
        /\ UNCHANGED <<collector, found, answers>>
    BY <1>2 DEF BrowseReturns, browseVars
  <2>2. Services(collector) = Services(collector')
    BY <2>1
  <2>3. Merged = {} /\ Merged' = {}
    BY <2>1 DEF Merged, Services
  <2>. QED
    BY <2>1, <2>2, <2>3, OthersKeepMerge
<1>3. CASE Hit
  BY <1>3, HitKeepsMerge
<1>4. CASE HitsDone
  <2>1. /\ stage = "hits" /\ stage' = "broadcast" /\ todo = {}
        /\ UNCHANGED <<collector, found, answers>>
    BY <1>4 DEF HitsDone, browseVars
  <2>2. Merged' = Merged
    BY <2>1 DEF Merged, Services
  <2>. QED
    BY <2>1, <2>2, OthersKeepMerge
<1>5. CASE Broadcast
  <2>1. PICK heardBy \in SUBSET Coolers :
          /\ found' = RememberReplies(found, {Answer(c, "broadcast") : c \in heardBy})
          /\ answers' = answers \cup {Answer(c, "broadcast") : c \in heardBy}
    BY <1>5 DEF Broadcast
  <2>2. OneEach({Answer(c, "broadcast") : c \in heardBy})
    BY DEF OneEach, Answer
  <2>3. stage = "broadcast" /\ stage' = "hosts" /\ UNCHANGED browseVars
    BY <1>5 DEF Broadcast
  <2>. QED
    BY <2>1, <2>2, <2>3, ProbesKeepMerge
<1>6. CASE ProbeHost
  <2>1. \E ip \in todo : \E replies \in Probe(ip, "probe") :
          found' = RememberReplies(found, replies) /\ answers' = answers \cup replies
    BY <1>6 DEF ProbeHost
  <2>2. PICK replies : /\ OneEach(replies)
                       /\ found' = RememberReplies(found, replies)
                       /\ answers' = answers \cup replies
    BY <2>1, ProbeAnswersOnce
  <2>3. stage = "hosts" /\ stage' = "hosts" /\ UNCHANGED browseVars
    BY <1>6 DEF ProbeHost
  <2>. QED
    BY <2>2, <2>3, ProbesKeepMerge
<1>7. CASE HostsDone
  <2>1. stage = "hosts" /\ stage' = "done" /\ UNCHANGED <<collector, found, answers>>
    BY <1>7 DEF HostsDone, browseVars
  <2>2. Merged' = Merged
    BY <2>1 DEF Merged, Services
  <2>. QED
    BY <2>1, <2>2, OthersKeepMerge
<1>8. CASE Raises
  BY <1>8 DEF Raises, MergeInv, AnswersTyped
<1>9. CASE UNCHANGED vars
  <2>1. UNCHANGED <<collector, stage, todo, found, answers>>
    BY <1>9 DEF vars, browseVars, discoverVars
  <2>2. Merged' = Merged /\ \A c : HitsOf(c)' = HitsOf(c)
    BY <2>1 DEF Merged, HitsOf, Services
  <2>3. stage # "raised" =>
          \A c \in Coolers : Says(found'[c], AnswersOf(c), HitsOf(c)' \cap Merged')
    BY <2>1, <2>2 DEF MergeInv
  <2>4. stage # "raised" =>
          \A c \in Coolers : Says(found[c], AnswersOf(c), HitsOf(c) \cap Merged)'
    BY <2>1, <2>3 DEF Says, AnswersOf, Service
  <2>. QED
    BY <2>1, <2>4 DEF MergeInv, AnswersTyped, Services
<1>. QED
  BY <1>1, <1>2, <1>3, <1>4, <1>5, <1>6, <1>7, <1>8, <1>9 DEF Next

\* The list holds what the answers and the hits so far said, in every reachable state.
THEOREM MergeInvariant == Spec => [](KeptInv /\ MergeInv)
<1>1. DiscoverInit => KeptInv /\ MergeInv
  BY KeptInit, MergeInit
<1>2. KeptInv /\ MergeInv /\ [Next]_vars => (KeptInv /\ MergeInv)'
  BY KeptStep, MergeStep
<1>. QED
  BY <1>1, <1>2, PTL DEF Spec

\* Whatever answers and hits come in whatever order, the list that discover() returns
\* has each cooler once, with everything that its sources say of it.
THEOREM ListKeepsAll == Spec => []MergeKeepsAll
<1>1. MergeInv => MergeKeepsAll
  <2>. SUFFICES ASSUME MergeInv, stage = "done", NEW c \in Coolers
                PROVE  Says(found[c], AnswersOf(c), HitsOf(c))
    BY DEF MergeKeepsAll, Says
  <2>1. Says(found[c], AnswersOf(c), HitsOf(c) \cap Merged)
    BY DEF MergeInv
  <2>2. HitsOf(c) \cap Merged = HitsOf(c)
    BY DEF Merged, HitsOf
  <2>. QED
    BY <2>1, <2>2
<1>. QED
  BY <1>1, MergeInvariant, PTL
=============================================================================
