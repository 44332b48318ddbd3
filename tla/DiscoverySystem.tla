---------------------------- MODULE DiscoverySystem ----------------------------
(***************************************************************************)
(* What discover() promises: about the browse, whatever the order and the  *)
(* times at which packets come, and about the merged list at the end.      *)
(***************************************************************************)
EXTENDS Discovery

Values(records, type, name) ==
  {r.value : r \in {s \in records : s.type = type /\ s.name = name}}

HeardValues(type, name) == Values(heard, type, name)

\* The services reported are those whose PTR and SRV came, with every address that
\* came for the host and with a TXT that came, if one did, in whatever order the
\* records came and whichever of them nobody had asked for (discovery.py:209-247).
NothingHeardIsLost ==
  /\ Services(collector) =
       {i \in HeardValues("PTR", None) : HeardValues("SRV", i) # {}}
  /\ \A i \in Services(collector) :
       /\ collector.srv[i] \in HeardValues("SRV", i)
       /\ ElementsOf(Service(collector, i).addresses) = HeardValues("A", collector.srv[i])
       /\ LET txt == Service(collector, i).txt IN
            IF txt = None THEN HeardValues("TXT", i) = {} ELSE txt \in HeardValues("TXT", i)

\* What is missing is asked for within one interval and one wait of the moment it
\* went missing: no chain of PTR, SRV and A starves a question (discovery.py:315-328).
\* A question counts as asked for when its send failed too: it is put into `asked'
\* before (line 319), the failure is suppressed (320), and it is never sent again.
FollowUpInTime ==
  \A q \in Missing(collector) \ asked : clock < since[q] + Gap + Poll

\* A browse that stops before its time leaves open no question that is older than
\* the moment it gives to stragglers (discovery.py:336-338).
EarlyStopLeavesNothingOld ==
  loop = "done" /\ ~failed /\ clock < Timeout =>
    \A q \in Missing(collector) : clock < since[q] + Linger + Poll

\* The browse ends at its time, however many packets come (discovery.py:313, 338).
EndsInTime == clock < Timeout + Poll

HitsOf(c) == {i \in Services(collector) : collector.srv[i] = HostOf[c]}

AnswersOf(c) == {a \in answers : a.cooler = c}

\* Each cooler that answered a probe or that the browse reported is in the list once.
\* It names exactly the sources that found it, and it has an id, a firmware, an
\* instance and an address exactly when one of them gave it one; which value it took
\* when two did is not said (discovery.py:384-400).
MergeKeepsAll ==
  stage = "done" =>
    \A c \in Coolers :
      /\ found[c].sources = {a.source : a \in AnswersOf(c)}
                              \cup {"mdns" : i \in HitsOf(c)}
      /\ found[c].id = (AnswersOf(c) # {})
      /\ found[c].firmware = \E i \in HitsOf(c) : collector.txt[i] = "firmware"
      /\ (found[c].instance = None) = (HitsOf(c) = {})
      /\ (found[c].ip = None) =
           (AnswersOf(c) = {} /\ \A i \in HitsOf(c) : Service(collector, i).addresses = <<>>)

\* The docstring of discover() and the README: each hit is confirmed with a unicast
\* probe.  So no cooler is listed with an address at which another one answered.
NoAddressOfAnother ==
  stage = "done" =>
    \A c \in Coolers : \A a \in answers : found[c].ip = a.ip => a.cooler = c
=============================================================================
