------------------------------- MODULE Discovery -------------------------------
(***************************************************************************)
(* discovery.discover(): the browse, a unicast probe of each hit, the      *)
(* broadcast, a probe of each address that the caller named, and           *)
(* remember(), which merges what they say of one cooler.                   *)
(*                                                                         *)
(* A cooler stands for its short_id, which its id and its host name share; *)
(* name, port and sku are the same in both sources and are left out.       *)
(***************************************************************************)
EXTENDS MdnsBrowse

CONSTANTS
  Coolers,
  HostOf,      \* the host name of each cooler
  Location,    \* the address of each cooler while discover() runs
  NamedHosts   \* the parameter `hosts`

ASSUME DiscoveryAssumption ==
  /\ HostOf \in [Coolers -> Hosts] /\ \A h \in Hosts : \E c \in Coolers : HostOf[c] = h
  /\ \A c, d \in Coolers : HostOf[c] = HostOf[d] => c = d
  /\ Location \in [Coolers -> Addresses]
  /\ NamedHosts \subseteq Addresses

VARIABLES
  stage,      \* "mdns", "hits", "broadcast", "hosts", then "done" or "raised"
  broadcast,  \* the parameter
  todo,       \* the instances or the addresses still to probe
  found,      \* one Discovered for each cooler; without a source: no entry
  answers     \* history: the answers to probes

discoverVars == <<stage, broadcast, todo, found, answers>>

vars == <<browseVars, discoverVars>>

\* One answer to a probe.
Answer(c, source) == [cooler |-> c, ip |-> Location[c], source |-> source]

CoolerOf(h) == CHOOSE c \in Coolers : HostOf[c] = h

Unknown == [id |-> FALSE, ip |-> None, instance |-> None, firmware |-> FALSE, sources |-> {}]

FromReply(a) == [Unknown EXCEPT !.id = TRUE, !.ip = a.ip, !.sources = {a.source}]

FromService(i) ==
  LET svc == Service(collector, i)
  IN  [id |-> FALSE, ip |-> IF svc.addresses = <<>> THEN None ELSE Head(svc.addresses),
       instance |-> i, firmware |-> svc.txt = "firmware", sources |-> {"mdns"}]

Or(a, b) == IF a = None THEN b ELSE a

\* Mutant: the later record replaces the earlier one.
MergeReplaces(prev, d) == d

Merge(prev, d) ==
  [id       |-> prev.id \/ d.id,
   ip       |-> Or(prev.ip, d.ip),
   instance |-> Or(prev.instance, d.instance),
   firmware |-> prev.firmware \/ d.firmware,
   sources  |-> prev.sources \cup d.sources]

\* Merging into Unknown is storing the record.
Remember(f, c, d) == [f EXCEPT ![c] = Merge(@, d)]

\* A cooler answers a probe once (a second answer that says the same is dropped), so
\* that no two replies of one probe are merged, and their order does not matter.
RememberReplies(f, replies) ==
  [c \in Coolers |->
     IF \E a \in replies : a.cooler = c
     THEN Merge(f[c], FromReply(CHOOSE a \in replies : a.cooler = c)) ELSE f[c]]

\* What a unicast probe with first_only returns: the answer of the cooler at that
\* address, or nothing.
Probe(ip, source) ==
  {{}} \cup {{Answer(c, source)} : c \in {d \in Coolers : Location[d] = ip}}

DiscoverInit ==
  /\ BrowseInit
  /\ \E mdns \in BOOLEAN : stage = IF mdns THEN "mdns" ELSE "broadcast"
  /\ broadcast \in BOOLEAN
  /\ todo = {} /\ answers = {}
  /\ found = [c \in Coolers |-> Unknown]

BrowseStep ==
  /\ stage = "mdns" /\ BrowseNext
  /\ UNCHANGED discoverVars

BrowseReturns ==
  /\ stage = "mdns" /\ loop = "done"
  /\ stage' = "hits" /\ todo' = Services(collector)
  /\ UNCHANGED <<browseVars, broadcast, found, answers>>

\* The answer is stored first, under the cooler that gave it, then the entry.
Hit ==
  /\ stage = "hits"
  /\ \E i \in todo : LET entry == FromService(i) IN
       \E replies \in IF entry.ip = None THEN {{}} ELSE Probe(entry.ip, "probe") :
         /\ found' = Remember(RememberReplies(found, replies), CoolerOf(collector.srv[i]), entry)
         /\ answers' = answers \cup replies
         /\ todo' = todo \ {i}
  /\ UNCHANGED <<browseVars, stage, broadcast>>

HitsDone ==
  /\ stage = "hits" /\ todo = {}
  /\ stage' = "broadcast"
  /\ UNCHANGED <<browseVars, broadcast, todo, found, answers>>

\* Any of the coolers may hear the broadcast and be heard.
Broadcast ==
  /\ stage = "broadcast"
  /\ stage' = "hosts" /\ todo' = NamedHosts
  /\ \E heardBy \in IF broadcast THEN SUBSET Coolers ELSE {{}} :
       LET replies == {Answer(c, "broadcast") : c \in heardBy} IN
         /\ found' = RememberReplies(found, replies)
         /\ answers' = answers \cup replies
  /\ UNCHANGED <<browseVars, broadcast>>

ProbeHost ==
  /\ stage = "hosts"
  /\ \E ip \in todo : \E replies \in Probe(ip, "probe") :
       /\ found' = RememberReplies(found, replies)
       /\ answers' = answers \cup replies
       /\ todo' = todo \ {ip}
  /\ UNCHANGED <<browseVars, stage, broadcast>>

HostsDone ==
  /\ stage = "hosts" /\ todo = {}
  /\ stage' = "done"
  /\ UNCHANGED <<browseVars, broadcast, todo, found, answers>>

\* The first query of the browse, sendto() of a probe or int() of a field of an
\* answer raises, and all that was found is lost.
Raises ==
  /\ \/ stage = "mdns" /\ loop = "raised"
     \/ stage = "hits" /\ \E i \in todo : FromService(i).ip # None
     \/ stage = "broadcast" /\ broadcast
     \/ stage = "hosts" /\ todo # {}
  /\ stage' = "raised" /\ todo' = {} /\ found' = [c \in Coolers |-> Unknown]
  /\ UNCHANGED <<browseVars, broadcast, answers>>

Next ==
  \/ BrowseStep \/ BrowseReturns \/ Hit \/ HitsDone
  \/ Broadcast \/ ProbeHost \/ HostsDone \/ Raises

Spec == DiscoverInit /\ [][Next]_vars
=============================================================================
