------------------------------ MODULE MCDiscovery ------------------------------
(***************************************************************************)
(* Two coolers.  Times are in twentieths of a second: a browse of one      *)
(* second, 0.4 s between questions, 0.3 s for stragglers, 0.25 s of wait.  *)
(***************************************************************************)
EXTENDS DiscoverySystem

Ptr(i)    == [type |-> "PTR", name |-> None, value |-> i]
Srv(i, h) == [type |-> "SRV", name |-> i, value |-> h]
Txt(i, t) == [type |-> "TXT", name |-> i, value |-> t]
Adr(h, a) == [type |-> "A", name |-> h, value |-> a]

MCHostOf == [c \in {"c1", "c2"} |-> IF c = "c1" THEN "h1" ELSE "h2"]

MCLocation == [c \in {"c1", "c2"} |-> IF c = "c1" THEN "a1" ELSE "a2"]

\* c1 answers the browse with its PTR alone, c2 with everything.  Unasked: an old
\* address of c1, that c2 has now, with a TXT that names no firmware, before the PTR or
\* the SRV or after them, and a second cooler with the same instance name.
MCPackets ==
  {[answers |-> Browse, records |-> <<Ptr("i1")>>],
   [answers |-> Browse, records |-> <<Ptr("i2"), Srv("i2", "h2"), Txt("i2", "firmware"), Adr("h2", "a2")>>],
   [answers |-> Question("SRV", "i1"), records |-> <<Srv("i1", "h1"), Adr("h1", "a1")>>],
   [answers |-> Question("SRV", "i1"), records |-> <<Srv("i1", "h1")>>],
   [answers |-> Question("TXT", "i1"), records |-> <<Txt("i1", "firmware")>>],
   [answers |-> Question("A", "h1"), records |-> <<Adr("h1", "a1")>>],
   [answers |-> Unasked, records |-> <<Adr("h1", "a2"), Txt("i1", "bare")>>],
   [answers |-> Unasked, records |-> <<Ptr("i1"), Srv("i1", "h1"), Adr("h1", "a2")>>],
   [answers |-> Unasked, records |-> <<Srv("i1", "h2"), Adr("h2", "a2")>>]}
=============================================================================
