------------------------------- MODULE MCAsync -------------------------------
(***************************************************************************)
(* Small instances of AsyncSystem.                                         *)
(***************************************************************************)
EXTENDS AsyncSystem

Empty == [t \in Topics |-> <<>>]

\* A two-zone cooler: set-points 1.0 and 2.0 degrees, power on, range -22..20.
MCStore == [Empty EXCEPT !["csettemp"] = <<1000, 2000>>,
                         !["coolerpow"] = <<1>>,
                         !["ctemprng"] = <<-22000, 20000, -22000, 20000>>]

Ask(t, v, c) == [topic |-> t, value |-> v, compartment |-> c]

Told(t, words) == [topic |-> t, words |-> words]

SetPointOnly == <<"csettemp">>

PowerOnly == <<"coolerpow">>

SetPointAndPower == <<"coolerpow", "csettemp">>

\* 2.2222 degrees in zone 0, which the cooler stores as 2.2; power off; a
\* compartment that does not exist; a topic that may not be written.
MixedRequests == {Ask("csettemp", 22222, 0), Ask("coolerpow", 0, 0),
                  Ask("csettemp", 22222, 2), Ask("nocpt", 1, 0)}

PowerRequests == {Ask("coolerpow", 0, 0)}

ZoneRequests == {Ask("csettemp", 30000, 0), Ask("csettemp", 40000, 1)}

NoChange == {}

PanelChange == {Told("csettemp", <<1000, 2500>>)}
=============================================================================
