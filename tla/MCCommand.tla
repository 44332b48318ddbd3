------------------------------- MODULE MCCommand -------------------------------
(***************************************************************************)
(* Writes to a switch that is on, to off or on again; a write that is      *)
(* refused locally because nothing is published; a topic nobody may write. *)
(***************************************************************************)
EXTENDS CommandSystem

MCStore == [[t \in Topics |-> <<>>] EXCEPT !["coolerpow"] = <<1>>]

PowerOnly == <<"coolerpow">>

SwitchedOff == {[topic |-> "coolerpow", words |-> <<0>>]}

MCRequests ==
  {[topic |-> "coolerpow", value |-> 0, compartment |-> 0],
   [topic |-> "coolerpow", value |-> 1, compartment |-> 0],
   [topic |-> "csettemp", value |-> 0, compartment |-> 0],
   [topic |-> "nocpt", value |-> 1, compartment |-> 0]}
=============================================================================
