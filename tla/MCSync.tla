-------------------------------- MODULE MCSync --------------------------------
(***************************************************************************)
(* Small instances of SyncSystem.                                          *)
(***************************************************************************)
EXTENDS SyncSystem

MCStore == [[t \in Topics |-> <<>>] EXCEPT !["coolerpow"] = <<1>>, !["icepow"] = <<0>>]

PowerOnly == <<"coolerpow">>

SwitchOff == {[topic |-> "coolerpow", value |-> 0, compartment |-> 0]}

NoChange == {}
=============================================================================
