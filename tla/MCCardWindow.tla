----------------------------- MODULE MCCardWindow -----------------------------
(***************************************************************************)
(* The instance of CardWindow for TLC: reports and writes, on cards whose  *)
(* ports differ in what a write has to do.                                 *)
(***************************************************************************)
EXTENDS CardWindow

MCPort(fec) == [cap |-> TRUE, next |-> [fec |-> fec, rest |-> "kept"],
                now |-> [fec |-> "default", rest |-> "kept"]]

MCTwo    == <<MCPort("default"), MCPort("default")>>
MCNoTlv  == <<MCPort("rs"), [MCPort("default") EXCEPT !.next = Absent]>>
MCNoFec  == <<[MCPort("default") EXCEPT !.cap = FALSE]>>

MCCases == {<<"none", <<>>, {}>>, <<"none", MCTwo, {}>>,
            <<"rs", MCTwo, {"slow"}>>, <<"rs", MCNoTlv, {"refuse", "forget"}>>,
            <<"rs", MCNoFec, {"mute"}>>}
==============================================================================
