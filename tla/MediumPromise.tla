---------------------------- MODULE MediumPromise ----------------------------
(***************************************************************************)
(* What a self-updating medium promises, whatever happens to it between    *)
(* two steps (the doc of src/src/selfupdate.rs, "Never backwards" and      *)
(* "Good, or put back"): one set at a time, a trial for a new one, and a   *)
(* floor no serial at or below is ever tried again.                        *)
(***************************************************************************)
EXTENDS Naturals

CONSTANT MaxSerial

VARIABLES
    set,    \* the serial of the set in place
    trial,  \* the serial on trial, 0 for none
    from,   \* the serial the trial replaced, 0 when none runs
    floor   \* the highest serial the medium has settled

vars == <<set, trial, from, floor>>

Init == set = 0 /\ trial = 0 /\ from = 0 /\ floor = 0

\* A newer set goes on trial.
Try(m) ==
    /\ trial = 0
    /\ m > floor
    /\ set' = m /\ trial' = m /\ from' = set
    /\ UNCHANGED floor

\* It stays.
Pass ==
    /\ trial # 0
    /\ set' = trial /\ trial' = 0 /\ from' = 0
    /\ floor' = trial

\* It is put back, for good.
Fail ==
    /\ trial # 0
    /\ set' = from /\ trial' = 0 /\ from' = 0
    /\ floor' = trial

\* It could not be put in place: as if it had not been tried.
Abandon ==
    /\ trial # 0
    /\ set' = from /\ trial' = 0 /\ from' = 0
    /\ UNCHANGED floor

\* A serial is settled without a trial: declined, or in place already.
Settle(m) ==
    /\ trial = 0
    /\ m > floor
    /\ floor' = m
    /\ set' \in {set, m}
    /\ UNCHANGED <<trial, from>>

Next == \/ \E m \in 1 .. MaxSerial : Try(m) \/ Settle(m)
        \/ Pass \/ Fail \/ Abandon

Spec == Init /\ [][Next]_vars
=============================================================================
