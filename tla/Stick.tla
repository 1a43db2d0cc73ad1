-------------------------------- MODULE Stick --------------------------------
(***************************************************************************)
(* The medium's second writer: stormbootx-stick, run once in a boot by the *)
(* system the medium started, finds the stick it came from and does to it  *)
(* what the stick's own next boot would.  SelfUpdate is the medium and its *)
(* boots; the program takes SelfUpdate's own steps, in the boot's place:   *)
(* the bootloader's memory went with ExitBootServices, so pc, want, todo   *)
(* and mem are those of whichever of the two runs.                         *)
(***************************************************************************)
EXTENDS SelfUpdate

CONSTANTS
    Bays,          \* the disks the machine has, one choice of them each
    ConfVersion    \* the `version =` a Conf of this content states, 0 for none

\* A disk: usb or removable; virt, a loop, md or the like; mounted, held by dm
\* or md, shut (its device cannot be opened); slabs, the places it has one at;
\* parts, the places of its partitions; dark, what of it cannot be read: the
\* numbers of what is mounted, its holders, its sectors; looks, what mounting
\* each shows.
DiskType == [usb : BOOLEAN, virt : BOOLEAN, mounted : BOOLEAN, held : BOOLEAN, shut : BOOLEAN,
             slabs : SUBSET Nat, parts : SUBSET Nat,
             dark : SUBSET {"numbers", "holders", "sectors"},
             looks : {"ours", "other", "none", "unread"}]

ASSUME StickAssumption ==
    /\ ConfVersion \in [Contents -> Nat]
    /\ \A bay \in Bays : bay \subseteq DiskType

VARIABLE
    who            \* who runs: "boot", the medium's; "node", the program; "done", it has run

stickVars == <<vars, who>>

StickInit == Init /\ who = "boot"

------------------------------------------------------------------------------
(* find.                                                                   *)

\* Why a disk must not be touched: mounted, held, or a slab's, at its start or
\* at a partition's.  What cannot be read is taken for a no, and only a device
\* that cannot be opened for a yes.
Refused(d) ==
    \/ d.mounted /\ "numbers" \notin d.dark
    \/ d.held /\ "holders" \notin d.dark
    \/ d.shut
    \/ d.slabs \cap ({0} \cup d.parts) # {} /\ "sectors" \notin d.dark

\* The bootloader and stormboot/ are there.
HasMarkers(d) == d.looks = "other" \/ (d.looks = "ours" /\ cur[Boot] # None)

Sticks(bay) == {d \in bay : d.usb /\ ~d.virt /\ ~Refused(d) /\ HasMarkers(d)}

\* One stick, and it is this medium: mounted, and its files and state are read.
\* None, more than one, or another is where this medium's part of it ends.
Find ==
    /\ who = "boot" /\ pc = "run"
    /\ \E bay \in Bays :
           IF \E d \in Sticks(bay) : d.looks = "ours" /\ Sticks(bay) = {d}
           THEN pc' = "up" /\ who' = "node"
           ELSE who' = "done" /\ UNCHANGED pc
    /\ UNCHANGED <<medium, state, local, nvmin, at, running, trialing, want, todo, mem,
                   worn, budget, observers>>

------------------------------------------------------------------------------
(* update.                                                                 *)

\* The stick's version is its stormboot.conf's.
StickOlder(m) ==
    m \notin Downgrade /\ Version[Release[m][Boot]] < IF cur[Conf] = None THEN 0 ELSE ConfVersion[cur[Conf]]

\* No stormcentral, no signature of a release key, no verdict to update, no
\* room, a file that is not the manifest's, `update = off`, a trial, a dry run.
Leave == Decline

LeaveOlder(m) == SetFloor(m) /\ StickOlder(m)
CarriesIt(m) == SetSerial(m) /\ ~StickOlder(m)

\* Mutant of TakeIt: during a trial too.
TakeItOnTrial(m) ==
    /\ pc = "up" /\ MayTake(m, [state EXCEPT !.trial = 0]) /\ ~StickOlder(m)
    /\ Changed(m) \cup Retired(m) # {}
    /\ pc' = "drop" /\ want' = m /\ todo' = Changed(m) \cup Retired(m) /\ mem' = state
    /\ UNCHANGED <<medium, state, local, nvmin, at, running, trialing, worn, budget, observers>>

TakeIt(m) == Begin(m) /\ ~StickOlder(m)

------------------------------------------------------------------------------
(* apply and revert.                                                       *)

DropOld == (\E p \in Paths : DropPrev(p)) \/ DropFails \/ BeginWrite
WriteThem == (\E p \in Paths : WriteNew(p)) \/ WriteFails

\* Mutant of Carry: the program leaves the name to the medium's own boot.
CarryOff == CarryNothing

Carry == CarryIdentity
Record == RecordTrial \/ RecordFails
SwapThem == \E p \in Paths : SwapOut(p) \/ SwapIn(p)

\* Mutant of SwapBroken: the program ends there.
SwapBrokenOff == SwapFailsInPlace

SwapBroken == SwapFails

PutThemBack == \E p \in Paths : \/ RevertDelete(p) \/ RevertRename(p) \/ RevertRemove(p)
                                \/ RevertKeep(p) \/ RevertError(p)
GoBack == RestoreState

\* The set is in place, and its next boot is its trial.
Swapped ==
    /\ pc = "swap" /\ todo = {}
    /\ GiveUp
    /\ UNCHANGED <<medium, state, local, nvmin, at, running, trialing, worn, budget, observers>>

Update ==
    \/ Leave \/ \E m \in Serials : LeaveOlder(m) \/ CarriesIt(m) \/ TakeIt(m)
    \/ DropOld \/ WriteThem \/ Carry \/ Record \/ SwapThem \/ SwapBroken \/ PutThemBack \/ GoBack
    \/ Swapped

\* The state file is written as the boot writes it, in place.
TornByStick ==
    /\ \/ pc = "up" /\ \E m \in Serials :
            MayTake(m, state) /\ (StickOlder(m) \/ Changed(m) \cup Retired(m) = {})
       \/ pc = "record"
       \/ pc = "back" /\ todo = {}
    /\ TornWrite

\* The stick is unmounted, whatever came of it.
Ends ==
    /\ who = "node" /\ pc = "ready"
    /\ pc' = "run" /\ who' = "done"
    /\ UNCHANGED <<medium, state, local, nvmin, at, running, trialing, want, todo, mem,
                   worn, budget, observers>>

------------------------------------------------------------------------------
\* The boot the program was run in is over, and the next one runs it anew.
NextBoot == IF pc' = "off" THEN who' = "boot" ELSE UNCHANGED who

\* The machine may go down, and the stick wear out, with the program in the
\* middle of it.
NodeSteps ==
    \/ Find \/ Ends
    \/ who = "node" /\ (Update \/ PowerLoss \/ TornByStick \/ WearOut) /\ NextBoot

MediumSteps == who # "node" /\ Next /\ NextBoot

StickNext == NodeSteps \/ MediumSteps

StickSpec == StickInit /\ [][StickNext]_stickVars
FairStick == StickSpec /\ WF_stickVars(StickNext)

------------------------------------------------------------------------------
(* Properties.                                                             *)

\* The state's shape.
StickTypeOK ==
    /\ TypeOK
    /\ who \in {"boot", "node", "done"}
    /\ who = "node" => pc \in {"up", "drop", "write", "record", "swap", "back", "ready"}
    /\ who = "done" => pc = "run"

\* Whichever of the two writes it, the medium keeps MediumPromise's promise as
\* long as the state file is not lost.
BothKeepPromise ==
    Promise!Init /\ []["torn" \notin hurt' => [Promise!Next]_(Promise!vars)]_stickVars

\* A program that ends leaves one whole set, the one its state names: the new
\* one on trial, or the old one and its state as they were.
LeavesOneSet ==
    who = "done" /\ ~CutShort => Whole(state.serial, cur)

\* Whichever program ran last, the medium has one whole set on it and a
\* bootloader to start it with, as long as no swap, put-back or state file was
\* cut short; and wherever the power went, between the two renames of the
\* bootloader too, the bootloader that was there is still on it, and no more than
\* that rename is missing from a whole set (apply, revert; selfupdate.rs apply,
\* "the bootloader last").
OneWholeSet ==
    LeavesOneSet /\ SetIsWhole /\ Startable /\ BootKept /\ OneRenameAway

\* With a second writer too, a swap or a revert cut short at any file loses none
\* of the set it replaces, a set that failed goes back whole, and the machine's
\* name stays on the medium (apply, carry_identity).
LosesNothing == GoesBackWhole /\ IdentityKept

\* A trial the node began ends at the medium's own boots, none of which the
\* update stops.
BootsAndTrialsEnd == TrialEnds /\ StartGoesOn
=============================================================================
