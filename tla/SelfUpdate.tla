----------------------------- MODULE SelfUpdate -----------------------------
(***************************************************************************)
(* The boot medium rewriting itself from the current release               *)
(* (src/src/selfupdate.rs) and the pure half that decides                  *)
(* (src/src/manifest.rs): one medium, the machines it is plugged into, one *)
(* action per file operation, and a power loss, a failing write or a       *)
(* failing read between any two of them.                                   *)
(*                                                                         *)
(* A file is its content, a member of Contents, or None when it is not     *)
(* there; the medium holds three of each path: the file, its `.prev` and   *)
(* its `.new`.  A release is a serial; what it puts at each path is        *)
(* Release[serial], and Release[0] is what the medium was written with.    *)
(***************************************************************************)
EXTENDS Naturals, FiniteSets

CONSTANTS
    Paths,      \* what manifest.rs path_ok lets an update write
    Boot,       \* \EFI\BOOT\BOOTX64.EFI, which is this binary
    Conf,       \* \stormboot\stormboot.conf
    Drivers,    \* the paths under \stormboot\drivers that end in .efi
    Contents,   \* what a file can hold
    None,       \* a file that is not there
    MaxSerial,  \* serials are 1..MaxSerial, and 0 for a medium never updated
    Release,    \* [0..MaxSerial -> [Paths -> Contents \cup {None}]]
    Version,    \* the version a bootloader of this content says it is
    Downgrade,  \* the serials whose manifest says `downgrade true`
    Machines,   \* the machines the medium is plugged into
    Canary,     \* [serial -> the machines its manifest is for]
    Faulty,     \* contents that keep a boot from ever attaching an image
    Named,      \* contents of Conf that state the machine's name
    Faults,     \* which faults the environment may produce in this run
    MaxFaults   \* and how many of them in a behaviour

Serials == 1 .. MaxSerial
Files   == [Paths -> Contents \cup {None}]

(***************************************************************************)
(* "power"    power lost, or a reset, anywhere but where "swap" says       *)
(* "swap"     power lost between the trial's record and the swap's end, or *)
(*            while files are put back                                     *)
(* "torn"     power lost while the state file is rewritten in place        *)
(* "write"    a file operation of an update fails                          *)
(* "putback"  a file operation of a revert fails                           *)
(* "state"    the state file's write fails and leaves it as it was         *)
(* "read"     the medium cannot be opened or read                          *)
(* "nv"       the firmware refuses the variable; its read is then a 0      *)
(* "worn"     from some moment on every write to the medium fails          *)
(***************************************************************************)
FaultKinds == {"power", "swap", "torn", "write", "putback", "state", "read",
               "nv", "worn"}

ASSUME ConstantsAssumption ==
    /\ Boot \in Paths /\ Conf \in Paths /\ Boot # Conf
    /\ Drivers \subseteq Paths \ {Boot, Conf}
    /\ IsFiniteSet(Paths)
    /\ None \notin Contents
    /\ MaxSerial \in Nat
    /\ Release \in [0 .. MaxSerial -> Files]
    /\ \A n \in 0 .. MaxSerial : Release[n][Boot] # None
    /\ Version \in [Contents -> Nat]
    /\ Downgrade \subseteq Serials
    /\ Canary \in [Serials -> SUBSET Machines]
    /\ Faulty \subseteq Contents
    /\ Named \subseteq Contents
    /\ Faults \subseteq FaultKinds
    /\ MaxFaults \in Nat

VARIABLES
    cur, prv, new,  \* the files, their `.prev` and their `.new`
    state,          \* \stormboot\state
    local,          \* local.conf states the machine's name
    nvmin,          \* each machine's StormBootMinSerial
    at,             \* the machine the medium is plugged into
    pc,             \* what the boot is doing
    running,        \* the content of the bootloader that runs
    trialing,       \* the TRIAL static: the serial on trial in this boot
    want,           \* the serial whose files are being moved
    todo,           \* the paths the loop in hand has not done
    mem,            \* the state try_update read, to go back to
    worn,           \* the medium refuses every write from here on
    left            \* faults left

VARIABLES           \* observers: no action reads them
    old,            \* the files as they were when the trial was recorded
    settled,        \* serials that passed, failed or were declined here
    rejected,       \* those of them that failed
    hurt            \* the kinds of faults there have been

\* What the environment has left to do, and has done.
budget    == <<left, hurt>>
medium    == <<cur, prv, new>>
observers == <<old, settled, rejected>>
vars == <<cur, prv, new, state, local, nvmin, at, pc, running, trialing,
          want, todo, mem, worn, left, hurt, old, settled, rejected>>

(***************************************************************************)
(* \stormboot\state.  A trial of 0 is no trial; `files` are the paths the  *)
(* last update changed and `fresh` those of them it marked `+`, which were *)
(* new.  A state file that cannot be read reads as Blank.                  *)
(***************************************************************************)
TRIAL_STARTS == 2

State == [serial : 0 .. MaxSerial, min : 0 .. MaxSerial,
          failed : 0 .. MaxSerial, trial : 0 .. MaxSerial,
          starts : 0 .. TRIAL_STARTS, prev : 0 .. MaxSerial,
          files : SUBSET Paths, fresh : SUBSET Paths]

\* A state with no trial running.
AtRest(serial, min, failed) ==
    [serial |-> serial, min |-> min, failed |-> failed, trial |-> 0,
     starts |-> 0, prev |-> 0, files |-> {}, fresh |-> {}]

Blank == AtRest(0, 0, 0)

Larger(a, b) == IF a > b THEN a ELSE b

Init ==
    /\ cur = Release[0]
    /\ prv = [p \in Paths |-> None]
    /\ new = [p \in Paths |-> None]
    /\ state = Blank
    /\ local = FALSE
    /\ nvmin = [i \in Machines |-> 0]
    /\ at \in Machines
    /\ pc = "off"
    /\ running = None
    /\ trialing = 0
    /\ want = 0
    /\ todo = {}
    /\ mem = Blank
    /\ worn = FALSE
    /\ left = MaxFaults /\ hurt = {}
    /\ old = Release[0]
    /\ settled = {}
    /\ rejected = {}

------------------------------------------------------------------------------
(* Faults.                                                                 *)

\* An operation of kind k went through.
Works == ~worn /\ UNCHANGED budget

\* An operation of kind k failed.
Fails(k) ==
    \/ k \in Faults /\ left > 0 /\ left' = left - 1 /\ hurt' = hurt \cup {k}
    \/ worn /\ k \in {"write", "putback", "state"} /\ UNCHANGED budget

\* vol.write_state(s) by a caller that goes on whether it worked or not.
WriteState(s) ==
    \/ Works /\ state' = s
    \/ Fails("state") /\ UNCHANGED state

\* What a reset or a power loss leaves of a boot: nothing in memory.
Forget ==
    /\ pc' = "off"
    /\ running' = None
    /\ trialing' = 0
    /\ want' = 0
    /\ todo' = {}
    /\ mem' = Blank

------------------------------------------------------------------------------
(* The release and the medium.                                             *)

\* Files of the manifest that differ from the medium (try_update).
Changed(m) == {p \in Paths : Release[m][p] # None /\ cur[p] # Release[m][p]}

\* Loadable drivers the release no longer carries.
Retired(m) == {p \in Drivers : cur[p] # None /\ Release[m][p] = None}

\* Retired drivers come first and the bootloader last, in between the order
\* is the manifest's.
First(p, s) ==
    /\ p \in s
    /\ Release[want][p] = None \/ \A q \in s : Release[want][q] # None
    /\ p = Boot => s = {Boot}

\* The set of release n, whole: its files, and no driver it does not carry.
Whole(n, files) ==
    \A p \in Paths :
        IF Release[n][p] # None THEN files[p] = Release[n][p]
                                ELSE p \in Drivers => files[p] = None

\* What this machine's minimum is taken for: 0 when it cannot be read.
NvMinRead == {nvmin[at]} \cup IF "nv" \in Faults /\ left > 0 THEN {0} ELSE {}

\* Mutant of MayTake: the serials that failed here are not looked at.
MayTakeFailed(m, s) ==
    /\ s.trial = 0
    /\ m > Larger(s.serial, s.min)
    /\ \E min \in NvMinRead : m >= min
    /\ at \in Canary[m]

\* manifest.rs verdict says Update: no trial runs, the serial is above all this
\* medium has carried or seen fail, at or above what this machine has passed as
\* far as it can be read, and for this machine.
MayTake(m, s) ==
    /\ s.trial = 0
    /\ m > Larger(s.serial, s.min)
    /\ \E min \in NvMinRead : m >= min
    /\ m > s.failed
    /\ at \in Canary[m]

\* manifest.rs version_ok says Older: what runs is a newer version.
VersionOlder(m) ==
    m \notin Downgrade /\ Version[Release[m][Boot]] < Version[running]

------------------------------------------------------------------------------
(* A start: count the trial's start, or put a failed set back.             *)

\* The firmware loads the bootloader of whatever machine the medium is in.
PowerOn ==
    /\ pc = "off"
    /\ cur[Boot] # None
    /\ at' \in Machines
    /\ pc' = "start"
    /\ running' = cur[Boot]
    /\ UNCHANGED <<medium, state, local, nvmin, trialing, want, todo, mem,
                   worn, budget, observers>>

\* The medium cannot be opened: the boot goes on and knows of no trial.
StartUnread ==
    /\ pc = "start"
    /\ Fails("read")
    /\ pc' = "up"
    /\ UNCHANGED <<medium, state, local, nvmin, at, running, trialing, want,
                   todo, mem, worn, observers>>

StartNormal ==
    /\ pc = "start"
    /\ state.trial = 0
    /\ pc' = "up"
    /\ UNCHANGED <<medium, state, local, nvmin, at, running, trialing, want,
                   todo, mem, worn, budget, observers>>

\* Mutant of StartTrial: the start is not counted.
StartTrialUncounted ==
    /\ pc = "start"
    /\ state.trial # 0
    /\ state.starts < TRIAL_STARTS
    /\ WriteState(state)
    /\ trialing' = state.trial
    /\ pc' = "up"
    /\ UNCHANGED <<medium, local, nvmin, at, running, want, todo, mem, worn,
                   observers>>

\* A start that cannot be recorded is a start all the same.
StartTrial ==
    /\ pc = "start"
    /\ state.trial # 0
    /\ state.starts < TRIAL_STARTS
    /\ WriteState([state EXCEPT !.starts = @ + 1])
    /\ trialing' = state.trial
    /\ pc' = "up"
    /\ UNCHANGED <<medium, local, nvmin, at, running, want, todo, mem, worn,
                   observers>>

StartRevert ==
    /\ pc = "start"
    /\ state.trial # 0
    /\ state.starts >= TRIAL_STARTS
    /\ pc' = "revert"
    /\ want' = state.trial
    /\ todo' = state.files
    /\ UNCHANGED <<medium, state, local, nvmin, at, running, trialing, mem,
                   worn, budget, observers>>

------------------------------------------------------------------------------
(* revert(): per path, drop the `.new`, then return the `.prev` over the   *)
(* file, or remove a file that was new.  at_start runs it for a set that   *)
(* failed its trial, apply for a swap that failed.  A `.new` is never read *)
(* before an apply has written it anew, so its deletion rides with the     *)
(* next operation on the path, and may fail unseen.                        *)

Reverting == pc \in {"revert", "back"}

DropNew(p) == \/ ~worn /\ new' = [new EXCEPT ![p] = None]
              \/ (worn \/ "putback" \in Faults) /\ UNCHANGED new

RevertDelete(p) ==
    /\ Reverting
    /\ First(p, todo)
    /\ prv[p] # None
    /\ cur[p] # None
    /\ Works
    /\ DropNew(p)
    /\ cur' = [cur EXCEPT ![p] = None]
    /\ UNCHANGED <<prv, state, local, nvmin, at, pc, running, trialing, want,
                   todo, mem, worn, observers>>

RevertRename(p) ==
    /\ Reverting
    /\ First(p, todo)
    /\ prv[p] # None
    /\ cur[p] = None
    /\ Works
    /\ DropNew(p)
    /\ cur' = [cur EXCEPT ![p] = prv[p]]
    /\ prv' = [prv EXCEPT ![p] = None]
    /\ todo' = todo \ {p}
    /\ UNCHANGED <<state, local, nvmin, at, pc, running, trialing, want, mem,
                   worn, observers>>

RevertRemove(p) ==
    /\ Reverting
    /\ First(p, todo)
    /\ prv[p] = None
    /\ p \in state.fresh
    /\ Works
    /\ DropNew(p)
    /\ cur' = [cur EXCEPT ![p] = None]
    /\ todo' = todo \ {p}
    /\ UNCHANGED <<prv, state, local, nvmin, at, pc, running, trialing, want,
                   mem, worn, observers>>

\* Neither a `.prev` nor new: the swap had not come to it.
RevertKeep(p) ==
    /\ Reverting
    /\ First(p, todo)
    /\ prv[p] = None
    /\ p \notin state.fresh
    /\ DropNew(p)
    /\ todo' = todo \ {p}
    /\ UNCHANGED <<cur, prv, state, local, nvmin, at, pc, running, trialing,
                   want, mem, worn, budget, observers>>

\* The delete or the rename failed: noted, and on to the next path.
RevertError(p) ==
    /\ Reverting
    /\ First(p, todo)
    /\ prv[p] # None \/ p \in state.fresh
    /\ Fails("putback")
    /\ DropNew(p)
    /\ todo' = todo \ {p}
    /\ UNCHANGED <<cur, prv, state, local, nvmin, at, pc, running, trialing,
                   want, mem, worn, observers>>

\* at_start, the files put back: the serial is marked failed.
RecordFailed ==
    /\ pc = "revert"
    /\ todo = {}
    /\ WriteState(AtRest(state.prev, state.min,
                         Larger(state.failed, state.trial)))
    /\ settled' = settled \cup {state.trial}
    /\ rejected' = rejected \cup {state.trial}
    /\ pc' = "chain"
    /\ want' = 0
    /\ UNCHANGED <<medium, local, nvmin, at, running, trialing, todo, mem,
                   worn, old>>

\* The restored bootloader starts in this boot, and its at_start with it.
ChainLoad ==
    /\ pc = "chain"
    /\ cur[Boot] # None
    /\ pc' = "start"
    /\ running' = cur[Boot]
    /\ UNCHANGED <<medium, state, local, nvmin, at, trialing, want, todo, mem,
                   worn, budget, observers>>

\* It could not be loaded: a restart.
ChainFails ==
    /\ pc = "chain"
    /\ \/ cur[Boot] = None /\ UNCHANGED budget
       \/ Fails("read")
    /\ Forget
    /\ UNCHANGED <<medium, state, local, nvmin, at, worn, observers>>

------------------------------------------------------------------------------
(* The check: once in a boot, after the network is up and before the claim.*)

\* Any Err of try_update before apply: no update = line, a RAM disk or a
\* read-only medium, no lease, no answer, a manifest that does not verify or
\* parse, a verdict other than Update, no room, a file that cannot be had.
Decline ==
    /\ pc = "up"
    /\ pc' = "ready"
    /\ UNCHANGED <<medium, state, local, nvmin, at, running, trialing, want,
                   todo, mem, worn, budget, observers>>

\* A newer serial of an older version is not taken, and becomes the floor.
SetFloor(m) ==
    /\ pc = "up"
    /\ MayTake(m, state)
    /\ WriteState([state EXCEPT !.min = Larger(@, m)])
    /\ settled' = IF state' = state THEN settled ELSE settled \cup {m}
    /\ pc' = "ready"
    /\ UNCHANGED <<medium, local, nvmin, at, running, trialing, want, todo,
                   mem, worn, old, rejected>>

DeclineOlder(m) == SetFloor(m) /\ VersionOlder(m)

\* Nothing differs: the medium already carries the release.
SetSerial(m) ==
    /\ pc = "up"
    /\ MayTake(m, state)
    /\ Changed(m) = {} /\ Retired(m) = {}
    /\ WriteState([state EXCEPT !.serial = m])
    /\ settled' = IF state' = state THEN settled ELSE settled \cup {m}
    /\ pc' = "ready"
    /\ UNCHANGED <<medium, local, nvmin, at, running, trialing, want, todo,
                   mem, worn, old, rejected>>

AlreadyCarried(m) == SetSerial(m) /\ ~VersionOlder(m)

\* Mutant of Begin: the `.prev` files of an earlier update are not dropped.
BeginOverPrev(m) ==
    /\ pc = "up"
    /\ MayTake(m, state)
    /\ Changed(m) \cup Retired(m) # {}
    /\ pc' = "drop"
    /\ want' = m
    /\ todo' = {}
    /\ mem' = state
    /\ UNCHANGED <<medium, state, local, nvmin, at, running, trialing, worn,
                   budget, observers>>

\* Everything that differs has been fetched and verified: apply begins.
Begin(m) ==
    /\ pc = "up"
    /\ MayTake(m, state)
    /\ Changed(m) \cup Retired(m) # {}
    /\ pc' = "drop"
    /\ want' = m
    /\ todo' = Changed(m) \cup Retired(m)
    /\ mem' = state
    /\ UNCHANGED <<medium, state, local, nvmin, at, running, trialing, worn,
                   budget, observers>>

Take(m) == Begin(m) /\ ~VersionOlder(m)

------------------------------------------------------------------------------
(* apply().                                                                *)

\* An apply that changed nothing ends here, and the boot goes on.
GiveUp ==
    /\ pc' = "ready"
    /\ want' = 0
    /\ todo' = {}
    /\ mem' = Blank

DropPrev(p) ==
    /\ pc = "drop"
    /\ p \in todo
    /\ Works
    /\ prv' = [prv EXCEPT ![p] = None]
    /\ todo' = todo \ {p}
    /\ UNCHANGED <<cur, new, state, local, nvmin, at, pc, running, trialing,
                   want, mem, worn, observers>>

DropFails ==
    /\ pc = "drop"
    /\ todo # {}
    /\ Fails("write")
    /\ GiveUp
    /\ UNCHANGED <<medium, state, local, nvmin, at, running, trialing, worn,
                   observers>>

BeginWrite ==
    /\ pc = "drop"
    /\ todo = {}
    /\ pc' = "write"
    /\ todo' = Changed(want)
    /\ UNCHANGED <<medium, state, local, nvmin, at, running, trialing, want,
                   mem, worn, budget, observers>>

WriteNew(p) ==
    /\ pc = "write"
    /\ p \in todo
    /\ Works
    /\ new' = [new EXCEPT ![p] = Release[want][p]]
    /\ todo' = todo \ {p}
    /\ UNCHANGED <<cur, prv, state, local, nvmin, at, pc, running, trialing,
                   want, mem, worn, observers>>

\* One `.new` could not be written: every `.new` is deleted, best effort.
WriteFails ==
    /\ pc = "write"
    /\ todo # {}
    /\ Fails("write")
    /\ \E stays \in SUBSET Changed(want) :
         new' = [p \in Paths |->
                   IF p \in Changed(want) \ stays THEN None ELSE new[p]]
    /\ GiveUp
    /\ UNCHANGED <<cur, prv, state, local, nvmin, at, running, trialing, worn,
                   observers>>

\* Mutant of CarryIdentity: the name goes with the conf that stated it.
CarryNothing ==
    /\ pc = "write"
    /\ todo = {}
    /\ pc' = "record"
    /\ UNCHANGED <<medium, state, local, nvmin, at, running, trialing, want,
                   todo, mem, worn, budget, observers>>

\* The old stormboot.conf names the machine, the new one does not, and
\* local.conf does not: the name moves to local.conf.  A failed write is only
\* said, and an old stormboot.conf that cannot be read has no name to carry.
CarryIdentity ==
    /\ pc = "write"
    /\ todo = {}
    /\ IF /\ Conf \in Changed(want)
          /\ cur[Conf] \in Named
          /\ Release[want][Conf] \notin Named
          /\ ~local
       THEN \/ Works /\ local' = TRUE
            \/ Fails("write") /\ UNCHANGED local
            \/ Fails("read") /\ UNCHANGED local
       ELSE UNCHANGED <<local, budget>>
    /\ pc' = "record"
    /\ UNCHANGED <<medium, state, nvmin, at, running, trialing, want, todo,
                   mem, worn, observers>>

RecordTrial ==
    /\ pc = "record"
    /\ Works
    /\ state' = [serial |-> want, min |-> mem.min, failed |-> mem.failed,
                 trial |-> want, starts |-> 0, prev |-> mem.serial,
                 files |-> Changed(want) \cup Retired(want),
                 fresh |-> {p \in Changed(want) : cur[p] = None}]
    /\ old' = cur
    /\ todo' = Changed(want) \cup Retired(want)
    /\ pc' = "swap"
    /\ UNCHANGED <<medium, local, nvmin, at, running, trialing, want, mem,
                   worn, settled, rejected>>

RecordFails ==
    /\ pc = "record"
    /\ Fails("state")
    /\ GiveUp
    /\ UNCHANGED <<medium, state, local, nvmin, at, running, trialing, worn,
                   observers>>

\* A file in place becomes the `.prev`; for a retired driver that is all.
SwapOut(p) ==
    /\ pc = "swap"
    /\ First(p, todo)
    /\ cur[p] # None
    /\ Works
    /\ prv' = [prv EXCEPT ![p] = cur[p]]
    /\ cur' = [cur EXCEPT ![p] = None]
    /\ todo' = IF Release[want][p] = None THEN todo \ {p} ELSE todo
    /\ UNCHANGED <<new, state, local, nvmin, at, pc, running, trialing, want,
                   mem, worn, observers>>

SwapIn(p) ==
    /\ pc = "swap"
    /\ First(p, todo)
    /\ cur[p] = None
    /\ Works
    /\ cur' = [cur EXCEPT ![p] = new[p]]
    /\ new' = [new EXCEPT ![p] = None]
    /\ todo' = todo \ {p}
    /\ UNCHANGED <<prv, state, local, nvmin, at, pc, running, trialing, want,
                   mem, worn, observers>>

\* Mutant of SwapFails: what was swapped stays swapped.
SwapFailsInPlace ==
    /\ pc = "swap"
    /\ todo # {}
    /\ Fails("write")
    /\ GiveUp
    /\ UNCHANGED <<medium, state, local, nvmin, at, running, trialing, worn,
                   observers>>

\* A rename failed: every file goes back ...
SwapFails ==
    /\ pc = "swap"
    /\ todo # {}
    /\ Fails("write")
    /\ pc' = "back"
    /\ todo' = state.files
    /\ UNCHANGED <<medium, state, local, nvmin, at, running, trialing, want,
                   mem, worn, observers>>

\* ... and the state the update began from with them.
RestoreState ==
    /\ pc = "back"
    /\ todo = {}
    /\ WriteState(mem)
    /\ GiveUp
    /\ UNCHANGED <<medium, local, nvmin, at, running, trialing, worn,
                   observers>>

\* The set is swapped: the NICs are released, and a warm reset follows.
SwapDone ==
    /\ pc = "swap"
    /\ todo = {}
    /\ Forget
    /\ UNCHANGED <<medium, state, local, nvmin, at, worn, budget, observers>>

------------------------------------------------------------------------------
(* The rest of the boot, as far as the update sees it.                     *)

\* The files this boot runs with can reach an attach (or an answer `local`).
CanAttach == \A p \in Paths : cur[p] \notin Faulty

\* An image is attached, or the engine said `local`: mark_good is called.
Attach ==
    /\ pc = "ready"
    /\ CanAttach
    /\ pc' = IF trialing = 0 THEN "run" ELSE "good"
    /\ UNCHANGED <<medium, state, local, nvmin, at, running, trialing, want,
                   todo, mem, worn, budget, observers>>

\* mark_good finds no medium, or a state that is not this trial's.
MarkNothing ==
    /\ pc = "good"
    /\ \/ Fails("read")
       \/ state.trial # trialing /\ UNCHANGED budget
    /\ pc' = "run"
    /\ trialing' = 0
    /\ UNCHANGED <<medium, state, local, nvmin, at, running, want, todo, mem,
                   worn, observers>>

\* The set on trial stays: its serial is the medium's new minimum.
MarkGood ==
    /\ pc = "good"
    /\ state.trial = trialing
    /\ WriteState(AtRest(trialing, Larger(state.min, trialing), state.failed))
    /\ settled' = settled \cup {trialing}
    /\ pc' = "nv"
    /\ UNCHANGED <<medium, local, nvmin, at, running, trialing, want, todo,
                   mem, worn, old, rejected>>

\* And the machine's, whether or not the medium's was written.
RaiseNvMin ==
    /\ pc = "nv"
    /\ \/ /\ nvmin' = [nvmin EXCEPT ![at] = Larger(@, trialing)]
          /\ UNCHANGED budget
       \/ Fails("nv") /\ UNCHANGED nvmin
    /\ pc' = "run"
    /\ trialing' = 0
    /\ UNCHANGED <<medium, state, local, at, running, want, todo, mem, worn,
                   observers>>

\* A boot ends where the update has nothing in hand: the FEC step's warm
\* reset, a command, a boot that reached nothing, the system that shut down.
Restart ==
    /\ pc \in {"up", "ready", "run"}
    /\ Forget
    /\ UNCHANGED <<medium, state, local, nvmin, at, worn, budget, observers>>

------------------------------------------------------------------------------
(* The environment.                                                        *)

PowerLoss ==
    /\ \/ /\ pc \in {"start", "chain", "drop", "write", "record", "good", "nv"}
          /\ Fails("power")
       \/ /\ pc \in {"swap", "back", "revert"}
          /\ Fails("swap")
    /\ Forget
    /\ UNCHANGED <<medium, state, local, nvmin, at, worn, observers>>

\* The power goes while write_state overwrites the state file in place: what
\* is left cannot be read, and reads as Blank.
TornWrite ==
    /\ Fails("torn")
    /\ state' = Blank
    /\ Forget
    /\ UNCHANGED <<medium, local, nvmin, at, worn, observers>>

TornState ==
    /\ \/ pc = "start" /\ state.trial # 0
       \/ pc \in {"revert", "back"} /\ todo = {}
       \/ pc = "up" /\ \E m \in Serials :
            /\ MayTake(m, state)
            /\ VersionOlder(m) \/ Changed(m) \cup Retired(m) = {}
       \/ pc = "record"
       \/ pc = "good" /\ state.trial = trialing
    /\ TornWrite

\* The stick goes bad in the way sticks do: it reads, and no longer writes.
WearOut ==
    /\ "worn" \in Faults
    /\ ~worn
    /\ worn' = TRUE
    /\ UNCHANGED <<medium, state, local, nvmin, at, pc, running, trialing,
                   want, todo, mem, budget, observers>>

\* Another medium passes a trial on machine i.
OtherMedium(i, n) ==
    /\ pc = "off"
    /\ n > nvmin[i]
    /\ nvmin' = [nvmin EXCEPT ![i] = n]
    /\ UNCHANGED <<medium, state, local, at, pc, running, trialing, want,
                   todo, mem, worn, budget, observers>>

------------------------------------------------------------------------------

Start  == PowerOn \/ StartUnread \/ StartNormal \/ StartTrial \/ StartRevert

Revert == \/ \E p \in Paths : \/ RevertDelete(p) \/ RevertRename(p)
                              \/ RevertRemove(p) \/ RevertKeep(p)
                              \/ RevertError(p)
          \/ RecordFailed \/ ChainLoad \/ ChainFails

Check  == \/ Decline
          \/ \E m \in Serials : \/ DeclineOlder(m) \/ AlreadyCarried(m)
                                \/ Take(m)

Apply  == \/ \E p \in Paths : \/ DropPrev(p) \/ WriteNew(p)
                              \/ SwapOut(p) \/ SwapIn(p)
          \/ DropFails \/ BeginWrite \/ WriteFails \/ CarryIdentity
          \/ RecordTrial \/ RecordFails \/ SwapFails \/ RestoreState
          \/ SwapDone

Settle == Attach \/ MarkNothing \/ MarkGood \/ RaiseNvMin \/ Restart

Environment == \/ PowerLoss \/ TornState \/ WearOut
               \/ \E i \in Machines, n \in Serials : OtherMedium(i, n)

Next == Start \/ Revert \/ Check \/ Apply \/ Settle \/ Environment

Spec == Init /\ [][Next]_vars

\* The machine goes on: the code nowhere waits for ever on the medium, and a
\* boot that comes to nothing is followed, one day, by another.
FairSpec == Spec /\ WF_vars(Next)

------------------------------------------------------------------------------
(* Properties.                                                             *)

PcValues == {"off", "start", "revert", "chain", "up", "drop", "write",
             "record", "swap", "back", "ready", "good", "nv", "run"}

\* A swap, a put-back or a record of one was cut short, or the state was lost.
CutShort == worn \/ hurt \cap {"swap", "putback", "state", "torn"} # {}

\* Every variable keeps its type.
TypeOK ==
    /\ cur \in Files /\ prv \in Files /\ new \in Files
    /\ state \in State
    /\ local \in BOOLEAN
    /\ nvmin \in [Machines -> 0 .. MaxSerial]
    /\ at \in Machines
    /\ pc \in PcValues
    /\ running \in Contents \cup {None}
    /\ trialing \in 0 .. MaxSerial
    /\ want \in 0 .. MaxSerial
    /\ todo \in SUBSET Paths
    /\ mem \in State
    /\ worn \in BOOLEAN
    /\ left \in 0 .. MaxFaults /\ hurt \subseteq FaultKinds
    /\ old \in Files
    /\ settled \in SUBSET (0 .. MaxSerial)
    /\ rejected \in SUBSET (0 .. MaxSerial)

\* Never backwards, never twice: a trial begins only for a serial above every
\* one that passed, failed or was declined on this medium, whatever power
\* loss or failed write came between, as long as the state file is not lost
\* (selfupdate.rs "Never backwards").
NeverRetaken ==
    [][state.trial = 0 /\ state'.trial # 0 /\ "torn" \notin hurt'
         => \A n \in settled : state'.trial > n]_vars

\* The highest serial the medium will never take again, as its state has it.
Floor == Larger(Larger(state.min, state.failed),
                IF state.trial = 0 THEN state.serial ELSE state.prev)

(***************************************************************************)
(* The books: how the state on the medium, the state in memory and the     *)
(* serials already settled go together at every step.  It is the inductive *)
(* invariant the proofs of KeepsPromise and NeverRetaken rest on.          *)
(***************************************************************************)

\* Until the trial is recorded, the state in memory is the one on the medium,
\* and the serial wanted is above everything settled.
UpdateInHand ==
    pc \in {"drop", "write", "record"} =>
      /\ mem = state
      /\ state.trial = 0
      /\ want > Floor
      /\ \A n \in settled : want > n

\* From then on the one in memory is what there is to go back to.
SwapInHand ==
    pc \in {"swap", "back"} =>
      /\ state.trial # 0
      /\ mem.serial = state.prev /\ mem.prev = 0 /\ mem.trial = 0
      /\ mem.min = state.min /\ mem.failed = state.failed
      /\ \A n \in settled : state.trial > n

\* A trial is of the serial in place, and above everything before it.
TrialOfSerial ==
    /\ state.trial # 0 => state.serial = state.trial /\ state.trial > Floor
    /\ state.trial = 0 => state.prev = 0
    /\ pc = "revert" => state.trial # 0
    /\ pc = "good" => trialing # 0

\* Nothing settled is above the floor but a trial whose end is not written.
SettledBelowFloor == \A n \in settled : n <= Floor \/ n = state.trial

\* The books are in order.
Books == UpdateInHand /\ SwapInHand /\ TrialOfSerial /\ SettledBelowFloor

Promise == INSTANCE MediumPromise
             WITH set <- state.serial, trial <- state.trial,
                  from <- state.prev, floor <- Floor

\* As long as the state file is not lost, the medium keeps the promise of
\* MediumPromise: each serial is tried once at most, in rising order, and a
\* trial ends with its set kept or the one before it back.
KeepsPromise ==
    Promise!Init /\ []["torn" \notin hurt' => [Promise!Next]_(Promise!vars)]_vars

\* What revert would put at p.
PutBack(p) == IF prv[p] # None THEN prv[p]
              ELSE IF p \in state.fresh THEN None ELSE cur[p]

\* As long as a trial is recorded, every file of the set it replaced can be
\* put back: a swap or a revert cut short at any file, any number of times,
\* loses none (selfupdate.rs revert, apply).
Recoverable ==
    state.trial # 0 =>
      \A p \in Paths : (IF p \in state.files THEN PutBack(p) ELSE cur[p]) = old[p]

\* A set that failed its trial is put back whole before the restored
\* bootloader is started, but for a file that could not be (selfupdate.rs
\* at_start).
PutBackWhole == pc = "chain" /\ ~worn /\ "putback" \notin hurt => cur = old

\* A failed trial can be undone to the last file, and is: its set goes back whole.
GoesBackWhole == Recoverable /\ PutBackWhole

\* With no trial running, a boot finds the set its serial names, whole: never
\* a mix of two releases (manifest.rs State.serial, "the serial of the files
\* in place").
SetIsWhole == pc \in {"up", "ready", "run"} /\ state.trial = 0
                /\ ~CutShort
                => Whole(state.serial, cur)

\* A trial is passed only by the release itself: its own bootloader runs and
\* its files are in place, as long as the swap and the state were let finish.
PassedByItself ==
    [][MarkGood /\ ~CutShort =>
                   /\ Whole(trialing, cur)
                   /\ running = Release[trialing][Boot]]_vars

\* A trial is of a serial never settled before, and is passed by the release on
\* trial and nothing else.
TrialsAreReal == NeverRetaken /\ PassedByItself

\* A release states another name than the medium was written with.
OtherName == \E n \in Serials : Release[n][Conf] \in Named \ {Release[0][Conf]}

\* The name a medium was given is never lost to an update: local.conf or
\* stormboot.conf states it at every step (selfupdate.rs carry_identity), but
\* when neither could be read or written, and while, or because, one
\* stormboot.conf that states a name gives way to another.
IdentityKept ==
    /\ Release[0][Conf] \in Named
    /\ ~worn /\ hurt \cap {"write", "read"} = {}
    /\ OtherName => /\ hurt \cap {"swap", "putback"} = {}
                    /\ pc \notin {"swap", "back", "revert"}
    => local \/ cur[Conf] \in Named

\* A medium whose power went in the middle of anything but a swap still has a
\* bootloader to start from.
Startable == pc = "off" /\ ~worn /\ hurt \cap {"swap", "putback"} = {} => cur[Boot] # None

\* Whatever is cut short, and however often: when the bootloader is not in its
\* place, the one the update replaced is beside it, whole, as its `.prev`
\* (selfupdate.rs apply, revert).
BootKept == cur[Boot] = None => prv[Boot] # None /\ prv[Boot] = old[Boot]

\* Power losses alone leave a medium without a bootloader at one place only, the
\* bootloader's own two renames, and by then all the rest is done: with its
\* `.prev` the set is the one before the update, or with its `.new` the whole
\* set on trial (selfupdate.rs apply, "the bootloader last").
OneRenameAway ==
    pc = "off" /\ cur[Boot] = None /\ ~worn /\ hurt \cap {"write", "putback"} = {} =>
      \/ [cur EXCEPT ![Boot] = prv[Boot]] = old
      \/ state.trial # 0 /\ Whole(state.trial, [cur EXCEPT ![Boot] = new[Boot]])

\* A trial ends: the set passes or is put back, as long as the medium takes
\* writes and has a bootloader to start from.
TrialEnds == state.trial # 0 ~> state.trial = 0 \/ worn \/ (pc = "off" /\ cur[Boot] = None)

\* Every start gets past at_start: nothing the update does keeps a boot from
\* going on, while the medium takes writes (selfupdate.rs "nothing here stops a boot").
StartGoesOn == pc = "start" ~> pc \in {"up", "off"} \/ worn
=============================================================================
