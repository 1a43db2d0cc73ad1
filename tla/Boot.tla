--------------------------------- MODULE Boot ---------------------------------
(***************************************************************************)
(* One start of stormbootx from the network stack to the machine it leaves *)
(* behind: the passes of main.rs run(), the hold and the fall-through      *)
(* around them (main, withdraw, fall_through), what the engine is asked    *)
(* (registry.rs, intent.rs), the signed commands that may arrive at any    *)
(* poll of the stack and from the engine's record (api.rs, command.rs),    *)
(* and the disk it publishes and takes back (blockio.rs).                  *)
(*                                                                         *)
(* A command is an id and a verb; its signature and its host are taken as  *)
(* good, since one that is refused changes nothing.  "inventory" stands    *)
(* for every verb after which the boot goes on as it was going.            *)
(***************************************************************************)
EXTENDS Naturals, Sequences

CONSTANTS
    MaxId,   \* commands are signed with the ids 1 .. MaxId
    Cases    \* the machines, the commands sent to them and what may fail

(***************************************************************************)
(* "nv"     the firmware refuses to set StormBootCommandId                 *)
(* "unread" it does not answer the read of it, or not with a number        *)
(* "path"   it installs BlockIO and refuses the device path                *)
(* "keep"   it will not uninstall BlockIO                                  *)
(* "power"  the machine restarts at any step                               *)
(***************************************************************************)
FaultKinds == {"nv", "unread", "path", "keep", "power"}
Verbs      == {"reboot", "install", "local", "retry", "hold", "inventory",
               "maint"}

MediaKinds ==
    [claim    : BOOLEAN,    \* `claim =`
     fallback : BOOLEAN,    \* a `fallback =` target
     stated   : BOOLEAN,    \* a tag the media state
     dns      : BOOLEAN,    \* the network names this machine
     serial   : BOOLEAN,    \* SMBIOS has a usable serial
     bootable : BOOLEAN,    \* `local_when_bootable`
     hold     : {"off", "secs", "forever"},
     again    : {"never", "sooner", "later"}, \* hold_retry, before or after hold
     api      : BOOLEAN,    \* `api =` is a port
     here     : BOOLEAN,    \* `local_boot`: start the local disk from here
     disk     : {"none", "data", "boots"}]    \* the machine's own disks

ASSUME ConstantsAssumption ==
    /\ MaxId \in Nat \ {0}
    /\ Cases \subseteq MediaKinds \X [1 .. MaxId -> Verbs] \X SUBSET FaultKinds

Ids      == 1 .. MaxId
Commands == [id : Ids, from : {"api", "record"}]
None     == [id |-> 0, from |-> "none"]

VARIABLES
    media,    \* this machine and its media
    verb,     \* what the command of each id says
    faults,   \* what the firmware and the power may do
    pc,       \* where the boot is
    ask,      \* what a command of the last pass said to claim
    chosen,   \* the intent this pass acts on
    maint,    \* this pass claims the maintenance image
    known,    \* api::engine was told where the record is
    leased,   \* a NIC holds a lease
    names,    \* the names to ask and to claim under, best first
    at,       \* the one it has come to
    image,    \* the image this pass attaches or has attached
    how,      \* the hold in force
    again,    \* the hold boots again before it ends
    floor,    \* the highest command id taken, in memory
    kept,     \* and in StormBootCommandId
    pending,  \* the command waiting
    cur,      \* the one being executed
    point,    \* the fixed point that took it
    record,   \* the id in the engine's host record, or 0
    disks,    \* BlockIO handles whose functions are in this image
    tracked   \* PUBLISHED knows one

VARIABLES     \* observers: no action reads them
    minted,   \* clones the engine may have minted for this pass
    ran,      \* how often each command was executed
    taken,    \* the ids ever taken
    unsaved,  \* those it would not keep, or a later start did not read
    word      \* the last command executed that says what to boot

setting  == <<media, verb, faults>>
pass     == <<chosen, maint, names, at, image, minted>>
taking   == <<floor, kept, pending, taken, unsaved>>
command    == <<cur, point, ran, word>>
served   == <<disks, tracked>>
holding  == <<how, again>>
reach    == <<known, leased>>
vars == <<setting, pc, ask, pass, reach, holding, taking, command, record,
          served>>

MaxTwice == 2   \* executions and clones are counted up to here
Twice(n) == IF n < MaxTwice THEN n + 1 ELSE n

\* The engine's reply to a claim is of one of these.
Images == {"none", "own", "maint", "fallback"}

Init ==
    /\ \E c \in Cases : media = c[1] /\ verb = c[2] /\ faults = c[3]
    /\ pc = "off"
    /\ ask = "intent"
    /\ chosen = "auto" /\ maint = FALSE /\ names = <<>> /\ at = 1
    /\ image = "none"
    /\ known = FALSE /\ leased = FALSE
    /\ how = "off" /\ again = FALSE
    /\ floor = 0 /\ kept = 0 /\ pending = None
    /\ cur = None /\ point = "none"
    /\ record = 0
    /\ disks = {} /\ tracked = FALSE
    /\ minted = 0 /\ ran = [i \in Ids |-> 0] /\ taken = {}
    /\ unsaved = {} /\ word = "none"

------------------------------------------------------------------------------
(* Starts.                                                                 *)

\* run() keeps nothing for the next pass.
PassOver ==
    /\ chosen' = "auto" /\ maint' = FALSE /\ image' = "none"
    /\ names' = <<>> /\ at' = 1 /\ minted' = 0

\* The statics of a new start.
BeginWith(id) ==
    /\ pc' = "up"
    /\ ask' = "intent"
    /\ PassOver
    /\ known' = FALSE /\ leased' = FALSE
    /\ how' = "off" /\ again' = FALSE
    /\ floor' = id /\ pending' = None
    /\ cur' = None /\ point' = "none"
    /\ tracked' = FALSE
    /\ word' = "none"
    /\ UNCHANGED <<setting, kept, record, ran, taken>>

\* The floor is what the variable says, and 0 when it cannot be read.
Begin ==
    \/ BeginWith(kept) /\ UNCHANGED unsaved
    \/ "unread" \in faults /\ BeginWith(0) /\ unsaved' = unsaved \cup taken

\* Power, a reset, or the system that was booted restarting.
PowerOn ==
    /\ pc \in {"off", "reset", "gone", "local"}
    /\ Begin
    /\ disks' = {}

\* The EFI Shell runs startup.nsh again, or the boot manager comes back to
\* this option: a disk left behind is still installed.
StartAgain ==
    /\ pc = "returned"
    /\ Begin
    /\ UNCHANGED disks

PowerCut ==
    /\ "power" \in faults
    /\ pc # "off"
    /\ Begin
    /\ disks' = {}

------------------------------------------------------------------------------
(* Commands: taken in a poll or from the record, executed at fixed points. *)

\* Where the stack is polled and the phase is not "handed off".
Listening == {"engine", "intent", "first", "asking", "claim", "attach",
              "publish", "exec", "hold", "falling"}

\* Mutant of RaiseFloor: the variable is left for when the command is done.
RaiseFloorInMemory(c) ==
    /\ floor' = c.id
    /\ taken' = taken \cup {c.id}
    /\ UNCHANGED <<kept, unsaved>>

\* The floor is raised before the command runs; a variable the firmware
\* refuses leaves it raised in memory.
RaiseFloor(c) ==
    /\ floor' = c.id
    /\ taken' = taken \cup {c.id}
    /\ \/ kept' = c.id /\ UNCHANGED unsaved
       \/ "nv" \in faults /\ unsaved' = unsaved \cup {c.id} /\ UNCHANGED kept

Accept(c) ==
    /\ pending = None
    /\ c.id > floor
    /\ RaiseFloor(c)
    /\ pending' = c

Answer ==
    /\ pc \in Listening
    /\ leased /\ media.api
    /\ \E i \in Ids : Accept([id |-> i, from |-> "api"])
    /\ UNCHANGED <<setting, pc, ask, pass, reach, holding, command, record, served>>

\* Somebody puts a new command on the engine's host record.
EngineOffers ==
    /\ record = 0
    /\ record' \in Ids \ taken
    /\ UNCHANGED <<setting, pc, ask, pass, reach, holding, taking, command, served>>

\* read_record: not with a command waiting, and only of an engine known.
AskRecord ==
    /\ pc \in {"first", "hold"}
    /\ pending = None /\ known /\ leased
    /\ pc' = "asking"
    /\ point' = pc
    /\ UNCHANGED <<setting, ask, pass, reach, holding, taking, cur, ran, word,
                   record, served>>

BackToPoint == pc' = IF point = "first" THEN "take" ELSE "hold"

RecordEmpty ==  \* a 404, any other status, or no answer
    /\ pc = "asking"
    /\ BackToPoint
    /\ UNCHANGED <<setting, ask, pass, reach, holding, taking, command, record,
                   served>>

RecordTaken ==
    /\ pc = "asking"
    /\ record # 0
    /\ Accept([id |-> record, from |-> "record"])
    /\ BackToPoint
    /\ UNCHANGED <<setting, ask, pass, reach, holding, command, record, served>>

\* Refused with an id at or below the floor: reported as taken before, and
\* the engine clears it if the report arrives.
RecordStale ==
    /\ pc = "asking"
    /\ record # 0 /\ record <= floor
    /\ record' = 0
    /\ BackToPoint
    /\ UNCHANGED <<setting, ask, pass, reach, holding, taking, command, served>>

\* The boot's fixed points: at "first" the record is read before.
Points == [first |-> "take", last |-> "last", hold |-> "hold"]

Take ==
    /\ \E p \in DOMAIN Points : pc = Points[p] /\ point' = p
    /\ pending # None
    /\ cur' = pending
    /\ pending' = None
    /\ pc' = "exec"
    /\ UNCHANGED <<setting, ask, pass, reach, holding, floor, kept, taken,
                   unsaved, ran, word, record, served>>

SkipRecord ==
    /\ pc = "first"
    /\ pending # None \/ ~known \/ ~leased
    /\ pc' = "take"
    /\ UNCHANGED <<setting, ask, pass, reach, holding, taking, command, record,
                   served>>

NothingToTake ==
    /\ pc \in {"take", "last"}
    /\ pending = None
    /\ pc' = IF pc = "take" THEN "decide" ELSE "handoff"
    /\ UNCHANGED <<setting, ask, pass, reach, holding, taking, command, record,
                   served>>

\* What a pass claims when a command says so.
Claiming(claim) ==
    /\ chosen' = IF claim = "intent" THEN chosen ELSE "install"
    /\ maint' = (claim = "maint")
    /\ UNCHANGED <<names, at, image, minted>>

\* execute, up to what the boot does next: `done` says so to the engine for
\* a command of its record, and the report may be lost.
Done(v) ==
    /\ pc = "exec"
    /\ verb[cur.id] = v
    /\ ran' = [ran EXCEPT ![cur.id] = Twice(@)]
    /\ word' = IF v \in {"reboot", "inventory"} THEN word ELSE v
    /\ cur' = None
    /\ point' = "none"
    /\ \/ UNCHANGED record
       \/ cur.from = "record" /\ record = cur.id /\ record' = 0
    /\ UNCHANGED <<setting, reach, taking, served>>

Reboot ==
    /\ Done("reboot")
    /\ pc' = "reset"
    /\ UNCHANGED <<ask, pass, holding>>

GoOn ==
    /\ Done("inventory")
    /\ pc' = CASE point = "first" -> "decide"
               [] point = "last"  -> "handoff"
               [] point = "hold"  -> "hold"
    /\ UNCHANGED <<ask, pass, holding>>

\* At the last point `install` goes on with what is attached.
Install ==
    /\ Done("install")
    /\ \/ point = "first" /\ pc' = "decide" /\ Claiming("install") /\ UNCHANGED ask
       \/ point = "last" /\ pc' = "handoff" /\ UNCHANGED <<ask, pass>>
       \/ point = "hold" /\ pc' = "again" /\ ask' = "install" /\ UNCHANGED pass
    /\ UNCHANGED holding

\* Mutant of Maint: at the last point it goes on as `install` does.
MaintGoesOn ==
    /\ Done("maint")
    /\ \/ point = "first" /\ pc' = "decide" /\ Claiming("maint") /\ UNCHANGED ask
       \/ point = "last" /\ pc' = "handoff" /\ UNCHANGED <<ask, pass>>
       \/ point = "hold" /\ pc' = "again" /\ ask' = "maint" /\ UNCHANGED pass
    /\ UNCHANGED holding

Maint ==
    /\ Done("maint")
    /\ \/ point = "first" /\ pc' = "decide" /\ Claiming("maint") /\ UNCHANGED ask
       \/ point # "first" /\ pc' = "again" /\ ask' = "maint" /\ UNCHANGED pass
    /\ UNCHANGED holding

Retry ==
    /\ Done("retry")
    /\ pc' = "again"
    /\ ask' = "intent"
    /\ UNCHANGED <<pass, holding>>

Local ==
    /\ Done("local")
    /\ pc' = "fall"
    /\ UNCHANGED <<ask, pass, holding>>

HoldOn ==
    /\ Done("hold")
    /\ pc' = IF point = "hold" THEN "hold" ELSE "stop"
    /\ how' = "forever"
    /\ again' = (point = "hold" /\ again)
    /\ UNCHANGED <<ask, pass>>

Execute == Reboot \/ GoOn \/ Install \/ Maint \/ Retry \/ Local \/ HoldOn

------------------------------------------------------------------------------
(* A pass: run().                                                          *)

Untouched == UNCHANGED <<setting, ask, holding, taking, command, record>>

NetUp ==
    /\ pc = "up"
    /\ pc' \in {"engine", "failed"}
    /\ Untouched /\ UNCHANGED <<pass, reach, served>>

\* No claim without `claim =`: straight to the media's target.
NoClaim ==
    /\ pc = "engine"
    /\ ~media.claim
    /\ leased' \in BOOLEAN
    /\ \/ media.fallback /\ image' = "fallback" /\ pc' = "attach"
       \/ ~media.fallback /\ image' = "none" /\ pc' = "failed"
    /\ Untouched /\ UNCHANGED <<chosen, maint, names, at, minted, known, served>>

\* The names the intent is read and the image claimed under, best first.
Names(e) ==
    IF media.stated THEN <<"tag">>
    ELSE (IF media.dns /\ e # "none" THEN <<"dns">> ELSE <<>>)
         \o IF e = "new"
            THEN <<"mac">> \o (IF media.serial THEN <<"tag">> ELSE <<>>)
            ELSE <<"tag">>

\* find_engine: the boot port, else api_port, once for the whole pass.
FindEngine ==
    /\ pc = "engine"
    /\ media.claim
    /\ leased' \in BOOLEAN
    /\ \E engine \in IF leased' THEN {"none", "old", "new"} ELSE {"none"} :
          names' = Names(engine)
    /\ pc' = "intent"
    /\ Untouched /\ UNCHANGED <<chosen, maint, at, image, minted, known, served>>

\* Only a 404 moves on to the next name.
IntentNotFound ==
    /\ pc = "intent"
    /\ leased /\ at < Len(names)
    /\ at' = at + 1
    /\ Untouched /\ UNCHANGED <<pc, chosen, maint, names, image, minted, reach, served>>

\* Any other answer is this machine's; every doubt reads as `auto`.  A pass
\* told what to claim asks for no command here.
IntentRead ==
    /\ pc = "intent"
    /\ \E said \in {"install", "local", "auto"} :
          /\ said # "auto" => leased
          /\ chosen' = IF ask = "intent" THEN said ELSE "install"
    /\ maint' = (ask = "maint")
    /\ known' = TRUE
    /\ at' = 1
    /\ ask' = "intent"
    /\ pc' = IF ask = "intent" THEN "first" ELSE "decide"
    /\ UNCHANGED <<setting, names, image, minted, leased, holding, taking, command,
                   record, served>>

LocalBoots == media.disk = "boots"

Decide ==
    /\ pc = "decide"
    /\ pc' = IF \/ chosen = "local"
                \/ chosen = "auto" /\ media.bootable /\ LocalBoots
             THEN "fall" ELSE "claim"
    /\ Untouched /\ UNCHANGED <<pass, reach, served>>

\* Nothing claimed: the fallback, never for a maintenance boot.
GiveUp ==
    IF media.fallback /\ ~maint
    THEN image' = "fallback" /\ pc' = "attach"
    ELSE image' = "none" /\ pc' = "failed"

ClaimNotFound ==
    /\ pc = "claim"
    /\ leased /\ at < Len(names)
    /\ at' = at + 1
    /\ Untouched /\ UNCHANGED <<pc, chosen, maint, names, image, minted, reach, served>>

ClaimRefused ==
    /\ pc = "claim"
    /\ GiveUp
    /\ Untouched /\ UNCHANGED <<chosen, maint, names, at, minted, reach, served>>

\* Mutant of ClaimLost: the next name is tried after any failure.
ClaimLostNextName ==
    /\ pc = "claim"
    /\ leased
    /\ minted' = Twice(minted)
    /\ IF at < Len(names)
       THEN at' = at + 1 /\ UNCHANGED <<pc, image>>
       ELSE GiveUp /\ UNCHANGED at
    /\ Untouched /\ UNCHANGED <<chosen, maint, names, reach, served>>

\* The engine minted a clone and its reply did not come.
ClaimLost ==
    /\ pc = "claim"
    /\ leased
    /\ minted' = Twice(minted)
    /\ GiveUp
    /\ Untouched /\ UNCHANGED <<chosen, maint, names, at, reach, served>>

\* An engine from before maintenance images answers with the machine's own.
ClaimGiven ==
    /\ pc = "claim"
    /\ leased
    /\ minted' = Twice(minted)
    /\ \E given \in IF maint THEN {"own", "maint"} ELSE {"own"} :
          IF maint /\ given = "own"
          THEN image' = "none" /\ pc' = "failed"
          ELSE image' = given /\ pc' = "attach"
    /\ Untouched /\ UNCHANGED <<chosen, maint, names, at, reach, served>>

AttachWorks ==
    /\ pc = "attach"
    /\ pc' = "publish"
    /\ Untouched /\ UNCHANGED <<pass, reach, served>>

AttachFails ==
    /\ pc = "attach"
    /\ pc' = "failed"
    /\ Untouched /\ UNCHANGED <<pass, reach, served>>

Publish ==
    /\ pc = "publish"
    /\ disks' = disks \cup {"whole"}
    /\ tracked' = TRUE
    /\ pc' = "last"
    /\ Untouched /\ UNCHANGED <<pass, reach>>

PublishFails ==
    /\ pc = "publish"
    /\ disks' \in {disks} \cup
                 IF "path" \in faults THEN {disks \cup {"pathless"}} ELSE {}
    /\ pc' = "failed"
    /\ Untouched /\ UNCHANGED <<pass, reach, tracked>>

\* The phase is set, the log sent, and the image's bootloader loaded.
StartImage ==
    /\ pc = "handoff"
    /\ pc' \in {"image", "failed"}
    /\ Untouched /\ UNCHANGED <<pass, reach, served>>

ImageTakesOver ==
    /\ pc = "image"
    /\ pc' = "gone"
    /\ Untouched /\ UNCHANGED <<pass, reach, served>>

ImageComesBack ==
    /\ pc = "image"
    /\ pc' = "failed"
    /\ Untouched /\ UNCHANGED <<pass, reach, served>>

------------------------------------------------------------------------------
(* Around the passes: main(), withdraw(), hold(), fall_through().          *)

\* Mutant of Withdraw: it returns whatever the firmware answered.
WithdrawAnyway(then) ==
    \/ ~tracked /\ pc' = then /\ UNCHANGED served
    \/ tracked /\ pc' = then /\ disks' = disks \ {"whole"} /\ tracked' = FALSE
    \/ "keep" \in faults /\ tracked /\ pc' = then /\ tracked' = FALSE
       /\ UNCHANGED disks

\* PUBLISHED is taken first; a firmware that keeps the disk is reset.
Withdraw(then) ==
    \/ ~tracked /\ pc' = then /\ UNCHANGED served
    \/ tracked /\ pc' = then /\ disks' = disks \ {"whole"} /\ tracked' = FALSE
    \/ "keep" \in faults /\ tracked /\ pc' = "reset" /\ tracked' = FALSE
       /\ UNCHANGED disks

Holds(h) == h # "off" /\ leased

\* Mutant of HoldFor: the two cases swapped.
HoldForSwapped == IF LocalBoots THEN "forever" ELSE media.hold

\* `hold =`, and until a command when nothing local boots.
HoldFor == IF LocalBoots THEN media.hold ELSE "forever"

Failed ==
    /\ pc = "failed"
    /\ IF Holds(media.hold)
       THEN /\ Withdraw(IF media.api THEN "hold" ELSE "fall")
            /\ how' = HoldFor
            /\ again' = (media.again # "never")
       ELSE /\ pc' = "fall"
            /\ UNCHANGED <<holding, served>>
    /\ PassOver
    /\ UNCHANGED <<setting, ask, reach, taking, command, record>>

\* A command said hold before the hold.
Stopped ==
    /\ pc = "stop"
    /\ IF leased THEN Withdraw(IF media.api THEN "hold" ELSE "fall")
                 ELSE pc' = "fall" /\ UNCHANGED served
    /\ PassOver
    /\ UNCHANGED <<setting, ask, reach, holding, taking, command, record>>

NextPass ==
    /\ pc = "again"
    /\ Withdraw("up")
    /\ PassOver
    /\ how' = "off" /\ again' = FALSE
    /\ UNCHANGED <<setting, ask, reach, taking, command, record>>

\* The seconds are up before the minutes to the next pass, or L is pressed.
HoldEnds ==
    /\ pc = "hold"
    /\ how = "secs" /\ ~(again /\ media.again = "sooner")
    /\ pc' = "fall"
    /\ Untouched /\ UNCHANGED <<pass, reach, served>>

LPressed ==
    /\ pc = "hold"
    /\ pc' = "fall"
    /\ Untouched /\ UNCHANGED <<pass, reach, served>>

\* `hold_retry =` minutes: a pass that claims as the intent says.
HoldRetries ==
    /\ pc = "hold"
    /\ again /\ (how = "forever" \/ media.again = "sooner")
    /\ pc' = "again"
    /\ ask' = "intent"
    /\ word' = "none"
    /\ UNCHANGED <<setting, pass, reach, holding, taking, cur, point, ran, record,
                   served>>

LeaseLost ==
    /\ pc \in Listening /\ leased
    /\ leased' = FALSE
    /\ Untouched /\ UNCHANGED <<pc, pass, known, served>>

FallThrough ==
    /\ pc = "fall"
    /\ Withdraw("falling")
    /\ PassOver
    /\ how' = "off" /\ again' = FALSE
    /\ UNCHANGED <<setting, ask, reach, taking, command, record>>

\* After the last flush the NICs are released.
StartLocal ==
    /\ pc = "falling"
    /\ media.here /\ LocalBoots
    /\ pc' = "local"
    /\ Untouched /\ UNCHANGED <<pass, reach, served>>

LocalComesBack ==
    /\ pc = "local"
    /\ pc' = "returned"
    /\ Untouched /\ UNCHANGED <<pass, reach, served>>

\* Nothing was started here, by choice or because it could not be.
Return ==
    /\ pc = "falling"
    /\ pc' = "returned"
    /\ Untouched /\ UNCHANGED <<pass, reach, served>>

------------------------------------------------------------------------------
Start   == PowerOn \/ StartAgain
Record  == AskRecord \/ RecordEmpty \/ RecordTaken \/ RecordStale
Point   == SkipRecord \/ Take \/ NothingToTake
Finding == NetUp \/ NoClaim \/ FindEngine \/ IntentNotFound \/ IntentRead
           \/ Decide
Claim   == ClaimNotFound \/ ClaimRefused \/ ClaimLost \/ ClaimGiven
Attach  == AttachWorks \/ AttachFails \/ Publish \/ PublishFails \/ StartImage
Ending  == Failed \/ Stopped \/ NextPass \/ FallThrough \/ StartLocal \/ Return

\* What goes on by itself, outside the hold's clock.
Boots   == Record \/ Point \/ Execute \/ Finding \/ Claim \/ Attach \/ Ending
Others  == Answer \/ EngineOffers \/ LPressed \/ LeaseLost \/ ImageTakesOver
           \/ ImageComesBack \/ LocalComesBack \/ PowerCut

Next == Start \/ Boots \/ HoldEnds \/ HoldRetries \/ Others
Spec == Init /\ [][Next]_vars

\* Every request has a time-out, so a step of the boot ends; the hold counts
\* 100 ms a turn, so its deadline comes however often it asks for the record.
FairSpec ==
    Spec /\ WF_vars(Boots) /\ SF_vars(HoldEnds) /\ SF_vars(HoldRetries)

------------------------------------------------------------------------------
(* Properties.                                                             *)

\* A command waits above no id but its own, the disk PUBLISHED knows is the
\* one that is installed whole, and what is counted stays within its bound.
TypeOK ==
    /\ <<media, verb, faults>> \in Cases
    /\ ask \in {"intent", "install", "maint"}
    /\ chosen \in {"install", "local", "auto"} /\ maint \in BOOLEAN
    /\ known \in BOOLEAN /\ leased \in BOOLEAN /\ again \in BOOLEAN
    /\ at \in 1 .. 3
    /\ image \in Images /\ minted \in 0 .. MaxTwice
    /\ how \in {"off", "secs", "forever"}
    /\ kept \in 0 .. MaxId /\ floor \in 0 .. MaxId
    /\ pending \in Commands \cup {None}
    /\ pending # None => pending.id = floor
    /\ cur \in Commands \cup {None}
    /\ pc = "exec" <=> cur # None
    /\ record \in 0 .. MaxId
    /\ disks \subseteq {"whole", "pathless"} /\ tracked \in BOOLEAN
    /\ tracked => "whole" \in disks
    /\ ran \in [Ids -> 0 .. MaxTwice]
    /\ taken \subseteq Ids /\ unsaved \subseteq taken

\* A command is done once on this machine, through any resets, power cuts and
\* lost reports, unless the firmware refused to keep its id or a start after
\* it was taken could not read what was kept: api.rs floor() is then 0, and
\* the command is taken again (api.rs accept, set_floor, floor; README.md
\* "each command is done once").
DoneOnce == \A i \in Ids \ unsaved : ran[i] <= 1

Started == {"handoff", "image", "gone"}

\* On media that claim, an image is started only as the last command said:
\* none after `local` or `hold`, and after `maint` the maintenance image and
\* nothing else, whether it came before the intent, in a hold or just before
\* the chain-load (main.rs run, after_command; api.rs hold).
ImageAsTold ==
    media.claim /\ pc \in Started => /\ word \notin {"local", "hold"}
                                    /\ (word = "maint" => image = "maint")

\* One pass makes the engine mint one clone at most: a claim that may have
\* been answered is never asked again under another name or on another port.
OneClone == minted <= 1

\* The image's bootloader runs on a disk that is served, and whoever runs
\* after a fall-through finds none that was published and not taken back:
\* its functions are in memory the firmware frees (blockio.rs withdraw).
DiskWhereNeeded ==
    /\ pc \in {"handoff", "image"} => tracked /\ "whole" \in disks
    /\ pc \in {"falling", "local", "returned"} => "whole" \notin disks

\* A boot path never needs the network to boot without it (main.rs
\* fall_through): with a local disk that boots, every pass ends at the image,
\* the fall-through or a reset, unless the media or a command say hold.
NeedsNoNetwork ==
    (/\ pc = "up" /\ LocalBoots /\ "power" \notin faults
     /\ media.hold # "forever" /\ media.again # "sooner")
    ~> \/ pc \in {"image", "falling", "reset"}
       \/ pc = "hold" /\ word = "hold"
==============================================================================
