------------------------------- MODULE FecPin -------------------------------
(***************************************************************************)
(* The FEC pin (src/src/fecpin.rs, src/src/connectx.rs pin_action) and the *)
(* recovery stick's `fec =` (src/src/main.rs): a value written to a        *)
(* ConnectX port's NV memory, a warm reset that loads it, and the record   *)
(* in an NV variable that keeps the next boot from doing it again, on the  *)
(* start counter of a self-update's trial (src/src/selfupdate.rs).         *)
(*                                                                         *)
(* A port's next-boot value is "rs" or "other".  A boot reads the ports,   *)
(* decides, writes port by port and resets, and any step may fail.         *)
(***************************************************************************)
EXTENDS Naturals

CONSTANTS
    Ports,        \* the ConnectX ports of the machine
    Overridable,  \* those whose card has the FEC override
    Pins,         \* the values of `fec_pin =` the media may state
    Sticks,       \* the values of `fec =` the media may state
    Faults        \* what may go wrong in this run

(***************************************************************************)
(* "power"   power lost, or a reset from outside, at any step              *)
(* "missing" a port is not on the bus in one boot                          *)
(* "read"    a function does not answer a read (or the budget is spent)    *)
(* "refuse"  a write fails, or reads back as the old value                 *)
(* "lost"    a write lands and its read-back fails                         *)
(* "hang"    a write never returns                                         *)
(* "forget"  a card drops the value over a reset                           *)
(* "nv"      the firmware refuses to set or delete the variable            *)
(* "unread"  the firmware does not answer a read of the variable           *)
(***************************************************************************)
FaultKinds == {"power", "missing", "read", "refuse", "lost", "hang",
               "forget", "nv", "unread"}

Fec == {"rs", "other"}

ASSUME ConstantsAssumption ==
    /\ Overridable \subseteq Ports
    /\ Pins \subseteq {"rs", "off", "none", "unknown"}
    /\ Sticks \subseteq Fec \cup {"none"}
    /\ Pins # {} /\ Sticks # {}
    /\ Faults \subseteq FaultKinds

VARIABLES
    next,     \* each port's NV next-boot value
    record,   \* StormBootFecPin: "none", "writing" or "wrote"
    pin,      \* `fec_pin =` on the media
    stick,    \* `fec =` on the media
    pc,       \* what the boot is doing
    present,  \* the ports on the bus in this boot
    seen,     \* the ports this boot's read returned
    todo,     \* the ports the write pass has not come to
    written,  \* the ports it wrote and read back
    trial,    \* the medium's trial: "none", "on", "good" or "failed"
    starts    \* starts counted for it

VARIABLES     \* observers: no action reads them
    resets,   \* the pin's warm resets since a boot last went on, or lost power
    blind,    \* one of them came of a record that was there and not read
    attempts, \* the pin's writes to each port since what it counts from
    forgot,   \* a card lost its value as this boot started
    reached,  \* a start of this trial went past the FEC step
    cut       \* a start of this trial lost power

media     == <<pin, stick>>
memory    == <<present, seen, todo, written>>
counted   == <<trial, starts>>
observers == <<resets, blind, attempts, forgot, reached, cut>>
vars == <<next, record, pin, stick, pc, present, seen, todo, written, trial,
          starts, resets, blind, attempts, forgot, reached, cut>>

TRIAL_STARTS == 2
MaxTwice     == 2   \* resets and attempts are counted up to here

Init ==
    /\ next \in [Ports -> Fec]
    /\ record = "none"
    /\ pin \in Pins
    /\ stick \in Sticks
    /\ pc = "off"
    /\ present = {}
    /\ seen = {}
    /\ todo = {}
    /\ written = {}
    /\ trial = "none"
    /\ starts = 0
    /\ resets = 0
    /\ blind = FALSE
    /\ attempts = [p \in Ports |-> 0]
    /\ forgot = FALSE
    /\ reached = FALSE
    /\ cut = FALSE

------------------------------------------------------------------------------
(* Starting: the cards reset, and the medium counts the start first.       *)

\* The cards that lose the value lose it here.
CardsReset ==
    IF "forget" \in Faults
    THEN next' \in {n \in [Ports -> Fec] :
                      \A p \in Ports : n[p] = next[p] \/ n[p] = "other"}
    ELSE next' = next

Enumerate ==
    IF "missing" \in Faults THEN present' \in SUBSET Ports
                            ELSE present' = Ports

\* What the boot kept in memory goes with it.
MemoryGone == present' = {} /\ seen' = {} /\ todo' = {} /\ written' = {}

FirmwareStarts ==
    /\ CardsReset
    /\ forgot' = (next' # next)
    /\ Enumerate
    /\ pc' = "count"
    /\ seen' = {} /\ todo' = {} /\ written' = {}
    /\ UNCHANGED <<record, media, counted, blind, attempts, reached, cut>>

PowerOn ==
    /\ pc = "off"
    /\ FirmwareStarts
    /\ UNCHANGED resets

WarmReset ==
    /\ pc = "reset"
    /\ FirmwareStarts
    /\ resets' = IF stick = "none" /\ resets < MaxTwice THEN resets + 1 ELSE resets

CountStart ==
    /\ pc = "count"
    /\ trial = "on" => starts < TRIAL_STARTS
    /\ pc' = "read"
    /\ starts' = IF trial = "on" THEN starts + 1 ELSE starts
    /\ UNCHANGED <<next, record, media, memory, trial, observers>>

\* The set on trial goes back, with the conf it had.
TrialFails ==
    /\ pc = "count"
    /\ trial = "on"
    /\ starts = TRIAL_STARTS
    /\ pc' = "read"
    /\ trial' = "failed"
    /\ starts' = 0
    /\ pin' \in Pins
    /\ stick' \in Sticks
    /\ UNCHANGED <<next, record, present, seen, todo, written, observers>>

\* A function that is not read is a failure; its ports are not in the summary.
ReadPorts ==
    /\ pc = "read"
    /\ IF "read" \in Faults THEN seen' \in SUBSET present ELSE seen' = present
    /\ attempts' = [p \in Ports |-> IF p \in seen' /\ next[p] = "rs" THEN 0
                                    ELSE attempts[p]]
    /\ pc' = "decide"
    /\ UNCHANGED <<next, record, media, present, todo, written, counted,
                   resets, blind, reached, forgot, cut>>

------------------------------------------------------------------------------
(* Deciding.                                                               *)

Differ(want) == {p \in seen \cap Overridable : next[p] # want}
Failed       == seen # present

\* Mutant of PinAction: the record is not asked for.
PinActionAgain(tries) ==
    IF Differ("rs") # {} THEN "Write"
    ELSE IF tries /\ seen # {} /\ ~Failed THEN "Held" ELSE "Nothing"

PinAction(tries) ==
    IF Differ("rs") # {} THEN IF tries THEN "Stuck" ELSE "Write"
    ELSE IF tries /\ seen # {} /\ ~Failed THEN "Held" ELSE "Nothing"

Pinning == pc = "decide" /\ stick = "none" /\ pin = "rs"

\* What the boot takes the record for: a read that fails is no record.
RecordRead == {record} \cup IF "unread" \in Faults THEN {"none"} ELSE {}

\* The variable is deleted; a firmware that refuses leaves it as it was.
ClearRecord == \/ record' = "none"
               \/ "nv" \in Faults /\ UNCHANGED record

\* The boot goes past the FEC step.
GoOn ==
    /\ pc' = "on"
    /\ resets' = 0
    /\ blind' = FALSE
    /\ reached' = (reached \/ trial = "on")

PinNotStated ==
    /\ pc = "decide"
    /\ stick = "none"
    /\ pin \in {"none", "unknown"}
    /\ GoOn
    /\ UNCHANGED <<next, record, media, memory, counted,
                   attempts, forgot, cut>>

PinOff ==
    /\ pc = "decide"
    /\ stick = "none"
    /\ pin = "off"
    /\ \E last \in RecordRead :
          IF last # "none" THEN ClearRecord ELSE UNCHANGED record
    /\ attempts' = [p \in Ports |-> 0]
    /\ GoOn
    /\ UNCHANGED <<next, media, memory, counted, forgot, cut>>

PinLeaves ==
    /\ Pinning
    /\ \E last \in RecordRead : PinAction(last # "none") \in {"Nothing", "Stuck"}
    /\ GoOn
    /\ UNCHANGED <<next, record, media, memory, counted,
                   attempts, forgot, cut>>

\* The record goes although it may be about a port that is not on the bus.
PinHeld ==
    /\ Pinning
    /\ \E last \in RecordRead : PinAction(last # "none") = "Held"
    /\ ClearRecord
    /\ attempts' = [p \in Ports |-> IF p \in seen THEN attempts[p] ELSE 0]
    /\ GoOn
    /\ UNCHANGED <<next, media, memory, counted, forgot, cut>>

\* The write pass looks at every function on the bus again.
BeginWrite ==
    /\ pc' = "write"
    /\ todo' = present
    /\ written' = {}

\* What is observed as a write pass begins on a record it did not read.
BlindPass(last) ==
    /\ blind' = (blind \/ last # record)
    /\ attempts' = [p \in Ports |-> IF last = record THEN attempts[p] ELSE 0]

\* Mutant of PinWrite: the record is written once the cards are.
PinWriteUnrecorded ==
    /\ Pinning
    /\ \E last \in RecordRead : PinAction(last # "none") = "Write" /\ BlindPass(last)
    /\ BeginWrite
    /\ UNCHANGED <<next, record, media, present, seen, counted, resets,
                   forgot, reached, cut>>

PinWrite ==
    /\ Pinning
    /\ \E last \in RecordRead : PinAction(last # "none") = "Write" /\ BlindPass(last)
    /\ record' = "writing"
    /\ BeginWrite
    /\ UNCHANGED <<next, media, present, seen, counted, resets, forgot,
                   reached, cut>>

\* With no record a reset could loop, so nothing is written.
PinRefused ==
    /\ Pinning
    /\ \E last \in RecordRead : PinAction(last # "none") = "Write"
    /\ "nv" \in Faults
    /\ GoOn
    /\ UNCHANGED <<next, record, media, memory, counted,
                   attempts, forgot, cut>>

\* A recovery stick: the pin stands aside.
StickWrite ==
    /\ pc = "decide"
    /\ stick # "none"
    /\ BeginWrite
    /\ UNCHANGED <<next, record, media, present, seen, counted, observers>>

------------------------------------------------------------------------------
(* Writing (mlxfec.rs apply with a value wanted).                          *)

Want == IF stick # "none" THEN stick ELSE "rs"

WritePass(p) == pc = "write" /\ p \in todo

\* No override on this port, or already the value wanted.
LeavePort(p) ==
    /\ WritePass(p)
    /\ p \notin Overridable \/ next[p] = Want
    /\ todo' = todo \ {p}
    /\ UNCHANGED <<next, record, media, pc, present, seen, written, counted,
                   observers>>

Writable(p) == p \in Overridable /\ next[p] # Want

\* A write is sent to p.
Count(p) == attempts' = [attempts EXCEPT ![p] = IF stick = "none" /\ @ < MaxTwice THEN @ + 1 ELSE @]

Attempt(p) ==
    /\ WritePass(p)
    /\ Writable(p)
    /\ todo' = todo \ {p}
    /\ Count(p)
    /\ UNCHANGED <<record, media, pc, present, seen, counted, resets, blind,
                   forgot, reached, cut>>

WritePort(p) ==
    /\ Attempt(p)
    /\ next' = [next EXCEPT ![p] = Want]
    /\ written' = written \cup {p}

WriteRefused(p) ==
    /\ "refuse" \in Faults
    /\ Attempt(p)
    /\ UNCHANGED <<next, written>>

\* The card took the value and did not say so: a failure, and not written.
WriteUnseen(p) ==
    /\ "lost" \in Faults
    /\ Attempt(p)
    /\ next' = [next EXCEPT ![p] = Want]
    /\ UNCHANGED written

\* The function does not answer in the write pass: its ports are left.
WriteUnread(p) ==
    /\ "read" \in Faults
    /\ WritePass(p)
    /\ todo' = todo \ {p}
    /\ UNCHANGED <<next, record, media, pc, present, seen, written, counted,
                   observers>>

WriteHangs(p) ==
    /\ "hang" \in Faults
    /\ WritePass(p)
    /\ Writable(p)
    /\ pc' = "hung"
    /\ next' \in {next, [next EXCEPT ![p] = Want]}
    /\ Count(p)
    /\ UNCHANGED <<record, media, memory, counted,
                   resets, blind, reached, forgot, cut>>

\* Nothing written: the record goes, and the next boot tries again.
PinWroteNothing ==
    /\ pc = "write" /\ todo = {} /\ stick = "none"
    /\ written = {}
    /\ ClearRecord
    /\ attempts' = [p \in Ports |-> 0]
    /\ GoOn
    /\ UNCHANGED <<next, media, memory, counted, forgot, cut>>

\* What was written replaces "was writing", unless the firmware refuses it.
PinWrote ==
    /\ pc = "write" /\ todo = {} /\ stick = "none"
    /\ written # {}
    /\ \/ record' = "wrote"
       \/ "nv" \in Faults /\ UNCHANGED record
    /\ pc' = "reset"
    /\ UNCHANGED <<next, media, memory, counted,
                   observers>>

StickWrote ==
    /\ pc = "write" /\ todo = {} /\ stick # "none"
    /\ written # {}
    /\ pc' = "reset"
    /\ UNCHANGED <<next, record, media, memory, counted,
                   observers>>

\* Nothing to write, or nothing that could be written.
StickFoundIt ==
    /\ pc = "write" /\ todo = {} /\ stick # "none"
    /\ written = {}
    /\ GoOn
    /\ UNCHANGED <<next, record, media, memory, counted,
                   attempts, forgot, cut>>

------------------------------------------------------------------------------
(* What happens around the step.                                           *)

\* This start reaches an attach, and the trial is passed.
Attach ==
    /\ pc = "on"
    /\ trial = "on"
    /\ trial' = "good"
    /\ UNCHANGED <<next, record, media, pc, memory, starts, observers>>

\* The medium takes an update, whose conf may say something else.
TakeUpdate ==
    /\ pc = "on"
    /\ trial # "on"
    /\ pc' = "off"
    /\ trial' = "on"
    /\ starts' = 0
    /\ pin' \in Pins
    /\ stick' \in Sticks
    /\ reached' = FALSE
    /\ cut' = FALSE
    /\ MemoryGone
    /\ UNCHANGED <<next, record, resets, blind, attempts, forgot>>

\* The machine runs what it booted, and is started again some time.
Leave ==
    /\ pc = "on"
    /\ pc' = "off"
    /\ MemoryGone
    /\ UNCHANGED <<next, record, media, counted, observers>>

\* Somebody edits the media while the machine is off.
EditMedia ==
    /\ pc = "off"
    /\ trial # "on"
    /\ pin' \in Pins
    /\ stick' \in Sticks
    /\ UNCHANGED <<next, record, pc, memory, counted,
                   observers>>

PowerCut ==
    /\ pc = "hung" \/ ("power" \in Faults /\ pc \notin {"off", "on"})
    /\ pc' = "off"
    /\ resets' = 0
    /\ blind' = FALSE
    /\ cut' = (cut \/ trial = "on")
    /\ MemoryGone
    /\ UNCHANGED <<next, record, media, counted, attempts, forgot, reached>>

Start  == PowerOn \/ WarmReset \/ CountStart \/ TrialFails \/ ReadPorts
Decide == PinNotStated \/ PinOff \/ PinLeaves \/ PinHeld \/ PinWrite
            \/ PinRefused \/ StickWrite
Write  == \/ \E p \in Ports : \/ LeavePort(p) \/ WritePort(p)
                              \/ WriteRefused(p) \/ WriteUnseen(p)
                              \/ WriteUnread(p) \/ WriteHangs(p)
          \/ PinWroteNothing \/ PinWrote \/ StickWrote \/ StickFoundIt
Around == Attach \/ TakeUpdate \/ Leave \/ EditMedia \/ PowerCut

Next == Start \/ Decide \/ Write \/ Around

Spec == Init /\ [][Next]_vars

\* Once started the boot code runs on; nobody is obliged to do the rest.
FairSpec == Spec /\ WF_vars((Start /\ pc # "off") \/ Decide \/ Write)

------------------------------------------------------------------------------
(* Properties.                                                             *)

PC == {"off", "count", "read", "decide", "write", "reset", "hung", "on"}

\* The shape of the state; a trial has at most TRIAL_STARTS starts.
TypeOK ==
    /\ next \in [Ports -> Fec]
    /\ record \in {"none", "writing", "wrote"}
    /\ pin \in Pins
    /\ stick \in Sticks
    /\ pc \in PC
    /\ present \subseteq Ports
    /\ seen \subseteq Ports
    /\ todo \subseteq Ports
    /\ written \subseteq Ports
    /\ trial \in {"none", "on", "good", "failed"}
    /\ starts \in 0 .. TRIAL_STARTS
    /\ resets \in 0 .. MaxTwice
    /\ blind \in BOOLEAN
    /\ attempts \in [Ports -> 0 .. MaxTwice]
    /\ forgot \in BOOLEAN
    /\ reached \in BOOLEAN
    /\ cut \in BOOLEAN

\* The pin makes one warm reset, and then the boot goes on: no card, none
\* missing, no refused variable, no recovery stick and no lost power makes it do
\* a second one (fecpin.rs, "Once").  A second one takes a start that could not
\* read the record it found, which fecpin.rs record() takes for none.
OneReset == resets <= 1 \/ blind

\* The pin does not write twice to a port, across starts, hung writes, failed
\* reads and cards that forget (connectx.rs pin_action).  A port counts from the
\* last time a read found it at RS or the write pass said it wrote nothing, and
\* from the two places where the code loses the record of it: a record given up
\* on a read that did not have the port on the bus, and one that was not read.
NeverWrittenTwice == \A p \in Ports : attempts[p] <= 1

\* Once: one reset, and one write of a port (fecpin.rs, "Once").
Once == OneReset /\ NeverWrittenTwice

\* A set on trial whose conf says `fec_pin`, and no `fec`, fails its trial only
\* after a start of it went past the FEC step, or lost power, or the pin wrote
\* on a record it could not read (fecpin.rs, "the next start is the one that
\* reaches the attach").
TrialGetsItsStart ==
    [][trial = "on" /\ trial' = "failed" /\ stick = "none"
         => reached \/ cut \/ blind]_vars

\* Every start goes past the step, or hangs in a write, or loses power: the
\* machine is looped through the reset only on a card that does not keep what it
\* is told, by a recovery stick or by a record that is never read.
EveryStartGoesOn ==
    pc = "count" ~> \/ pc \in {"on", "hung", "off"}
                    \/ forgot /\ (stick # "none" \/ blind)
=============================================================================
