---------------------------- MODULE FecPinProofs ----------------------------
(***************************************************************************)
(* Theorems about FecPin, for any number of ports and cards, every fault   *)
(* and every order.                                                        *)
(***************************************************************************)
EXTENDS FecPin, TLAPS

\* The steps in which a boot is between its read and what follows.
InStep == {"read", "decide", "write", "reset"}

(***************************************************************************)
(* Why there is one reset: a pin's pass that will reset began from a boot  *)
(* with no record, which no reset came before, and a reset leaves a record *)
(* that every boot until the next one to go on finds, if it can read it.   *)
(***************************************************************************)
ResetLeavesRecord ==
    /\ pc \in {"off", "on"} => resets = 0 /\ ~blind
    /\ pc \in {"write", "reset"} /\ stick = "none" =>
         (resets = 0 \/ blind) /\ record # "none"
    /\ resets > 0 => record # "none"
    /\ resets <= 1 \/ blind

(***************************************************************************)
(* Why no port is written to twice: with no record no write is unanswered, *)
(* and what a port has had counts until the record goes.                   *)
(***************************************************************************)
WritesOnRecord ==
    /\ record = "none" => \A p \in Ports : attempts[p] = 0
    /\ pc = "write" /\ stick = "none" => /\ record # "none"
                                         /\ \A p \in todo : attempts[p] = 0
    /\ pc = "decide" => \A p \in seen : next[p] = "rs" => attempts[p] = 0
    /\ \A p \in Ports : attempts[p] > 0 => p \in Overridable
    /\ \A p \in Ports : attempts[p] <= 1

(***************************************************************************)
(* A trial's starts are those before a reset, until one goes on.           *)
(***************************************************************************)
StartsAreResets ==
    trial = "on" /\ stick = "none" /\ ~reached /\ ~cut /\ ~blind =>
        /\ pc = "off" => starts = 0
        /\ pc = "count" => starts <= resets
        /\ pc \in InStep => starts <= resets + 1
        /\ pc # "on"

\* What the constants are.
LEMMA Values ==
    /\ Overridable \subseteq Ports
    /\ Sticks \subseteq Fec \cup {"none"}
    /\ "rs" \in Fec /\ "other" \in Fec
  BY ConstantsAssumption DEF Fec

\* A start keeps the types: the firmware's part of it, the count of the starts,
\* the trial that fails and the reading of the ports.
LEMMA StartTyped ==
    ASSUME TypeOK, Start
    PROVE  TypeOK'
<1> USE DEF TypeOK, PC, TRIAL_STARTS, MaxTwice
<1>1. ASSUME FirmwareStarts, resets' \in 0 .. MaxTwice PROVE TypeOK'
  <2>1. next' \in [Ports -> Fec]
    BY <1>1 DEF FirmwareStarts, CardsReset
  <2>2. present' \subseteq Ports
    BY <1>1 DEF FirmwareStarts, Enumerate
  <2>3. forgot' \in BOOLEAN
    BY <1>1, Zenon DEF FirmwareStarts
  <2>4. QED
    BY <1>1, <2>1, <2>2, <2>3 DEF FirmwareStarts, media, counted
<1>2. CASE PowerOn
  BY <1>1, <1>2 DEF PowerOn
<1>3. CASE WarmReset
  BY <1>1, <1>3 DEF WarmReset
<1>4. CASE CountStart
  BY <1>4 DEF CountStart, media, memory, observers
<1>5. CASE TrialFails
  BY <1>5 DEF TrialFails, memory, observers
<1>6. CASE ReadPorts
  <2>1. seen' \subseteq Ports
    BY <1>6 DEF ReadPorts
  <2>2. attempts' \in [Ports -> 0 .. MaxTwice]
    BY <1>6 DEF ReadPorts
  <2>3. QED
    BY <1>6, <2>1, <2>2 DEF ReadPorts, media, counted
<1>7. QED
  BY <1>2, <1>3, <1>4, <1>5, <1>6 DEF Start

\* Going on to the boot, with nothing more written to a card, has its type.
LEMMA GoOnTyped ==
    ASSUME TypeOK, GoOn, ClearRecord \/ UNCHANGED record,
           attempts' \in [Ports -> 0 .. MaxTwice],
           UNCHANGED <<next, media, memory, counted, forgot, cut>>
    PROVE  TypeOK'
<1> USE DEF TypeOK, PC, TRIAL_STARTS, MaxTwice
<1>1. reached' \in BOOLEAN /\ blind' \in BOOLEAN
  BY Zenon DEF GoOn
<1>2. QED
  BY <1>1 DEF GoOn, ClearRecord, media, memory, counted

\* What the pin and the stick decide once the ports are read has its type.
LEMMA DecideTyped ==
    ASSUME TypeOK, Decide
    PROVE  TypeOK'
<1> USE DEF TypeOK, PC, TRIAL_STARTS, MaxTwice
<1>1. CASE PinNotStated \/ PinOff \/ PinLeaves \/ PinHeld \/ PinRefused
  <2>1. attempts' \in [Ports -> 0 .. MaxTwice]
    BY <1>1 DEF PinNotStated, PinOff, PinLeaves, PinHeld, PinRefused
  <2>2. QED
    BY GoOnTyped, <1>1, <2>1, Zenon
       DEF PinNotStated, PinOff, PinLeaves, PinHeld, PinRefused
<1>2. CASE PinWrite
  <2>1. PICK last \in RecordRead : BlindPass(last)
    BY <1>2 DEF PinWrite
  <2>2. blind' \in BOOLEAN
    BY <2>1, Zenon DEF BlindPass
  <2>3. attempts' \in [Ports -> 0 .. MaxTwice]
    BY <2>1 DEF BlindPass
  <2>4. QED
    BY <1>2, <2>2, <2>3 DEF PinWrite, BeginWrite, media, counted
<1>3. CASE StickWrite
  BY <1>3 DEF StickWrite, BeginWrite, media, counted, observers
<1>4. QED
  BY <1>1, <1>2, <1>3 DEF Decide

\* A write to a card, its failures and the end of the writes have their types.
LEMMA WriteTyped ==
    ASSUME TypeOK, Write
    PROVE  TypeOK'
<1> USE DEF TypeOK, PC, TRIAL_STARTS, MaxTwice
<1>1. ASSUME NEW p \in Ports, LeavePort(p) \/ WriteUnread(p) PROVE TypeOK'
  BY <1>1 DEF LeavePort, WriteUnread, media, counted, observers
<1>2. ASSUME NEW p \in Ports, Attempt(p), next' \in [Ports -> Fec],
             written' \subseteq Ports
      PROVE  TypeOK'
  <2>1. attempts' \in [Ports -> 0 .. MaxTwice]
    BY <1>2 DEF Attempt, Count
  <2>2. QED
    BY <1>2, <2>1 DEF Attempt, media, counted
<1>3. Want \in Fec
  BY Values DEF Want
<1>4. \A p \in Ports : [next EXCEPT ![p] = Want] \in [Ports -> Fec]
  BY <1>3
<1>5. ASSUME NEW p \in Ports, WritePort(p) \/ WriteRefused(p) \/ WriteUnseen(p)
      PROVE  TypeOK'
  BY <1>2, <1>4, <1>5 DEF WritePort, WriteRefused, WriteUnseen
<1>6. ASSUME NEW p \in Ports, WriteHangs(p) PROVE TypeOK'
  <2>1. attempts' \in [Ports -> 0 .. MaxTwice]
    BY <1>6 DEF WriteHangs, Count
  <2>2. next' \in [Ports -> Fec]
    BY <1>4, <1>6 DEF WriteHangs
  <2>3. QED
    BY <1>6, <2>1, <2>2, Zenon DEF WriteHangs, media, memory, counted
<1>7. CASE PinWroteNothing \/ StickFoundIt
  <2>1. attempts' \in [Ports -> 0 .. MaxTwice]
    BY <1>7 DEF PinWroteNothing, StickFoundIt
  <2>2. QED
    BY GoOnTyped, <1>7, <2>1, Zenon DEF PinWroteNothing, StickFoundIt
<1>8. CASE PinWrote
  BY <1>8 DEF PinWrote, media, memory, counted, observers
<1>9. CASE StickWrote
  BY <1>9 DEF StickWrote, media, memory, counted, observers
<1>10. QED
  BY <1>1, <1>5, <1>6, <1>7, <1>8, <1>9 DEF Write

\* What happens around the step (attaching, updates, edits, power) has its type.
LEMMA AroundTyped ==
    ASSUME TypeOK, Around
    PROVE  TypeOK'
<1> USE DEF TypeOK, PC, TRIAL_STARTS, MaxTwice
<1>1. CASE Attach
  BY <1>1 DEF Attach, media, memory, observers
<1>2. CASE TakeUpdate
  <2>1. {} \subseteq Ports /\ 0 \in 0 .. TRIAL_STARTS
    BY DEF TRIAL_STARTS
  <2>2. QED
    BY <1>2, <2>1, Zenon DEF TakeUpdate, MemoryGone
<1>3. CASE Leave
  <2>1. {} \subseteq Ports
    OBVIOUS
  <2>2. QED
    BY <1>3, <2>1, Zenon DEF Leave, MemoryGone, media, counted, observers
<1>4. CASE EditMedia
  BY <1>4 DEF EditMedia, memory, counted, observers
<1>5. CASE PowerCut
  <2>1. cut' \in BOOLEAN /\ blind' \in BOOLEAN
    BY <1>5, Zenon DEF PowerCut
  <2>2. QED
    BY <1>5, <2>1 DEF PowerCut, MemoryGone, media, counted
<1>6. QED
  BY <1>1, <1>2, <1>3, <1>4, <1>5 DEF Around

\* What each operation does to the state has its type.
THEOREM TypeCorrect == Spec => []TypeOK
<1>1. Init => TypeOK
  <2> SUFFICES ASSUME Init PROVE TypeOK
    OBVIOUS
  <2>1. attempts \in [Ports -> 0 .. MaxTwice] /\ starts \in 0 .. TRIAL_STARTS
          /\ resets \in 0 .. MaxTwice
    BY DEF Init, TRIAL_STARTS, MaxTwice
  <2>2. QED
    BY <2>1, Zenon DEF Init, TypeOK, PC
<1>2. TypeOK /\ UNCHANGED vars => TypeOK'
  BY DEF TypeOK, vars
<1>3. TypeOK /\ [Next]_vars => TypeOK'
  BY <1>2, StartTyped, DecideTyped, WriteTyped, AroundTyped DEF Next
<1>4. QED
  BY <1>1, <1>3, PTL DEF Spec

\* Every step keeps the record of a reset that was made.
LEMMA ResetRecorded ==
    ASSUME TypeOK, ResetLeavesRecord, [Next]_vars
    PROVE  ResetLeavesRecord'
<1> USE DEF ResetLeavesRecord, MaxTwice
<1>1. resets \in 0 .. 2 /\ blind \in BOOLEAN
  BY DEF TypeOK
<1>2. CASE Start
  <2>1. CASE PowerOn
    BY <1>1, <2>1 DEF PowerOn, FirmwareStarts, media
  <2>2. CASE WarmReset
    BY <1>1, <2>2 DEF WarmReset, FirmwareStarts, media
  <2>3. CASE CountStart
    BY <2>3 DEF CountStart, media, observers
  <2>4. CASE TrialFails
    BY <2>4 DEF TrialFails, observers
  <2>5. CASE ReadPorts
    BY <2>5 DEF ReadPorts, media
  <2>6. QED
    BY <1>2, <2>1, <2>2, <2>3, <2>4, <2>5 DEF Start
<1>3. CASE Decide
  <2>1. CASE PinNotStated \/ PinOff \/ PinLeaves \/ PinHeld \/ PinRefused
    BY <2>1 DEF PinNotStated, PinOff, PinLeaves, PinHeld, PinRefused, GoOn
  <2>2. CASE PinWrite
    <3>1. PICK last \in RecordRead : last = "none" /\ BlindPass(last)
      BY <2>2 DEF PinWrite, PinAction
    <3>2. (blind => blind') /\ (record # "none" => blind')
      BY <3>1, Zenon DEF BlindPass
    <3>3. (resets = 0 \/ blind') /\ (resets <= 1 \/ blind')
      BY <1>1, <3>2
    <3>4. QED
      BY <2>2, <3>3 DEF PinWrite, BeginWrite
  <2>3. CASE StickWrite
    BY <2>3 DEF StickWrite, BeginWrite, media, observers
  <2>4. QED
    BY <1>3, <2>1, <2>2, <2>3 DEF Decide
<1>4. CASE Write
  <2>1. ASSUME NEW p \in Ports,
               LeavePort(p) \/ WriteRefused(p) \/ WritePort(p)
                 \/ WriteUnseen(p) \/ WriteUnread(p)
        PROVE  UNCHANGED <<pc, stick, resets, blind, record>>
    BY <2>1 DEF LeavePort, WriteRefused, WritePort, WriteUnseen, WriteUnread,
                Attempt, media, observers
  <2>2. ASSUME NEW p \in Ports, WriteHangs(p) PROVE ResetLeavesRecord'
    BY <2>2 DEF WriteHangs, WritePass
  <2>3. CASE PinWroteNothing
    BY <2>3 DEF PinWroteNothing, GoOn
  <2>4. CASE PinWrote
    BY <2>4 DEF PinWrote, media, observers
  <2>5. CASE StickWrote \/ StickFoundIt
    BY <2>5 DEF StickWrote, StickFoundIt, GoOn, media, observers
  <2>6. QED
    BY <1>4, <2>1, <2>2, <2>3, <2>4, <2>5 DEF Write
<1>5. CASE Around
  BY <1>5 DEF Around, Attach, TakeUpdate, Leave, EditMedia, PowerCut, media, observers
<1>6. CASE UNCHANGED vars
  BY <1>6 DEF vars
<1>7. QED
  BY <1>2, <1>3, <1>4, <1>5, <1>6 DEF Next

\* Media that pin never loop the machine, whatever its cards and its power do:
\* no second warm reset follows one, but by a firmware that does not answer the
\* read of the record.
THEOREM ResetsOnce == Spec => []OneReset
<1>1. Init => ResetLeavesRecord
  BY DEF Init, ResetLeavesRecord
<1>2. TypeOK /\ ResetLeavesRecord /\ [Next]_vars => ResetLeavesRecord'
  BY ResetRecorded
<1>3. ResetLeavesRecord => OneReset
  BY DEF ResetLeavesRecord, OneReset
<1>4. QED
  BY <1>1, <1>2, <1>3, TypeCorrect, PTL DEF Spec

\* Every step keeps the record of a write that was made.
LEMMA WritesRecorded ==
    ASSUME TypeOK, WritesOnRecord, [Next]_vars
    PROVE  WritesOnRecord'
<1> USE DEF WritesOnRecord
<1>1. attempts \in [Ports -> 0 .. 2] /\ Overridable \subseteq Ports
  BY Values DEF TypeOK, MaxTwice
<1>2. CASE Start
  <2>1. ASSUME FirmwareStarts PROVE WritesOnRecord'
    BY <1>1, <2>1 DEF FirmwareStarts, Enumerate
  <2>2. CASE CountStart \/ TrialFails
    BY <2>2 DEF CountStart, TrialFails, memory, observers
  <2>3. CASE ReadPorts
    <3>1. \A p \in Ports : attempts'[p] = 0 \/ attempts'[p] = attempts[p]
      BY <1>1, <2>3 DEF ReadPorts
    <3>2. \A p \in seen' : p \in Ports
      BY <2>3 DEF ReadPorts, TypeOK
    <3>3. \A p \in seen' : next'[p] = "rs" => attempts'[p] = 0
      BY <1>1, <2>3, <3>2 DEF ReadPorts
    <3>4. QED
      BY <1>1, <2>3, <3>1, <3>3 DEF ReadPorts
  <2>4. QED
    BY <1>2, <2>1, <2>2, <2>3 DEF Start, PowerOn, WarmReset
<1>3. CASE Decide
  <2>1. CASE PinNotStated \/ PinLeaves \/ PinRefused
    BY <2>1 DEF PinNotStated, PinLeaves, PinRefused, GoOn, memory
  <2>2. CASE PinOff
    <3>1. \A p \in Ports : attempts'[p] = 0
      BY <2>2 DEF PinOff
    <3>2. QED
      BY <2>2, <3>1 DEF PinOff, GoOn
  <2>3. CASE PinHeld
    <3>1. pc = "decide" /\ Differ("rs") = {} /\ pc' = "on"
      BY <2>3 DEF PinHeld, Pinning, PinAction, GoOn
    <3>2. \A p \in seen : attempts[p] = 0
      <4> SUFFICES ASSUME NEW p \in seen, attempts[p] # 0 PROVE FALSE
        OBVIOUS
      <4>1. p \in Ports /\ attempts[p] \in 0 .. 2
        BY <1>1 DEF TypeOK
      <4>2. p \in Overridable
        BY <4>1
      <4>3. next[p] = "rs"
        BY <3>1, <4>2 DEF Differ
      <4>4. QED
        BY <3>1, <4>3
    <3>3. \A p \in Ports : attempts'[p] = 0
      BY <2>3, <3>2 DEF PinHeld
    <3>4. QED
      BY <3>1, <3>3
  <2>4. CASE PinWrite
    <3>1. PICK last \in RecordRead : last = "none" /\ BlindPass(last)
      BY <2>4 DEF PinWrite, PinAction
    <3>2. \A p \in Ports : attempts'[p] = 0
      BY <3>1 DEF BlindPass
    <3>3. todo' \subseteq Ports /\ pc' = "write" /\ record' # "none"
      BY <2>4 DEF PinWrite, BeginWrite, TypeOK
    <3>4. QED
      BY <3>2, <3>3
  <2>5. CASE StickWrite
    BY <2>5 DEF StickWrite, BeginWrite, media, observers
  <2>6. QED
    BY <1>3, <2>1, <2>2, <2>3, <2>4, <2>5 DEF Decide
<1>4. CASE Write
  <2>1. ASSUME NEW p \in Ports, LeavePort(p) \/ WriteUnread(p)
        PROVE  WritesOnRecord'
    BY <2>1 DEF LeavePort, WriteUnread, WritePass, media, observers
  <2>2. ASSUME NEW p \in Ports, pc = "write", p \in todo, Writable(p), Count(p),
               UNCHANGED <<record, media>>,
               \/ pc' = "hung"
               \/ pc' = "write" /\ todo' = todo \ {p}
        PROVE  WritesOnRecord'
    <3>a. CASE stick # "none"
      <4>1. attempts' = attempts
        BY <1>1, <2>2, <3>a DEF Count
      <4>2. QED
        BY <2>2, <3>a, <4>1 DEF media
    <3>b. CASE stick = "none"
      <4>1. attempts[p] = 0 /\ record # "none" /\ p \in Overridable
        BY <2>2, <3>b DEF Writable
      <4>2. attempts'[p] = 1 /\ \A q \in Ports \ {p} : attempts'[q] = attempts[q]
        BY <1>1, <2>2, <3>b, <4>1 DEF Count, MaxTwice
      <4>3. todo \subseteq Ports
        BY DEF TypeOK
      <4>4. QED
        BY <1>1, <2>2, <4>1, <4>2, <4>3 DEF media
    <3>c. QED
      BY <3>a, <3>b
  <2>3. ASSUME NEW p \in Ports, WriteRefused(p) \/ WritePort(p) \/ WriteUnseen(p)
                                 \/ WriteHangs(p)
        PROVE  WritesOnRecord'
    BY <2>2, <2>3 DEF WriteRefused, WritePort, WriteUnseen, WriteHangs, Attempt,
                      WritePass
  <2>4. CASE PinWroteNothing
    <3>1. \A p \in Ports : attempts'[p] = 0
      BY <2>4 DEF PinWroteNothing
    <3>2. QED
      BY <2>4, <3>1 DEF PinWroteNothing, GoOn
  <2>5. CASE PinWrote
    BY <2>5 DEF PinWrote, media, observers
  <2>6. CASE StickWrote \/ StickFoundIt
    BY <2>6 DEF StickWrote, StickFoundIt, GoOn, memory, media, observers
  <2>7. QED
    BY <1>4, <2>1, <2>3, <2>4, <2>5, <2>6 DEF Write
<1>5. CASE Around
  BY <1>5 DEF Around, Attach, TakeUpdate, Leave, EditMedia, PowerCut, media, observers
<1>6. CASE UNCHANGED vars
  BY <1>6 DEF vars
<1>7. QED
  BY <1>2, <1>3, <1>4, <1>5, <1>6 DEF Next

\* A write that was not seen to hold is not repeated while its record stands:
\* ports missing from the bus, failed reads, hung writes, cards that forget and a
\* firmware that refuses the variable included.
THEOREM WrittenOnce == Spec => []NeverWrittenTwice
<1>1. Init => WritesOnRecord
  BY DEF Init, WritesOnRecord
<1>2. TypeOK /\ WritesOnRecord /\ [Next]_vars => WritesOnRecord'
  BY WritesRecorded
<1>3. WritesOnRecord => NeverWrittenTwice
  BY DEF WritesOnRecord, NeverWrittenTwice
<1>4. QED
  BY <1>1, <1>2, <1>3, TypeCorrect, PTL DEF Spec

\* Both: the pin acts once (fecpin.rs, "Once").
THEOREM OnceOnly == Spec => []Once
<1>1. OneReset /\ NeverWrittenTwice => Once
  BY DEF Once
<1>2. QED
  BY <1>1, ResetsOnce, WrittenOnce, PTL

\* Every step keeps the starts of a trial counted against its resets.
LEMMA StartsCounted ==
    ASSUME TypeOK, ResetLeavesRecord, StartsAreResets,
           [Next]_vars
    PROVE  /\ StartsAreResets'
           /\ trial = "on" /\ trial' = "failed" /\ stick = "none"
                => reached \/ cut \/ blind
<1> USE DEF StartsAreResets, InStep
<1>1. /\ resets \in 0 .. 2 /\ starts \in 0 .. 2
      /\ reached \in BOOLEAN /\ cut \in BOOLEAN /\ blind \in BOOLEAN
  BY DEF TypeOK, TRIAL_STARTS, MaxTwice
<1>2. CASE Start
  <2>1. CASE PowerOn
    BY <1>1, <2>1 DEF PowerOn, FirmwareStarts, media, counted
  <2>2. CASE WarmReset
    <3>1. stick = "none" /\ ~blind => resets' = resets + 1
      BY <1>1, <2>2 DEF WarmReset, ResetLeavesRecord, MaxTwice
    <3>2. QED
      BY <1>1, <2>2, <3>1 DEF WarmReset, FirmwareStarts, media, counted
  <2>3. CASE CountStart
    BY <1>1, <2>3 DEF CountStart, media, observers
  <2>4. CASE TrialFails
    BY <1>1, <2>4 DEF TrialFails, TRIAL_STARTS, ResetLeavesRecord
  <2>5. CASE ReadPorts
    BY <1>1, <2>5 DEF ReadPorts, media, counted
  <2>6. QED
    BY <1>2, <2>1, <2>2, <2>3, <2>4, <2>5 DEF Start
<1>3. CASE Decide
  <2>1. CASE PinNotStated \/ PinOff \/ PinLeaves \/ PinHeld \/ PinRefused
    <3>1. GoOn /\ UNCHANGED <<media, counted>>
      BY <2>1 DEF PinNotStated, PinOff, PinLeaves, PinHeld, PinRefused
    <3>2. reached' = (reached \/ trial = "on") /\ trial' = trial
      BY <3>1 DEF GoOn, counted
    <3>3. QED
      BY <3>2
  <2>2. CASE PinWrite
    <3>1. \E last \in RecordRead : blind' = (blind \/ last # record)
      BY <2>2 DEF PinWrite, BlindPass
    <3>2. blind => blind'
      BY <3>1
    <3>3. QED
      BY <1>1, <2>2, <3>2 DEF PinWrite, Pinning, BeginWrite, counted
  <2>3. CASE StickWrite
    BY <2>3 DEF StickWrite, BeginWrite, media, counted, observers
  <2>4. QED
    BY <1>3, <2>1, <2>2, <2>3 DEF Decide
<1>4. CASE Write
  <2>1. ASSUME NEW p \in Ports,
               LeavePort(p) \/ WriteRefused(p) \/ WritePort(p)
                 \/ WriteUnseen(p) \/ WriteUnread(p)
        PROVE  UNCHANGED <<pc, stick, resets, blind, trial, starts, reached, cut>>
    BY <2>1 DEF LeavePort, WriteRefused, WritePort, WriteUnseen, WriteUnread,
                Attempt, media, observers, counted
  <2>2. ASSUME NEW p \in Ports, WriteHangs(p)
        PROVE  /\ pc' = "hung"
               /\ UNCHANGED <<stick, resets, blind, trial, starts, reached, cut>>
    BY <2>2 DEF WriteHangs, media, counted
  <2>3. CASE PinWroteNothing
    <3>1. reached' = (reached \/ trial = "on") /\ trial' = trial
      BY <2>3 DEF PinWroteNothing, GoOn, counted
    <3>2. QED
      BY <3>1
  <2>4. CASE PinWrote
    BY <2>4 DEF PinWrote, media, counted, observers
  <2>5. CASE StickWrote
    BY <2>5 DEF StickWrote, media, counted, observers
  <2>6. CASE StickFoundIt
    BY <2>6 DEF StickFoundIt, media, counted
  <2>7. QED
    BY <1>4, <2>1, <2>2, <2>3, <2>4, <2>5, <2>6 DEF Write
<1>5. CASE Around
  <2>1. CASE Attach \/ TakeUpdate \/ EditMedia
    BY <1>1, <2>1 DEF Attach, TakeUpdate, EditMedia, counted, media, observers
  <2>2. CASE Leave
    BY <2>2 DEF Leave, media, counted, observers
  <2>3. CASE PowerCut
    <3>1. cut' = (cut \/ trial = "on") /\ trial' = trial
      BY <2>3 DEF PowerCut, media, counted
    <3>2. QED
      BY <3>1
  <2>4. QED
    BY <1>5, <2>1, <2>2, <2>3 DEF Around
<1>6. CASE UNCHANGED vars
  BY <1>6 DEF vars
<1>7. QED
  BY <1>2, <1>3, <1>4, <1>5, <1>6 DEF Next

\* The pin leaves a set on trial a start that goes past the FEC step, so that on
\* a record it can read it never fails the trial on its own.
THEOREM TrialStartKept == Spec => TrialGetsItsStart
<1>1. Init => ResetLeavesRecord /\ StartsAreResets
  BY DEF Init, ResetLeavesRecord, StartsAreResets
<1>2. TypeOK /\ ResetLeavesRecord /\ StartsAreResets /\ [Next]_vars =>
        /\ ResetLeavesRecord' /\ StartsAreResets'
        /\ [trial = "on" /\ trial' = "failed" /\ stick = "none"
              => reached \/ cut \/ blind]_vars
  BY ResetRecorded, StartsCounted
<1>3. QED
  BY <1>1, <1>2, TypeCorrect, PTL DEF Spec, TrialGetsItsStart
=============================================================================
