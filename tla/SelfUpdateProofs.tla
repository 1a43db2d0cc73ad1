-------------------------- MODULE SelfUpdateProofs --------------------------
(***************************************************************************)
(* Theorems about SelfUpdate and Stick, for every medium, every set of     *)
(* releases, every disk of the machine and every number of faults.         *)
(***************************************************************************)
EXTENDS Stick, TLAPS

USE DEF Serials

(***************************************************************************)
(* The boots and the node's program differ in how they compare versions,   *)
(* and that is all: what follows is proved of the steps of both, for any   *)
(* way to compare them.                                                    *)
(***************************************************************************)
Asked == Decline \/ \E m \in Serials : SetFloor(m) \/ SetSerial(m) \/ Begin(m)

\* The state is written where no file is on its way.
TornAtRest == TornWrite /\ pc \notin {"off", "swap"} /\ (pc \in {"back", "revert"} => todo = {})

Elements == PowerLoss \/ TornAtRest \/ WearOut
            \/ \E i \in Machines, n \in Serials : OtherMedium(i, n)

\* A boot that is over is followed by the program, and the program by the rest
\* of the system's run.
Unmoved == UNCHANGED <<medium, state, local, nvmin, at, running, trialing, want, todo, mem,
                       worn, budget, observers>>
LookAgain == pc = "run" /\ cur[Boot] # None /\ pc' = "up" /\ Unmoved
RunOn == pc = "ready" /\ trialing = 0 /\ pc' = "run" /\ Unmoved
Onwards == LookAgain \/ RunOn \/ Swapped

Step == Start \/ Revert \/ Asked \/ Apply \/ Settle \/ Elements \/ Onwards

BothSpec == Init /\ [][Step]_vars

\* The bounds are numbers.
LEMMA BoundsNat == MaxSerial \in Nat /\ MaxFaults \in Nat
  BY ConstantsAssumption

\* The faults are ones the model knows.
LEMMA FaultsKnown == Faults \subseteq FaultKinds
  BY ConstantsAssumption

\* What the constants say of the files and the releases.
LEMMA PathsAssumption ==
    /\ Boot \in Paths /\ Conf \in Paths /\ Drivers \subseteq Paths
    /\ Release \in [0 .. MaxSerial -> Files]
  BY ConstantsAssumption

\* The larger of two serials is a serial.
LEMMA LargerInRange ==
    ASSUME NEW a \in 0 .. MaxSerial, NEW b \in 0 .. MaxSerial
    PROVE  Larger(a, b) \in 0 .. MaxSerial
  BY DEF Larger

\* What a state's fields are, and that a state with no trial is a state.
LEMMA StateFields ==
    ASSUME NEW s \in State
    PROVE  /\ s.serial \in 0 .. MaxSerial /\ s.min \in 0 .. MaxSerial
           /\ s.failed \in 0 .. MaxSerial /\ s.trial \in 0 .. MaxSerial
           /\ s.starts \in 0 .. TRIAL_STARTS /\ s.prev \in 0 .. MaxSerial
           /\ s.files \subseteq Paths /\ s.fresh \subseteq Paths
  BY DEF State

\* A state with no trial is a state.
LEMMA AtRestTyped ==
    ASSUME NEW a \in 0 .. MaxSerial, NEW b \in 0 .. MaxSerial,
           NEW c \in 0 .. MaxSerial
    PROVE  AtRest(a, b, c) \in State
  BY BoundsNat DEF AtRest, State, TRIAL_STARTS

\* The state of a medium just written is a state.
LEMMA BlankTyped == Blank \in State
  BY AtRestTyped, BoundsNat DEF Blank

\* Every variable has its type in both writers' steps ...
LEMMA BothTyped == BothSpec => []TypeOK
<1>1. Init => TypeOK
  <2> SUFFICES ASSUME Init PROVE TypeOK
    OBVIOUS
  <2>1. state \in State /\ mem \in State
    BY BlankTyped DEF Init
  <2>2. Release[0] \in Files /\ 0 \in 0 .. MaxSerial
    <3>1. 0 \in 0 .. MaxSerial
      BY BoundsNat
    <3>2. QED
      BY <3>1, PathsAssumption
  <2>3. cur \in Files /\ old \in Files
    BY <2>2 DEF Init
  <2>4. prv \in Files /\ new \in Files
    BY DEF Init, Files
  <2>5. nvmin \in [Machines -> 0 .. MaxSerial]
    BY <2>2 DEF Init
  <2>6. left \in 0 .. MaxFaults /\ hurt \subseteq FaultKinds
    BY BoundsNat DEF Init
  <2>7. QED
    BY <2>1, <2>2, <2>3, <2>4, <2>5, <2>6 DEF Init, TypeOK, PcValues
<1>2. TypeOK /\ [Step]_vars => TypeOK'
  <2> SUFFICES ASSUME TypeOK, [Step]_vars PROVE TypeOK'
    OBVIOUS
  <2> USE BoundsNat, FaultsKnown DEF TypeOK, PcValues, budget
  <2>1. CASE Start
    <3>1. CASE PowerOn
      BY <3>1, PathsAssumption DEF PowerOn, medium, observers, Files
    <3>2. CASE StartUnread
      BY <3>2 DEF StartUnread, medium, observers, Fails
    <3>3. CASE StartNormal
      BY <3>3 DEF StartNormal, medium, observers
    <3>4. CASE StartTrial
      <4>1. state.starts + 1 \in 0 .. TRIAL_STARTS
        BY <3>4, StateFields DEF StartTrial, TRIAL_STARTS
      <4>2. [state EXCEPT !.starts = @ + 1] \in State
        BY <4>1 DEF State
      <4>3. state.trial \in 0 .. MaxSerial
        BY StateFields
      <4>4. QED
        BY <3>4, <4>2, <4>3
           DEF StartTrial, medium, observers, WriteState, Works, Fails
    <3>5. CASE StartRevert
      BY <3>5 DEF StartRevert, medium, observers, State
    <3>6. QED
      BY <2>1, <3>1, <3>2, <3>3, <3>4, <3>5 DEF Start
  <2>2. CASE Revert
    <3>1. CASE \E p \in Paths : RevertDelete(p)
      BY <3>1 DEF RevertDelete, DropNew, Works, observers, Files
    <3>2. CASE \E p \in Paths : RevertRename(p)
      BY <3>2 DEF RevertRename, DropNew, Works, observers, Files
    <3>3. CASE \E p \in Paths : RevertRemove(p)
      BY <3>3 DEF RevertRemove, DropNew, Works, observers, Files
    <3>4. CASE \E p \in Paths : RevertKeep(p)
      BY <3>4 DEF RevertKeep, DropNew, observers, Files
    <3>5. CASE \E p \in Paths : RevertError(p)
      BY <3>5 DEF RevertError, DropNew, Fails, observers, Files
    <3>6. CASE RecordFailed
      <4> DEFINE s == AtRest(state.prev, state.min,
                             Larger(state.failed, state.trial))
      <4>1. s \in State
        BY LargerInRange, StateFields, AtRestTyped
      <4>2. state.trial \in 0 .. MaxSerial
        BY StateFields
      <4>3. state' \in State /\ left' \in 0 .. MaxFaults /\ hurt' \subseteq FaultKinds
        BY <3>6, <4>1 DEF RecordFailed, WriteState, Works, Fails
      <4>4. /\ settled' \in SUBSET (0 .. MaxSerial)
            /\ rejected' \in SUBSET (0 .. MaxSerial)
        BY <3>6, <4>2 DEF RecordFailed
      <4>5. /\ pc' \in PcValues /\ want' \in 0 .. MaxSerial
            /\ UNCHANGED <<cur, prv, new, local, nvmin, at, running, trialing,
                           todo, mem, worn, old>>
        BY <3>6 DEF RecordFailed, medium
      <4>6. QED
        BY <4>3, <4>4, <4>5
    <3>7. CASE ChainLoad
      BY <3>7, PathsAssumption DEF ChainLoad, medium, observers, Files
    <3>8. CASE ChainFails
      BY <3>8, BlankTyped DEF ChainFails, Fails, Forget, medium, observers
    <3>9. QED
      BY <2>2, <3>1, <3>2, <3>3, <3>4, <3>5, <3>6, <3>7, <3>8 DEF Revert
  <2>3. CASE Asked
    <3>1. CASE Decline
      BY <3>1 DEF Decline, medium, observers
    <3>2. ASSUME NEW m \in Serials, SetFloor(m) PROVE TypeOK'
      <4>1. [state EXCEPT !.min = Larger(@, m)] \in State
        BY LargerInRange, StateFields DEF State
      <4>2. QED
        BY <3>2, <4>1 DEF SetFloor, WriteState, Works, Fails, medium
    <3>3. ASSUME NEW m \in Serials, SetSerial(m) PROVE TypeOK'
      <4>1. [state EXCEPT !.serial = m] \in State
        BY DEF State
      <4>2. QED
        BY <3>3, <4>1 DEF SetSerial, WriteState, Works, Fails, medium
    <3>4. ASSUME NEW m \in Serials, Begin(m) PROVE TypeOK'
      <4>1. Changed(m) \cup Retired(m) \in SUBSET Paths
        BY PathsAssumption DEF Changed, Retired
      <4>2. QED
        BY <3>4, <4>1 DEF Begin, medium, observers
    <3>5. QED
      BY <2>3, <3>1, <3>2, <3>3, <3>4 DEF Asked
  <2>4. CASE Apply
    <3> USE BlankTyped DEF GiveUp, Works, Fails, medium, observers
    <3>1. CASE \E p \in Paths : DropPrev(p)
      BY <3>1 DEF DropPrev, Files
    <3>2. CASE \E p \in Paths : WriteNew(p)
      BY <3>2, PathsAssumption DEF WriteNew, Files
    <3>3. CASE \E p \in Paths : SwapOut(p)
      BY <3>3 DEF SwapOut, Files
    <3>4. CASE \E p \in Paths : SwapIn(p)
      BY <3>4 DEF SwapIn, Files
    <3>5. CASE DropFails
      BY <3>5 DEF DropFails
    <3>6. CASE BeginWrite
      BY <3>6 DEF BeginWrite, Changed
    <3>7. CASE WriteFails
      BY <3>7 DEF WriteFails, Files
    <3>8. CASE CarryIdentity
      <4>1. local' \in BOOLEAN
        BY <3>8, Zenon DEF CarryIdentity
      <4>2. left' \in 0 .. MaxFaults /\ hurt' \subseteq FaultKinds
        BY <3>8 DEF CarryIdentity
      <4>3. QED
        BY <3>8, <4>1, <4>2 DEF CarryIdentity
    <3>9. CASE RecordTrial
      <4>1. Changed(want) \cup Retired(want) \in SUBSET Paths
        BY PathsAssumption DEF Changed, Retired
      <4>2. {p \in Changed(want) : cur[p] = None} \in SUBSET Paths
        BY DEF Changed
      <4>3. state' \in State
        BY <3>9, <4>1, <4>2, StateFields DEF RecordTrial, State, TRIAL_STARTS
      <4>4. QED
        BY <3>9, <4>1, <4>3 DEF RecordTrial
    <3>10. CASE RecordFails
      BY <3>10 DEF RecordFails
    <3>11. CASE SwapFails
      BY <3>11 DEF SwapFails, State
    <3>12. CASE RestoreState
      BY <3>12 DEF RestoreState, WriteState
    <3>13. CASE SwapDone
      BY <3>13 DEF SwapDone, Forget
    <3>14. QED
      BY <2>4, <3>1, <3>2, <3>3, <3>4, <3>5, <3>6, <3>7, <3>8, <3>9, <3>10,
         <3>11, <3>12, <3>13 DEF Apply
  <2>5. CASE Settle
    <3> USE DEF medium, observers, Fails
    <3>1. CASE Attach
      BY <3>1 DEF Attach
    <3>2. CASE MarkNothing
      BY <3>2 DEF MarkNothing
    <3>3. CASE MarkGood
      <4> DEFINE s == AtRest(trialing, Larger(state.min, trialing),
                             state.failed)
      <4>1. s \in State
        BY LargerInRange, StateFields, AtRestTyped
      <4>2. QED
        BY <3>3, <4>1 DEF MarkGood, WriteState, Works
    <3>4. CASE RaiseNvMin
      <4>1. Larger(nvmin[at], trialing) \in 0 .. MaxSerial
        BY LargerInRange
      <4>2. QED
        BY <3>4, <4>1 DEF RaiseNvMin
    <3>5. CASE Restart
      BY <3>5, BlankTyped DEF Restart, Forget
    <3>6. QED
      BY <2>5, <3>1, <3>2, <3>3, <3>4, <3>5 DEF Settle
  <2>6. CASE Elements
    <3> USE BlankTyped DEF medium, observers, Fails, Forget
    <3>1. CASE PowerLoss
      BY <3>1 DEF PowerLoss
    <3>2. CASE TornAtRest
      BY <3>2 DEF TornAtRest, TornWrite
    <3>3. CASE WearOut
      BY <3>3 DEF WearOut
    <3>4. CASE \E i \in Machines, n \in Serials : OtherMedium(i, n)
      BY <3>4 DEF OtherMedium
    <3>5. QED
      BY <2>6, <3>1, <3>2, <3>3, <3>4 DEF Elements
  <2>7. CASE UNCHANGED vars
    BY <2>7 DEF vars
  <2>8. CASE Onwards
    <3>1. CASE LookAgain \/ RunOn
      BY <3>1 DEF LookAgain, RunOn, Unmoved, medium, observers
    <3>2. CASE Swapped
      BY <3>2, BlankTyped DEF Swapped, GiveUp, medium, observers
    <3>3. QED
      BY <2>8, <3>1, <3>2 DEF Onwards
  <2>9. QED
    BY <2>1, <2>2, <2>3, <2>4, <2>5, <2>6, <2>7, <2>8 DEF Step
<1>3. QED
  BY <1>1, <1>2, PTL DEF BothSpec

\* ... and a step of the boots alone is one of those, ...
LEMMA NextIsStep == Next => Step
<1>1. Check => Asked
  BY DEF Check, Asked, DeclineOlder, AlreadyCarried, Take
<1>2. TornState => TornAtRest
  BY DEF TornState, TornAtRest
<1>3. QED
  BY <1>1, <1>2 DEF Next, Step, Environment, Elements

\* ... so all that is proved of both is so of them, ...
LEMMA BootsAlike == Spec => BothSpec
  BY NextIsStep, PTL DEF Spec, BothSpec

\* ... the types to begin with.
THEOREM TypeCorrect == Spec => []TypeOK
  BY BothTyped, BootsAlike

------------------------------------------------------------------------------
(* The books.                                                              *)

\* Of two numbers, Larger is one and no smaller than either.
LEMMA LargerIsLarger ==
    ASSUME NEW a \in Nat, NEW b \in Nat
    PROVE  /\ Larger(a, b) \in Nat
           /\ Larger(a, b) >= a /\ Larger(a, b) >= b
           /\ Larger(a, b) = a \/ Larger(a, b) = b
  BY DEF Larger

\* The floor of a state: no lower than its minimum, what failed, and what it
\* holds (or would go back to).
FloorOf(s) == Larger(Larger(s.min, s.failed),
                     IF s.trial = 0 THEN s.serial ELSE s.prev)

\* floor is at least every serial that was settled, and is one of them.
LEMMA FloorIsMaximum ==
    ASSUME NEW s \in State
    PROVE  /\ FloorOf(s) \in Nat
           /\ FloorOf(s) >= s.min /\ FloorOf(s) >= s.failed
           /\ s.trial = 0 => FloorOf(s) >= s.serial
           /\ s.trial # 0 => FloorOf(s) >= s.prev
           /\ FloorOf(s) \in {s.min, s.failed,
                              IF s.trial = 0 THEN s.serial ELSE s.prev}
<1>1. s.min \in Nat /\ s.failed \in Nat /\ s.serial \in Nat /\ s.prev \in Nat
  BY StateFields, BoundsNat
<1> DEFINE u == Larger(s.min, s.failed)
           v == IF s.trial = 0 THEN s.serial ELSE s.prev
<1>2. v \in Nat
  BY <1>1
<1>3. u \in Nat /\ u >= s.min /\ u >= s.failed /\ (u = s.min \/ u = s.failed)
  BY <1>1, LargerIsLarger
<1>4. FloorOf(s) = Larger(u, v)
  BY DEF FloorOf
<1>5. /\ Larger(u, v) \in Nat /\ Larger(u, v) >= u /\ Larger(u, v) >= v
      /\ Larger(u, v) = u \/ Larger(u, v) = v
  <2> HIDE DEF u, v
  <2>1. QED
    BY <1>2, <1>3, LargerIsLarger
<1>6. /\ s.trial = 0 => v = s.serial
      /\ s.trial # 0 => v = s.prev
  OBVIOUS
<1>7. QED
  <2> HIDE DEF u
  <2>1. QED
    BY <1>1, <1>2, <1>3, <1>4, <1>5, <1>6

\* The fields of a state with no trial.
LEMMA AtRestFields ==
    ASSUME NEW a, NEW b, NEW c
    PROVE  /\ AtRest(a, b, c).serial = a /\ AtRest(a, b, c).min = b
           /\ AtRest(a, b, c).failed = c
           /\ AtRest(a, b, c).trial = 0 /\ AtRest(a, b, c).prev = 0
  BY DEF AtRest

\* A serial verdict lets through is above the floor and everything settled.
LEMMA TakenAboveFloor ==
    ASSUME TypeOK, SettledBelowFloor, NEW m \in Serials, MayTake(m, state)
    PROVE  state.trial = 0 /\ m > Floor /\ \A n \in settled : m > n
<1>1. state \in State /\ settled \subseteq Nat /\ m \in Nat
  BY BoundsNat DEF TypeOK
<1>2. Floor = FloorOf(state)
  BY DEF Floor, FloorOf
<1>3. state.serial \in Nat /\ state.min \in Nat /\ state.failed \in Nat
  BY <1>1, StateFields, BoundsNat
<1>4. state.trial = 0 /\ m > state.serial /\ m > state.min /\ m > state.failed
  <2>1. /\ Larger(state.serial, state.min) \in Nat
        /\ Larger(state.serial, state.min) >= state.serial
        /\ Larger(state.serial, state.min) >= state.min
    BY <1>3, LargerIsLarger
  <2>2. m > Larger(state.serial, state.min) /\ m > state.failed
    BY DEF MayTake
  <2>3. state.trial = 0
    BY DEF MayTake
  <2>4. QED
    BY <1>1, <1>3, <2>1, <2>2, <2>3
<1>5. m > Floor
  BY <1>1, <1>2, <1>4, FloorIsMaximum
<1>6. ASSUME NEW n \in settled PROVE m > n
  <2>1. n <= Floor
    BY <1>1, <1>2, <1>4, FloorIsMaximum DEF SettledBelowFloor
  <2>2. QED
    BY <1>1, <1>2, <1>5, <2>1, FloorIsMaximum
<1>7. QED
  BY <1>4, <1>5, <1>6

------------------------------------------------------------------------------
(* What every step owes: the books stay in order, the step is one of the   *)
(* abstract medium's or none, and a trial begins above everything settled. *)

Kept == /\ Books'
        /\ [Promise!Next]_(Promise!vars)
        /\ state.trial = 0 /\ state'.trial # 0 =>
             \A n \in settled : state'.trial > n

\* A step that leaves the state and the settled serials alone keeps them if it
\* does not move a phase's own facts under it.
LEMMA QuietStep ==
    ASSUME Books, UNCHANGED <<state, settled>>,
           pc' \in {"drop", "write", "record"} =>
             pc \in {"drop", "write", "record"} /\ UNCHANGED <<mem, want>>,
           pc' \in {"swap", "back"} =>
             pc \in {"swap", "back"} /\ UNCHANGED mem,
           pc' = "revert" => state.trial # 0,
           pc' = "good" => trialing' # 0
    PROVE  Kept
<1>1. Floor' = Floor
  BY DEF Floor
<1>2. UpdateInHand'
  BY <1>1 DEF Books, UpdateInHand
<1>3. SwapInHand'
  BY DEF Books, SwapInHand
<1>4. TrialOfSerial' /\ SettledBelowFloor'
  BY <1>1 DEF Books, TrialOfSerial, SettledBelowFloor
<1>5. UNCHANGED Promise!vars
  BY <1>1 DEF Promise!vars
<1>6. QED
  BY <1>2, <1>3, <1>4, <1>5 DEF Kept, Books

\* The floor, as the abstract steps see it.
LEMMA FloorFacts ==
    ASSUME TypeOK
    PROVE  /\ Floor = FloorOf(state) /\ Floor \in Nat
           /\ state.serial \in Nat /\ state.min \in Nat /\ state.failed \in Nat
           /\ state.trial \in Nat /\ state.prev \in Nat
           /\ Floor >= state.min /\ Floor >= state.failed
           /\ state.trial = 0 => Floor >= state.serial
           /\ state.trial # 0 => Floor >= state.prev
           /\ settled \subseteq Nat
<1>1. state \in State /\ settled \subseteq Nat
  BY BoundsNat DEF TypeOK
<1>2. Floor = FloorOf(state)
  BY DEF Floor, FloorOf
<1>3. QED
  BY <1>1, <1>2, FloorIsMaximum, StateFields, BoundsNat

\* The start of a trial keeps the books and the promise.
LEMMA StartTrialKept ==
    ASSUME TypeOK, Books, StartTrial PROVE Kept
<1>1. CASE UNCHANGED state
  BY <1>1, QuietStep DEF StartTrial, observers
<1>2. CASE state' = [state EXCEPT !.starts = @ + 1]
  <2>1. state \in State
    BY DEF TypeOK
  <2>2. /\ state'.serial = state.serial /\ state'.min = state.min
        /\ state'.failed = state.failed /\ state'.trial = state.trial
        /\ state'.prev = state.prev
    BY <1>2, <2>1 DEF State
  <2>3. Floor' = Floor /\ settled' = settled /\ pc' = "up"
    BY <2>2 DEF Floor, StartTrial, observers
  <2>4. Books'
    BY <2>2, <2>3
       DEF Books, UpdateInHand, SwapInHand, TrialOfSerial, SettledBelowFloor
  <2>5. UNCHANGED Promise!vars
    BY <2>2, <2>3 DEF Promise!vars
  <2>6. QED
    BY <2>2, <2>4, <2>5 DEF Kept
<1>3. QED
  BY <1>1, <1>2 DEF StartTrial, WriteState

\* A failed trial is the abstract medium's Fail.
LEMMA RecordFailedKept ==
    ASSUME TypeOK, Books, RecordFailed PROVE Kept
<1>1. /\ pc = "revert" /\ pc' = "chain"
      /\ settled' = settled \cup {state.trial}
      /\ state.trial # 0 /\ state.trial > Floor
  BY DEF RecordFailed, Books, TrialOfSerial
<1> USE FloorFacts
<1>2. CASE UNCHANGED state
  <2>1. Floor' = Floor
    BY <1>2 DEF Floor
  <2>2. Books'
    BY <1>1, <1>2, <2>1
       DEF Books, UpdateInHand, SwapInHand, TrialOfSerial, SettledBelowFloor
  <2>3. UNCHANGED Promise!vars
    BY <1>2, <2>1 DEF Promise!vars
  <2>4. QED
    BY <1>1, <1>2, <2>2, <2>3 DEF Kept
<1>3. CASE state' = AtRest(state.prev, state.min,
                           Larger(state.failed, state.trial))
  <2>1. Larger(state.failed, state.trial) = state.trial
    BY <1>1 DEF Larger
  <2>2. /\ state'.serial = state.prev /\ state'.min = state.min
        /\ state'.failed = state.trial /\ state'.trial = 0 /\ state'.prev = 0
    BY <1>3, <2>1, AtRestFields
  <2>3. Floor' = state.trial
    <3>1. Floor' = Larger(Larger(state.min, state.trial), state.prev)
      BY <2>2 DEF Floor
    <3>2. Larger(state.min, state.trial) = state.trial
      BY <1>1 DEF Larger
    <3>3. Larger(state.trial, state.prev) = state.trial
      BY <1>1 DEF Larger
    <3>4. QED
      BY <3>1, <3>2, <3>3
  <2>4. Books'
    <3>1. UpdateInHand' /\ SwapInHand'
      BY <1>1 DEF UpdateInHand, SwapInHand
    <3>2. TrialOfSerial'
      BY <1>1, <2>2 DEF TrialOfSerial
    <3>3. SettledBelowFloor'
      BY <1>1, <2>3 DEF Books, SettledBelowFloor
    <3>4. QED
      BY <3>1, <3>2, <3>3 DEF Books
  <2>5. Promise!Fail
    BY <1>1, <2>2, <2>3 DEF Promise!Fail
  <2>6. QED
    BY <2>2, <2>4, <2>5 DEF Kept, Promise!Next
<1>4. QED
  BY <1>2, <1>3 DEF RecordFailed, WriteState

\* A passed trial is Pass, or nothing yet when the state was not written.
LEMMA MarkGoodKept ==
    ASSUME TypeOK, Books, MarkGood PROVE Kept
<1>1. /\ pc = "good" /\ pc' = "nv" /\ state.trial = trialing
      /\ settled' = settled \cup {state.trial}
      /\ state.trial # 0 /\ state.trial > Floor /\ state.serial = state.trial
  BY DEF MarkGood, Books, TrialOfSerial
<1> USE FloorFacts
<1>2. CASE UNCHANGED state
  <2>1. Floor' = Floor
    BY <1>2 DEF Floor
  <2>2. Books'
    BY <1>1, <1>2, <2>1
       DEF Books, UpdateInHand, SwapInHand, TrialOfSerial, SettledBelowFloor
  <2>3. UNCHANGED Promise!vars
    BY <1>2, <2>1 DEF Promise!vars
  <2>4. QED
    BY <1>1, <1>2, <2>2, <2>3 DEF Kept
<1>3. CASE state' = AtRest(trialing, Larger(state.min, trialing), state.failed)
  <2>1. Larger(state.min, trialing) = state.trial
    BY <1>1 DEF Larger
  <2>2. /\ state'.serial = state.trial /\ state'.min = state.trial
        /\ state'.failed = state.failed /\ state'.trial = 0 /\ state'.prev = 0
    BY <1>1, <1>3, <2>1, AtRestFields
  <2>3. Floor' = state.trial
    <3>1. Floor' = Larger(Larger(state.trial, state.failed), state.trial)
      BY <2>2 DEF Floor
    <3>2. Larger(state.trial, state.failed) = state.trial
      BY <1>1 DEF Larger
    <3>3. QED
      BY <3>1, <3>2 DEF Larger
  <2>4. Books'
    <3>1. UpdateInHand' /\ SwapInHand'
      BY <1>1 DEF UpdateInHand, SwapInHand
    <3>2. TrialOfSerial'
      BY <1>1, <2>2 DEF TrialOfSerial
    <3>3. SettledBelowFloor'
      BY <1>1, <2>3 DEF Books, SettledBelowFloor
    <3>4. QED
      BY <3>1, <3>2, <3>3 DEF Books
  <2>5. Promise!Pass
    BY <1>1, <2>2, <2>3 DEF Promise!Pass
  <2>6. QED
    BY <2>2, <2>4, <2>5 DEF Kept, Promise!Next
<1>4. QED
  BY <1>2, <1>3 DEF MarkGood, WriteState

\* A serial settled without a trial raises the floor to itself.
LEMMA SettledWithoutTrial ==
    ASSUME TypeOK, Books, NEW m \in Serials,
           pc' = "ready", MayTake(m, state),
           state'.serial \in {state.serial, m}, state'.trial = 0,
           state'.prev = state.prev, Floor' = m,
           settled' \subseteq settled \cup {m}
    PROVE  Kept
<1> USE FloorFacts
<1>1. state.trial = 0 /\ m > Floor /\ \A n \in settled : m > n
  BY TakenAboveFloor DEF Books
<1>2. Books'
  <2>1. UpdateInHand' /\ SwapInHand'
    BY DEF UpdateInHand, SwapInHand
  <2>2. TrialOfSerial'
    BY <1>1 DEF Books, TrialOfSerial
  <2>3. SettledBelowFloor'
    BY <1>1, BoundsNat DEF SettledBelowFloor
  <2>4. QED
    BY <2>1, <2>2, <2>3 DEF Books
<1>3. Promise!Settle(m)
  BY <1>1 DEF Promise!Settle
<1>4. QED
  BY <1>2, <1>3 DEF Kept, Promise!Next

\* Declining an older release keeps the books and the promise.
LEMMA SetFloorKept ==
    ASSUME TypeOK, Books, NEW m \in Serials, SetFloor(m) PROVE Kept
<1> USE FloorFacts
<1>1. state.trial = 0 /\ m > Floor
  BY TakenAboveFloor DEF Books, SetFloor
<1>2. CASE state' = state
  BY <1>2, QuietStep DEF SetFloor
<1>3. CASE state' = [state EXCEPT !.min = Larger(@, m)]
  <2>1. Larger(state.min, m) = m
    BY <1>1 DEF Larger
  <2>2. state \in State
    BY DEF TypeOK
  <2>3. /\ state'.serial = state.serial /\ state'.min = m
        /\ state'.failed = state.failed /\ state'.trial = 0
        /\ state'.prev = state.prev
    BY <1>1, <1>3, <2>1, <2>2 DEF State
  <2>4. Floor' = m
    <3>1. Floor' = Larger(Larger(m, state.failed), state.serial)
      BY <2>3 DEF Floor
    <3>2. Larger(m, state.failed) = m /\ Larger(m, state.serial) = m
      BY <1>1 DEF Larger
    <3>3. QED
      BY <3>1, <3>2
  <2>5. pc' = "ready" /\ MayTake(m, state) /\ settled' \subseteq settled \cup {m}
    BY DEF SetFloor
  <2>6. QED
    BY <2>3, <2>4, <2>5, SettledWithoutTrial
<1>4. QED
  BY <1>2, <1>3 DEF SetFloor, WriteState

\* Finding the set already carried keeps the books and the promise.
LEMMA SetSerialKept ==
    ASSUME TypeOK, Books, NEW m \in Serials, SetSerial(m) PROVE Kept
<1> USE FloorFacts
<1>1. state.trial = 0 /\ m > Floor
  BY TakenAboveFloor DEF Books, SetSerial
<1>2. CASE state' = state
  BY <1>2, QuietStep DEF SetSerial
<1>3. CASE state' = [state EXCEPT !.serial = m]
  <2>1. state \in State
    BY DEF TypeOK
  <2>2. /\ state'.serial = m /\ state'.min = state.min
        /\ state'.failed = state.failed /\ state'.trial = 0
        /\ state'.prev = state.prev
    BY <1>1, <1>3, <2>1 DEF State
  <2>3. Floor' = m
    <3>1. Floor' = Larger(Larger(state.min, state.failed), m)
      BY <2>2 DEF Floor
    <3>2. Larger(state.min, state.failed) \in {state.min, state.failed}
      BY DEF Larger
    <3>3. Larger(Larger(state.min, state.failed), m) = m
      BY <1>1, <3>2 DEF Larger
    <3>4. QED
      BY <3>1, <3>3
  <2>4. pc' = "ready" /\ MayTake(m, state) /\ settled' \subseteq settled \cup {m}
    BY DEF SetSerial
  <2>5. QED
    BY <2>2, <2>3, <2>4, SettledWithoutTrial
<1>4. QED
  BY <1>2, <1>3 DEF SetSerial, WriteState

\* Taking a release keeps the books and the promise.
LEMMA BeginKept ==
    ASSUME TypeOK, Books, NEW m \in Serials, Begin(m) PROVE Kept
<1>1. state.trial = 0 /\ m > Floor /\ \A n \in settled : m > n
  BY TakenAboveFloor DEF Books, Begin
<1>2. /\ pc' = "drop" /\ want' = m /\ mem' = state
      /\ state' = state /\ settled' = settled
  BY DEF Begin, observers
<1>3. Floor' = Floor
  BY <1>2 DEF Floor
<1>4. Books'
  <2>1. UpdateInHand' /\ SwapInHand'
    BY <1>1, <1>2, <1>3 DEF UpdateInHand, SwapInHand
  <2>2. TrialOfSerial' /\ SettledBelowFloor'
    BY <1>2, <1>3 DEF Books, TrialOfSerial, SettledBelowFloor
  <2>3. QED
    BY <2>1, <2>2 DEF Books
<1>5. UNCHANGED Promise!vars
  BY <1>2, <1>3 DEF Promise!vars
<1>6. QED
  BY <1>2, <1>4, <1>5 DEF Kept

\* The trial's record is the abstract medium's Try.
LEMMA RecordTrialKept ==
    ASSUME TypeOK, Books, RecordTrial PROVE Kept
<1> USE FloorFacts
<1>1. /\ pc = "record" /\ pc' = "swap" /\ mem' = mem /\ settled' = settled
      /\ mem = state /\ state.trial = 0 /\ want > Floor
      /\ \A n \in settled : want > n
  BY DEF RecordTrial, Books, UpdateInHand
<1>2. /\ state'.serial = want /\ state'.min = state.min
      /\ state'.failed = state.failed /\ state'.trial = want
      /\ state'.prev = state.serial
  BY <1>1 DEF RecordTrial
<1>3. want \in Serials /\ want # 0
  BY <1>1, BoundsNat DEF TypeOK
<1>4. Floor' = Floor
  BY <1>1, <1>2, <1>3 DEF Floor
<1>5. Books'
  <2>1. UpdateInHand'
    BY <1>1 DEF UpdateInHand
  <2>2. SwapInHand'
    BY <1>1, <1>2, <1>3 DEF SwapInHand, Books, TrialOfSerial
  <2>3. TrialOfSerial'
    BY <1>1, <1>2, <1>3, <1>4 DEF TrialOfSerial
  <2>4. SettledBelowFloor'
    BY <1>1, <1>4 DEF Books, SettledBelowFloor
  <2>5. QED
    BY <2>1, <2>2, <2>3, <2>4 DEF Books
<1>6. Promise!Try(want)
  BY <1>1, <1>2, <1>4 DEF Promise!Try
<1>7. QED
  BY <1>1, <1>2, <1>3, <1>5, <1>6 DEF Kept, Promise!Next

\* A swap that failed is Abandon, or nothing when the state was not written.
LEMMA RestoreStateKept ==
    ASSUME TypeOK, Books, RestoreState PROVE Kept
<1> USE FloorFacts
<1>1. /\ pc = "back" /\ pc' = "ready" /\ settled' = settled
      /\ state.trial # 0 /\ mem.serial = state.prev /\ mem.prev = 0
      /\ mem.trial = 0 /\ mem.min = state.min /\ mem.failed = state.failed
      /\ \A n \in settled : state.trial > n
  BY DEF RestoreState, GiveUp, observers, Books, SwapInHand
<1>2. CASE UNCHANGED state
  BY <1>1, <1>2, QuietStep
<1>3. CASE state' = mem
  <2>1. Floor' = Floor
    BY <1>1, <1>3 DEF Floor
  <2>2. Books'
    <3>1. UpdateInHand' /\ SwapInHand'
      BY <1>1 DEF UpdateInHand, SwapInHand
    <3>2. TrialOfSerial'
      BY <1>1, <1>3 DEF TrialOfSerial
    <3>3. SettledBelowFloor'
      BY <1>1, <2>1 DEF Books, SettledBelowFloor
    <3>4. QED
      BY <3>1, <3>2, <3>3 DEF Books
  <2>3. Promise!Abandon
    BY <1>1, <1>3, <2>1 DEF Promise!Abandon
  <2>4. QED
    BY <1>1, <1>3, <2>2, <2>3 DEF Kept, Promise!Next
<1>4. QED
  BY <1>2, <1>3 DEF RestoreState, WriteState

------------------------------------------------------------------------------
(* Every step.                                                             *)

\* Every step that does not lose the state file keeps the books and the promise.
LEMMA StepKept ==
    ASSUME TypeOK, Books, [Step]_vars, "torn" \notin hurt' PROVE Kept
<1> USE DEF observers
<1>1. CASE Start
  <2>1. CASE PowerOn
    BY <2>1, QuietStep DEF PowerOn
  <2>2. CASE StartUnread
    BY <2>2, QuietStep DEF StartUnread
  <2>3. CASE StartNormal
    BY <2>3, QuietStep DEF StartNormal
  <2>4. CASE StartRevert
    BY <2>4, QuietStep DEF StartRevert
  <2>5. QED
    BY <1>1, <2>1, <2>2, <2>3, <2>4, StartTrialKept DEF Start
<1>2. CASE Revert
  <2>1. ASSUME NEW p \in Paths,
               \/ RevertDelete(p) \/ RevertRename(p) \/ RevertRemove(p)
               \/ RevertKeep(p) \/ RevertError(p)
        PROVE  Kept
    <3>1. UNCHANGED <<state, settled, pc, mem>> /\ pc \in {"revert", "back"}
      BY <2>1 DEF RevertDelete, RevertRename, RevertRemove, RevertKeep,
                  RevertError, Reverting
    <3>2. pc = "revert" => state.trial # 0
      BY DEF Books, TrialOfSerial
    <3>3. QED
      BY <3>1, <3>2, QuietStep
  <2>2. CASE ChainLoad
    BY <2>2, QuietStep DEF ChainLoad
  <2>3. CASE ChainFails
    BY <2>3, QuietStep DEF ChainFails, Forget
  <2>4. QED
    BY <1>2, <2>1, <2>2, <2>3, RecordFailedKept DEF Revert
<1>3. CASE Asked
  <2>1. CASE Decline
    BY <2>1, QuietStep DEF Decline
  <2>2. QED
    BY <1>3, <2>1, SetFloorKept, SetSerialKept, BeginKept DEF Asked
<1>4. CASE Apply
  <2>1. ASSUME NEW p \in Paths,
               DropPrev(p) \/ WriteNew(p) \/ SwapOut(p) \/ SwapIn(p)
        PROVE  Kept
    <3>1. /\ UNCHANGED <<state, settled, pc, mem, want>>
          /\ pc \in {"drop", "write", "swap"}
      BY <2>1 DEF DropPrev, WriteNew, SwapOut, SwapIn
    <3>2. QED
      BY <3>1, QuietStep
  <2>2. CASE DropFails \/ WriteFails \/ RecordFails
    BY <2>2, QuietStep DEF DropFails, WriteFails, RecordFails, GiveUp
  <2>3. CASE BeginWrite \/ CarryIdentity
    BY <2>3, QuietStep DEF BeginWrite, CarryIdentity
  <2>4. CASE SwapFails
    BY <2>4, QuietStep DEF SwapFails
  <2>5. CASE SwapDone
    BY <2>5, QuietStep DEF SwapDone, Forget
  <2>6. QED
    BY <1>4, <2>1, <2>2, <2>3, <2>4, <2>5, RecordTrialKept, RestoreStateKept
       DEF Apply
<1>5. CASE Settle
  <2>1. CASE Attach
    BY <2>1, QuietStep DEF Attach
  <2>2. CASE MarkNothing
    BY <2>2, QuietStep DEF MarkNothing
  <2>3. CASE RaiseNvMin
    BY <2>3, QuietStep DEF RaiseNvMin
  <2>4. CASE Restart
    BY <2>4, QuietStep DEF Restart, Forget
  <2>5. QED
    BY <1>5, <2>1, <2>2, <2>3, <2>4, MarkGoodKept DEF Settle
<1>6. CASE Elements
  <2>1. CASE PowerLoss
    BY <2>1, QuietStep DEF PowerLoss, Forget
  <2>2. ~TornAtRest
    BY DEF TornAtRest, TornWrite, Fails
  <2>3. CASE WearOut
    <3>1. pc = "revert" => state.trial # 0
      BY DEF Books, TrialOfSerial
    <3>2. pc = "good" => trialing # 0
      BY DEF Books, TrialOfSerial
    <3>3. QED
      BY <2>3, <3>1, <3>2, QuietStep DEF WearOut
  <2>4. CASE \E i \in Machines, n \in Serials : OtherMedium(i, n)
    BY <2>4, QuietStep DEF OtherMedium
  <2>5. QED
    BY <1>6, <2>1, <2>2, <2>3, <2>4 DEF Elements
<1>7. CASE UNCHANGED vars
  <2>1. pc = "revert" => state.trial # 0
    BY DEF Books, TrialOfSerial
  <2>2. pc = "good" => trialing # 0
    BY DEF Books, TrialOfSerial
  <2>3. QED
    BY <1>7, <2>1, <2>2, QuietStep DEF vars
<1>8. CASE Onwards
  BY <1>8, QuietStep DEF Onwards, LookAgain, RunOn, Unmoved, Swapped, GiveUp
<1>9. QED
  BY <1>1, <1>2, <1>3, <1>4, <1>5, <1>6, <1>7, <1>8 DEF Step

\* The books are in order, and the promise begins, on a medium just written.
LEMMA InitialBooks == Init => Books /\ Promise!Init
<1> SUFFICES ASSUME Init PROVE Books /\ Promise!Init
  OBVIOUS
<1>1. /\ state.serial = 0 /\ state.min = 0 /\ state.failed = 0
      /\ state.trial = 0 /\ state.prev = 0
  BY AtRestFields DEF Init, Blank
<1>2. Floor = 0
  BY <1>1 DEF Floor, Larger
<1>3. QED
  BY <1>1, <1>2 DEF Init, Books, UpdateInHand, SwapInHand, TrialOfSerial,
                    SettledBelowFloor, Promise!Init

\* What has happened to the state file has happened for good.
LEMMA HurtGrows == [Step]_vars => hurt \subseteq hurt'
<1> SUFFICES ASSUME [Step]_vars PROVE hurt \subseteq hurt'
  OBVIOUS
<1> USE DEF budget, Works, Fails
<1>1. CASE Start
  BY <1>1 DEF Start, PowerOn, StartUnread, StartNormal, StartTrial, StartRevert,
              WriteState
<1>2. CASE Revert
  BY <1>2 DEF Revert, RevertDelete, RevertRename, RevertRemove, RevertKeep,
              RevertError, RecordFailed, ChainLoad, ChainFails, WriteState
<1>3. CASE Asked
  BY <1>3 DEF Asked, Decline, SetFloor, SetSerial, Begin, WriteState
<1>4. CASE Apply
  <2>1. CASE \E p \in Paths : \/ DropPrev(p) \/ WriteNew(p)
                             \/ SwapOut(p) \/ SwapIn(p)
    BY <2>1 DEF DropPrev, WriteNew, SwapOut, SwapIn
  <2>2. CASE DropFails \/ BeginWrite \/ WriteFails \/ CarryIdentity
    BY <2>2 DEF DropFails, BeginWrite, WriteFails, CarryIdentity, GiveUp
  <2>3. CASE \/ RecordTrial \/ RecordFails \/ SwapFails \/ RestoreState
             \/ SwapDone
    BY <2>3 DEF RecordTrial, RecordFails, SwapFails, RestoreState, SwapDone,
                GiveUp, WriteState
  <2>4. QED
    BY <1>4, <2>1, <2>2, <2>3 DEF Apply
<1>5. CASE Settle
  BY <1>5 DEF Settle, Attach, MarkNothing, MarkGood, RaiseNvMin, Restart,
              WriteState
<1>6. CASE Elements
  BY <1>6 DEF Elements, PowerLoss, TornAtRest, TornWrite, WearOut,
              OtherMedium
<1>7. CASE UNCHANGED vars
  BY <1>7 DEF vars
<1>8. CASE Onwards
  BY <1>8 DEF Onwards, LookAgain, RunOn, Unmoved, Swapped
<1>9. QED
  BY <1>1, <1>2, <1>3, <1>4, <1>5, <1>6, <1>7, <1>8 DEF Step

\* The books of a medium whose state file was not lost.
BooksUnlessTorn == "torn" \notin hurt => Books

\* As long as the state file is not lost, the books are always in order, whoever
\* writes it ...
LEMMA BothBooks == BothSpec => []BooksUnlessTorn
<1>1. Init => BooksUnlessTorn
  BY InitialBooks DEF BooksUnlessTorn
<1>2. TypeOK /\ BooksUnlessTorn /\ [Step]_vars => BooksUnlessTorn'
  BY StepKept, HurtGrows DEF Kept, BooksUnlessTorn
<1>3. QED
  BY <1>1, <1>2, BothTyped, PTL DEF BothSpec

\* ... in the boots alone as well.
THEOREM BooksInOrder == Spec => []BooksUnlessTorn
  BY BothBooks, BootsAlike

\* As long as the state file is not lost, both keep the promise of MediumPromise ...
LEMMA BothKeep == BothSpec => KeepsPromise
<1>1. TypeOK /\ BooksUnlessTorn /\ [Step]_vars =>
        ["torn" \notin hurt' => [Promise!Next]_(Promise!vars)]_vars
  BY StepKept, HurtGrows DEF Kept, BooksUnlessTorn
<1>2. Init => Promise!Init
  BY InitialBooks
<1>3. QED
  BY <1>1, <1>2, BothTyped, BothBooks, PTL DEF BothSpec, KeepsPromise

\* ... and so do the boots alone.
THEOREM PromiseKept == Spec => KeepsPromise
  BY BothKeep, BootsAlike

\* No serial that passed, failed or was declined is tried again by either ...
LEMMA BothNeverRetake == BothSpec => NeverRetaken
<1>1. TypeOK /\ BooksUnlessTorn /\ [Step]_vars =>
        [state.trial = 0 /\ state'.trial # 0 /\ "torn" \notin hurt'
           => \A n \in settled : state'.trial > n]_vars
  BY StepKept, HurtGrows DEF Kept, BooksUnlessTorn
<1>2. QED
  BY <1>1, BothTyped, BothBooks, PTL DEF BothSpec, NeverRetaken

\* ... or by the boots alone.
THEOREM NeverBackwards == Spec => NeverRetaken
  BY BothNeverRetake, BootsAlike

------------------------------------------------------------------------------
(* The files.  What an update, a swap and a revert have done to them so     *)
(* far, by the phase they are in; nothing of it is excused by a fault.      *)

\* What an update to m touches.
Touched(m) == Changed(m) \cup Retired(m)

\* What is in hand when a boot is in the middle of something.
InHand ==
    /\ pc \in {"drop", "write", "record", "swap"} => want # 0
    /\ pc \in {"drop", "write", "record"} =>
         state.trial = 0 /\ mem = state
    /\ pc \in {"swap", "back"} =>
         state.trial # 0 /\ mem.trial = 0 /\ mem.serial = state.prev
    /\ pc = "swap" => state.trial = want
    /\ pc = "revert" => state.trial # 0

\* Before the trial is recorded no file it touches has a `.prev`, and every one
\* it changes has its `.new`.
Prepared ==
    /\ pc = "drop" => \A p \in Touched(want) \ todo : prv[p] = None
    /\ pc \in {"write", "record"} => \A p \in Touched(want) : prv[p] = None
    /\ pc = "write" => \A p \in Changed(want) \ todo : new[p] = Release[want][p]
    /\ pc = "record" => \A p \in Changed(want) : new[p] = Release[want][p]

\* A recorded trial knows which of its files were new.
FreshWereNew ==
    state.trial # 0 => \A p \in state.files : p \in state.fresh <=> old[p] = None

\* In the swap a file is the old one, on its way, or the release's.
SwapUnderWay ==
    pc = "swap" =>
      /\ todo \subseteq state.files
      /\ \A p \in state.files : p \in Drivers \/ Release[want][p] # None
      /\ \A p \in todo :
           /\ cur[p] \in {None, old[p]}
           /\ cur[p] = None => Release[want][p] # None
           /\ Release[want][p] # None => new[p] = Release[want][p]
      /\ \A p \in Paths \ todo :
           IF Release[want][p] # None THEN cur[p] = Release[want][p]
                                      ELSE p \in Drivers => cur[p] = None

\* In a revert every file it is done with is back, if none failed to go.
PuttingBack ==
    /\ pc \in {"revert", "back"} =>
         /\ todo \subseteq state.files
         /\ ~worn /\ "putback" \notin hurt => \A p \in Paths \ todo : cur[p] = old[p]
    /\ PutBackWhole

FilesInOrder ==
    InHand /\ Prepared /\ FreshWereNew /\ SwapUnderWay /\ Recoverable /\ PuttingBack

\* Faults are not undone, and a medium that is worn stays so.
Aging == hurt \subseteq hurt' /\ (worn => worn')

\* Wear and faults are never undone by a step.
LEMMA Ages == [Step]_vars => Aging
<1> SUFFICES ASSUME [Step]_vars PROVE worn => worn'
  BY HurtGrows DEF Aging
<1>1. CASE Start
  BY <1>1 DEF Start, PowerOn, StartUnread, StartNormal, StartTrial, StartRevert
<1>2. CASE Revert
  BY <1>2 DEF Revert, RevertDelete, RevertRename, RevertRemove, RevertKeep,
              RevertError, RecordFailed, ChainLoad, ChainFails
<1>3. CASE Asked
  BY <1>3 DEF Asked, Decline, SetFloor, SetSerial, Begin
<1>4. CASE Apply
  BY <1>4 DEF Apply, DropPrev, DropFails, BeginWrite, WriteNew, WriteFails,
              CarryIdentity, RecordTrial, RecordFails, SwapOut, SwapIn,
              SwapFails, RestoreState, SwapDone
<1>5. CASE Settle
  BY <1>5 DEF Settle, Attach, MarkNothing, MarkGood, RaiseNvMin, Restart
<1>6. CASE Elements
  BY <1>6 DEF Elements, PowerLoss, TornAtRest, TornWrite, WearOut,
              OtherMedium
<1>7. CASE UNCHANGED vars
  BY <1>7 DEF vars
<1>8. CASE Onwards
  BY <1>8 DEF Onwards, LookAgain, RunOn, Unmoved, Swapped
<1>9. QED
  BY <1>1, <1>2, <1>3, <1>4, <1>5, <1>6, <1>7, <1>8 DEF Step

\* The phases in which files are being moved, or about to be.
Moving == {"drop", "write", "record", "swap", "back", "revert"}

\* A step that moves no file and either keeps the trial's record or ends the
\* trial, and that begins none of those phases.
LEMMA QuietFiles ==
    ASSUME FilesInOrder, Aging, UNCHANGED <<cur, prv, old>>,
           \/ UNCHANGED state
           \/ state'.trial = 0 /\ pc' \notin Moving
           \/ /\ state'.trial = state.trial /\ state'.files = state.files
              /\ state'.fresh = state.fresh /\ pc' \notin Moving,
           pc' \in Moving => UNCHANGED <<pc, want, todo, mem, new>>,
           pc' = "chain" => pc = "chain"
    PROVE  FilesInOrder'
<1>1. InHand'
  BY DEF FilesInOrder, InHand, Moving
<1>2. Prepared'
  BY DEF FilesInOrder, Prepared, Moving, Touched, Changed, Retired
<1>3. FreshWereNew'
  BY DEF FilesInOrder, FreshWereNew
<1>4. SwapUnderWay'
  BY DEF FilesInOrder, SwapUnderWay, Moving
<1>5. Recoverable'
  BY DEF FilesInOrder, Recoverable, PutBack
<1>6. PuttingBack'
  BY DEF FilesInOrder, PuttingBack, PutBackWhole, Moving, Aging
<1>7. QED
  BY <1>1, <1>2, <1>3, <1>4, <1>5, <1>6 DEF FilesInOrder

\* What a step of the putting back leaves alone, and what it does to its path.
LEMMA RevertFiles ==
    ASSUME TypeOK, FilesInOrder, Aging, NEW p \in Paths,
           \/ RevertDelete(p) \/ RevertRename(p) \/ RevertRemove(p)
           \/ RevertKeep(p) \/ RevertError(p)
    PROVE  FilesInOrder'
<1>1. /\ pc \in {"revert", "back"} /\ UNCHANGED <<pc, state, want, mem, old>>
      /\ p \in todo
  BY DEF RevertDelete, RevertRename, RevertRemove, RevertKeep, RevertError,
         Reverting, First, observers
<1>2. cur \in [Paths -> Contents \cup {None}] /\ prv \in [Paths -> Contents \cup {None}]
  BY DEF TypeOK, Files
<1>3. todo \subseteq state.files /\ state.trial # 0
  BY <1>1 DEF FilesInOrder, PuttingBack, InHand
<1>4. \A q \in Paths : (IF q \in state.files THEN PutBack(q) ELSE cur[q]) = old[q]
  BY <1>3 DEF FilesInOrder, Recoverable
<1>5. p \in state.fresh <=> old[p] = None
  BY <1>1, <1>3 DEF FilesInOrder, FreshWereNew
<1>6. PutBack(p) = old[p]
  BY <1>1, <1>3, <1>4
<1>7. InHand' /\ Prepared' /\ FreshWereNew' /\ SwapUnderWay'
  BY <1>1 DEF FilesInOrder, InHand, Prepared, FreshWereNew, SwapUnderWay
<1>8. /\ \A q \in Paths \ {p} : cur'[q] = cur[q] /\ prv'[q] = prv[q]
      /\ PutBack(p)' = old[p]
      /\ \/ todo' = todo
         \/ todo' = todo \ {p} /\ (cur'[p] = old[p] \/ worn' \/ "putback" \in hurt')
  <2>1. CASE RevertDelete(p)
    BY <2>1, <1>1, <1>2, <1>6 DEF RevertDelete, PutBack
  <2>2. CASE RevertRename(p)
    <3>1. prv[p] = old[p] /\ p \notin state.fresh
      BY <2>2, <1>5, <1>6 DEF RevertRename, PutBack
    <3>2. QED
      BY <2>2, <3>1, <1>1, <1>2 DEF RevertRename, PutBack
  <2>3. CASE RevertRemove(p)
    BY <2>3, <1>1, <1>2, <1>5 DEF RevertRemove, PutBack
  <2>4. CASE RevertKeep(p)
    BY <2>4, <1>1, <1>6 DEF RevertKeep, PutBack
  <2>5. CASE RevertError(p)
    BY <2>5, <1>1, <1>6 DEF RevertError, PutBack, Fails
  <2>6. QED
    BY <2>1, <2>2, <2>3, <2>4, <2>5
<1>9. Recoverable'
  <2>1. ASSUME NEW q \in Paths
        PROVE  (IF q \in state.files THEN PutBack(q)' ELSE cur'[q]) = old[q]
    <3>1. CASE q = p
      BY <3>1, <1>1, <1>3, <1>8
    <3>2. CASE q # p
      BY <3>2, <1>1, <1>4, <1>8 DEF PutBack
    <3>3. QED
      BY <3>1, <3>2
  <2>2. QED
    BY <2>1, <1>1 DEF Recoverable, PutBack
<1>10. PuttingBack'
  <2>1. todo' \subseteq state'.files
    BY <1>1, <1>3, <1>8
  <2>2. ASSUME ~worn', "putback" \notin hurt', NEW q \in Paths \ todo'
        PROVE  cur'[q] = old'[q]
    <3>1. CASE q = p
      BY <3>1, <2>2, <1>1, <1>8
    <3>2. CASE q # p
      <4>1. q \in Paths \ todo /\ ~worn /\ "putback" \notin hurt
        BY <3>2, <2>2, <1>8 DEF Aging
      <4>2. cur[q] = old[q]
        BY <4>1, <1>1 DEF FilesInOrder, PuttingBack
      <4>3. QED
        BY <3>2, <4>2, <1>1, <1>8
    <3>3. QED
      BY <3>1, <3>2
  <2>3. QED
    BY <2>1, <2>2, <1>1 DEF PuttingBack, PutBackWhole
<1>11. QED
  BY <1>7, <1>9, <1>10 DEF FilesInOrder

\* Every file put back, the record says so: what is in place is the old set.
LEMMA RecordFailedFiles ==
    ASSUME TypeOK, FilesInOrder, Aging, RecordFailed
    PROVE  FilesInOrder'
<1>1. /\ pc = "revert" /\ pc' = "chain" /\ todo = {}
      /\ UNCHANGED <<cur, prv, new, old>>
      /\ state' = state \/ state'.trial = 0
  BY AtRestFields DEF RecordFailed, WriteState, medium
<1>2. InHand' /\ Prepared' /\ SwapUnderWay'
  BY <1>1 DEF InHand, Prepared, SwapUnderWay
<1>3. FreshWereNew' /\ Recoverable'
  BY <1>1 DEF FilesInOrder, FreshWereNew, Recoverable, PutBack
<1>4. PuttingBack'
  <2>1. ASSUME ~worn', "putback" \notin hurt' PROVE cur' = old'
    <3>1. \A q \in Paths : cur[q] = old[q]
      BY <1>1, <2>1 DEF FilesInOrder, PuttingBack, Aging
    <3>2. cur = [q \in Paths |-> cur[q]] /\ old = [q \in Paths |-> old[q]]
      BY DEF TypeOK, Files
    <3>3. QED
      BY <1>1, <3>1, <3>2
  <2>2. QED
    BY <1>1, <2>1 DEF PuttingBack, PutBackWhole
<1>5. QED
  BY <1>2, <1>3, <1>4 DEF FilesInOrder

\* The putting back begins: of the files it is not to touch all are the old ones.
LEMMA BeginPutBack ==
    ASSUME FilesInOrder, StartRevert \/ SwapFails
    PROVE  FilesInOrder'
<1>1. /\ pc' \in {"revert", "back"} /\ todo' = state.files /\ state.trial # 0
      /\ UNCHANGED <<cur, prv, new, old, state, mem>>
      /\ pc' = "back" => pc = "swap"
  BY DEF StartRevert, SwapFails, medium, observers, FilesInOrder, InHand
<1>2. InHand' /\ Prepared' /\ SwapUnderWay'
  BY <1>1 DEF FilesInOrder, InHand, Prepared, SwapUnderWay
<1>3. FreshWereNew' /\ Recoverable'
  BY <1>1 DEF FilesInOrder, FreshWereNew, Recoverable, PutBack
<1>4. \A q \in Paths \ state.files : cur[q] = old[q]
  BY <1>1 DEF FilesInOrder, Recoverable
<1>5. PuttingBack'
  BY <1>1, <1>4 DEF PuttingBack, PutBackWhole
<1>6. QED
  BY <1>2, <1>3, <1>5 DEF FilesInOrder

\* An update begins, and nothing is touched.
LEMMA BeginFiles ==
    ASSUME FilesInOrder, NEW m \in Serials, Begin(m)
    PROVE  FilesInOrder'
<1>1. /\ pc' = "drop" /\ want' = m /\ mem' = state /\ state.trial = 0 /\ m # 0
      /\ todo' = Touched(m)
      /\ UNCHANGED <<cur, prv, new, old, state>>
  BY BoundsNat DEF Begin, MayTake, Touched, medium, observers
<1>2. InHand' /\ SwapUnderWay' /\ FreshWereNew' /\ Recoverable' /\ PuttingBack'
  BY <1>1 DEF InHand, SwapUnderWay, FreshWereNew, Recoverable, PuttingBack,
              PutBackWhole
<1>3. Touched(want)' = Touched(m)
  BY <1>1 DEF Touched, Changed, Retired
<1>4. Prepared'
  BY <1>1, <1>3 DEF Prepared
<1>5. QED
  BY <1>2, <1>4 DEF FilesInOrder

\* A `.prev` of an earlier update is gone, the `.new` files are all written in
\* turn, and the name is seen to.
LEMMA PreparingFiles ==
    ASSUME TypeOK, FilesInOrder,
           \/ \E p \in Paths : DropPrev(p) \/ WriteNew(p)
           \/ BeginWrite \/ CarryIdentity
    PROVE  FilesInOrder'
<1>1. /\ pc \in {"drop", "write"} /\ pc' \in {"drop", "write", "record"}
      /\ UNCHANGED <<cur, old, state, want, mem>>
  BY DEF DropPrev, WriteNew, BeginWrite, CarryIdentity, medium, observers
<1>2. InHand' /\ SwapUnderWay' /\ FreshWereNew' /\ Recoverable' /\ PuttingBack'
  BY <1>1 DEF FilesInOrder, InHand, SwapUnderWay, FreshWereNew, Recoverable,
              PuttingBack, PutBackWhole
<1>3. Touched(want)' = Touched(want) /\ Changed(want)' = Changed(want)
  BY <1>1 DEF Touched, Changed, Retired
<1>4. prv \in [Paths -> Contents \cup {None}] /\ new \in [Paths -> Contents \cup {None}]
  BY DEF TypeOK, Files
<1>5. Prepared'
  <2>1. ASSUME NEW p \in Paths, DropPrev(p) PROVE Prepared'
    <3>1. /\ pc = "drop" /\ pc' = "drop" /\ todo' = todo \ {p}
          /\ prv' = [prv EXCEPT ![p] = None]
      BY <2>1 DEF DropPrev
    <3>2. \A q \in Touched(want) \ todo : prv[q] = None
      BY <3>1 DEF FilesInOrder, Prepared
    <3>3. \A q \in Paths : q # p => prv'[q] = prv[q]
      BY <3>1, <1>4
    <3>4. Touched(want) \subseteq Paths
      BY PathsAssumption DEF Touched, Changed, Retired
    <3>5. prv'[p] = None
      BY <3>1, <1>4
    <3>6. \A q \in Touched(want) \ todo' : prv'[q] = None
      BY <3>1, <3>2, <3>3, <3>4, <3>5
    <3>7. QED
      BY <3>1, <3>6, <1>1, <1>3 DEF Prepared
  <2>2. CASE BeginWrite
    BY <2>2, <1>1, <1>3 DEF BeginWrite, FilesInOrder, Prepared, medium
  <2>3. ASSUME NEW p \in Paths, WriteNew(p) PROVE Prepared'
    <3>1. /\ pc = "write" /\ pc' = "write" /\ todo' = todo \ {p} /\ prv' = prv
          /\ new' = [new EXCEPT ![p] = Release[want][p]]
      BY <2>3 DEF WriteNew
    <3>2. /\ \A q \in Touched(want) : prv[q] = None
          /\ \A q \in Changed(want) \ todo : new[q] = Release[want][q]
      BY <3>1 DEF FilesInOrder, Prepared
    <3>3. \A q \in Paths : q # p => new'[q] = new[q]
      BY <3>1, <1>4
    <3>4. Changed(want) \subseteq Paths
      BY DEF Changed
    <3>5. new'[p] = Release[want][p]
      BY <3>1, <1>4
    <3>6. \A q \in Changed(want) \ todo' : new'[q] = Release[want][q]
      BY <3>1, <3>2, <3>3, <3>4, <3>5
    <3>7. QED
      BY <3>1, <3>2, <3>6, <1>1, <1>3 DEF Prepared
  <2>4. CASE CarryIdentity
    BY <2>4, <1>1, <1>3 DEF CarryIdentity, FilesInOrder, Prepared, medium
  <2>5. QED
    BY <2>1, <2>2, <2>3, <2>4
<1>6. QED
  BY <1>2, <1>5 DEF FilesInOrder

\* The trial is recorded: no file has moved, all are ready to.
LEMMA RecordTrialFiles ==
    ASSUME TypeOK, FilesInOrder, RecordTrial
    PROVE  FilesInOrder'
<1>1. /\ pc = "record" /\ pc' = "swap" /\ old' = cur /\ todo' = Touched(want)
      /\ state'.trial = want /\ state'.prev = mem.serial
      /\ state'.files = Touched(want)
      /\ state'.fresh = {p \in Changed(want) : cur[p] = None}
      /\ UNCHANGED <<cur, prv, new, want, mem>>
  BY DEF RecordTrial, Touched, medium
<1>2. /\ want # 0 /\ state.trial = 0 /\ mem = state
      /\ \A p \in Touched(want) : prv[p] = None
      /\ \A p \in Changed(want) : new[p] = Release[want][p]
  BY <1>1 DEF FilesInOrder, InHand, Prepared
<1>3. InHand' /\ Prepared' /\ PuttingBack'
  BY <1>1, <1>2 DEF InHand, Prepared, PuttingBack, PutBackWhole
<1>4. \A p \in Touched(want) :
        \/ p \in Changed(want) /\ Release[want][p] # None
        \/ /\ p \notin Changed(want) /\ p \in Drivers /\ cur[p] # None
           /\ Release[want][p] = None
  BY DEF Touched, Changed, Retired
<1>5. FreshWereNew'
  BY <1>1, <1>4 DEF FreshWereNew
<1>6. SwapUnderWay'
  <2>1. \A p \in Paths \ Touched(want) :
          IF Release[want][p] # None THEN cur[p] = Release[want][p]
                                     ELSE p \in Drivers => cur[p] = None
    BY DEF Touched, Changed, Retired
  <2>2. \A p \in Touched(want) : p \in Drivers \/ Release[want][p] # None
    BY <1>4
  <2>3. \A p \in Touched(want) :
          /\ cur[p] \in {None, cur[p]}
          /\ cur[p] = None => Release[want][p] # None
          /\ Release[want][p] # None => new[p] = Release[want][p]
    BY <1>2, <1>4
  <2>4. QED
    BY <1>1, <2>1, <2>2, <2>3 DEF SwapUnderWay
<1>7. Recoverable'
  <2>1. ASSUME NEW p \in Touched(want) PROVE PutBack(p)' = cur[p]
    BY <2>1, <1>1, <1>2 DEF PutBack
  <2>2. QED
    BY <2>1, <1>1 DEF Recoverable, PutBack
<1>8. QED
  BY <1>3, <1>5, <1>6, <1>7 DEF FilesInOrder

\* A step of the swap moves one file on, and leaves the old one to be had.
LEMMA SwapFiles ==
    ASSUME TypeOK, FilesInOrder, NEW p \in Paths, SwapOut(p) \/ SwapIn(p)
    PROVE  FilesInOrder'
<1>1. /\ pc = "swap" /\ p \in todo /\ UNCHANGED <<pc, state, want, mem, old>>
  BY DEF SwapOut, SwapIn, First, observers
<1>2. /\ cur \in [Paths -> Contents \cup {None}] /\ prv \in [Paths -> Contents \cup {None}]
      /\ new \in [Paths -> Contents \cup {None}]
  BY DEF TypeOK, Files
<1>3. /\ state.trial # 0 /\ todo \subseteq state.files
      /\ \A q \in Paths : (IF q \in state.files THEN PutBack(q) ELSE cur[q]) = old[q]
      /\ \A q \in state.files : q \in state.fresh <=> old[q] = None
  BY <1>1 DEF FilesInOrder, InHand, SwapUnderWay, Recoverable, FreshWereNew
<1>4. /\ \A q \in state.files : q \in Drivers \/ Release[want][q] # None
      /\ \A q \in todo :
           /\ cur[q] \in {None, old[q]}
           /\ cur[q] = None => Release[want][q] # None
           /\ Release[want][q] # None => new[q] = Release[want][q]
      /\ \A q \in Paths \ todo :
           IF Release[want][q] # None THEN cur[q] = Release[want][q]
                                      ELSE q \in Drivers => cur[q] = None
  BY <1>1 DEF FilesInOrder, SwapUnderWay
<1>5. InHand' /\ Prepared' /\ FreshWereNew' /\ PuttingBack'
  BY <1>1 DEF FilesInOrder, InHand, Prepared, FreshWereNew, PuttingBack,
              PutBackWhole
<1>6. PutBack(p) = old[p]
  BY <1>1, <1>3
<1>7. /\ \A q \in Paths \ {p} : cur'[q] = cur[q] /\ prv'[q] = prv[q] /\ new'[q] = new[q]
      /\ PutBack(p)' = old[p]
      /\ \/ /\ todo' = todo /\ cur'[p] = None /\ Release[want][p] # None
            /\ new'[p] = new[p]
         \/ /\ todo' = todo \ {p}
            /\ IF Release[want][p] # None THEN cur'[p] = Release[want][p]
                                          ELSE cur'[p] = None
  <2>1. CASE SwapOut(p)
    <3>1. cur[p] # None /\ cur[p] = old[p]
      BY <2>1, <1>1, <1>4 DEF SwapOut
    <3>2. /\ cur' = [cur EXCEPT ![p] = None] /\ prv' = [prv EXCEPT ![p] = cur[p]]
          /\ todo' = IF Release[want][p] = None THEN todo \ {p} ELSE todo
          /\ new' = new
      BY <2>1 DEF SwapOut
    <3>3. cur'[p] = None /\ prv'[p] = old[p] /\ old[p] # None
      BY <3>1, <3>2, <1>2
    <3>4. PutBack(p)' = old[p]
      BY <3>3 DEF PutBack
    <3>5. QED
      BY <3>2, <3>3, <3>4, <1>2
  <2>2. CASE SwapIn(p)
    <3>1. /\ cur[p] = None /\ cur' = [cur EXCEPT ![p] = new[p]] /\ prv' = prv
          /\ new' = [new EXCEPT ![p] = None] /\ todo' = todo \ {p}
      BY <2>2 DEF SwapIn
    <3>2. Release[want][p] # None /\ cur'[p] = Release[want][p]
      BY <3>1, <1>1, <1>2, <1>4
    <3>3. prv[p] # None \/ p \in state.fresh
      BY <3>1, <1>1, <1>3, <1>6 DEF PutBack
    <3>4. PutBack(p)' = old[p]
      BY <3>1, <3>3, <1>1, <1>6 DEF PutBack
    <3>5. QED
      BY <3>1, <3>2, <3>4, <1>2
  <2>3. QED
    BY <2>1, <2>2
<1>8. Recoverable'
  <2>1. ASSUME NEW q \in Paths
        PROVE  (IF q \in state.files THEN PutBack(q)' ELSE cur'[q]) = old[q]
    <3>1. CASE q = p
      BY <3>1, <1>1, <1>3, <1>7
    <3>2. CASE q # p
      BY <3>2, <1>1, <1>3, <1>7 DEF PutBack
    <3>3. QED
      BY <3>1, <3>2
  <2>2. QED
    BY <2>1, <1>1 DEF Recoverable, PutBack
<1>9. SwapUnderWay'
  <2>1. todo' \subseteq state.files
    BY <1>3, <1>7
  <2>2. ASSUME NEW q \in todo'
        PROVE  /\ cur'[q] \in {None, old[q]}
               /\ cur'[q] = None => Release[want][q] # None
               /\ Release[want][q] # None => new'[q] = Release[want][q]
    <3>1. q \in todo /\ q \in Paths
      BY <1>7, <2>1 DEF TypeOK
    <3>2. CASE q = p
      BY <3>1, <3>2, <1>4, <1>7
    <3>3. CASE q # p
      BY <3>1, <3>3, <1>4, <1>7
    <3>4. QED
      BY <3>2, <3>3
  <2>3. ASSUME NEW q \in Paths \ todo'
        PROVE  IF Release[want][q] # None THEN cur'[q] = Release[want][q]
                                          ELSE q \in Drivers => cur'[q] = None
    <3>1. CASE q = p
      BY <3>1, <1>1, <1>7, <2>3
    <3>2. CASE q # p
      BY <3>2, <1>4, <1>7, <2>3
    <3>3. QED
      BY <3>1, <3>2
  <2>4. QED
    BY <2>1, <2>2, <2>3, <1>1, <1>4 DEF SwapUnderWay
<1>10. QED
  BY <1>5, <1>8, <1>9 DEF FilesInOrder

\* Every step keeps each file where the step of the swap it is at says.
LEMMA FilesStep ==
    ASSUME TypeOK, FilesInOrder, [Step]_vars PROVE FilesInOrder'
<1>1. Aging
  BY Ages
<1> USE DEF medium, observers, Moving
<1>2. CASE Start
  <2>1. CASE PowerOn \/ StartUnread \/ StartNormal
    BY <2>1, <1>1, QuietFiles DEF PowerOn, StartUnread, StartNormal
  <2>2. CASE StartTrial
    <3>1. [state EXCEPT !.starts = @ + 1].trial = state.trial
          /\ [state EXCEPT !.starts = @ + 1].files = state.files
          /\ [state EXCEPT !.starts = @ + 1].fresh = state.fresh
      BY DEF TypeOK, State
    <3>2. QED
      BY <2>2, <3>1, <1>1, QuietFiles DEF StartTrial, WriteState
  <2>3. QED
    BY <1>2, <2>1, <2>2, BeginPutBack DEF Start
<1>3. CASE Revert
  <2>1. CASE ChainLoad \/ ChainFails
    BY <2>1, <1>1, QuietFiles DEF ChainLoad, ChainFails, Forget
  <2>2. QED
    BY <1>3, <2>1, <1>1, RevertFiles, RecordFailedFiles DEF Revert
<1>4. CASE Asked
  <2>1. CASE Decline
    BY <2>1, <1>1, QuietFiles DEF Decline
  <2>2. ASSUME NEW m \in Serials, SetFloor(m) PROVE FilesInOrder'
    <3>1. [state EXCEPT !.min = Larger(@, m)].trial = 0
      BY <2>2 DEF TypeOK, State, SetFloor, MayTake
    <3>2. QED
      BY <2>2, <3>1, <1>1, QuietFiles DEF SetFloor, WriteState
  <2>3. ASSUME NEW m \in Serials, SetSerial(m) PROVE FilesInOrder'
    <3>1. [state EXCEPT !.serial = m].trial = 0
      BY <2>3 DEF TypeOK, State, SetSerial, MayTake
    <3>2. QED
      BY <2>3, <3>1, <1>1, QuietFiles DEF SetSerial, WriteState
  <2>4. QED
    BY <1>4, <2>1, <2>2, <2>3, BeginFiles DEF Asked
<1>5. CASE Apply
  <2>1. CASE DropFails \/ WriteFails \/ RecordFails
    BY <2>1, <1>1, QuietFiles DEF DropFails, WriteFails, RecordFails, GiveUp
  <2>2. CASE RestoreState
    <3>1. mem.trial = 0
      BY <2>2 DEF RestoreState, FilesInOrder, InHand
    <3>2. QED
      BY <2>2, <3>1, <1>1, QuietFiles DEF RestoreState, WriteState, GiveUp
  <2>3. CASE SwapDone
    BY <2>3, <1>1, QuietFiles DEF SwapDone, Forget
  <2>4. QED
    BY <1>5, <2>1, <2>2, <2>3, PreparingFiles, RecordTrialFiles, SwapFiles,
       BeginPutBack DEF Apply
<1>6. CASE Settle
  <2>1. CASE Attach \/ MarkNothing \/ RaiseNvMin \/ Restart
    BY <2>1, <1>1, QuietFiles DEF Attach, MarkNothing, RaiseNvMin, Restart, Forget
  <2>2. CASE MarkGood
    BY <2>2, <1>1, QuietFiles, AtRestFields DEF MarkGood, WriteState
  <2>3. QED
    BY <1>6, <2>1, <2>2 DEF Settle
<1>7. CASE Elements
  <2>1. CASE PowerLoss \/ WearOut
    BY <2>1, <1>1, QuietFiles DEF PowerLoss, WearOut, Forget
  <2>2. CASE TornAtRest
    BY <2>2, <1>1, QuietFiles, AtRestFields DEF TornAtRest, TornWrite, Forget, Blank
  <2>3. CASE \E i \in Machines, n \in Serials : OtherMedium(i, n)
    BY <2>3, <1>1, QuietFiles DEF OtherMedium
  <2>4. QED
    BY <1>7, <2>1, <2>2, <2>3 DEF Elements
<1>8. CASE UNCHANGED vars
  BY <1>8, <1>1, QuietFiles DEF vars
<1>9. CASE Onwards
  BY <1>9, <1>1, QuietFiles DEF Onwards, LookAgain, RunOn, Unmoved, Swapped, GiveUp
<1>10. QED
  BY <1>2, <1>3, <1>4, <1>5, <1>6, <1>7, <1>8, <1>9 DEF Step

\* Whatever was cut short, the files are always in order: what each phase of an
\* update, of its swap and of its undoing has done so far, and no more ...
LEMMA BothFiles == BothSpec => []FilesInOrder
<1>1. Init => FilesInOrder
  BY AtRestFields DEF Init, Blank, FilesInOrder, InHand, Prepared, FreshWereNew,
     SwapUnderWay, Recoverable, PuttingBack, PutBackWhole
<1>2. TypeOK /\ FilesInOrder /\ [Step]_vars => FilesInOrder'
  BY FilesStep
<1>3. QED
  BY <1>1, <1>2, BothTyped, PTL DEF BothSpec

\* ... and so when the boots run alone, ...
THEOREM FilesAlwaysInOrder == Spec => []FilesInOrder
  BY BothFiles, BootsAlike

\* ... so a failed trial can be undone to the last file, and is.
THEOREM AlwaysGoesBackWhole == Spec => []GoesBackWhole
<1>1. FilesInOrder => GoesBackWhole
  BY DEF FilesInOrder, PuttingBack, GoesBackWhole
<1>2. QED
  BY <1>1, FilesAlwaysInOrder, PTL

------------------------------------------------------------------------------
(* The sets.                                                               *)

\* The bootloader that runs is the medium's, and a start that counts is the
\* trial's that is recorded.
RunsWhatItHas ==
    /\ trialing # 0 => pc \in {"up", "ready", "good", "nv"}
    /\ pc = "good" => trialing # 0
    /\ trialing # 0 /\ pc \in {"up", "ready"} => state.trial = trialing
    /\ pc = "start" \/ (trialing # 0 /\ pc \in {"up", "ready", "good"}) =>
         running = cur[Boot]

\* Unless something was cut short, each set the state names is whole: the one in
\* place, and the one a trial would go back to.
WholeSets ==
    ~CutShort =>
      /\ state.trial = 0 => Whole(state.serial, cur)
      /\ state.trial # 0 => Whole(state.prev, old)
      /\ state.trial # 0 /\ pc \notin {"swap", "back", "revert"} =>
           Whole(state.trial, cur)

\* There is a bootloader in place, and one to go back to.
BootThere ==
    ~worn /\ hurt \cap {"swap", "putback"} = {} =>
      /\ pc \notin {"swap", "back", "revert"} => cur[Boot] # None
      /\ state.trial # 0 \/ pc = "chain" => old[Boot] # None

SetsInOrder == RunsWhatItHas /\ WholeSets /\ BootThere

\* Every step keeps the running release one whose bootloader the medium carries.
LEMMA RunsStep ==
    ASSUME TypeOK, RunsWhatItHas, [Step]_vars PROVE RunsWhatItHas'
<1> USE DEF medium, observers
<1>1. CASE Start
  <2>1. CASE PowerOn \/ StartUnread \/ StartNormal \/ StartRevert
    BY <2>1, <1>1 DEF PowerOn, StartUnread, StartNormal, StartRevert, RunsWhatItHas
  <2>2. CASE StartTrial
    <3>1. [state EXCEPT !.starts = @ + 1].trial = state.trial
      BY DEF TypeOK, State
    <3>2. state'.trial = state.trial
      BY <2>2, <3>1 DEF StartTrial, WriteState
    <3>3. QED
      BY <2>2, <3>2 DEF StartTrial, RunsWhatItHas
  <2>3. QED
    BY <1>1, <2>1, <2>2 DEF Start
<1>2. CASE Revert
  <2>1. ASSUME NEW p \in Paths,
               \/ RevertDelete(p) \/ RevertRename(p) \/ RevertRemove(p)
               \/ RevertKeep(p) \/ RevertError(p)
        PROVE  RunsWhatItHas'
    BY <2>1 DEF RevertDelete, RevertRename, RevertRemove, RevertKeep,
                RevertError, Reverting, RunsWhatItHas
  <2>2. CASE RecordFailed \/ ChainLoad \/ ChainFails
    BY <2>2 DEF RecordFailed, ChainLoad, ChainFails, Forget, RunsWhatItHas
  <2>3. QED
    BY <1>2, <2>1, <2>2 DEF Revert
<1>3. CASE Asked
  <2>1. CASE Decline
    BY <2>1 DEF Decline, RunsWhatItHas
  <2>2. ASSUME NEW m \in Serials,
               SetFloor(m) \/ SetSerial(m) \/ Begin(m)
        PROVE  RunsWhatItHas'
    BY <2>2 DEF SetFloor, SetSerial, Begin, MayTake, RunsWhatItHas
  <2>3. QED
    BY <1>3, <2>1, <2>2 DEF Asked
<1>4. CASE Apply
  <2>1. /\ pc \in {"drop", "write", "record", "swap", "back"}
        /\ pc' \in {"drop", "write", "record", "swap", "back", "ready", "off"}
        /\ trialing' \in {trialing, 0}
    BY <1>4 DEF Apply, DropPrev, WriteNew, SwapOut, SwapIn, DropFails, BeginWrite,
                WriteFails, CarryIdentity, RecordTrial, RecordFails, SwapFails,
                RestoreState, SwapDone, GiveUp, Forget
  <2>2. QED
    BY <2>1 DEF RunsWhatItHas
<1>5. CASE Settle
  BY <1>5 DEF Settle, Attach, MarkNothing, MarkGood, RaiseNvMin, Restart, Forget,
              RunsWhatItHas
<1>6. CASE Elements
  BY <1>6 DEF Elements, PowerLoss, TornAtRest, TornWrite, WearOut,
              OtherMedium, Forget,
              RunsWhatItHas
<1>7. CASE UNCHANGED vars
  BY <1>7 DEF vars, RunsWhatItHas
<1>8. CASE Onwards
  BY <1>8 DEF Onwards, LookAgain, RunOn, Unmoved, Swapped, GiveUp, RunsWhatItHas
<1>9. QED
  BY <1>1, <1>2, <1>3, <1>4, <1>5, <1>6, <1>7, <1>8 DEF Step

\* The phases in which files move.
Swapping == {"swap", "back", "revert"}

\* A medium whose renames were cut short stays one.
LEMMA CutShortStays == Aging /\ CutShort => CutShort'
  BY DEF Aging, CutShort

\* A step that moves no file and keeps what the state says of the sets, and
\* that leaves no phase in which files move but by a cut.
LEMMA QuietSets ==
    ASSUME WholeSets, Aging, UNCHANGED <<cur, old>>,
           state'.trial = state.trial, state'.prev = state.prev,
           state'.serial = state.serial,
           pc \in Swapping /\ pc' \notin Swapping => CutShort'
    PROVE  WholeSets'
  BY CutShortStays DEF WholeSets, Swapping

\* Whether the state was written or not, a rewriting of it that fails is a cut.
LEMMA WrittenOrCut ==
    ASSUME NEW s, WriteState(s), worn' = worn PROVE state' = s \/ CutShort'
  BY DEF WriteState, Fails, CutShort

\* A swap that is done has the release in place, one that is undone the old set.
LEMMA SwappedWhole ==
    ASSUME FilesInOrder, pc = "swap", todo = {} PROVE Whole(want, cur)
  BY DEF FilesInOrder, SwapUnderWay, Whole

\* With every file put back, the files in place are the ones of the set before.
LEMMA PutBackIsOld ==
    ASSUME TypeOK, FilesInOrder, pc \in {"back", "revert"}, todo = {},
           ~worn, "putback" \notin hurt
    PROVE  cur = old
<1>1. \A q \in Paths : cur[q] = old[q]
  BY DEF FilesInOrder, PuttingBack
<1>2. cur = [q \in Paths |-> cur[q]] /\ old = [q \in Paths |-> old[q]]
  BY DEF TypeOK, Files
<1>3. QED
  BY <1>1, <1>2

\* A set whose files are all in place already is whole.
LEMMA NothingToTouch ==
    ASSUME NEW m, Changed(m) = {}, Retired(m) = {} PROVE Whole(m, cur)
  BY DEF Whole, Changed, Retired

\* Every step keeps one whole set in place or on its way.
LEMMA SetsStep ==
    ASSUME TypeOK, FilesInOrder, RunsWhatItHas, WholeSets, [Step]_vars
    PROVE  WholeSets'
<1>1. Aging
  BY Ages
<1> USE DEF medium, observers, Swapping
<1>2. CASE Start
  <2>1. CASE PowerOn \/ StartUnread \/ StartNormal \/ StartRevert
    BY <2>1, <1>1, QuietSets DEF PowerOn, StartUnread, StartNormal, StartRevert
  <2>2. CASE StartTrial
    <3>1. /\ [state EXCEPT !.starts = @ + 1].trial = state.trial
          /\ [state EXCEPT !.starts = @ + 1].prev = state.prev
          /\ [state EXCEPT !.starts = @ + 1].serial = state.serial
      BY DEF TypeOK, State
    <3>2. QED
      BY <2>2, <3>1, <1>1, QuietSets DEF StartTrial, WriteState
  <2>3. QED
    BY <1>2, <2>1, <2>2 DEF Start
<1>3. CASE Revert
  <2>1. ASSUME NEW p \in Paths,
               \/ RevertDelete(p) \/ RevertRename(p) \/ RevertRemove(p)
               \/ RevertKeep(p) \/ RevertError(p)
        PROVE  WholeSets'
    <3>1. /\ pc \in {"revert", "back"} /\ UNCHANGED <<pc, state, old>>
      BY <2>1 DEF RevertDelete, RevertRename, RevertRemove, RevertKeep,
                  RevertError, Reverting
    <3>2. state.trial # 0
      BY <3>1 DEF FilesInOrder, InHand
    <3>3. QED
      BY <3>1, <3>2, <1>1, CutShortStays DEF WholeSets
  <2>2. CASE RecordFailed
    <3>1. SUFFICES ASSUME ~CutShort' PROVE WholeSets'
      BY DEF WholeSets
    <3>2. /\ pc = "revert" /\ todo = {} /\ state.trial # 0 /\ ~CutShort
          /\ UNCHANGED <<cur, old, worn>>
      BY <2>2, <3>1, <1>1, CutShortStays DEF RecordFailed, FilesInOrder, InHand
    <3>3. cur = old
      BY <3>2, PutBackIsOld DEF CutShort
    <3>4. state'.serial = state.prev /\ state'.trial = 0
      BY <2>2, <3>1, <3>2, WrittenOrCut, AtRestFields DEF RecordFailed
    <3>5. QED
      BY <3>2, <3>3, <3>4 DEF WholeSets
  <2>3. CASE ChainLoad \/ ChainFails
    BY <2>3, <1>1, QuietSets DEF ChainLoad, ChainFails, Forget
  <2>4. QED
    BY <1>3, <2>1, <2>2, <2>3 DEF Revert
<1>4. CASE Asked
  <2>1. CASE Decline
    BY <2>1, <1>1, QuietSets DEF Decline
  <2>2. ASSUME NEW m \in Serials, SetFloor(m) PROVE WholeSets'
    <3>1. /\ [state EXCEPT !.min = Larger(@, m)].trial = state.trial
          /\ [state EXCEPT !.min = Larger(@, m)].prev = state.prev
          /\ [state EXCEPT !.min = Larger(@, m)].serial = state.serial
      BY DEF TypeOK, State
    <3>2. QED
      BY <2>2, <3>1, <1>1, QuietSets DEF SetFloor, WriteState
  <2>3. ASSUME NEW m \in Serials, SetSerial(m) PROVE WholeSets'
    <3>1. SUFFICES ASSUME ~CutShort' PROVE WholeSets'
      BY DEF WholeSets
    <3>2. [state EXCEPT !.serial = m].serial = m
          /\ [state EXCEPT !.serial = m].trial = state.trial
      BY DEF TypeOK, State
    <3>3. /\ state'.serial = m /\ state'.trial = 0 /\ cur' = cur
      BY <2>3, <3>1, <3>2, WrittenOrCut DEF SetSerial, MayTake
    <3>4. Whole(m, cur)
      BY <2>3, NothingToTouch DEF SetSerial
    <3>5. QED
      BY <3>3, <3>4 DEF WholeSets
  <2>4. ASSUME NEW m \in Serials, Begin(m) PROVE WholeSets'
    BY <2>4, <1>1, QuietSets DEF Begin
  <2>5. QED
    BY <1>4, <2>1, <2>2, <2>3, <2>4 DEF Asked
<1>5. CASE Apply
  <2>1. ASSUME NEW p \in Paths, DropPrev(p) \/ WriteNew(p) PROVE WholeSets'
    BY <2>1, <1>1, QuietSets DEF DropPrev, WriteNew
  <2>2. ASSUME NEW p \in Paths, SwapOut(p) \/ SwapIn(p) PROVE WholeSets'
    <3>1. pc = "swap" /\ UNCHANGED <<pc, state, old>>
      BY <2>2 DEF SwapOut, SwapIn
    <3>2. state.trial # 0
      BY <3>1 DEF FilesInOrder, InHand
    <3>3. QED
      BY <3>1, <3>2, <1>1, CutShortStays DEF WholeSets
  <2>3. CASE DropFails \/ BeginWrite \/ WriteFails \/ CarryIdentity \/ RecordFails
    BY <2>3, <1>1, QuietSets
       DEF DropFails, BeginWrite, WriteFails, CarryIdentity, RecordFails, GiveUp
  <2>4. CASE RecordTrial
    <3>1. /\ pc' = "swap" /\ old' = cur /\ state'.prev = mem.serial
          /\ state'.trial = want /\ want # 0 /\ mem = state /\ state.trial = 0
      BY <2>4 DEF RecordTrial, FilesInOrder, InHand
    <3>2. QED
      BY <3>1, <1>1, CutShortStays DEF WholeSets
  <2>5. CASE SwapFails
    BY <2>5, <1>1, QuietSets DEF SwapFails
  <2>6. CASE RestoreState
    <3>1. SUFFICES ASSUME ~CutShort' PROVE WholeSets'
      BY DEF WholeSets
    <3>2. /\ pc = "back" /\ todo = {} /\ state.trial # 0 /\ ~CutShort
          /\ mem.trial = 0 /\ mem.serial = state.prev
          /\ UNCHANGED <<cur, old, worn>>
      BY <2>6, <3>1, <1>1, CutShortStays DEF RestoreState, FilesInOrder, InHand
    <3>3. cur = old
      BY <3>2, PutBackIsOld DEF CutShort
    <3>4. state' = mem
      BY <2>6, <3>1, <3>2, WrittenOrCut DEF RestoreState
    <3>5. QED
      BY <3>2, <3>3, <3>4 DEF WholeSets
  <2>7. CASE SwapDone
    <3>1. /\ pc = "swap" /\ todo = {} /\ state.trial = want /\ want # 0
          /\ UNCHANGED <<cur, old, state>>
      BY <2>7 DEF SwapDone, FilesInOrder, InHand
    <3>2. Whole(want, cur)
      BY <3>1, SwappedWhole
    <3>3. QED
      BY <3>1, <3>2, <1>1, CutShortStays DEF WholeSets
  <2>8. QED
    BY <1>5, <2>1, <2>2, <2>3, <2>4, <2>5, <2>6, <2>7 DEF Apply
<1>6. CASE Settle
  <2>1. CASE Attach \/ MarkNothing \/ RaiseNvMin \/ Restart
    BY <2>1, <1>1, QuietSets DEF Attach, MarkNothing, RaiseNvMin, Restart, Forget
  <2>2. CASE MarkGood
    <3>1. SUFFICES ASSUME ~CutShort' PROVE WholeSets'
      BY DEF WholeSets
    <3>2. /\ pc = "good" /\ state.trial = trialing /\ trialing # 0 /\ ~CutShort
          /\ UNCHANGED <<cur, old, worn>>
      BY <2>2, <3>1, <1>1, CutShortStays DEF MarkGood, RunsWhatItHas
    <3>3. state'.serial = trialing /\ state'.trial = 0
      BY <2>2, <3>1, <3>2, WrittenOrCut, AtRestFields DEF MarkGood
    <3>4. QED
      BY <3>2, <3>3 DEF WholeSets
  <2>3. QED
    BY <1>6, <2>1, <2>2 DEF Settle
<1>7. CASE Elements
  <2>1. CASE PowerLoss
    <3>1. pc \in Swapping => CutShort'
      BY <2>1 DEF PowerLoss, Fails, CutShort
    <3>2. QED
      BY <2>1, <3>1, <1>1, QuietSets DEF PowerLoss, Forget
  <2>2. CASE TornAtRest
    <3>1. CutShort'
      BY <2>2 DEF TornAtRest, TornWrite, Fails, CutShort
    <3>2. QED
      BY <3>1 DEF WholeSets
  <2>3. CASE WearOut
    BY <2>3, <1>1, QuietSets DEF WearOut
  <2>4. CASE \E i \in Machines, n \in Serials : OtherMedium(i, n)
    BY <2>4, <1>1, QuietSets DEF OtherMedium
  <2>5. QED
    BY <1>7, <2>1, <2>2, <2>3, <2>4 DEF Elements
<1>8. CASE UNCHANGED vars
  BY <1>8, <1>1, QuietSets DEF vars
<1>9. CASE Onwards
  <2>1. CASE LookAgain \/ RunOn
    BY <2>1, <1>1, QuietSets DEF LookAgain, RunOn, Unmoved
  <2>2. CASE Swapped
    <3>1. /\ pc = "swap" /\ todo = {} /\ state.trial = want /\ want # 0
          /\ UNCHANGED <<cur, old, state>>
      BY <2>2 DEF Swapped, FilesInOrder, InHand
    <3>2. Whole(want, cur)
      BY <3>1, SwappedWhole
    <3>3. QED
      BY <3>1, <3>2, <1>1, CutShortStays DEF WholeSets
  <2>3. QED
    BY <1>9, <2>1, <2>2 DEF Onwards
<1>10. QED
  BY <1>2, <1>3, <1>4, <1>5, <1>6, <1>7, <1>8, <1>9 DEF Step

\* A swap or a putting back was cut short by the power or by a write.
MovesCut == worn \/ hurt \cap {"swap", "putback"} # {}

\* A medium whose moves were cut stays one.
LEMMA MovesCutStays == Aging /\ MovesCut => MovesCut'
  BY DEF Aging, MovesCut

\* A step that moves no file leaves the bootloader where it was.
LEMMA QuietBoot ==
    ASSUME BootThere, Aging, UNCHANGED <<cur, old>>,
           state'.trial # 0 \/ pc' = "chain" => state.trial # 0 \/ pc = "chain",
           pc \in Swapping /\ pc' \notin Swapping => MovesCut'
    PROVE  BootThere'
<1> SUFFICES ASSUME ~MovesCut' PROVE BootThere'
  BY DEF BootThere, MovesCut
<1>1. ~MovesCut
  BY MovesCutStays
<1>2. QED
  BY <1>1 DEF BootThere, MovesCut, Swapping

\* A swap that is done leaves the release's bootloader.
LEMMA SwappedBoot ==
    ASSUME TypeOK, FilesInOrder, BootThere, Aging, pc = "swap", todo = {},
           pc' \in {"off", "ready"}, UNCHANGED <<cur, old, state>>
    PROVE  BootThere'
<1> SUFFICES ASSUME ~MovesCut' PROVE BootThere'
  BY DEF BootThere, MovesCut
<1>1. state.trial # 0 /\ want # 0 /\ ~MovesCut
  BY MovesCutStays DEF FilesInOrder, InHand
<1>2. Whole(want, cur)
  BY SwappedWhole
<1>3. Release[want][Boot] # None
  BY ConstantsAssumption DEF TypeOK
<1>4. cur[Boot] # None
  BY <1>2, <1>3, PathsAssumption DEF Whole
<1>5. QED
  BY <1>1, <1>4 DEF BootThere, MovesCut

\* Every step leaves a bootloader, but between the two renames of it.
LEMMA BootStep ==
    ASSUME TypeOK, FilesInOrder, BootThere, [Step]_vars PROVE BootThere'
<1>1. Aging
  BY Ages
<1> USE DEF medium, observers, Swapping
<1>2. CASE Start
  <2>1. CASE PowerOn \/ StartUnread \/ StartNormal \/ StartRevert
    BY <2>1, <1>1, QuietBoot DEF PowerOn, StartUnread, StartNormal, StartRevert
  <2>2. CASE StartTrial
    BY <2>2, <1>1, QuietBoot DEF StartTrial
  <2>3. QED
    BY <1>2, <2>1, <2>2 DEF Start
<1>3. CASE Revert
  <2>1. ASSUME NEW p \in Paths,
               \/ RevertDelete(p) \/ RevertRename(p) \/ RevertRemove(p)
               \/ RevertKeep(p) \/ RevertError(p)
        PROVE  BootThere'
    <3>1. pc \in {"revert", "back"} /\ UNCHANGED <<pc, state, old>>
      BY <2>1 DEF RevertDelete, RevertRename, RevertRemove, RevertKeep,
                  RevertError, Reverting
    <3>2. QED
      BY <3>1, <1>1, MovesCutStays DEF BootThere, MovesCut
  <2>2. CASE RecordFailed
    <3>1. SUFFICES ASSUME ~MovesCut' PROVE BootThere'
      BY DEF BootThere, MovesCut
    <3>2. /\ pc = "revert" /\ todo = {} /\ state.trial # 0 /\ ~MovesCut
          /\ UNCHANGED <<cur, old>>
      BY <2>2, <3>1, <1>1, MovesCutStays DEF RecordFailed, FilesInOrder, InHand
    <3>3. cur = old /\ old[Boot] # None
      BY <3>2, PutBackIsOld DEF MovesCut, BootThere
    <3>4. QED
      BY <3>2, <3>3 DEF BootThere
  <2>3. CASE ChainLoad \/ ChainFails
    BY <2>3, <1>1, QuietBoot DEF ChainLoad, ChainFails, Forget
  <2>4. QED
    BY <1>3, <2>1, <2>2, <2>3 DEF Revert
<1>4. CASE Asked
  <2>1. CASE Decline
    BY <2>1, <1>1, QuietBoot DEF Decline
  <2>2. ASSUME NEW m \in Serials, SetFloor(m) PROVE BootThere'
    <3>1. [state EXCEPT !.min = Larger(@, m)].trial = state.trial
      BY DEF TypeOK, State
    <3>2. QED
      BY <2>2, <3>1, <1>1, QuietBoot DEF SetFloor, WriteState
  <2>3. ASSUME NEW m \in Serials, SetSerial(m) PROVE BootThere'
    <3>1. [state EXCEPT !.serial = m].trial = state.trial
      BY DEF TypeOK, State
    <3>2. QED
      BY <2>3, <3>1, <1>1, QuietBoot DEF SetSerial, WriteState
  <2>4. ASSUME NEW m \in Serials, Begin(m) PROVE BootThere'
    BY <2>4, <1>1, QuietBoot DEF Begin
  <2>5. QED
    BY <1>4, <2>1, <2>2, <2>3, <2>4 DEF Asked
<1>5. CASE Apply
  <2>1. ASSUME NEW p \in Paths, DropPrev(p) \/ WriteNew(p) PROVE BootThere'
    BY <2>1, <1>1, QuietBoot DEF DropPrev, WriteNew
  <2>2. ASSUME NEW p \in Paths, SwapOut(p) \/ SwapIn(p) PROVE BootThere'
    <3>1. pc = "swap" /\ UNCHANGED <<pc, state, old>>
      BY <2>2 DEF SwapOut, SwapIn
    <3>2. QED
      BY <3>1, <1>1, MovesCutStays DEF BootThere, MovesCut
  <2>3. CASE DropFails \/ BeginWrite \/ WriteFails \/ CarryIdentity \/ RecordFails
    BY <2>3, <1>1, QuietBoot
       DEF DropFails, BeginWrite, WriteFails, CarryIdentity, RecordFails, GiveUp
  <2>4. CASE RecordTrial
    <3>1. pc = "record" /\ pc' = "swap" /\ old' = cur
      BY <2>4 DEF RecordTrial
    <3>2. QED
      BY <3>1, <1>1, MovesCutStays DEF BootThere, MovesCut
  <2>5. CASE SwapFails
    BY <2>5, <1>1, QuietBoot DEF SwapFails
  <2>6. CASE RestoreState
    <3>1. SUFFICES ASSUME ~MovesCut' PROVE BootThere'
      BY DEF BootThere, MovesCut
    <3>2. /\ pc = "back" /\ todo = {} /\ state.trial # 0 /\ ~MovesCut
          /\ pc' = "ready" /\ UNCHANGED <<cur, old>>
      BY <2>6, <3>1, <1>1, MovesCutStays
         DEF RestoreState, GiveUp, FilesInOrder, InHand
    <3>3. cur = old /\ old[Boot] # None
      BY <3>2, PutBackIsOld DEF MovesCut, BootThere
    <3>4. QED
      BY <3>2, <3>3 DEF BootThere
  <2>7. CASE SwapDone
    <3>1. UNCHANGED <<cur, old, state>> /\ pc' = "off" /\ pc = "swap" /\ todo = {}
      BY <2>7 DEF SwapDone, Forget
    <3>2. QED
      BY <3>1, <1>1, SwappedBoot
  <2>8. QED
    BY <1>5, <2>1, <2>2, <2>3, <2>4, <2>5, <2>6, <2>7 DEF Apply
<1>6. CASE Settle
  <2>1. CASE Attach \/ MarkNothing \/ RaiseNvMin \/ Restart
    BY <2>1, <1>1, QuietBoot DEF Attach, MarkNothing, RaiseNvMin, Restart, Forget
  <2>2. CASE MarkGood
    BY <2>2, <1>1, QuietBoot, AtRestFields DEF MarkGood, WriteState
  <2>3. QED
    BY <1>6, <2>1, <2>2 DEF Settle
<1>7. CASE Elements
  <2>1. CASE PowerLoss
    <3>1. pc \in Swapping => MovesCut'
      BY <2>1 DEF PowerLoss, Fails, MovesCut
    <3>2. QED
      BY <2>1, <3>1, <1>1, QuietBoot DEF PowerLoss, Forget
  <2>2. CASE TornAtRest
    <3>1. SUFFICES ASSUME ~MovesCut' PROVE BootThere'
      BY DEF BootThere, MovesCut
    <3>2. /\ pc' = "off" /\ state'.trial = 0 /\ ~MovesCut /\ UNCHANGED <<cur, old>>
          /\ pc \in Swapping => pc \in {"back", "revert"} /\ todo = {}
      BY <2>2, <3>1, <1>1, MovesCutStays, AtRestFields
         DEF TornAtRest, TornWrite, Forget, Blank
    <3>3. CASE pc \in Swapping
      <4>1. state.trial # 0
        BY <3>2, <3>3 DEF FilesInOrder, InHand
      <4>2. cur = old /\ old[Boot] # None
        BY <3>2, <3>3, <4>1, PutBackIsOld DEF MovesCut, BootThere
      <4>3. QED
        BY <3>2, <4>2 DEF BootThere
    <3>4. CASE pc \notin Swapping
      BY <3>2, <3>4 DEF BootThere, MovesCut
    <3>5. QED
      BY <3>3, <3>4
  <2>3. CASE WearOut
    BY <2>3, <1>1, QuietBoot DEF WearOut
  <2>4. CASE \E i \in Machines, n \in Serials : OtherMedium(i, n)
    BY <2>4, <1>1, QuietBoot DEF OtherMedium
  <2>5. QED
    BY <1>7, <2>1, <2>2, <2>3, <2>4 DEF Elements
<1>8. CASE UNCHANGED vars
  BY <1>8, <1>1, QuietBoot DEF vars
<1>9. CASE Onwards
  <2>1. CASE LookAgain \/ RunOn
    BY <2>1, <1>1, QuietBoot DEF LookAgain, RunOn, Unmoved
  <2>2. CASE Swapped
    <3>1. UNCHANGED <<cur, old, state>> /\ pc' = "ready" /\ pc = "swap" /\ todo = {}
      BY <2>2 DEF Swapped, GiveUp
    <3>2. QED
      BY <3>1, <1>1, SwappedBoot
  <2>3. QED
    BY <1>9, <2>1, <2>2 DEF Onwards
<1>10. QED
  BY <1>2, <1>3, <1>4, <1>5, <1>6, <1>7, <1>8, <1>9 DEF Step

\* The sets are always in order, whatever was cut short accounted for ...
LEMMA BothSets == BothSpec => []SetsInOrder
<1>1. Init => SetsInOrder
  <2> SUFFICES ASSUME Init PROVE SetsInOrder
    OBVIOUS
  <2>1. RunsWhatItHas
    BY DEF Init, RunsWhatItHas
  <2>2. state.trial = 0 /\ state.serial = 0 /\ cur = Release[0] /\ pc = "off"
    BY AtRestFields DEF Init, Blank
  <2>3. Whole(0, Release[0])
    BY DEF Whole
  <2>4. WholeSets
    BY <2>2, <2>3 DEF WholeSets
  <2>5. BootThere
    <3>1. Release[0][Boot] # None
      BY ConstantsAssumption
    <3>2. QED
      BY <2>2, <3>1 DEF BootThere
  <2>6. QED
    BY <2>1, <2>4, <2>5 DEF SetsInOrder
<1>2. TypeOK /\ FilesInOrder /\ SetsInOrder /\ [Step]_vars => SetsInOrder'
  BY RunsStep, SetsStep, BootStep DEF SetsInOrder
<1>3. QED
  BY <1>1, <1>2, BothTyped, BothFiles, PTL DEF BothSpec

\* ... the boots' own included, ...
THEOREM SetsAlwaysInOrder == Spec => []SetsInOrder
  BY BothSets, BootsAlike

\* ... so with no trial running a boot finds one release, whole, and never a mix,
THEOREM OneSetInPlace == Spec => []SetIsWhole
<1>1. SetsInOrder => SetIsWhole
  BY DEF SetsInOrder, WholeSets, SetIsWhole
<1>2. QED
  BY <1>1, SetsAlwaysInOrder, PTL

\* a medium whose power went has a bootloader to start from, but for a power loss
\* within a swap,
THEOREM AlwaysStartable == Spec => []Startable
<1>1. SetsInOrder => Startable
  BY DEF SetsInOrder, BootThere, Startable
<1>2. QED
  BY <1>1, SetsAlwaysInOrder, PTL

\* and a trial is of a serial never settled before and is passed by the release
\* on trial, running from its own bootloader, and by nothing else.
LEMMA BothReal == BothSpec => TrialsAreReal
<1>1. TypeOK /\ SetsInOrder /\ [Step]_vars =>
        [MarkGood /\ ~CutShort => /\ Whole(trialing, cur)
                                  /\ running = Release[trialing][Boot]]_vars
  <2> SUFFICES ASSUME TypeOK, SetsInOrder, MarkGood, ~CutShort
               PROVE  Whole(trialing, cur) /\ running = Release[trialing][Boot]
    OBVIOUS
  <2>1. pc = "good" /\ state.trial = trialing /\ trialing # 0 /\ running = cur[Boot]
    BY DEF MarkGood, SetsInOrder, RunsWhatItHas
  <2>2. Whole(trialing, cur)
    BY <2>1 DEF SetsInOrder, WholeSets
  <2>3. Release[trialing][Boot] # None
    BY ConstantsAssumption DEF TypeOK
  <2>4. cur[Boot] = Release[trialing][Boot]
    BY <2>2, <2>3, PathsAssumption DEF Whole
  <2>5. QED
    BY <2>1, <2>2, <2>4
<1>2. BothSpec => PassedByItself
  BY <1>1, BothTyped, BothSets, PTL DEF BothSpec, PassedByItself
<1>3. QED
  BY <1>2, BothNeverRetake, PTL DEF TrialsAreReal

\* The same of the boots alone: what passes its trial is what was on it.
THEOREM TrialsAlwaysReal == Spec => TrialsAreReal
  BY BothReal, BootsAlike

------------------------------------------------------------------------------
(* The name.                                                               *)

\* The name is in stormboot.conf, and none of what excuses its loss has been.
Unexcused ==
    /\ Release[0][Conf] \in Named
    /\ ~worn /\ hurt \cap {"write", "read"} = {}
    /\ OtherName => hurt \cap {"swap", "putback"} = {}
    /\ ~local

\* A name that is not in local.conf is in every stormboot.conf the medium may
\* come to have; a stormboot.conf no release replaces stays where it is.
NameInHand ==
    Unexcused =>
      /\ state.trial # 0 \/ pc = "chain" => old[Conf] \in Named
      /\ pc \in {"record", "swap"} => Release[want][Conf] \in Named \cup {None}
      /\ OtherName /\ pc \notin Swapping => cur[Conf] \in Named
      /\ ~OtherName =>
           /\ cur[Conf] = Release[0][Conf]
           /\ state.trial # 0 => Conf \notin state.files

\* A step that moves no file leaves the name where it was.
LEMMA QuietName ==
    ASSUME NameInHand, Aging, UNCHANGED <<cur, old, local>>,
           state'.trial # 0 => state.trial # 0 /\ state'.files = state.files,
           pc' = "chain" => pc = "chain",
           pc' \in {"record", "swap"} => UNCHANGED <<pc, want>>,
           pc \in Swapping /\ pc' \notin Swapping => MovesCut'
    PROVE  NameInHand'
<1> SUFFICES ASSUME Unexcused'
             PROVE  /\ state'.trial # 0 \/ pc' = "chain" => old'[Conf] \in Named
                    /\ pc' \in {"record", "swap"} =>
                         Release[want'][Conf] \in Named \cup {None}
                    /\ OtherName /\ pc' \notin Swapping => cur'[Conf] \in Named
                    /\ ~OtherName =>
                         /\ cur'[Conf] = Release[0][Conf]
                         /\ state'.trial # 0 => Conf \notin state'.files
  BY DEF NameInHand, OtherName, Swapping
<1>1. Unexcused /\ (OtherName => ~MovesCut')
  BY DEF Unexcused, OtherName, Aging, MovesCut
<1>2. QED
  BY <1>1 DEF NameInHand, Swapping

\* A step that ends with no excuse began with none.
LEMMA NamedBefore ==
    ASSUME NameInHand, Aging, local => local', Unexcused'
    PROVE  /\ Unexcused
           /\ pc \notin Swapping => cur[Conf] \in Named
           /\ OtherName => ~MovesCut
<1>1. Unexcused /\ (OtherName => ~MovesCut)
  BY DEF Unexcused, OtherName, Aging, MovesCut
<1>2. pc \notin Swapping => cur[Conf] \in Named
  BY <1>1 DEF NameInHand, Unexcused
<1>3. QED
  BY <1>1, <1>2

\* stormboot.conf moves only in an update that brings another name.
LEMMA MovingName ==
    ASSUME TypeOK, FilesInOrder, NameInHand, Aging, NEW p \in Paths,
           pc \in Swapping, p \in todo, \A q \in Paths \ {p} : cur'[q] = cur[q],
           UNCHANGED <<pc, state, want, old, local>>
    PROVE  NameInHand'
<1> SUFFICES ASSUME Unexcused'
             PROVE  /\ state.trial # 0 \/ pc = "chain" => old[Conf] \in Named
                    /\ pc \in {"record", "swap"} =>
                         Release[want][Conf] \in Named \cup {None}
                    /\ ~OtherName =>
                         /\ cur'[Conf] = Release[0][Conf]
                         /\ state.trial # 0 => Conf \notin state.files
  BY DEF NameInHand, OtherName, Swapping
<1>1. Unexcused
  BY NamedBefore
<1>2. state.trial # 0 /\ p \in state.files
  BY DEF Swapping, FilesInOrder, InHand, SwapUnderWay, PuttingBack
<1>3. ~OtherName => p # Conf
  BY <1>1, <1>2 DEF NameInHand
<1>4. QED
  BY <1>1, <1>3, PathsAssumption DEF NameInHand

\* A swap or a putting back that came to its end leaves a conf that states a name.
LEMMA MovedName ==
    ASSUME FilesInOrder, NameInHand, Aging, UNCHANGED <<cur, old, local>>,
           pc \in Swapping, pc' \notin Swapping \cup {"record"},
           cur = old \/ MovesCut' \/ (pc = "swap" /\ todo = {}),
           state'.trial # 0 => state'.files = state.files
    PROVE  NameInHand'
<1> SUFFICES ASSUME Unexcused'
             PROVE  /\ old[Conf] \in Named
                    /\ OtherName => cur[Conf] \in Named
                    /\ ~OtherName =>
                         /\ cur[Conf] = Release[0][Conf]
                         /\ state'.trial # 0 => Conf \notin state'.files
  BY DEF NameInHand, OtherName, Swapping
<1>1. Unexcused
  BY NamedBefore
<1>2. state.trial # 0
  BY DEF Swapping, FilesInOrder, InHand
<1>3. old[Conf] \in Named
  BY <1>1, <1>2 DEF NameInHand
<1>4. ASSUME OtherName PROVE cur[Conf] \in Named
  <2>1. ~MovesCut'
    BY <1>4 DEF Unexcused, OtherName, MovesCut
  <2>2. CASE cur = old
    BY <2>2, <1>3
  <2>3. CASE pc = "swap" /\ todo = {}
    <3>1. Release[want][Conf] \in Named \cup {None}
      BY <2>3, <1>1 DEF NameInHand
    <3>2. Release[want][Conf] # None => cur[Conf] = Release[want][Conf]
      BY <2>3, PathsAssumption DEF FilesInOrder, SwapUnderWay
    <3>3. Release[want][Conf] = None => Conf \notin state.files
      BY <2>3, ConstantsAssumption DEF FilesInOrder, SwapUnderWay
    <3>4. Conf \notin state.files => cur[Conf] = old[Conf]
      BY <1>2, PathsAssumption DEF FilesInOrder, Recoverable
    <3>5. QED
      BY <3>1, <3>2, <3>3, <3>4, <1>3
  <2>4. QED
    BY <2>1, <2>2, <2>3
<1>5. QED
  BY <1>1, <1>2, <1>3, <1>4 DEF NameInHand

\* The update that would take the name away moves it to local.conf first.
LEMMA CarryIdentityName ==
    ASSUME NameInHand, Aging, CarryIdentity PROVE NameInHand'
<1>1. /\ pc = "write" /\ pc' = "record"
      /\ UNCHANGED <<cur, old, want, state>>
  BY DEF CarryIdentity, medium, observers
<1>2. local => local'
  BY Zenon DEF CarryIdentity
<1> SUFFICES ASSUME Unexcused'
             PROVE  /\ state.trial # 0 => old[Conf] \in Named
                    /\ Release[want][Conf] \in Named \cup {None}
                    /\ cur[Conf] \in Named
                    /\ ~OtherName =>
                         /\ cur[Conf] = Release[0][Conf]
                         /\ state.trial # 0 => Conf \notin state.files
  BY <1>1 DEF NameInHand, OtherName
<1>3. pc \notin Swapping
  BY <1>1 DEF Swapping
<1>4. Unexcused /\ cur[Conf] \in Named
  BY <1>2, <1>3, NamedBefore
<1>5. Release[want][Conf] \in Named \cup {None}
  <2>1. ~(/\ Conf \in Changed(want) /\ cur[Conf] \in Named
          /\ Release[want][Conf] \notin Named /\ ~local)
    BY <1>1 DEF CarryIdentity, Fails, Unexcused
  <2>2. CASE Conf \notin Changed(want)
    BY <2>2, <1>4, PathsAssumption DEF Changed
  <2>3. CASE Release[want][Conf] \in Named
    BY <2>3
  <2>4. QED
    BY <2>1, <2>2, <2>3, <1>4 DEF Unexcused
<1>6. QED
  BY <1>1, <1>4, <1>5 DEF NameInHand

\* Recording a trial carries the name into local.conf first.
LEMMA RecordTrialName ==
    ASSUME TypeOK, FilesInOrder, NameInHand, Aging, RecordTrial PROVE NameInHand'
<1>1. /\ pc = "record" /\ pc' = "swap" /\ old' = cur
      /\ state'.files = Changed(want) \cup Retired(want)
      /\ UNCHANGED <<cur, want, local>>
  BY DEF RecordTrial, medium
<1> SUFFICES ASSUME Unexcused'
             PROVE  /\ cur[Conf] \in Named
                    /\ Release[want][Conf] \in Named \cup {None}
                    /\ ~OtherName =>
                         /\ cur[Conf] = Release[0][Conf]
                         /\ Conf \notin Changed(want) \cup Retired(want)
  BY <1>1 DEF NameInHand, OtherName, Swapping
<1>2. Unexcused /\ cur[Conf] \in Named
  BY <1>1, NamedBefore DEF Swapping
<1>3. Release[want][Conf] \in Named \cup {None}
  BY <1>1, <1>2 DEF NameInHand
<1>4. ASSUME ~OtherName
      PROVE  cur[Conf] = Release[0][Conf] /\ Conf \notin Changed(want) \cup Retired(want)
  <2>1. cur[Conf] = Release[0][Conf]
    BY <1>2, <1>4 DEF NameInHand
  <2>2. want \in Serials
    BY <1>1, BoundsNat DEF TypeOK, FilesInOrder, InHand
  <2>3. Conf \notin Changed(want)
    BY <1>3, <1>4, <2>1, <2>2 DEF OtherName, Changed
  <2>4. Conf \notin Retired(want)
    BY ConstantsAssumption DEF Retired
  <2>5. QED
    BY <2>1, <2>3, <2>4
<1>5. QED
  BY <1>2, <1>3, <1>4

\* Every step keeps the name in hand.
LEMMA NameStep ==
    ASSUME TypeOK, FilesInOrder, NameInHand, [Step]_vars PROVE NameInHand'
<1>1. Aging
  BY Ages
<1>2. worn' \/ "putback" \in hurt' => MovesCut'
  BY DEF MovesCut
<1>3. pc \in {"back", "revert"} /\ todo = {} => cur = old \/ MovesCut'
  BY <1>1, MovesCutStays, PutBackIsOld DEF MovesCut
<1> USE DEF medium, observers, Swapping
<1>4. CASE Start
  <2>1. CASE PowerOn \/ StartUnread \/ StartNormal \/ StartRevert
    BY <2>1, <1>1, QuietName DEF PowerOn, StartUnread, StartNormal, StartRevert
  <2>2. CASE StartTrial
    <3>1. [state EXCEPT !.starts = @ + 1].files = state.files
      BY DEF TypeOK, State
    <3>2. QED
      BY <2>2, <3>1, <1>1, QuietName DEF StartTrial, WriteState
  <2>3. QED
    BY <1>4, <2>1, <2>2 DEF Start
<1>5. CASE Revert
  <2>1. ASSUME NEW p \in Paths,
               \/ RevertDelete(p) \/ RevertRename(p) \/ RevertRemove(p)
               \/ RevertKeep(p) \/ RevertError(p)
        PROVE  NameInHand'
    <3>1. /\ pc \in {"revert", "back"} /\ p \in todo
          /\ UNCHANGED <<pc, state, old, want, local>>
      BY <2>1 DEF RevertDelete, RevertRename, RevertRemove, RevertKeep,
                  RevertError, Reverting, First
    <3>2. cur' = cur \/ \E c : cur' = [cur EXCEPT ![p] = c]
      BY <2>1 DEF RevertDelete, RevertRename, RevertRemove, RevertKeep, RevertError
    <3>3. \A q \in Paths \ {p} : cur'[q] = cur[q]
      BY <3>2 DEF TypeOK, Files
    <3>4. QED
      BY <3>1, <3>3, <1>1, MovingName
  <2>2. CASE RecordFailed
    <3>1. /\ pc = "revert" /\ pc' = "chain" /\ todo = {}
          /\ UNCHANGED <<cur, old, local>>
      BY <2>2 DEF RecordFailed
    <3>2. state'.trial = 0 \/ state' = state
      BY <2>2, AtRestFields DEF RecordFailed, WriteState
    <3>3. QED
      BY <3>1, <3>2, <1>1, <1>3, MovedName
  <2>3. CASE ChainLoad \/ ChainFails
    BY <2>3, <1>1, QuietName DEF ChainLoad, ChainFails, Forget
  <2>4. QED
    BY <1>5, <2>1, <2>2, <2>3 DEF Revert
<1>6. CASE Asked
  <2>1. CASE Decline
    BY <2>1, <1>1, QuietName DEF Decline
  <2>2. ASSUME NEW m \in Serials, SetFloor(m) PROVE NameInHand'
    <3>1. [state EXCEPT !.min = Larger(@, m)].trial = 0
      BY <2>2 DEF TypeOK, State, SetFloor, MayTake
    <3>2. QED
      BY <2>2, <3>1, <1>1, QuietName DEF SetFloor, WriteState
  <2>3. ASSUME NEW m \in Serials, SetSerial(m) PROVE NameInHand'
    <3>1. [state EXCEPT !.serial = m].trial = 0
      BY <2>3 DEF TypeOK, State, SetSerial, MayTake
    <3>2. QED
      BY <2>3, <3>1, <1>1, QuietName DEF SetSerial, WriteState
  <2>4. ASSUME NEW m \in Serials, Begin(m) PROVE NameInHand'
    BY <2>4, <1>1, QuietName DEF Begin
  <2>5. QED
    BY <1>6, <2>1, <2>2, <2>3, <2>4 DEF Asked
<1>7. CASE Apply
  <2>1. ASSUME NEW p \in Paths, DropPrev(p) \/ WriteNew(p) PROVE NameInHand'
    BY <2>1, <1>1, QuietName DEF DropPrev, WriteNew
  <2>2. ASSUME NEW p \in Paths, SwapOut(p) \/ SwapIn(p) PROVE NameInHand'
    <3>1. /\ pc = "swap" /\ p \in todo
          /\ UNCHANGED <<pc, state, old, want, local>>
      BY <2>2 DEF SwapOut, SwapIn, First
    <3>2. \E c : cur' = [cur EXCEPT ![p] = c]
      BY <2>2 DEF SwapOut, SwapIn
    <3>3. \A q \in Paths \ {p} : cur'[q] = cur[q]
      BY <3>2 DEF TypeOK, Files
    <3>4. QED
      BY <3>1, <3>3, <1>1, MovingName
  <2>3. CASE DropFails \/ BeginWrite \/ WriteFails \/ RecordFails \/ SwapFails
    BY <2>3, <1>1, QuietName
       DEF DropFails, BeginWrite, WriteFails, RecordFails, SwapFails, GiveUp
  <2>4. CASE RestoreState
    <3>1. /\ pc = "back" /\ pc' = "ready" /\ todo = {}
          /\ UNCHANGED <<cur, old, local>>
      BY <2>4 DEF RestoreState, GiveUp
    <3>2. mem.trial = 0
      BY <3>1 DEF FilesInOrder, InHand
    <3>3. state'.trial = 0 \/ state' = state
      BY <2>4, <3>2 DEF RestoreState, WriteState
    <3>4. QED
      BY <3>1, <3>3, <1>1, <1>3, MovedName
  <2>5. CASE SwapDone
    <3>1. /\ pc = "swap" /\ pc' = "off" /\ todo = {}
          /\ UNCHANGED <<cur, old, local, state>>
      BY <2>5 DEF SwapDone, Forget
    <3>2. QED
      BY <3>1, <1>1, MovedName
  <2>6. QED
    BY <1>7, <2>1, <2>2, <2>3, <2>4, <2>5, <1>1, CarryIdentityName,
       RecordTrialName DEF Apply
<1>8. CASE Settle
  <2>1. CASE Attach \/ MarkNothing \/ RaiseNvMin \/ Restart
    BY <2>1, <1>1, QuietName DEF Attach, MarkNothing, RaiseNvMin, Restart, Forget
  <2>2. CASE MarkGood
    BY <2>2, <1>1, QuietName, AtRestFields DEF MarkGood, WriteState
  <2>3. QED
    BY <1>8, <2>1, <2>2 DEF Settle
<1>9. CASE Elements
  <2>1. CASE PowerLoss
    <3>1. pc \in Swapping => MovesCut'
      BY <2>1 DEF PowerLoss, Fails, MovesCut
    <3>2. QED
      BY <2>1, <3>1, <1>1, QuietName DEF PowerLoss, Forget
  <2>2. CASE TornAtRest
    <3>1. /\ pc' = "off" /\ state'.trial = 0 /\ UNCHANGED <<cur, old, local>>
          /\ pc \in Swapping => pc \in {"back", "revert"} /\ todo = {}
      BY <2>2, AtRestFields DEF TornAtRest, TornWrite, Forget, Blank
    <3>2. CASE pc \in Swapping
      BY <3>1, <3>2, <1>1, <1>3, MovedName
    <3>3. CASE pc \notin Swapping
      BY <3>1, <3>3, <1>1, QuietName
    <3>4. QED
      BY <3>2, <3>3
  <2>3. CASE WearOut
    BY <2>3, <1>1, QuietName DEF WearOut
  <2>4. CASE \E i \in Machines, n \in Serials : OtherMedium(i, n)
    BY <2>4, <1>1, QuietName DEF OtherMedium
  <2>5. QED
    BY <1>9, <2>1, <2>2, <2>3, <2>4 DEF Elements
<1>10. CASE UNCHANGED vars
  BY <1>10, <1>1, QuietName DEF vars
<1>11. CASE Onwards
  <2>1. CASE LookAgain \/ RunOn
    BY <2>1, <1>1, QuietName DEF LookAgain, RunOn, Unmoved
  <2>2. CASE Swapped
    <3>1. /\ pc = "swap" /\ pc' = "ready" /\ todo = {}
          /\ UNCHANGED <<cur, old, local, state>>
      BY <2>2 DEF Swapped, GiveUp
    <3>2. QED
      BY <3>1, <1>1, MovedName
  <2>3. QED
    BY <1>11, <2>1, <2>2 DEF Onwards
<1>12. QED
  BY <1>4, <1>5, <1>6, <1>7, <1>8, <1>9, <1>10, <1>11 DEF Step

\* The name a medium was given is never lost to an update.
LEMMA BothKeepName == BothSpec => []IdentityKept
<1>1. Init => NameInHand
  <2>1. Init => /\ state.trial = 0 /\ pc = "off" /\ cur = Release[0]
    BY AtRestFields DEF Init, Blank
  <2>2. QED
    BY <2>1 DEF NameInHand, Unexcused, Swapping
<1>2. TypeOK /\ FilesInOrder /\ NameInHand /\ [Step]_vars => NameInHand'
  BY NameStep
<1>3. TypeOK /\ NameInHand => IdentityKept
  BY DEF TypeOK, NameInHand, Unexcused, Swapping, IdentityKept
<1>4. QED
  BY <1>1, <1>2, <1>3, BothTyped, BothFiles, PTL DEF BothSpec

\* So a boot that updates the medium keeps the machine's name in stormboot.conf.
THEOREM NameAlwaysKept == Spec => []IdentityKept
  BY BothKeepName, BootsAlike

------------------------------------------------------------------------------
(* The bootloader, wherever its renames are cut.                           *)

\* The phases before a file moves, in which the bootloader is in place.
BeforeMoves == {"start", "up", "drop", "write", "record"}

\* What keeps a bootloader, and one to go back to.
LoaderInPlace ==
    /\ pc \in BeforeMoves => cur[Boot] # None
    /\ state.trial # 0 => old[Boot] # None

\* As long as no write or put-back fails, the bootloader is out of its place only
\* when everything else is done, and no boot runs on without it.
NotYetGone ==
    ~worn /\ hurt \cap {"write", "putback"} = {} =>
      /\ pc # "back"
      /\ pc \in {"swap", "revert"} /\ cur[Boot] = None => todo = {Boot}
      /\ pc \notin {"swap", "revert"} /\ cur[Boot] = None =>
           /\ pc = "off"
           /\ \/ [cur EXCEPT ![Boot] = prv[Boot]] = old
              \/ state.trial # 0 /\ Whole(state.trial, [cur EXCEPT ![Boot] = new[Boot]])

InReach == LoaderInPlace /\ BootKept /\ NotYetGone

\* A step that moves no file, in no phase in which files move.
LEMMA QuietReach ==
    ASSUME InReach, Aging, UNCHANGED <<cur, prv, old>>,
           state'.trial # 0 => state.trial # 0,
           pc' \in BeforeMoves => pc \in BeforeMoves \/ cur[Boot] # None,
           pc \notin Swapping, pc' \notin Swapping,
           pc = "off" /\ cur[Boot] = None => UNCHANGED <<state, new, pc>>
    PROVE  InReach'
<1>1. LoaderInPlace'
  BY DEF InReach, LoaderInPlace
<1>2. BootKept'
  BY DEF InReach, BootKept
<1>3. ~worn' /\ hurt' \cap {"write", "putback"} = {} =>
        ~worn /\ hurt \cap {"write", "putback"} = {}
  BY DEF Aging
<1>4. NotYetGone'
  <2>1. CASE cur[Boot] # None
    BY <2>1 DEF NotYetGone, Swapping
  <2>2. CASE cur[Boot] = None
    BY <2>2, <1>3 DEF InReach, NotYetGone, Swapping, Whole
  <2>3. QED
    BY <2>1, <2>2
<1>5. QED
  BY <1>1, <1>2, <1>4 DEF InReach

\* The moves end: done, or cut where they are.
LEMMA MovesEnd ==
    ASSUME TypeOK, FilesInOrder, InReach, Aging, UNCHANGED <<cur, prv, old>>,
           state'.trial # 0 => state.trial # 0,
           pc \in Swapping, pc' \notin Swapping, pc' \notin BeforeMoves,
           todo = {} \/ (pc' = "off" /\ UNCHANGED <<state, new>>)
    PROVE  InReach'
<1>1. LoaderInPlace'
  BY DEF InReach, LoaderInPlace
<1>2. BootKept'
  BY DEF InReach, BootKept
<1>3. NotYetGone'
  <2> SUFFICES ASSUME ~worn', hurt' \cap {"write", "putback"} = {}, cur[Boot] = None
               PROVE  /\ pc' = "off"
                      /\ \/ [cur EXCEPT ![Boot] = prv[Boot]] = old
                         \/ /\ state'.trial # 0
                            /\ Whole(state'.trial, [cur EXCEPT ![Boot] = new'[Boot]])
    BY DEF NotYetGone, Swapping, Whole
  <2>1. ~worn /\ hurt \cap {"write", "putback"} = {}
    BY DEF Aging
  <2>2. pc \in {"swap", "revert"} /\ todo = {Boot}
    BY <2>1 DEF InReach, NotYetGone, Swapping
  <2>3. pc' = "off" /\ UNCHANGED <<state, new>>
    BY <2>2
  <2>4. Boot \in Paths /\ cur \in Files /\ old \in Files
    BY PathsAssumption DEF TypeOK
  <2>5. CASE pc = "revert"
    <3>1. \A q \in Paths \ {Boot} : cur[q] = old[q]
      BY <2>1, <2>2, <2>5 DEF FilesInOrder, PuttingBack
    <3>2. prv[Boot] = old[Boot]
      BY DEF InReach, BootKept
    <3>3. \A q \in Paths : [cur EXCEPT ![Boot] = prv[Boot]][q] = old[q]
      BY <2>4, <3>1, <3>2 DEF Files
    <3>4. [cur EXCEPT ![Boot] = prv[Boot]] = old
      BY <2>4, <3>3 DEF Files
    <3>5. QED
      BY <2>3, <3>4
  <2>6. CASE pc = "swap"
    <3>1. /\ state.trial = want /\ want # 0
          /\ \A q \in Paths \ {Boot} :
               IF Release[want][q] # None THEN cur[q] = Release[want][q]
                                          ELSE q \in Drivers => cur[q] = None
          /\ Release[want][Boot] # None => new[Boot] = Release[want][Boot]
      BY <2>2, <2>6 DEF FilesInOrder, InHand, SwapUnderWay
    <3>2. Release[want][Boot] # None
      BY ConstantsAssumption DEF TypeOK
    <3>3. Whole(want, [cur EXCEPT ![Boot] = new[Boot]])
      BY <2>4, <3>1, <3>2 DEF Whole, Files
    <3>4. QED
      BY <2>3, <3>1, <3>3
  <2>7. QED
    BY <2>2, <2>5, <2>6
<1>4. QED
  BY <1>1, <1>2, <1>3 DEF InReach

\* A rename or a deletion of the swap or the revert keeps the old bootloader, and
\* comes to it last.
LEMMA MovingReach ==
    ASSUME TypeOK, FilesInOrder, InReach, Aging, NEW p \in Paths,
           \/ SwapOut(p) \/ SwapIn(p) \/ RevertDelete(p) \/ RevertRename(p)
           \/ RevertRemove(p) \/ RevertKeep(p) \/ RevertError(p)
    PROVE  InReach'
<1>1. /\ pc \in Swapping /\ UNCHANGED <<pc, state, old, want>>
      /\ p \in todo /\ (p = Boot => todo = {Boot})
      /\ todo' \in {todo, todo \ {p}}
  BY DEF SwapOut, SwapIn, RevertDelete, RevertRename, RevertRemove, RevertKeep,
         RevertError, Reverting, First, Swapping, observers
<1>2. Boot \in Paths /\ cur \in Files /\ prv \in Files /\ new \in Files
  BY PathsAssumption DEF TypeOK
<1>3. state.trial # 0 /\ old[Boot] # None
  BY <1>1 DEF FilesInOrder, InHand, InReach, LoaderInPlace, Swapping
<1>4. LoaderInPlace'
  BY <1>1, <1>3 DEF LoaderInPlace, BeforeMoves, Swapping
<1>5. ~worn' /\ hurt' \cap {"write", "putback"} = {} =>
        ~worn /\ hurt \cap {"write", "putback"} = {}
  BY DEF Aging
<1>6. CASE p # Boot
  <2>1. cur'[Boot] = cur[Boot] /\ prv'[Boot] = prv[Boot]
    BY <1>2, <1>6 DEF SwapOut, SwapIn, RevertDelete, RevertRename, RevertRemove,
       RevertKeep, RevertError, Files
  <2>2. BootKept'
    BY <1>1, <2>1 DEF InReach, BootKept
  <2>3. NotYetGone'
    BY <1>1, <1>5, <1>6, <2>1 DEF InReach, NotYetGone, Swapping
  <2>4. QED
    BY <1>4, <2>2, <2>3 DEF InReach
<1>7. CASE p = Boot
  <2>1. todo = {Boot}
    BY <1>1, <1>7
  <2>2. CASE SwapOut(p)
    <3>1. /\ pc = "swap" /\ cur[Boot] # None /\ cur[Boot] = old[Boot]
          /\ prv' = [prv EXCEPT ![Boot] = cur[Boot]]
      BY <2>1, <2>2, <1>7 DEF SwapOut, FilesInOrder, SwapUnderWay
    <3>2. Release[want][Boot] # None
      BY ConstantsAssumption DEF TypeOK
    <3>3. todo' = todo
      BY <2>2, <3>2, <1>7 DEF SwapOut
    <3>4. prv'[Boot] = old[Boot]
      BY <3>1, <1>2 DEF Files
    <3>5. BootKept'
      BY <3>4, <1>1, <1>3 DEF BootKept
    <3>6. NotYetGone'
      BY <3>1, <3>3, <2>1, <1>1 DEF NotYetGone
    <3>7. QED
      BY <1>4, <3>5, <3>6 DEF InReach
  <2>3. CASE SwapIn(p) \/ RevertRename(p)
    <3>1. cur'[Boot] # None
      <4>1. CASE SwapIn(p)
        <5>1. /\ pc = "swap" /\ cur[Boot] = None /\ cur' = [cur EXCEPT ![Boot] = new[Boot]]
          BY <4>1, <1>7 DEF SwapIn
        <5>2. Release[want][Boot] # None /\ new[Boot] = Release[want][Boot]
          BY <5>1, <2>1 DEF FilesInOrder, SwapUnderWay
        <5>3. QED
          BY <5>1, <5>2, <1>2 DEF Files
      <4>2. CASE RevertRename(p)
        BY <4>2, <1>2, <1>7 DEF RevertRename, Files
      <4>3. QED
        BY <2>3, <4>1, <4>2
    <3>2. pc' # "back" \/ worn' \/ hurt' \cap {"write", "putback"} # {}
      BY <1>1, <1>5 DEF InReach, NotYetGone
    <3>3. BootKept' /\ NotYetGone'
      BY <3>1, <3>2 DEF BootKept, NotYetGone
    <3>4. QED
      BY <1>4, <3>3 DEF InReach
  <2>4. CASE RevertDelete(p)
    <3>1. pc \in {"revert", "back"} /\ prv[Boot] # None /\ prv' = prv /\ todo' = todo
      BY <2>4, <1>7 DEF RevertDelete, Reverting
    <3>2. Boot \in state.files
      BY <3>1, <2>1 DEF FilesInOrder, PuttingBack
    <3>3. prv[Boot] = old[Boot]
      BY <3>1, <3>2, <1>2, <1>3 DEF FilesInOrder, Recoverable, PutBack
    <3>4. BootKept'
      BY <3>1, <3>3, <1>1 DEF BootKept
    <3>5. NotYetGone'
      BY <3>1, <2>1, <1>1, <1>5 DEF InReach, NotYetGone
    <3>6. QED
      BY <1>4, <3>4, <3>5 DEF InReach
  <2>5. CASE RevertRemove(p)
    <3>1. pc \in {"revert", "back"} /\ Boot \in state.fresh
      BY <2>5, <1>7 DEF RevertRemove, Reverting
    <3>2. Boot \in state.files
      BY <3>1, <2>1 DEF FilesInOrder, PuttingBack
    <3>3. old[Boot] = None
      BY <3>1, <3>2, <1>3 DEF FilesInOrder, FreshWereNew
    <3>4. QED
      BY <3>3, <1>3
  <2>6. CASE RevertKeep(p)
    <3>1. prv[Boot] = None /\ cur' = cur /\ prv' = prv
      BY <2>6, <1>7 DEF RevertKeep
    <3>2. cur[Boot] # None
      BY <3>1 DEF InReach, BootKept
    <3>3. BootKept'
      BY <3>1, <3>2 DEF BootKept
    <3>4. NotYetGone'
      BY <3>1, <3>2, <1>1, <1>5 DEF InReach, NotYetGone
    <3>5. QED
      BY <1>4, <3>3, <3>4 DEF InReach
  <2>7. CASE RevertError(p)
    <3>1. UNCHANGED <<cur, prv, old>> /\ (worn' \/ "putback" \in hurt')
      BY <2>7 DEF RevertError, Fails, observers
    <3>2. BootKept'
      BY <3>1 DEF InReach, BootKept
    <3>3. NotYetGone'
      BY <3>1 DEF NotYetGone
    <3>4. QED
      BY <1>4, <3>2, <3>3 DEF InReach
  <2>8. QED
    BY <2>2, <2>3, <2>4, <2>5, <2>6, <2>7
<1>8. QED
  BY <1>6, <1>7

\* Every step keeps the old bootloader to be had, and a set one rename away.
LEMMA ReachStep ==
    ASSUME TypeOK, FilesInOrder, InReach, [Step]_vars PROVE InReach'
<1>1. Aging
  BY Ages
<1> USE DEF medium, observers, Swapping, BeforeMoves
<1>2. CASE Start
  <2>1. CASE PowerOn \/ StartUnread \/ StartNormal
    BY <2>1, <1>1, QuietReach DEF PowerOn, StartUnread, StartNormal
  <2>2. CASE StartTrial
    BY <2>2, <1>1, QuietReach DEF StartTrial
  <2>3. CASE StartRevert
    <3>1. /\ pc = "start" /\ pc' = "revert" /\ UNCHANGED <<cur, old, state>>
      BY <2>3 DEF StartRevert
    <3>2. cur[Boot] # None
      BY <3>1 DEF InReach, LoaderInPlace
    <3>3. QED
      BY <3>1, <3>2 DEF InReach, LoaderInPlace, BootKept, NotYetGone
  <2>4. QED
    BY <1>2, <2>1, <2>2, <2>3 DEF Start
<1>3. CASE Revert
  <2>1. CASE RecordFailed
    <3>1. /\ pc = "revert" /\ pc' = "chain" /\ todo = {} /\ UNCHANGED <<cur, prv, old>>
          /\ state' = state \/ state'.trial = 0
      BY <2>1, AtRestFields DEF RecordFailed, WriteState
    <3>2. QED
      BY <3>1, <1>1, MovesEnd
  <2>2. CASE ChainLoad \/ ChainFails
    BY <2>2, <1>1, QuietReach DEF ChainLoad, ChainFails, Forget
  <2>3. QED
    BY <1>3, <2>1, <2>2, <1>1, MovingReach DEF Revert
<1>4. CASE Asked
  <2>1. CASE Decline
    BY <2>1, <1>1, QuietReach DEF Decline
  <2>2. ASSUME NEW m \in Serials, SetFloor(m) PROVE InReach'
    <3>1. [state EXCEPT !.min = Larger(@, m)].trial = state.trial
      BY DEF TypeOK, State
    <3>2. QED
      BY <2>2, <3>1, <1>1, QuietReach DEF SetFloor, WriteState
  <2>3. ASSUME NEW m \in Serials, SetSerial(m) PROVE InReach'
    <3>1. [state EXCEPT !.serial = m].trial = state.trial
      BY DEF TypeOK, State
    <3>2. QED
      BY <2>3, <3>1, <1>1, QuietReach DEF SetSerial, WriteState
  <2>4. ASSUME NEW m \in Serials, Begin(m) PROVE InReach'
    BY <2>4, <1>1, QuietReach DEF Begin
  <2>5. QED
    BY <1>4, <2>1, <2>2, <2>3, <2>4 DEF Asked
<1>5. CASE Apply
  <2>1. ASSUME NEW p \in Paths, DropPrev(p) PROVE InReach'
    <3>1. /\ pc = "drop" /\ UNCHANGED <<cur, old, state, pc>>
      BY <2>1 DEF DropPrev
    <3>2. cur[Boot] # None
      BY <3>1 DEF InReach, LoaderInPlace
    <3>3. QED
      BY <3>1, <3>2 DEF InReach, LoaderInPlace, BootKept, NotYetGone
  <2>2. CASE \/ \E p \in Paths : WriteNew(p)
             \/ DropFails \/ BeginWrite \/ WriteFails \/ CarryIdentity \/ RecordFails
    BY <2>2, <1>1, QuietReach
       DEF WriteNew, DropFails, BeginWrite, WriteFails, CarryIdentity, RecordFails, GiveUp
  <2>3. CASE RecordTrial
    <3>1. pc = "record" /\ pc' = "swap" /\ old' = cur /\ cur' = cur
      BY <2>3 DEF RecordTrial
    <3>2. cur[Boot] # None
      BY <3>1 DEF InReach, LoaderInPlace
    <3>3. QED
      BY <3>1, <3>2 DEF InReach, LoaderInPlace, BootKept, NotYetGone
  <2>4. CASE SwapFails
    <3>1. /\ pc' = "back" /\ UNCHANGED <<cur, prv, old, state>>
          /\ worn' \/ "write" \in hurt'
      BY <2>4 DEF SwapFails, Fails
    <3>2. QED
      BY <3>1 DEF InReach, LoaderInPlace, BootKept, NotYetGone
  <2>5. CASE RestoreState
    <3>1. /\ pc = "back" /\ pc' = "ready" /\ todo = {} /\ UNCHANGED <<cur, prv, old>>
      BY <2>5 DEF RestoreState, GiveUp
    <3>2. mem.trial = 0
      BY <3>1 DEF FilesInOrder, InHand
    <3>3. state' = state \/ state'.trial = 0
      BY <2>5, <3>2 DEF RestoreState, WriteState
    <3>4. QED
      BY <3>1, <3>3, <1>1, MovesEnd
  <2>6. CASE SwapDone
    BY <2>6, <1>1, MovesEnd DEF SwapDone, Forget
  <2>7. QED
    BY <1>5, <2>1, <2>2, <2>3, <2>4, <2>5, <2>6, <1>1, MovingReach DEF Apply
<1>6. CASE Settle
  <2>1. CASE Attach \/ MarkNothing \/ RaiseNvMin \/ Restart
    BY <2>1, <1>1, QuietReach DEF Attach, MarkNothing, RaiseNvMin, Restart, Forget
  <2>2. CASE MarkGood
    BY <2>2, <1>1, QuietReach, AtRestFields DEF MarkGood, WriteState
  <2>3. QED
    BY <1>6, <2>1, <2>2 DEF Settle
<1>7. CASE Elements
  <2>1. CASE PowerLoss
    <3>1. pc' = "off" /\ pc # "off" /\ UNCHANGED <<cur, prv, new, old, state>>
      BY <2>1 DEF PowerLoss, Forget
    <3>2. CASE pc \in Swapping
      BY <3>1, <3>2, <1>1, MovesEnd
    <3>3. CASE pc \notin Swapping
      BY <3>1, <3>3, <1>1, QuietReach
    <3>4. QED
      BY <3>2, <3>3
  <2>2. CASE TornAtRest
    <3>1. /\ pc' = "off" /\ state'.trial = 0 /\ UNCHANGED <<cur, prv, new, old>>
          /\ pc # "off" /\ (pc \in Swapping => todo = {})
      BY <2>2, AtRestFields DEF TornAtRest, TornWrite, Forget, Blank
    <3>2. CASE pc \in Swapping
      BY <3>1, <3>2, <1>1, MovesEnd
    <3>3. CASE pc \notin Swapping
      BY <3>1, <3>3, <1>1, QuietReach
    <3>4. QED
      BY <3>2, <3>3
  <2>3. CASE WearOut
    BY <2>3 DEF WearOut, InReach, LoaderInPlace, BootKept, NotYetGone
  <2>4. ASSUME NEW i \in Machines, NEW n \in Serials, OtherMedium(i, n) PROVE InReach'
    BY <2>4, <1>1, QuietReach DEF OtherMedium
  <2>5. QED
    BY <1>7, <2>1, <2>2, <2>3, <2>4 DEF Elements
<1>8. CASE UNCHANGED vars
  BY <1>8 DEF vars, InReach, LoaderInPlace, BootKept, NotYetGone, Whole
<1>9. CASE Onwards
  <2>1. CASE LookAgain \/ RunOn
    BY <2>1, <1>1, QuietReach DEF LookAgain, RunOn, Unmoved
  <2>2. CASE Swapped
    BY <2>2, <1>1, MovesEnd DEF Swapped, GiveUp
  <2>3. QED
    BY <1>9, <2>1, <2>2 DEF Onwards
<1>10. QED
  BY <1>2, <1>3, <1>4, <1>5, <1>6, <1>7, <1>8, <1>9 DEF Step

\* However an update or its undoing was cut, the old bootloader is kept, and a
\* medium without one in place is one rename away from a whole set.
LEMMA BothReach == BothSpec => []InReach
<1>1. Init => InReach
  <2> SUFFICES ASSUME Init PROVE InReach
    OBVIOUS
  <2>1. cur[Boot] # None /\ pc = "off" /\ state.trial = 0
    BY AtRestFields, ConstantsAssumption DEF Init, Blank
  <2>2. QED
    BY <2>1 DEF InReach, LoaderInPlace, BeforeMoves, BootKept, NotYetGone
<1>2. TypeOK /\ FilesInOrder /\ InReach /\ [Step]_vars => InReach'
  BY ReachStep
<1>3. QED
  BY <1>1, <1>2, BothTyped, BothFiles, PTL DEF BothSpec

------------------------------------------------------------------------------
(* The program (Stick).                                                    *)

NodePhases == {"up", "drop", "write", "record", "swap", "back", "ready"}

\* The program runs beside no trial's count, in the phases an update has, and
\* ends in the system it was run from.
NodeInOrder ==
    /\ who \in {"boot", "node", "done"}
    /\ pc = "run" \/ who = "node" => trialing = 0
    /\ who = "node" => pc \in NodePhases
    /\ who = "done" => pc = "run"

\* The program's update is the boot's, in the same phases.
LEMMA UpdateStep ==
    ASSUME Update, pc \in NodePhases
    PROVE  Step /\ trialing' = trialing /\ pc' \in NodePhases
<1> USE DEF NodePhases, GiveUp
<1>1. CASE Leave
  BY <1>1 DEF Leave, Decline, Asked, Step
<1>2. ASSUME NEW m \in Serials, LeaveOlder(m) \/ CarriesIt(m) \/ TakeIt(m)
      PROVE  Step /\ trialing' = trialing /\ pc' \in NodePhases
  <2>1. SetFloor(m) \/ SetSerial(m) \/ Begin(m)
    BY <1>2 DEF LeaveOlder, CarriesIt, TakeIt
  <2>2. Asked
    BY <2>1 DEF Asked
  <2>3. QED
    BY <2>1, <2>2 DEF Step, SetFloor, SetSerial, Begin
<1>3. CASE DropOld
  BY <1>3 DEF DropOld, DropPrev, DropFails, BeginWrite, Apply, Step
<1>4. CASE WriteThem
  BY <1>4 DEF WriteThem, WriteNew, WriteFails, Apply, Step
<1>5. CASE Carry
  BY <1>5 DEF Carry, CarryIdentity, Apply, Step
<1>6. CASE Record
  BY <1>6 DEF Record, RecordTrial, RecordFails, Apply, Step
<1>7. CASE SwapThem
  BY <1>7 DEF SwapThem, SwapOut, SwapIn, Apply, Step
<1>8. CASE SwapBroken
  BY <1>8 DEF SwapBroken, SwapFails, Apply, Step
<1>9. CASE PutThemBack
  BY <1>9 DEF PutThemBack, RevertDelete, RevertRename, RevertRemove, RevertKeep,
              RevertError, Revert, Step
<1>10. CASE GoBack
  BY <1>10 DEF GoBack, RestoreState, Apply, Step
<1>11. CASE Swapped
  BY <1>11 DEF Swapped, Onwards, Step
<1>12. QED
  BY <1>1, <1>2, <1>3, <1>4, <1>5, <1>6, <1>7, <1>8, <1>9, <1>10, <1>11 DEF Update

\* A step of the boot does not count a trial that has ended, and leaves the
\* system only for a restart.
LEMMA NextOfRun ==
    ASSUME Next, pc = "run" => trialing = 0
    PROVE  /\ pc' = "run" => trialing' = 0
           /\ pc = "run" => pc' \in {"run", "off"}
<1>1. CASE Start
  BY <1>1 DEF Start, PowerOn, StartUnread, StartNormal, StartTrial, StartRevert
<1>2. CASE Revert
  BY <1>2 DEF Revert, RevertDelete, RevertRename, RevertRemove, RevertKeep,
              RevertError, Reverting, RecordFailed, ChainLoad, ChainFails, Forget
<1>3. CASE Check
  BY <1>3 DEF Check, Decline, DeclineOlder, AlreadyCarried, Take, SetFloor,
              SetSerial, Begin
<1>4. CASE Apply
  BY <1>4 DEF Apply, DropPrev, WriteNew, SwapOut, SwapIn, DropFails, BeginWrite,
              WriteFails, CarryIdentity, RecordTrial, RecordFails, SwapFails,
              RestoreState, SwapDone, GiveUp, Forget
<1>5. CASE Settle
  BY <1>5 DEF Settle, Attach, MarkNothing, MarkGood, RaiseNvMin, Restart, Forget
<1>6. CASE Environment
  BY <1>6 DEF Environment, PowerLoss, TornState, TornWrite, WearOut, OtherMedium,
              Forget
<1>7. QED
  BY <1>1, <1>2, <1>3, <1>4, <1>5, <1>6 DEF Next

\* A step that is not the program's search or its end is one of both.
LEMMA StickStep ==
    ASSUME NodeInOrder, [StickNext]_stickVars PROVE [Step]_vars /\ NodeInOrder'
<1> USE DEF NodeInOrder
<1>1. CASE Find
  <2>1. LookAgain \/ UNCHANGED vars
    <3>1. ASSUME NEW bay \in Bays, NEW d \in Sticks(bay), d.looks = "ours"
          PROVE  cur[Boot] # None
      BY <3>1 DEF Sticks, HasMarkers
    <3>2. (pc' = "up" /\ cur[Boot] # None) \/ pc' = pc
      BY <1>1, <3>1 DEF Find
    <3>3. QED
      BY <1>1, <3>2, Zenon DEF Find, LookAgain, Unmoved, vars, medium, budget, observers
  <2>2. [Step]_vars
    BY <2>1 DEF Step, Onwards
  <2>3. NodeInOrder'
    BY <1>1 DEF Find, NodePhases
  <2>4. QED
    BY <2>2, <2>3
<1>2. CASE Ends
  <2>1. RunOn
    BY <1>2 DEF Ends, RunOn, Unmoved
  <2>2. QED
    BY <1>2, <2>1 DEF Ends, Step, Onwards
<1>3. CASE who = "node" /\ Update /\ NextBoot
  BY <1>3, UpdateStep DEF NextBoot, NodePhases
<1>4. CASE who = "node" /\ (PowerLoss \/ TornByStick \/ WearOut) /\ NextBoot
  <2>1. TornByStick => TornAtRest
    BY DEF TornByStick, TornAtRest
  <2>2. Step
    BY <1>4, <2>1 DEF Step, Elements
  <2>3. NodeInOrder'
    BY <1>4 DEF NextBoot, NodePhases, PowerLoss, TornByStick, TornWrite, WearOut, Forget
  <2>4. QED
    BY <2>2, <2>3
<1>5. CASE MediumSteps
  <2>1. Step
    BY <1>5, NextIsStep DEF MediumSteps
  <2>2. NodeInOrder'
    BY <1>5, NextOfRun DEF MediumSteps, NextBoot
  <2>3. QED
    BY <2>1, <2>2
<1>6. CASE UNCHANGED stickVars
  BY <1>6 DEF stickVars, vars
<1>7. QED
  BY <1>1, <1>2, <1>3, <1>4, <1>5, <1>6 DEF StickNext, NodeSteps

\* The program keeps to its phases.
LEMMA NodeAlwaysInOrder == StickSpec => []NodeInOrder
<1>1. StickInit => NodeInOrder
  BY DEF StickInit, Init, NodeInOrder
<1>2. QED
  BY <1>1, StickStep, PTL DEF StickSpec

\* What is proved of both writers is so of the boots with the program.
LEMMA StickAlike == StickSpec => BothSpec
<1>1. StickInit => Init
  BY DEF StickInit
<1>2. QED
  BY <1>1, StickStep, NodeAlwaysInOrder, PTL DEF StickSpec, BothSpec

\* The state keeps its shape with both programs on the medium.
THEOREM StickTypeCorrect == StickSpec => []StickTypeOK
<1>1. TypeOK /\ NodeInOrder => StickTypeOK
  BY DEF NodeInOrder, NodePhases, StickTypeOK
<1>2. StickSpec => []TypeOK
  BY StickAlike, BothTyped
<1>3. QED
  BY <1>1, <1>2, NodeAlwaysInOrder, PTL

\* Whichever of the two ran last, the medium has one whole set, the one its
\* state names, and a bootloader to start it with; and wherever either was cut,
\* the old bootloader is kept and the rest of a set is in place.
THEOREM AlwaysOneWholeSet == StickSpec => []OneWholeSet
<1>1. NodeInOrder /\ BooksUnlessTorn /\ SetsInOrder /\ InReach => OneWholeSet
  <2> SUFFICES ASSUME NodeInOrder, BooksUnlessTorn, SetsInOrder, InReach PROVE OneWholeSet
    OBVIOUS
  <2>1. SetIsWhole /\ Startable
    BY DEF SetsInOrder, WholeSets, BootThere, SetIsWhole, Startable
  <2>2. ASSUME who = "done", ~CutShort PROVE Whole(state.serial, cur)
    <3>1. state.trial # 0 => state.serial = state.trial
      BY <2>2 DEF BooksUnlessTorn, Books, TrialOfSerial, CutShort
    <3>2. QED
      BY <2>2, <3>1 DEF NodeInOrder, SetsInOrder, WholeSets
  <2>3. BootKept /\ OneRenameAway
    BY DEF InReach, NotYetGone, OneRenameAway
  <2>4. QED
    BY <2>1, <2>2, <2>3 DEF OneWholeSet, LeavesOneSet
<1>2. StickSpec => []BooksUnlessTorn /\ []SetsInOrder /\ []InReach
  BY StickAlike, BothBooks, BothSets, BothReach
<1>3. QED
  BY <1>1, <1>2, NodeAlwaysInOrder, PTL

\* Two programs that rewrite one medium by turns keep the one promise.
THEOREM BothAlwaysKeepPromise == StickSpec => BothKeepPromise
<1>1. ["torn" \notin hurt' => [Promise!Next]_(Promise!vars)]_vars
        => ["torn" \notin hurt' => [Promise!Next]_(Promise!vars)]_stickVars
  <2>1. UNCHANGED vars => UNCHANGED Promise!vars
    BY DEF vars, Promise!vars, Floor
  <2>2. QED
    BY <2>1
<1>2. StickSpec => KeepsPromise
  BY StickAlike, BothKeep
<1>3. QED
  BY <1>1, <1>2, PTL DEF KeepsPromise, BothKeepPromise

\* And what else is promised of the boots alone is so beside the program: a set
\* that failed goes back whole, and the machine keeps its name.
THEOREM NothingElseIsLost == StickSpec => []LosesNothing
<1>1. FilesInOrder => GoesBackWhole
  BY DEF FilesInOrder, PuttingBack, GoesBackWhole
<1>2. BothSpec => []GoesBackWhole
  BY <1>1, BothFiles, PTL
<1>3. StickSpec => []GoesBackWhole /\ []IdentityKept
  BY <1>2, StickAlike, BothKeepName
<1>4. QED
  BY <1>3, PTL DEF LosesNothing

\* Nor is a serial tried twice by the two of them, or passed but by itself.
THEOREM BothTrialsReal == StickSpec => TrialsAreReal
  BY StickAlike, BothReal
=============================================================================
