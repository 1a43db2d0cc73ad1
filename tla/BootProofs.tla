------------------------------ MODULE BootProofs ------------------------------
(***************************************************************************)
(* Theorems about Boot, for any number of command ids, any set of machines *)
(* with their commands, and every fault in any order.  The invariant is a  *)
(* conjunction of parts, each kept by every step with the help of the ones *)
(* named in its lemma: a lemma has one case per action.                    *)
(*                                                                         *)
(* And, in its second half, about EspReader, which a boot that falls       *)
(* through reads the local bootloader with: for any disks, whatever they   *)
(* say, any calls, and reads of the disk that fail in any order.           *)
(***************************************************************************)
EXTENDS Boot, EspReader, SequenceTheorems, FiniteSetTheorems,
        WellFoundedInduction, TLAPS

USE DEF setting, pass, taking, command, served, holding, reach, Untouched, PassOver

\* A command is taken at one of the three points, the record is read at two
\* of them, and a pass has at most three names.
PointOK ==
    /\ pc = "exec" => point \in {"first", "last", "hold"}
    /\ pc = "asking" => point \in {"first", "hold"}
    /\ Len(names) \in Nat /\ Len(names) <= 3

\* The parts of TypeOK: what is one of a few values, the flags, the counters
\* and ids, and the two places a command is in.
Modes ==
    /\ <<media, verb, faults>> \in Cases
    /\ ask \in {"intent", "install", "maint"}
    /\ chosen \in {"install", "local", "auto"}
    /\ image \in Images
    /\ how \in {"off", "secs", "forever"}
    /\ disks \subseteq {"whole", "pathless"}
    /\ tracked => "whole" \in disks

Flags ==
    /\ maint \in BOOLEAN /\ known \in BOOLEAN /\ leased \in BOOLEAN
    /\ again \in BOOLEAN /\ tracked \in BOOLEAN

Numbers ==
    /\ at \in 1 .. 3
    /\ minted \in 0 .. MaxTwice
    /\ kept \in 0 .. MaxId /\ floor \in 0 .. MaxId
    /\ record \in 0 .. MaxId
    /\ ran \in [Ids -> 0 .. MaxTwice]
    /\ taken \subseteq Ids /\ unsaved \subseteq taken

Slots ==
    /\ pending \in Commands \cup {None}
    /\ pending # None => pending.id = floor
    /\ cur \in Commands \cup {None}
    /\ pc = "exec" <=> cur # None

(***************************************************************************)
(* Why a command is done once: an id the firmware kept is at or below the  *)
(* variable and this start's floor from the moment it is taken, so neither *)
(* this start nor a later one that reads it accepts it again; until it is  *)
(* executed it is in one place, the slot or the point.                     *)
(***************************************************************************)
Known(i) == ran[i] > 0 \/ pending.id = i \/ cur.id = i

Ledger ==
    /\ \A i \in Ids : Known(i) => i \in taken
    /\ \A i \in Ids \ unsaved :
        /\ Known(i) => i <= kept /\ i <= floor
        /\ ran[i] <= 1
        /\ pending.id = i => ran[i] = 0 /\ cur.id # i
        /\ cur.id = i => ran[i] = 0

Falling   == {"fall", "falling", "local", "returned", "reset"}
Asking(p) == pc \in {"asking", "exec"} /\ point = p

(***************************************************************************)
(* Why an image is started only as told: after `local` and `hold` the boot *)
(* is where no claim is made; after `maint` the word is carried in turn by *)
(* what the next pass was told, by the pass itself and by what it claimed. *)
(***************************************************************************)
Told ==
    media.claim =>
        /\ word = "local" => pc \in Falling
        /\ word = "hold" => pc \in Falling \cup {"hold", "stop"} \/ Asking("hold")
        /\ word = "maint" =>
              \/ pc \in Falling \cup {"hold", "failed", "stop"} \/ Asking("hold")
              \/ pc \in {"again", "up", "engine", "intent"} /\ ask = "maint"
              \/ pc \in {"decide", "claim"} /\ maint
              \/ /\ \/ pc \in {"attach", "publish", "last"} \cup Started
                    \/ pc = "exec" /\ point = "last"
                 /\ image = "maint"

\* Why one clone is minted: none is before the claim is left.
Unclaimed ==
    /\ pc \in {"up", "engine", "intent", "first", "take", "decide", "claim"}
          \/ Asking("first")
       => minted = 0
    /\ minted <= 1 /\ minted \in Nat

\* Why no disk is left: one that is whole is known, until it is withdrawn or
\* the machine resets for not being able to.
DiskKnown ==
    /\ pc \in {"last", "handoff", "image"} \/ (pc = "exec" /\ point = "last") => tracked
    /\ pc \in {"falling", "local", "returned"} => ~tracked
    /\ "whole" \in disks => tracked \/ pc = "reset"

\* TypeOK is the four groups of variables together.
LEMMA TypeParts == TypeOK <=> Modes /\ Flags /\ Numbers /\ Slots
BY DEF TypeOK, Modes, Flags, Numbers, Slots

\* The same of the next state, in the direction the step proof needs.
LEMMA TypePartsNext == Modes' /\ Flags' /\ Numbers' /\ Slots' => TypeOK'
BY DEF TypeOK, Modes, Flags, Numbers, Slots

\* The hold a medium asks for is one of the three the configuration knows.
LEMMA MediaKnown == Modes => media.hold \in {"off", "secs", "forever"}
BY ConstantsAssumption DEF Modes, MediaKinds

\* A command named by an id and where it came from is a command, and is not None.
LEMMA ACommand ==
    ASSUME NEW i \in Ids, NEW f \in {"api", "record"}
    PROVE  /\ [id |-> i, from |-> f] \in Commands
           /\ [id |-> i, from |-> f] # None
           /\ [id |-> i, from |-> f].id = i
BY DEF Commands, None, Ids

\* Every command has an id, and None is not a command.
LEMMA Slot == \A c \in Commands : c.id \in Ids /\ c # None
BY DEF Commands, None, Ids

NameSet == {"dns", "mac", "tag"}

\* A sequence of one name.
LEMMA OneName ==
    ASSUME NEW S, NEW s \in S
    PROVE  <<s>> \in Seq(S) /\ Len(<<s>>) = 1
OBVIOUS

\* The empty sequence of names.
LEMMA NoName == ASSUME NEW S PROVE <<>> \in Seq(S) /\ Len(<<>>) = 0
OBVIOUS

\* A machine is asked about under three names at most.
LEMMA NamesShort ==
    \A e \in {"none", "old", "new"} : Len(Names(e)) \in Nat /\ Len(Names(e)) <= 3
<1> SUFFICES ASSUME NEW e \in {"none", "old", "new"}
             PROVE  Len(Names(e)) \in Nat /\ Len(Names(e)) <= 3
  OBVIOUS
<1> DEFINE a == IF media.dns /\ e # "none" THEN <<"dns">> ELSE <<>>
           b == IF media.serial THEN <<"tag">> ELSE <<>>
           c == <<"mac">>
           d == <<"tag">>
<1>0. "dns" \in NameSet /\ "mac" \in NameSet /\ "tag" \in NameSet
  BY DEF NameSet
<1>1. a \in Seq(NameSet) /\ Len(a) \in 0 .. 1
  BY <1>0, OneName, NoName
<1>2. b \in Seq(NameSet) /\ Len(b) \in 0 .. 1
  BY <1>0, OneName, NoName
<1>3. c \in Seq(NameSet) /\ Len(c) = 1
  BY <1>0, OneName
<1>4. d \in Seq(NameSet) /\ Len(d) = 1
  BY <1>0, OneName
<1>5. Names(e) \in {d, a \o (c \o b), a \o d}
  BY DEF Names
<1> HIDE DEF a, b, c, d
<1>6. c \o b \in Seq(NameSet) /\ Len(c \o b) = Len(c) + Len(b)
  BY <1>2, <1>3, ConcatProperties
<1>7. Len(a \o (c \o b)) = Len(a) + Len(c \o b)
  BY <1>1, <1>6, ConcatProperties
<1>8. Len(a \o d) = Len(a) + Len(d)
  BY <1>1, <1>4, ConcatProperties
<1>9. Len(c \o b) \in 1 .. 2
  BY <1>2, <1>3, <1>6
<1>10. Len(a \o (c \o b)) \in 1 .. 3 /\ Len(a \o d) \in 1 .. 2
  BY <1>1, <1>4, <1>7, <1>8, <1>9
<1> QED
  BY <1>4, <1>5, <1>10

\* A command is taken at one of the three points, and the names are at most three.
LEMMA PointStep ==
    ASSUME TypeOK, PointOK, [Next]_vars
    PROVE  PointOK'
<1>1. CASE PowerOn
  BY <1>1, ConstantsAssumption DEF PowerOn, Begin, BeginWith, PointOK, TypeOK
<1>2. CASE StartAgain
  BY <1>2, ConstantsAssumption DEF StartAgain, Begin, BeginWith, PointOK, TypeOK
<1>3. CASE PowerCut
  BY <1>3, ConstantsAssumption DEF PowerCut, Begin, BeginWith, PointOK, TypeOK
<1>4. CASE Answer
  BY <1>4, ConstantsAssumption DEF Answer, Accept, RaiseFloor, PointOK, TypeOK
<1>5. CASE EngineOffers
  BY <1>5, ConstantsAssumption DEF EngineOffers, PointOK, TypeOK
<1>6. CASE AskRecord
  BY <1>6, ConstantsAssumption DEF AskRecord, PointOK, TypeOK
<1>7. CASE RecordEmpty
  BY <1>7, ConstantsAssumption DEF RecordEmpty, BackToPoint, PointOK, TypeOK
<1>8. CASE RecordTaken
  BY <1>8, ConstantsAssumption DEF RecordTaken, BackToPoint, Accept, RaiseFloor, PointOK, TypeOK
<1>9. CASE RecordStale
  BY <1>9, ConstantsAssumption DEF RecordStale, BackToPoint, PointOK, TypeOK
<1>10. CASE Take
  BY <1>10, ConstantsAssumption DEF Take, Points, PointOK, TypeOK
<1>11. CASE SkipRecord
  BY <1>11, ConstantsAssumption DEF SkipRecord, PointOK, TypeOK
<1>12. CASE NothingToTake
  BY <1>12, ConstantsAssumption DEF NothingToTake, PointOK, TypeOK
<1>13. CASE Reboot
  BY <1>13, ConstantsAssumption DEF Reboot, Done, PointOK, TypeOK
<1>14. CASE GoOn
  BY <1>14, ConstantsAssumption DEF GoOn, Done, PointOK, TypeOK
<1>15. CASE Install
  BY <1>15, ConstantsAssumption DEF Install, Done, Claiming, PointOK, TypeOK
<1>16. CASE Maint
  BY <1>16, ConstantsAssumption DEF Maint, Done, Claiming, PointOK, TypeOK
<1>17. CASE Retry
  BY <1>17, ConstantsAssumption DEF Retry, Done, PointOK, TypeOK
<1>18. CASE Local
  BY <1>18, ConstantsAssumption DEF Local, Done, PointOK, TypeOK
<1>19. CASE HoldOn
  BY <1>19, ConstantsAssumption DEF HoldOn, Done, PointOK, TypeOK
<1>20. CASE NetUp
  BY <1>20, ConstantsAssumption DEF NetUp, PointOK, TypeOK
<1>21. CASE NoClaim
  BY <1>21, ConstantsAssumption DEF NoClaim, PointOK, TypeOK
<1>22. CASE FindEngine
  BY <1>22, NamesShort DEF FindEngine, PointOK
<1>23. CASE IntentNotFound
  BY <1>23, ConstantsAssumption DEF IntentNotFound, PointOK, TypeOK
<1>24. CASE IntentRead
  BY <1>24, ConstantsAssumption DEF IntentRead, PointOK, TypeOK
<1>25. CASE Decide
  BY <1>25, ConstantsAssumption DEF Decide, PointOK, TypeOK
<1>26. CASE ClaimNotFound
  BY <1>26, ConstantsAssumption DEF ClaimNotFound, PointOK, TypeOK
<1>27. CASE ClaimRefused
  BY <1>27, ConstantsAssumption DEF ClaimRefused, GiveUp, PointOK, TypeOK
<1>28. CASE ClaimLost
  BY <1>28, ConstantsAssumption DEF ClaimLost, GiveUp, PointOK, TypeOK
<1>29. CASE ClaimGiven
  BY <1>29, ConstantsAssumption DEF ClaimGiven, PointOK, TypeOK
<1>30. CASE AttachWorks
  BY <1>30, ConstantsAssumption DEF AttachWorks, PointOK, TypeOK
<1>31. CASE AttachFails
  BY <1>31, ConstantsAssumption DEF AttachFails, PointOK, TypeOK
<1>32. CASE Publish
  BY <1>32, ConstantsAssumption DEF Publish, PointOK, TypeOK
<1>33. CASE PublishFails
  BY <1>33, ConstantsAssumption DEF PublishFails, PointOK, TypeOK
<1>34. CASE StartImage
  BY <1>34, ConstantsAssumption DEF StartImage, PointOK, TypeOK
<1>35. CASE ImageTakesOver
  BY <1>35, ConstantsAssumption DEF ImageTakesOver, PointOK, TypeOK
<1>36. CASE ImageComesBack
  BY <1>36, ConstantsAssumption DEF ImageComesBack, PointOK, TypeOK
<1>37. CASE Failed
  BY <1>37, ConstantsAssumption DEF Failed, Withdraw, PointOK, TypeOK
<1>38. CASE Stopped
  BY <1>38, ConstantsAssumption DEF Stopped, Withdraw, PointOK, TypeOK
<1>39. CASE NextPass
  BY <1>39, ConstantsAssumption DEF NextPass, Withdraw, PointOK, TypeOK
<1>40. CASE HoldEnds
  BY <1>40, ConstantsAssumption DEF HoldEnds, PointOK, TypeOK
<1>41. CASE LPressed
  BY <1>41, ConstantsAssumption DEF LPressed, PointOK, TypeOK
<1>42. CASE HoldRetries
  BY <1>42, ConstantsAssumption DEF HoldRetries, PointOK, TypeOK
<1>43. CASE LeaseLost
  BY <1>43, ConstantsAssumption DEF LeaseLost, Listening, PointOK, TypeOK
<1>44. CASE FallThrough
  BY <1>44, ConstantsAssumption DEF FallThrough, Withdraw, PointOK, TypeOK
<1>45. CASE StartLocal
  BY <1>45, ConstantsAssumption DEF StartLocal, PointOK, TypeOK
<1>46. CASE LocalComesBack
  BY <1>46, ConstantsAssumption DEF LocalComesBack, PointOK, TypeOK
<1>47. CASE Return
  BY <1>47, ConstantsAssumption DEF Return, PointOK, TypeOK
<1>48. CASE UNCHANGED vars
  BY <1>48 DEF vars, PointOK, TypeOK
<1> QED
  BY <1>1, <1>2, <1>3, <1>4, <1>5, <1>6, <1>7, <1>8, <1>9, <1>10, <1>11, <1>12, <1>13, <1>14, <1>15, <1>16, <1>17, <1>18, <1>19, <1>20, <1>21, <1>22, <1>23, <1>24, <1>25, <1>26, <1>27, <1>28, <1>29, <1>30, <1>31, <1>32, <1>33, <1>34, <1>35, <1>36, <1>37, <1>38, <1>39, <1>40, <1>41, <1>42, <1>43, <1>44, <1>45, <1>46, <1>47, <1>48
  DEF Next, Start, Record, Point, Execute, Finding, Claim, Attach, Ending, Boots, Others

\* Every step keeps the types and bounds.
LEMMA TypeStep ==
    ASSUME TypeOK, PointOK, [Next]_vars
    PROVE  TypeOK'
<1>1. CASE PowerOn
  <2>1. Modes'
    BY <1>1, TypeParts DEF PowerOn, Begin, BeginWith, Modes, Images
  <2>2. Flags'
    BY <1>1, TypeParts DEF PowerOn, Begin, BeginWith, Flags
  <2>3. Numbers'
    BY <1>1, TypeParts, ConstantsAssumption DEF PowerOn, Begin, BeginWith, Numbers, Slots, Ids, Twice, MaxTwice
  <2>4. Slots'
    BY <1>1, TypeParts, ConstantsAssumption DEF PowerOn, Begin, BeginWith, Slots, Numbers, PointOK
  <2> QED
    BY <2>1, <2>2, <2>3, <2>4, TypePartsNext
<1>2. CASE StartAgain
  <2>1. Modes'
    BY <1>2, TypeParts DEF StartAgain, Begin, BeginWith, Modes, Images
  <2>2. Flags'
    BY <1>2, TypeParts DEF StartAgain, Begin, BeginWith, Flags
  <2>3. Numbers'
    BY <1>2, TypeParts, ConstantsAssumption DEF StartAgain, Begin, BeginWith, Numbers, Slots, Ids, Twice, MaxTwice
  <2>4. Slots'
    BY <1>2, TypeParts, ConstantsAssumption DEF StartAgain, Begin, BeginWith, Slots, Numbers, PointOK
  <2> QED
    BY <2>1, <2>2, <2>3, <2>4, TypePartsNext
<1>3. CASE PowerCut
  <2>1. Modes'
    BY <1>3, TypeParts DEF PowerCut, Begin, BeginWith, Modes, Images
  <2>2. Flags'
    BY <1>3, TypeParts DEF PowerCut, Begin, BeginWith, Flags
  <2>3. Numbers'
    BY <1>3, TypeParts, ConstantsAssumption DEF PowerCut, Begin, BeginWith, Numbers, Slots, Ids, Twice, MaxTwice
  <2>4. Slots'
    BY <1>3, TypeParts, ConstantsAssumption DEF PowerCut, Begin, BeginWith, Slots, Numbers, PointOK
  <2> QED
    BY <2>1, <2>2, <2>3, <2>4, TypePartsNext
<1>4. CASE Answer
  <2>1. Modes'
    BY <1>4, TypeParts DEF Answer, Accept, RaiseFloor, Modes, Images
  <2>2. Flags'
    BY <1>4, TypeParts DEF Answer, Accept, RaiseFloor, Flags
  <2>3. Numbers'
    BY <1>4, TypeParts, ConstantsAssumption, ACommand DEF Answer, Accept, RaiseFloor, Numbers, Slots, Ids, Twice, MaxTwice
  <2>4. Slots'
    BY <1>4, TypeParts, ConstantsAssumption, ACommand DEF Answer, Accept, RaiseFloor, Slots, Numbers, PointOK
  <2> QED
    BY <2>1, <2>2, <2>3, <2>4, TypePartsNext
<1>5. CASE EngineOffers
  BY <1>5, ConstantsAssumption DEF EngineOffers, TypeOK, PointOK, Commands, None, Ids, Twice, MaxTwice, Images
<1>6. CASE AskRecord
  BY <1>6, ConstantsAssumption DEF AskRecord, TypeOK, PointOK, Commands, None, Ids, Twice, MaxTwice, Images
<1>7. CASE RecordEmpty
  BY <1>7, ConstantsAssumption DEF RecordEmpty, BackToPoint, TypeOK, PointOK, Commands, None, Ids, Twice, MaxTwice, Images
<1>8. CASE RecordTaken
  <2>1. Modes'
    BY <1>8, TypeParts DEF RecordTaken, BackToPoint, Accept, RaiseFloor, Modes, Images
  <2>2. Flags'
    BY <1>8, TypeParts DEF RecordTaken, BackToPoint, Accept, RaiseFloor, Flags
  <2>3. Numbers'
    BY <1>8, TypeParts, ConstantsAssumption, ACommand DEF RecordTaken, BackToPoint, Accept, RaiseFloor, Numbers, Slots, Ids, Twice, MaxTwice
  <2>4. Slots'
    <3> DEFINE c == [id |-> record, from |-> "record"]
    <3>1. record \in Ids
      BY <1>8, TypeParts DEF RecordTaken, Numbers, Ids
    <3>2. c \in Commands /\ c # None /\ c.id = record
      BY <3>1, ACommand
    <3>3. pending' = c /\ floor' = c.id /\ cur' = cur
      BY <1>8 DEF RecordTaken, Accept, RaiseFloor
    <3>4. pc = "asking" /\ pc' # "exec"
      BY <1>8 DEF RecordTaken, BackToPoint
    <3> HIDE DEF c
    <3> QED
      BY <3>2, <3>3, <3>4, TypeParts DEF Slots
  <2> QED
    BY <2>1, <2>2, <2>3, <2>4, TypePartsNext
<1>9. CASE RecordStale
  BY <1>9, ConstantsAssumption DEF RecordStale, BackToPoint, TypeOK, PointOK, Commands, None, Ids, Twice, MaxTwice, Images
<1>10. CASE Take
  <2>1. Modes'
    BY <1>10, TypeParts DEF Take, Modes, Images
  <2>2. Flags'
    BY <1>10, TypeParts DEF Take, Flags
  <2>3. Numbers'
    BY <1>10, TypeParts, ConstantsAssumption, Slot DEF Take, Numbers, Slots, Ids, Twice, MaxTwice
  <2>4. Slots'
    <3>1. cur' = pending /\ pending' = None /\ pending # None /\ pc' = "exec"
      BY <1>10 DEF Take
    <3>2. pending \in Commands
      BY <3>1, TypeParts DEF Slots
    <3> QED
      BY <3>1, <3>2, Slot DEF Slots
  <2> QED
    BY <2>1, <2>2, <2>3, <2>4, TypePartsNext
<1>11. CASE SkipRecord
  BY <1>11, ConstantsAssumption DEF SkipRecord, TypeOK, PointOK, Commands, None, Ids, Twice, MaxTwice, Images
<1>12. CASE NothingToTake
  BY <1>12, ConstantsAssumption DEF NothingToTake, TypeOK, PointOK, Commands, None, Ids, Twice, MaxTwice, Images
<1>13. CASE Reboot
  <2>1. Modes'
    BY <1>13, TypeParts DEF Reboot, Done, Modes, Images
  <2>2. Flags'
    BY <1>13, TypeParts DEF Reboot, Done, Flags
  <2>3. Numbers'
    BY <1>13, TypeParts, ConstantsAssumption, Slot DEF Reboot, Done, Numbers, Slots, Ids, Twice, MaxTwice
  <2>4. Slots'
    BY <1>13, TypeParts, ConstantsAssumption, Slot DEF Reboot, Done, Slots, Numbers, PointOK
  <2> QED
    BY <2>1, <2>2, <2>3, <2>4, TypePartsNext
<1>14. CASE GoOn
  BY <1>14, ConstantsAssumption DEF GoOn, Done, TypeOK, PointOK, Commands, None, Ids, Twice, MaxTwice, Images
<1>15. CASE Install
  <2>1. Modes'
    BY <1>15, TypeParts DEF Install, Done, Claiming, Modes, Images
  <2>2. Flags'
    BY <1>15, TypeParts DEF Install, Done, Claiming, Flags
  <2>3. Numbers'
    BY <1>15, TypeParts, ConstantsAssumption, Slot DEF Install, Done, Claiming, Numbers, Slots, Ids, Twice, MaxTwice
  <2>4. Slots'
    BY <1>15, TypeParts, ConstantsAssumption, Slot DEF Install, Done, Claiming, Slots, Numbers, PointOK
  <2> QED
    BY <2>1, <2>2, <2>3, <2>4, TypePartsNext
<1>16. CASE Maint
  <2>1. Modes'
    BY <1>16, TypeParts DEF Maint, Done, Claiming, Modes, Images
  <2>2. Flags'
    BY <1>16, TypeParts DEF Maint, Done, Claiming, Flags
  <2>3. Numbers'
    BY <1>16, TypeParts, ConstantsAssumption, Slot DEF Maint, Done, Claiming, Numbers, Slots, Ids, Twice, MaxTwice
  <2>4. Slots'
    BY <1>16, TypeParts, ConstantsAssumption, Slot DEF Maint, Done, Claiming, Slots, Numbers, PointOK
  <2> QED
    BY <2>1, <2>2, <2>3, <2>4, TypePartsNext
<1>17. CASE Retry
  BY <1>17, ConstantsAssumption DEF Retry, Done, TypeOK, PointOK, Commands, None, Ids, Twice, MaxTwice, Images
<1>18. CASE Local
  BY <1>18, ConstantsAssumption DEF Local, Done, TypeOK, PointOK, Commands, None, Ids, Twice, MaxTwice, Images
<1>19. CASE HoldOn
  <2>1. Modes'
    BY <1>19, TypeParts DEF HoldOn, Done, Modes, Images
  <2>2. Flags'
    BY <1>19, TypeParts DEF HoldOn, Done, Flags
  <2>3. Numbers'
    BY <1>19, TypeParts, ConstantsAssumption, Slot DEF HoldOn, Done, Numbers, Slots, Ids, Twice, MaxTwice
  <2>4. Slots'
    BY <1>19, TypeParts, ConstantsAssumption, Slot DEF HoldOn, Done, Slots, Numbers, PointOK
  <2> QED
    BY <2>1, <2>2, <2>3, <2>4, TypePartsNext
<1>20. CASE NetUp
  BY <1>20, ConstantsAssumption DEF NetUp, TypeOK, PointOK, Commands, None, Ids, Twice, MaxTwice, Images
<1>21. CASE NoClaim
  BY <1>21, ConstantsAssumption DEF NoClaim, TypeOK, PointOK, Commands, None, Ids, Twice, MaxTwice, Images
<1>22. CASE FindEngine
  BY <1>22, ConstantsAssumption DEF FindEngine, TypeOK, PointOK, Commands, None, Ids, Twice, MaxTwice, Images
<1>23. CASE IntentNotFound
  BY <1>23, ConstantsAssumption DEF IntentNotFound, TypeOK, PointOK, Commands, None, Ids, Twice, MaxTwice, Images
<1>24. CASE IntentRead
  BY <1>24, ConstantsAssumption DEF IntentRead, TypeOK, PointOK, Commands, None, Ids, Twice, MaxTwice, Images
<1>25. CASE Decide
  BY <1>25, ConstantsAssumption DEF Decide, TypeOK, PointOK, Commands, None, Ids, Twice, MaxTwice, Images
<1>26. CASE ClaimNotFound
  BY <1>26, ConstantsAssumption DEF ClaimNotFound, TypeOK, PointOK, Commands, None, Ids, Twice, MaxTwice, Images
<1>27. CASE ClaimRefused
  BY <1>27, ConstantsAssumption DEF ClaimRefused, GiveUp, TypeOK, PointOK, Commands, None, Ids, Twice, MaxTwice, Images
<1>28. CASE ClaimLost
  BY <1>28, ConstantsAssumption DEF ClaimLost, GiveUp, TypeOK, PointOK, Commands, None, Ids, Twice, MaxTwice, Images
<1>29. CASE ClaimGiven
  BY <1>29, ConstantsAssumption DEF ClaimGiven, TypeOK, PointOK, Commands, None, Ids, Twice, MaxTwice, Images
<1>30. CASE AttachWorks
  BY <1>30, ConstantsAssumption DEF AttachWorks, TypeOK, PointOK, Commands, None, Ids, Twice, MaxTwice, Images
<1>31. CASE AttachFails
  BY <1>31, ConstantsAssumption DEF AttachFails, TypeOK, PointOK, Commands, None, Ids, Twice, MaxTwice, Images
<1>32. CASE Publish
  BY <1>32, ConstantsAssumption DEF Publish, TypeOK, PointOK, Commands, None, Ids, Twice, MaxTwice, Images
<1>33. CASE PublishFails
  BY <1>33, ConstantsAssumption DEF PublishFails, TypeOK, PointOK, Commands, None, Ids, Twice, MaxTwice, Images
<1>34. CASE StartImage
  BY <1>34, ConstantsAssumption DEF StartImage, TypeOK, PointOK, Commands, None, Ids, Twice, MaxTwice, Images
<1>35. CASE ImageTakesOver
  BY <1>35, ConstantsAssumption DEF ImageTakesOver, TypeOK, PointOK, Commands, None, Ids, Twice, MaxTwice, Images
<1>36. CASE ImageComesBack
  BY <1>36, ConstantsAssumption DEF ImageComesBack, TypeOK, PointOK, Commands, None, Ids, Twice, MaxTwice, Images
<1>37. CASE Failed
  <2>1. Modes'
    BY <1>37, TypeParts, MediaKnown DEF Failed, Withdraw, HoldFor, Holds, Modes, Images
  <2>2. Flags'
    BY <1>37, TypeParts DEF Failed, Withdraw, HoldFor, Holds, Flags
  <2>3. Numbers'
    BY <1>37, TypeParts, ConstantsAssumption DEF Failed, Withdraw, HoldFor, Holds, Numbers, Slots, Ids, Twice, MaxTwice
  <2>4. Slots'
    BY <1>37, TypeParts, ConstantsAssumption DEF Failed, Withdraw, HoldFor, Holds, Slots, Numbers, PointOK
  <2> QED
    BY <2>1, <2>2, <2>3, <2>4, TypePartsNext
<1>38. CASE Stopped
  <2>1. Modes'
    BY <1>38, TypeParts DEF Stopped, Withdraw, Modes, Images
  <2>2. Flags'
    BY <1>38, TypeParts DEF Stopped, Withdraw, Flags
  <2>3. Numbers'
    BY <1>38, TypeParts, ConstantsAssumption DEF Stopped, Withdraw, Numbers, Slots, Ids, Twice, MaxTwice
  <2>4. Slots'
    BY <1>38, TypeParts, ConstantsAssumption DEF Stopped, Withdraw, Slots, Numbers, PointOK
  <2> QED
    BY <2>1, <2>2, <2>3, <2>4, TypePartsNext
<1>39. CASE NextPass
  <2>1. Modes'
    BY <1>39, TypeParts DEF NextPass, Withdraw, Modes, Images
  <2>2. Flags'
    BY <1>39, TypeParts DEF NextPass, Withdraw, Flags
  <2>3. Numbers'
    BY <1>39, TypeParts, ConstantsAssumption DEF NextPass, Withdraw, Numbers, Slots, Ids, Twice, MaxTwice
  <2>4. Slots'
    BY <1>39, TypeParts, ConstantsAssumption DEF NextPass, Withdraw, Slots, Numbers, PointOK
  <2> QED
    BY <2>1, <2>2, <2>3, <2>4, TypePartsNext
<1>40. CASE HoldEnds
  BY <1>40, ConstantsAssumption DEF HoldEnds, TypeOK, PointOK, Commands, None, Ids, Twice, MaxTwice, Images
<1>41. CASE LPressed
  BY <1>41, ConstantsAssumption DEF LPressed, TypeOK, PointOK, Commands, None, Ids, Twice, MaxTwice, Images
<1>42. CASE HoldRetries
  BY <1>42, ConstantsAssumption DEF HoldRetries, TypeOK, PointOK, Commands, None, Ids, Twice, MaxTwice, Images
<1>43. CASE LeaseLost
  <2>1. Modes'
    BY <1>43, TypeParts DEF LeaseLost, Listening, Modes, Images
  <2>2. Flags'
    BY <1>43, TypeParts DEF LeaseLost, Listening, Flags
  <2>3. Numbers'
    BY <1>43, TypeParts, ConstantsAssumption DEF LeaseLost, Listening, Numbers, Slots, Ids, Twice, MaxTwice
  <2>4. Slots'
    BY <1>43, TypeParts, ConstantsAssumption DEF LeaseLost, Listening, Slots, Numbers, PointOK
  <2> QED
    BY <2>1, <2>2, <2>3, <2>4, TypePartsNext
<1>44. CASE FallThrough
  <2>1. Modes'
    BY <1>44, TypeParts DEF FallThrough, Withdraw, Modes, Images
  <2>2. Flags'
    BY <1>44, TypeParts DEF FallThrough, Withdraw, Flags
  <2>3. Numbers'
    BY <1>44, TypeParts, ConstantsAssumption DEF FallThrough, Withdraw, Numbers, Slots, Ids, Twice, MaxTwice
  <2>4. Slots'
    BY <1>44, TypeParts, ConstantsAssumption DEF FallThrough, Withdraw, Slots, Numbers, PointOK
  <2> QED
    BY <2>1, <2>2, <2>3, <2>4, TypePartsNext
<1>45. CASE StartLocal
  BY <1>45, ConstantsAssumption DEF StartLocal, TypeOK, PointOK, Commands, None, Ids, Twice, MaxTwice, Images
<1>46. CASE LocalComesBack
  BY <1>46, ConstantsAssumption DEF LocalComesBack, TypeOK, PointOK, Commands, None, Ids, Twice, MaxTwice, Images
<1>47. CASE Return
  BY <1>47, ConstantsAssumption DEF Return, TypeOK, PointOK, Commands, None, Ids, Twice, MaxTwice, Images
<1>48. CASE UNCHANGED vars
  BY <1>48 DEF vars, TypeOK, PointOK, Commands, None, Ids, Twice, MaxTwice, Images
<1> QED
  BY <1>1, <1>2, <1>3, <1>4, <1>5, <1>6, <1>7, <1>8, <1>9, <1>10, <1>11, <1>12, <1>13, <1>14, <1>15, <1>16, <1>17, <1>18, <1>19, <1>20, <1>21, <1>22, <1>23, <1>24, <1>25, <1>26, <1>27, <1>28, <1>29, <1>30, <1>31, <1>32, <1>33, <1>34, <1>35, <1>36, <1>37, <1>38, <1>39, <1>40, <1>41, <1>42, <1>43, <1>44, <1>45, <1>46, <1>47, <1>48
  DEF Next, Start, Record, Point, Execute, Finding, Claim, Attach, Ending, Boots, Others

\* Every step keeps the ledger of the ids: a command is executed out of the slot,
\* the slot is filled above the floor, and the floor is never below the variable.
LEMMA LedgerStep ==
    ASSUME TypeOK, Ledger, [Next]_vars
    PROVE  Ledger'
<1>1. CASE PowerOn
  BY <1>1, ConstantsAssumption DEF PowerOn, Begin, BeginWith, Ledger, Known, TypeOK, Commands, None, Ids, Twice, MaxTwice
<1>2. CASE StartAgain
  BY <1>2, ConstantsAssumption DEF StartAgain, Begin, BeginWith, Ledger, Known, TypeOK, Commands, None, Ids, Twice, MaxTwice
<1>3. CASE PowerCut
  BY <1>3, ConstantsAssumption DEF PowerCut, Begin, BeginWith, Ledger, Known, TypeOK, Commands, None, Ids, Twice, MaxTwice
<1>4. CASE Answer
  BY <1>4, ConstantsAssumption DEF Answer, Accept, RaiseFloor, Ledger, Known, TypeOK, Commands, None, Ids, Twice, MaxTwice
<1>5. CASE EngineOffers
  BY <1>5, ConstantsAssumption DEF EngineOffers, Ledger, Known, TypeOK, Commands, None, Ids, Twice, MaxTwice
<1>6. CASE AskRecord
  BY <1>6, ConstantsAssumption DEF AskRecord, Ledger, Known, TypeOK, Commands, None, Ids, Twice, MaxTwice
<1>7. CASE RecordEmpty
  BY <1>7, ConstantsAssumption DEF RecordEmpty, BackToPoint, Ledger, Known, TypeOK, Commands, None, Ids, Twice, MaxTwice
<1>8. CASE RecordTaken
  BY <1>8, ConstantsAssumption DEF RecordTaken, BackToPoint, Accept, RaiseFloor, Ledger, Known, TypeOK, Commands, None, Ids, Twice, MaxTwice
<1>9. CASE RecordStale
  BY <1>9, ConstantsAssumption DEF RecordStale, BackToPoint, Ledger, Known, TypeOK, Commands, None, Ids, Twice, MaxTwice
<1>10. CASE Take
  BY <1>10, ConstantsAssumption DEF Take, Points, Ledger, Known, TypeOK, Commands, None, Ids, Twice, MaxTwice
<1>11. CASE SkipRecord
  BY <1>11, ConstantsAssumption DEF SkipRecord, Ledger, Known, TypeOK, Commands, None, Ids, Twice, MaxTwice
<1>12. CASE NothingToTake
  BY <1>12, ConstantsAssumption DEF NothingToTake, Ledger, Known, TypeOK, Commands, None, Ids, Twice, MaxTwice
<1>13. CASE Reboot
  BY <1>13, ConstantsAssumption DEF Reboot, Done, Ledger, Known, TypeOK, Commands, None, Ids, Twice, MaxTwice
<1>14. CASE GoOn
  BY <1>14, ConstantsAssumption DEF GoOn, Done, Ledger, Known, TypeOK, Commands, None, Ids, Twice, MaxTwice
<1>15. CASE Install
  BY <1>15, ConstantsAssumption DEF Install, Done, Claiming, Ledger, Known, TypeOK, Commands, None, Ids, Twice, MaxTwice
<1>16. CASE Maint
  BY <1>16, ConstantsAssumption DEF Maint, Done, Claiming, Ledger, Known, TypeOK, Commands, None, Ids, Twice, MaxTwice
<1>17. CASE Retry
  BY <1>17, ConstantsAssumption DEF Retry, Done, Ledger, Known, TypeOK, Commands, None, Ids, Twice, MaxTwice
<1>18. CASE Local
  BY <1>18, ConstantsAssumption DEF Local, Done, Ledger, Known, TypeOK, Commands, None, Ids, Twice, MaxTwice
<1>19. CASE HoldOn
  BY <1>19, ConstantsAssumption DEF HoldOn, Done, Ledger, Known, TypeOK, Commands, None, Ids, Twice, MaxTwice
<1>20. CASE NetUp
  BY <1>20, ConstantsAssumption DEF NetUp, Ledger, Known, TypeOK, Commands, None, Ids, Twice, MaxTwice
<1>21. CASE NoClaim
  BY <1>21, ConstantsAssumption DEF NoClaim, Ledger, Known, TypeOK, Commands, None, Ids, Twice, MaxTwice
<1>22. CASE FindEngine
  BY <1>22, ConstantsAssumption DEF FindEngine, Ledger, Known, TypeOK, Commands, None, Ids, Twice, MaxTwice
<1>23. CASE IntentNotFound
  BY <1>23, ConstantsAssumption DEF IntentNotFound, Ledger, Known, TypeOK, Commands, None, Ids, Twice, MaxTwice
<1>24. CASE IntentRead
  BY <1>24, ConstantsAssumption DEF IntentRead, Ledger, Known, TypeOK, Commands, None, Ids, Twice, MaxTwice
<1>25. CASE Decide
  BY <1>25, ConstantsAssumption DEF Decide, Ledger, Known, TypeOK, Commands, None, Ids, Twice, MaxTwice
<1>26. CASE ClaimNotFound
  BY <1>26, ConstantsAssumption DEF ClaimNotFound, Ledger, Known, TypeOK, Commands, None, Ids, Twice, MaxTwice
<1>27. CASE ClaimRefused
  BY <1>27, ConstantsAssumption DEF ClaimRefused, GiveUp, Ledger, Known, TypeOK, Commands, None, Ids, Twice, MaxTwice
<1>28. CASE ClaimLost
  BY <1>28, ConstantsAssumption DEF ClaimLost, GiveUp, Ledger, Known, TypeOK, Commands, None, Ids, Twice, MaxTwice
<1>29. CASE ClaimGiven
  BY <1>29, ConstantsAssumption DEF ClaimGiven, Ledger, Known, TypeOK, Commands, None, Ids, Twice, MaxTwice
<1>30. CASE AttachWorks
  BY <1>30, ConstantsAssumption DEF AttachWorks, Ledger, Known, TypeOK, Commands, None, Ids, Twice, MaxTwice
<1>31. CASE AttachFails
  BY <1>31, ConstantsAssumption DEF AttachFails, Ledger, Known, TypeOK, Commands, None, Ids, Twice, MaxTwice
<1>32. CASE Publish
  BY <1>32, ConstantsAssumption DEF Publish, Ledger, Known, TypeOK, Commands, None, Ids, Twice, MaxTwice
<1>33. CASE PublishFails
  BY <1>33, ConstantsAssumption DEF PublishFails, Ledger, Known, TypeOK, Commands, None, Ids, Twice, MaxTwice
<1>34. CASE StartImage
  BY <1>34, ConstantsAssumption DEF StartImage, Ledger, Known, TypeOK, Commands, None, Ids, Twice, MaxTwice
<1>35. CASE ImageTakesOver
  BY <1>35, ConstantsAssumption DEF ImageTakesOver, Ledger, Known, TypeOK, Commands, None, Ids, Twice, MaxTwice
<1>36. CASE ImageComesBack
  BY <1>36, ConstantsAssumption DEF ImageComesBack, Ledger, Known, TypeOK, Commands, None, Ids, Twice, MaxTwice
<1>37. CASE Failed
  BY <1>37, ConstantsAssumption DEF Failed, Withdraw, Ledger, Known, TypeOK, Commands, None, Ids, Twice, MaxTwice
<1>38. CASE Stopped
  BY <1>38, ConstantsAssumption DEF Stopped, Withdraw, Ledger, Known, TypeOK, Commands, None, Ids, Twice, MaxTwice
<1>39. CASE NextPass
  BY <1>39, ConstantsAssumption DEF NextPass, Withdraw, Ledger, Known, TypeOK, Commands, None, Ids, Twice, MaxTwice
<1>40. CASE HoldEnds
  BY <1>40, ConstantsAssumption DEF HoldEnds, Ledger, Known, TypeOK, Commands, None, Ids, Twice, MaxTwice
<1>41. CASE LPressed
  BY <1>41, ConstantsAssumption DEF LPressed, Ledger, Known, TypeOK, Commands, None, Ids, Twice, MaxTwice
<1>42. CASE HoldRetries
  BY <1>42, ConstantsAssumption DEF HoldRetries, Ledger, Known, TypeOK, Commands, None, Ids, Twice, MaxTwice
<1>43. CASE LeaseLost
  BY <1>43, ConstantsAssumption DEF LeaseLost, Listening, Ledger, Known, TypeOK, Commands, None, Ids, Twice, MaxTwice
<1>44. CASE FallThrough
  BY <1>44, ConstantsAssumption DEF FallThrough, Withdraw, Ledger, Known, TypeOK, Commands, None, Ids, Twice, MaxTwice
<1>45. CASE StartLocal
  BY <1>45, ConstantsAssumption DEF StartLocal, Ledger, Known, TypeOK, Commands, None, Ids, Twice, MaxTwice
<1>46. CASE LocalComesBack
  BY <1>46, ConstantsAssumption DEF LocalComesBack, Ledger, Known, TypeOK, Commands, None, Ids, Twice, MaxTwice
<1>47. CASE Return
  BY <1>47, ConstantsAssumption DEF Return, Ledger, Known, TypeOK, Commands, None, Ids, Twice, MaxTwice
<1>48. CASE UNCHANGED vars
  BY <1>48 DEF vars, Ledger, Known, TypeOK, Commands, None, Ids, Twice, MaxTwice
<1> QED
  BY <1>1, <1>2, <1>3, <1>4, <1>5, <1>6, <1>7, <1>8, <1>9, <1>10, <1>11, <1>12, <1>13, <1>14, <1>15, <1>16, <1>17, <1>18, <1>19, <1>20, <1>21, <1>22, <1>23, <1>24, <1>25, <1>26, <1>27, <1>28, <1>29, <1>30, <1>31, <1>32, <1>33, <1>34, <1>35, <1>36, <1>37, <1>38, <1>39, <1>40, <1>41, <1>42, <1>43, <1>44, <1>45, <1>46, <1>47, <1>48
  DEF Next, Start, Record, Point, Execute, Finding, Claim, Attach, Ending, Boots, Others

\* Every step keeps the last word in force.
LEMMA ToldStep ==
    ASSUME TypeOK, PointOK, Told, [Next]_vars
    PROVE  Told'
<1>1. CASE PowerOn
  BY <1>1, ConstantsAssumption DEF PowerOn, Begin, BeginWith, Told, Asking, PointOK, Falling, Started
<1>2. CASE StartAgain
  BY <1>2, ConstantsAssumption DEF StartAgain, Begin, BeginWith, Told, Asking, PointOK, Falling, Started
<1>3. CASE PowerCut
  BY <1>3, ConstantsAssumption DEF PowerCut, Begin, BeginWith, Told, Asking, PointOK, Falling, Started
<1>4. CASE Answer
  BY <1>4, ConstantsAssumption DEF Answer, Accept, RaiseFloor, Told, Asking, PointOK, Falling, Started
<1>5. CASE EngineOffers
  BY <1>5, ConstantsAssumption DEF EngineOffers, Told, Asking, PointOK, Falling, Started
<1>6. CASE AskRecord
  BY <1>6, ConstantsAssumption DEF AskRecord, Told, Asking, PointOK, Falling, Started
<1>7. CASE RecordEmpty
  BY <1>7, ConstantsAssumption DEF RecordEmpty, BackToPoint, Told, Asking, PointOK, Falling, Started
<1>8. CASE RecordTaken
  BY <1>8, ConstantsAssumption DEF RecordTaken, BackToPoint, Accept, RaiseFloor, Told, Asking, PointOK, Falling, Started
<1>9. CASE RecordStale
  BY <1>9, ConstantsAssumption DEF RecordStale, BackToPoint, Told, Asking, PointOK, Falling, Started
<1>10. CASE Take
  BY <1>10, ConstantsAssumption DEF Take, Points, Told, Asking, PointOK, Falling, Started
<1>11. CASE SkipRecord
  BY <1>11, ConstantsAssumption DEF SkipRecord, Told, Asking, PointOK, Falling, Started
<1>12. CASE NothingToTake
  BY <1>12, ConstantsAssumption DEF NothingToTake, Told, Asking, PointOK, Falling, Started
<1>13. CASE Reboot
  BY <1>13, ConstantsAssumption DEF Reboot, Done, Told, Asking, PointOK, Falling, Started
<1>14. CASE GoOn
  BY <1>14, ConstantsAssumption DEF GoOn, Done, Told, Asking, PointOK, Falling, Started
<1>15. CASE Install
  BY <1>15, ConstantsAssumption DEF Install, Done, Claiming, Told, Asking, PointOK, Falling, Started
<1>16. CASE Maint
  BY <1>16, ConstantsAssumption DEF Maint, Done, Claiming, Told, Asking, PointOK, Falling, Started
<1>17. CASE Retry
  BY <1>17, ConstantsAssumption DEF Retry, Done, Told, Asking, PointOK, Falling, Started
<1>18. CASE Local
  BY <1>18, ConstantsAssumption DEF Local, Done, Told, Asking, PointOK, Falling, Started
<1>19. CASE HoldOn
  BY <1>19, ConstantsAssumption DEF HoldOn, Done, Told, Asking, PointOK, Falling, Started
<1>20. CASE NetUp
  BY <1>20, ConstantsAssumption DEF NetUp, Told, Asking, PointOK, Falling, Started
<1>21. CASE NoClaim
  BY <1>21, ConstantsAssumption DEF NoClaim, Told, Asking, PointOK, Falling, Started
<1>22. CASE FindEngine
  BY <1>22, ConstantsAssumption DEF FindEngine, Told, Asking, PointOK, Falling, Started
<1>23. CASE IntentNotFound
  BY <1>23, ConstantsAssumption DEF IntentNotFound, Told, Asking, PointOK, Falling, Started
<1>24. CASE IntentRead
  BY <1>24, ConstantsAssumption DEF IntentRead, Told, Asking, PointOK, Falling, Started
<1>25. CASE Decide
  BY <1>25, ConstantsAssumption DEF Decide, Told, Asking, PointOK, Falling, Started
<1>26. CASE ClaimNotFound
  BY <1>26, ConstantsAssumption DEF ClaimNotFound, Told, Asking, PointOK, Falling, Started
<1>27. CASE ClaimRefused
  BY <1>27, ConstantsAssumption DEF ClaimRefused, GiveUp, Told, Asking, PointOK, Falling, Started
<1>28. CASE ClaimLost
  BY <1>28, ConstantsAssumption DEF ClaimLost, GiveUp, Told, Asking, PointOK, Falling, Started
<1>29. CASE ClaimGiven
  BY <1>29, ConstantsAssumption DEF ClaimGiven, Told, Asking, PointOK, Falling, Started
<1>30. CASE AttachWorks
  BY <1>30, ConstantsAssumption DEF AttachWorks, Told, Asking, PointOK, Falling, Started
<1>31. CASE AttachFails
  BY <1>31, ConstantsAssumption DEF AttachFails, Told, Asking, PointOK, Falling, Started
<1>32. CASE Publish
  BY <1>32, ConstantsAssumption DEF Publish, Told, Asking, PointOK, Falling, Started
<1>33. CASE PublishFails
  BY <1>33, ConstantsAssumption DEF PublishFails, Told, Asking, PointOK, Falling, Started
<1>34. CASE StartImage
  BY <1>34, ConstantsAssumption DEF StartImage, Told, Asking, PointOK, Falling, Started
<1>35. CASE ImageTakesOver
  BY <1>35, ConstantsAssumption DEF ImageTakesOver, Told, Asking, PointOK, Falling, Started
<1>36. CASE ImageComesBack
  BY <1>36, ConstantsAssumption DEF ImageComesBack, Told, Asking, PointOK, Falling, Started
<1>37. CASE Failed
  BY <1>37, ConstantsAssumption DEF Failed, Withdraw, Told, Asking, PointOK, Falling, Started
<1>38. CASE Stopped
  BY <1>38, ConstantsAssumption DEF Stopped, Withdraw, Told, Asking, PointOK, Falling, Started
<1>39. CASE NextPass
  BY <1>39, ConstantsAssumption DEF NextPass, Withdraw, Told, Asking, PointOK, Falling, Started
<1>40. CASE HoldEnds
  BY <1>40, ConstantsAssumption DEF HoldEnds, Told, Asking, PointOK, Falling, Started
<1>41. CASE LPressed
  BY <1>41, ConstantsAssumption DEF LPressed, Told, Asking, PointOK, Falling, Started
<1>42. CASE HoldRetries
  BY <1>42, ConstantsAssumption DEF HoldRetries, Told, Asking, PointOK, Falling, Started
<1>43. CASE LeaseLost
  BY <1>43, ConstantsAssumption DEF LeaseLost, Listening, Told, Asking, PointOK, Falling, Started
<1>44. CASE FallThrough
  BY <1>44, ConstantsAssumption DEF FallThrough, Withdraw, Told, Asking, PointOK, Falling, Started
<1>45. CASE StartLocal
  BY <1>45, ConstantsAssumption DEF StartLocal, Told, Asking, PointOK, Falling, Started
<1>46. CASE LocalComesBack
  BY <1>46, ConstantsAssumption DEF LocalComesBack, Told, Asking, PointOK, Falling, Started
<1>47. CASE Return
  BY <1>47, ConstantsAssumption DEF Return, Told, Asking, PointOK, Falling, Started
<1>48. CASE UNCHANGED vars
  BY <1>48 DEF vars, Told, Asking, PointOK, Falling, Started
<1> QED
  BY <1>1, <1>2, <1>3, <1>4, <1>5, <1>6, <1>7, <1>8, <1>9, <1>10, <1>11, <1>12, <1>13, <1>14, <1>15, <1>16, <1>17, <1>18, <1>19, <1>20, <1>21, <1>22, <1>23, <1>24, <1>25, <1>26, <1>27, <1>28, <1>29, <1>30, <1>31, <1>32, <1>33, <1>34, <1>35, <1>36, <1>37, <1>38, <1>39, <1>40, <1>41, <1>42, <1>43, <1>44, <1>45, <1>46, <1>47, <1>48
  DEF Next, Start, Record, Point, Execute, Finding, Claim, Attach, Ending, Boots, Others

\* Every step counts a clone at most once in a pass.
LEMMA CloneStep ==
    ASSUME TypeOK, PointOK, Unclaimed, [Next]_vars
    PROVE  Unclaimed'
<1>1. CASE PowerOn
  BY <1>1, ConstantsAssumption DEF PowerOn, Begin, BeginWith, Unclaimed, Asking, PointOK, Twice, MaxTwice
<1>2. CASE StartAgain
  BY <1>2, ConstantsAssumption DEF StartAgain, Begin, BeginWith, Unclaimed, Asking, PointOK, Twice, MaxTwice
<1>3. CASE PowerCut
  BY <1>3, ConstantsAssumption DEF PowerCut, Begin, BeginWith, Unclaimed, Asking, PointOK, Twice, MaxTwice
<1>4. CASE Answer
  BY <1>4, ConstantsAssumption DEF Answer, Accept, RaiseFloor, Unclaimed, Asking, PointOK, Twice, MaxTwice
<1>5. CASE EngineOffers
  BY <1>5, ConstantsAssumption DEF EngineOffers, Unclaimed, Asking, PointOK, Twice, MaxTwice
<1>6. CASE AskRecord
  BY <1>6, ConstantsAssumption DEF AskRecord, Unclaimed, Asking, PointOK, Twice, MaxTwice
<1>7. CASE RecordEmpty
  BY <1>7, ConstantsAssumption DEF RecordEmpty, BackToPoint, Unclaimed, Asking, PointOK, Twice, MaxTwice
<1>8. CASE RecordTaken
  BY <1>8, ConstantsAssumption DEF RecordTaken, BackToPoint, Accept, RaiseFloor, Unclaimed, Asking, PointOK, Twice, MaxTwice
<1>9. CASE RecordStale
  BY <1>9, ConstantsAssumption DEF RecordStale, BackToPoint, Unclaimed, Asking, PointOK, Twice, MaxTwice
<1>10. CASE Take
  BY <1>10, ConstantsAssumption DEF Take, Points, Unclaimed, Asking, PointOK, Twice, MaxTwice
<1>11. CASE SkipRecord
  BY <1>11, ConstantsAssumption DEF SkipRecord, Unclaimed, Asking, PointOK, Twice, MaxTwice
<1>12. CASE NothingToTake
  BY <1>12, ConstantsAssumption DEF NothingToTake, Unclaimed, Asking, PointOK, Twice, MaxTwice
<1>13. CASE Reboot
  BY <1>13, ConstantsAssumption DEF Reboot, Done, Unclaimed, Asking, PointOK, Twice, MaxTwice
<1>14. CASE GoOn
  BY <1>14, ConstantsAssumption DEF GoOn, Done, Unclaimed, Asking, PointOK, Twice, MaxTwice
<1>15. CASE Install
  BY <1>15, ConstantsAssumption DEF Install, Done, Claiming, Unclaimed, Asking, PointOK, Twice, MaxTwice
<1>16. CASE Maint
  BY <1>16, ConstantsAssumption DEF Maint, Done, Claiming, Unclaimed, Asking, PointOK, Twice, MaxTwice
<1>17. CASE Retry
  BY <1>17, ConstantsAssumption DEF Retry, Done, Unclaimed, Asking, PointOK, Twice, MaxTwice
<1>18. CASE Local
  BY <1>18, ConstantsAssumption DEF Local, Done, Unclaimed, Asking, PointOK, Twice, MaxTwice
<1>19. CASE HoldOn
  BY <1>19, ConstantsAssumption DEF HoldOn, Done, Unclaimed, Asking, PointOK, Twice, MaxTwice
<1>20. CASE NetUp
  BY <1>20, ConstantsAssumption DEF NetUp, Unclaimed, Asking, PointOK, Twice, MaxTwice
<1>21. CASE NoClaim
  BY <1>21, ConstantsAssumption DEF NoClaim, Unclaimed, Asking, PointOK, Twice, MaxTwice
<1>22. CASE FindEngine
  BY <1>22, ConstantsAssumption DEF FindEngine, Unclaimed, Asking, PointOK, Twice, MaxTwice
<1>23. CASE IntentNotFound
  BY <1>23, ConstantsAssumption DEF IntentNotFound, Unclaimed, Asking, PointOK, Twice, MaxTwice
<1>24. CASE IntentRead
  BY <1>24, ConstantsAssumption DEF IntentRead, Unclaimed, Asking, PointOK, Twice, MaxTwice
<1>25. CASE Decide
  BY <1>25, ConstantsAssumption DEF Decide, Unclaimed, Asking, PointOK, Twice, MaxTwice
<1>26. CASE ClaimNotFound
  BY <1>26, ConstantsAssumption DEF ClaimNotFound, Unclaimed, Asking, PointOK, Twice, MaxTwice
<1>27. CASE ClaimRefused
  BY <1>27, ConstantsAssumption DEF ClaimRefused, GiveUp, Unclaimed, Asking, PointOK, Twice, MaxTwice
<1>28. CASE ClaimLost
  BY <1>28, ConstantsAssumption DEF ClaimLost, GiveUp, Unclaimed, Asking, PointOK, Twice, MaxTwice
<1>29. CASE ClaimGiven
  BY <1>29, ConstantsAssumption DEF ClaimGiven, Unclaimed, Asking, PointOK, Twice, MaxTwice
<1>30. CASE AttachWorks
  BY <1>30, ConstantsAssumption DEF AttachWorks, Unclaimed, Asking, PointOK, Twice, MaxTwice
<1>31. CASE AttachFails
  BY <1>31, ConstantsAssumption DEF AttachFails, Unclaimed, Asking, PointOK, Twice, MaxTwice
<1>32. CASE Publish
  BY <1>32, ConstantsAssumption DEF Publish, Unclaimed, Asking, PointOK, Twice, MaxTwice
<1>33. CASE PublishFails
  BY <1>33, ConstantsAssumption DEF PublishFails, Unclaimed, Asking, PointOK, Twice, MaxTwice
<1>34. CASE StartImage
  BY <1>34, ConstantsAssumption DEF StartImage, Unclaimed, Asking, PointOK, Twice, MaxTwice
<1>35. CASE ImageTakesOver
  BY <1>35, ConstantsAssumption DEF ImageTakesOver, Unclaimed, Asking, PointOK, Twice, MaxTwice
<1>36. CASE ImageComesBack
  BY <1>36, ConstantsAssumption DEF ImageComesBack, Unclaimed, Asking, PointOK, Twice, MaxTwice
<1>37. CASE Failed
  BY <1>37, ConstantsAssumption DEF Failed, Withdraw, Unclaimed, Asking, PointOK, Twice, MaxTwice
<1>38. CASE Stopped
  BY <1>38, ConstantsAssumption DEF Stopped, Withdraw, Unclaimed, Asking, PointOK, Twice, MaxTwice
<1>39. CASE NextPass
  BY <1>39, ConstantsAssumption DEF NextPass, Withdraw, Unclaimed, Asking, PointOK, Twice, MaxTwice
<1>40. CASE HoldEnds
  BY <1>40, ConstantsAssumption DEF HoldEnds, Unclaimed, Asking, PointOK, Twice, MaxTwice
<1>41. CASE LPressed
  BY <1>41, ConstantsAssumption DEF LPressed, Unclaimed, Asking, PointOK, Twice, MaxTwice
<1>42. CASE HoldRetries
  BY <1>42, ConstantsAssumption DEF HoldRetries, Unclaimed, Asking, PointOK, Twice, MaxTwice
<1>43. CASE LeaseLost
  BY <1>43, ConstantsAssumption DEF LeaseLost, Listening, Unclaimed, Asking, PointOK, Twice, MaxTwice
<1>44. CASE FallThrough
  BY <1>44, ConstantsAssumption DEF FallThrough, Withdraw, Unclaimed, Asking, PointOK, Twice, MaxTwice
<1>45. CASE StartLocal
  BY <1>45, ConstantsAssumption DEF StartLocal, Unclaimed, Asking, PointOK, Twice, MaxTwice
<1>46. CASE LocalComesBack
  BY <1>46, ConstantsAssumption DEF LocalComesBack, Unclaimed, Asking, PointOK, Twice, MaxTwice
<1>47. CASE Return
  BY <1>47, ConstantsAssumption DEF Return, Unclaimed, Asking, PointOK, Twice, MaxTwice
<1>48. CASE UNCHANGED vars
  BY <1>48 DEF vars, Unclaimed, Asking, PointOK, Twice, MaxTwice
<1> QED
  BY <1>1, <1>2, <1>3, <1>4, <1>5, <1>6, <1>7, <1>8, <1>9, <1>10, <1>11, <1>12, <1>13, <1>14, <1>15, <1>16, <1>17, <1>18, <1>19, <1>20, <1>21, <1>22, <1>23, <1>24, <1>25, <1>26, <1>27, <1>28, <1>29, <1>30, <1>31, <1>32, <1>33, <1>34, <1>35, <1>36, <1>37, <1>38, <1>39, <1>40, <1>41, <1>42, <1>43, <1>44, <1>45, <1>46, <1>47, <1>48
  DEF Next, Start, Record, Point, Execute, Finding, Claim, Attach, Ending, Boots, Others

\* Every step knows the disk it has installed.
LEMMA DiskStep ==
    ASSUME TypeOK, PointOK, DiskKnown, [Next]_vars
    PROVE  DiskKnown'
<1>1. CASE PowerOn
  BY <1>1, ConstantsAssumption DEF PowerOn, Begin, BeginWith, DiskKnown, PointOK
<1>2. CASE StartAgain
  BY <1>2, ConstantsAssumption DEF StartAgain, Begin, BeginWith, DiskKnown, PointOK
<1>3. CASE PowerCut
  BY <1>3, ConstantsAssumption DEF PowerCut, Begin, BeginWith, DiskKnown, PointOK
<1>4. CASE Answer
  BY <1>4, ConstantsAssumption DEF Answer, Accept, RaiseFloor, DiskKnown, PointOK
<1>5. CASE EngineOffers
  BY <1>5, ConstantsAssumption DEF EngineOffers, DiskKnown, PointOK
<1>6. CASE AskRecord
  BY <1>6, ConstantsAssumption DEF AskRecord, DiskKnown, PointOK
<1>7. CASE RecordEmpty
  BY <1>7, ConstantsAssumption DEF RecordEmpty, BackToPoint, DiskKnown, PointOK
<1>8. CASE RecordTaken
  BY <1>8, ConstantsAssumption DEF RecordTaken, BackToPoint, Accept, RaiseFloor, DiskKnown, PointOK
<1>9. CASE RecordStale
  BY <1>9, ConstantsAssumption DEF RecordStale, BackToPoint, DiskKnown, PointOK
<1>10. CASE Take
  BY <1>10, ConstantsAssumption DEF Take, Points, DiskKnown, PointOK
<1>11. CASE SkipRecord
  BY <1>11, ConstantsAssumption DEF SkipRecord, DiskKnown, PointOK
<1>12. CASE NothingToTake
  BY <1>12, ConstantsAssumption DEF NothingToTake, DiskKnown, PointOK
<1>13. CASE Reboot
  BY <1>13, ConstantsAssumption DEF Reboot, Done, DiskKnown, PointOK
<1>14. CASE GoOn
  BY <1>14, ConstantsAssumption DEF GoOn, Done, DiskKnown, PointOK
<1>15. CASE Install
  BY <1>15, ConstantsAssumption DEF Install, Done, Claiming, DiskKnown, PointOK
<1>16. CASE Maint
  BY <1>16, ConstantsAssumption DEF Maint, Done, Claiming, DiskKnown, PointOK
<1>17. CASE Retry
  BY <1>17, ConstantsAssumption DEF Retry, Done, DiskKnown, PointOK
<1>18. CASE Local
  BY <1>18, ConstantsAssumption DEF Local, Done, DiskKnown, PointOK
<1>19. CASE HoldOn
  BY <1>19, ConstantsAssumption DEF HoldOn, Done, DiskKnown, PointOK
<1>20. CASE NetUp
  BY <1>20, ConstantsAssumption DEF NetUp, DiskKnown, PointOK
<1>21. CASE NoClaim
  BY <1>21, ConstantsAssumption DEF NoClaim, DiskKnown, PointOK
<1>22. CASE FindEngine
  BY <1>22, ConstantsAssumption DEF FindEngine, DiskKnown, PointOK
<1>23. CASE IntentNotFound
  BY <1>23, ConstantsAssumption DEF IntentNotFound, DiskKnown, PointOK
<1>24. CASE IntentRead
  BY <1>24, ConstantsAssumption DEF IntentRead, DiskKnown, PointOK
<1>25. CASE Decide
  BY <1>25, ConstantsAssumption DEF Decide, DiskKnown, PointOK
<1>26. CASE ClaimNotFound
  BY <1>26, ConstantsAssumption DEF ClaimNotFound, DiskKnown, PointOK
<1>27. CASE ClaimRefused
  BY <1>27, ConstantsAssumption DEF ClaimRefused, GiveUp, DiskKnown, PointOK
<1>28. CASE ClaimLost
  BY <1>28, ConstantsAssumption DEF ClaimLost, GiveUp, DiskKnown, PointOK
<1>29. CASE ClaimGiven
  BY <1>29, ConstantsAssumption DEF ClaimGiven, DiskKnown, PointOK
<1>30. CASE AttachWorks
  BY <1>30, ConstantsAssumption DEF AttachWorks, DiskKnown, PointOK
<1>31. CASE AttachFails
  BY <1>31, ConstantsAssumption DEF AttachFails, DiskKnown, PointOK
<1>32. CASE Publish
  BY <1>32, ConstantsAssumption DEF Publish, DiskKnown, PointOK
<1>33. CASE PublishFails
  BY <1>33, ConstantsAssumption DEF PublishFails, DiskKnown, PointOK
<1>34. CASE StartImage
  BY <1>34, ConstantsAssumption DEF StartImage, DiskKnown, PointOK
<1>35. CASE ImageTakesOver
  BY <1>35, ConstantsAssumption DEF ImageTakesOver, DiskKnown, PointOK
<1>36. CASE ImageComesBack
  BY <1>36, ConstantsAssumption DEF ImageComesBack, DiskKnown, PointOK
<1>37. CASE Failed
  BY <1>37, ConstantsAssumption DEF Failed, Withdraw, DiskKnown, PointOK
<1>38. CASE Stopped
  BY <1>38, ConstantsAssumption DEF Stopped, Withdraw, DiskKnown, PointOK
<1>39. CASE NextPass
  BY <1>39, ConstantsAssumption DEF NextPass, Withdraw, DiskKnown, PointOK
<1>40. CASE HoldEnds
  BY <1>40, ConstantsAssumption DEF HoldEnds, DiskKnown, PointOK
<1>41. CASE LPressed
  BY <1>41, ConstantsAssumption DEF LPressed, DiskKnown, PointOK
<1>42. CASE HoldRetries
  BY <1>42, ConstantsAssumption DEF HoldRetries, DiskKnown, PointOK
<1>43. CASE LeaseLost
  BY <1>43, ConstantsAssumption DEF LeaseLost, Listening, DiskKnown, PointOK
<1>44. CASE FallThrough
  BY <1>44, ConstantsAssumption DEF FallThrough, Withdraw, DiskKnown, PointOK
<1>45. CASE StartLocal
  BY <1>45, ConstantsAssumption DEF StartLocal, DiskKnown, PointOK
<1>46. CASE LocalComesBack
  BY <1>46, ConstantsAssumption DEF LocalComesBack, DiskKnown, PointOK
<1>47. CASE Return
  BY <1>47, ConstantsAssumption DEF Return, DiskKnown, PointOK
<1>48. CASE UNCHANGED vars
  BY <1>48 DEF vars, DiskKnown, PointOK
<1> QED
  BY <1>1, <1>2, <1>3, <1>4, <1>5, <1>6, <1>7, <1>8, <1>9, <1>10, <1>11, <1>12, <1>13, <1>14, <1>15, <1>16, <1>17, <1>18, <1>19, <1>20, <1>21, <1>22, <1>23, <1>24, <1>25, <1>26, <1>27, <1>28, <1>29, <1>30, <1>31, <1>32, <1>33, <1>34, <1>35, <1>36, <1>37, <1>38, <1>39, <1>40, <1>41, <1>42, <1>43, <1>44, <1>45, <1>46, <1>47, <1>48
  DEF Next, Start, Record, Point, Execute, Finding, Claim, Attach, Ending, Boots, Others

IInv == TypeOK /\ PointOK /\ Ledger /\ Told /\ Unclaimed /\ DiskKnown

\* The inductive invariant holds when the machine is powered on.
LEMMA Begins == Init => IInv
<1> SUFFICES ASSUME Init PROVE IInv
  OBVIOUS
<1>1. Modes /\ Flags
  <2>1. Modes
    <3>1. PICK c \in Cases : media = c[1] /\ verb = c[2] /\ faults = c[3]
      BY DEF Init
    <3>2. c = <<c[1], c[2], c[3]>>
      BY ConstantsAssumption
    <3> QED
      BY <3>1, <3>2 DEF Init, Modes, Images
  <2>2. Flags
    BY DEF Init, Flags
  <2> QED
    BY <2>1, <2>2
<1>2. Numbers
  BY ConstantsAssumption DEF Init, Numbers, MaxTwice
<1>3. Slots
  BY DEF Init, Slots
<1>4. TypeOK
  BY <1>1, <1>2, <1>3, TypeParts
<1>5. PointOK /\ Told /\ Unclaimed /\ DiskKnown
  BY NoName DEF Init, PointOK, Told, Unclaimed, DiskKnown, Asking, Started
<1>6. Ledger
  BY DEF Init, Ledger, Known, None, Ids
<1> QED
  BY <1>4, <1>5, <1>6 DEF IInv

\* Every reachable state has the parts of the invariant.
LEMMA Invariance == Spec => []IInv
<1>1. IInv /\ [Next]_vars => IInv'
  BY PointStep, TypeStep, LedgerStep, ToldStep, CloneStep, DiskStep DEF IInv
<1> QED
  BY Begins, <1>1, PTL DEF Spec

\* The state of a boot has its types, a command waits above no id but its
\* own, and the disk PUBLISHED knows is installed.
THEOREM TypeCorrect == Spec => []TypeOK
<1>1. IInv => TypeOK
  BY DEF IInv
<1> QED
  BY Invariance, <1>1, PTL

\* A command is done once, through any resets, power cuts and lost reports,
\* but one whose id the firmware would not keep, or that was taken before a
\* start that could not read it (api.rs accept, floor).
THEOREM CommandsOnce == Spec => []DoneOnce
<1>1. IInv => DoneOnce
  BY DEF IInv, Ledger, Known, DoneOnce
<1> QED
  BY Invariance, <1>1, PTL

\* On media that claim, an image is started only as the last command said
\* (main.rs run, after_command; api.rs hold).
THEOREM AsTold == Spec => []ImageAsTold
<1>1. IInv => ImageAsTold
  BY DEF IInv, Told, ImageAsTold, Started, Falling, Asking
<1> QED
  BY Invariance, <1>1, PTL

\* A pass makes the engine mint one clone at most (registry.rs claim).
THEOREM CloneOnce == Spec => []OneClone
<1>1. IInv => OneClone
  BY DEF IInv, Unclaimed, OneClone
<1> QED
  BY Invariance, <1>1, PTL

\* The image's bootloader has its disk, and whoever runs after a
\* fall-through finds none left behind (blockio.rs publish, withdraw).
THEOREM DiskServed == Spec => []DiskWhereNeeded
<1>1. IInv => DiskWhereNeeded
  BY DEF IInv, TypeOK, DiskKnown, DiskWhereNeeded
<1> QED
  BY Invariance, <1>1, PTL

HIDE DEF setting, pass, taking, command, served, holding, reach, Untouched, PassOver

------------------------------------------------------------------------------
(* EspReader: what is true of it in every state.  A mount lays the volume  *)
(* out inside the partition; a cache's bytes are of the sector it names;   *)
(* and a listing or a read in hand has followed the chain of what it is    *)
(* of, as the definition of the chain has it, to where it is.              *)

\* The partition is the first ESP's, and what is mounted is its volume.
MountedOK ==
    /\ disk \in Disks
    /\ stage \in {"gpt", "mount", "up", "dead"}
    /\ part # NoPart => GptGood /\ part = [first |-> FirstEsp.first, last |-> FirstEsp.last]
    /\ stage \in {"mount", "up"} => part # NoPart
    /\ IF stage = "up" THEN Fits(disk.boot) /\ vol = Volume(disk.boot) ELSE vol = NoVol

\* A cache names the sector its bytes are of, or none, ...
Honest(k) == DOMAIN k = {"at", "holds"} /\ (k.at = Nowhere \/ k.at = k.holds)

\* ... and so do both.
CachesOK == Honest(fatCache) /\ Honest(dirCache)

\* A directory that can be listed.
DirOK(e) ==
    /\ e \in Entries /\ e.dir
    /\ IF DirStart(e) = 0 THEN vol.kind # 32 ELSE Valid(DirStart(e))

\* A listing of a directory has followed its chain to where it is.
CursorOK(cursor, e) ==
    /\ DOMAIN cursor = {"c", "at", "steps", "done", "lfn"}
    /\ cursor.at \in 0 .. Length(cursor)
    /\ cursor.steps \in 0 .. vol.clusters
    /\ IF DirStart(e) = 0 THEN cursor.c = 0
       ELSE /\ cursor.c \in Nat /\ Valid(cursor.c) /\ cursor.c = Kth(DirStart(e), cursor.steps)
            /\ \A k \in 0 .. cursor.steps : Kth(DirStart(e), k) # 0

\* What is looked for is looked for in a directory, at a place of its.
LookIs(l, does) ==
    IF does \in {"look", "give"}
    THEN /\ DOMAIN l = {"op", "path", "dir", "cur"}
         /\ DirOK(l.dir) /\ CursorOK(l.cur, l.dir)
         /\ IF does = "look" THEN l.op \in {"load", "open"} ELSE l.dir = Root
    ELSE l = NoLook

\* What is listed is the root.
ListIs(cursor) == cursor # NoCursor => CursorOK(cursor, Root)

\* The file, and what of it has been read so far.
Reading(w, does, f) ==
    /\ DOMAIN w = {"op", "of", "pos", "want", "idx", "c", "start", "span", "data", "after", "steps"}
    /\ w.of \in Entries /\ ~w.of.dir /\ w.pos \in Nat /\ w.want \in Nat \ {0} /\ w.idx \in Nat
    /\ w.steps \in 0 .. vol.clusters
    /\ w.c \in Nat /\ Valid(w.c)
    /\ w.data = Units(w.of, w.pos, Len(w.data)) /\ Len(w.data) \in 0 .. w.want - 1
    /\ IF does = "whole" THEN w.op = "load" /\ w.pos = 0 /\ w.want = w.of.size
       ELSE /\ w.op = "read" /\ w.of = f.of /\ w.pos = f.pos /\ f.open
            /\ w.pos + w.want <= w.of.size

\* On the way to the cluster of the file's position.
Seeking(w) ==
    /\ w.data = <<>> /\ w.after = 0
    /\ w.idx <= w.pos \div vol.spc
    /\ w.c = Kth(w.of.first, w.idx) /\ w.steps <= w.idx

\* The cluster in hand is the i-th of the file, and the run ends with it.
Here(w, does, i) ==
    /\ (i + 1) * vol.spc = w.pos + Len(w.data) + w.span
    /\ w.c = Kth(w.of.first, i)
    /\ w.after # 0 => w.after \in Nat /\ Valid(w.after) /\ w.after = Kth(w.of.first, i + 1)
    /\ w.steps <= IF does = "whole" /\ w.after # 0 THEN i + 1 ELSE i
    /\ w.op = "read" => i = w.idx

\* Where a run's next unit is.
RunFrom(w) == ClusterAt(w.start) + (IF w.data = <<>> THEN w.pos % vol.spc ELSE 0)

\* The sectors of the run are the file's next units, in order.
Running(w, does) ==
    /\ w.start \in Nat /\ Valid(w.start) /\ w.span \in Nat \ {0}
    /\ RunFrom(w) + w.span = ClusterAt(w.c) + vol.spc
    /\ \A u \in 0 .. w.span - 1 : UnitAt(w.of, w.pos + Len(w.data) + u) = RunFrom(w) + u
    /\ \E i \in Nat : Here(w, does, i)
    /\ does = "fetch" /\ w.span < w.want - Len(w.data) => w.after # 0
    /\ w.after # 0 => w.span < w.want - Len(w.data)

\* A read in hand follows the file's chain.
WalkIs(w, does, f) ==
    CASE does \in {"run", "fetch", "whole"} -> Reading(w, does, f) /\ Running(w, does)
      [] does = "seek" -> Reading(w, does, f) /\ Seeking(w)
      [] OTHER -> w = NoWalk

\* An open file's last cluster read is the one of its index.
FileIs(f) ==
    f.open =>
        /\ DOMAIN f = {"open", "of", "pos", "idx", "c"}
        /\ f.of \in Entries /\ f.pos \in 0 .. f.of.size + 1
        /\ f.c # 0 => /\ f.c \in Nat /\ Valid(f.c) /\ f.idx \in Nat
                      /\ f.c = Kth(f.of.first, f.idx)

\* A read of the volume is in its partition.
TouchIs(t) == t[1] \in Nat /\ t[2] \in Nat /\ t[1] + t[2] <= Sectors

\* An answer is so.
AnswerIs(o) ==
    /\ o.op = "read" /\ o.st = "ok" => o.data = Units(o.of, o.pos, Len(o.data))
    /\ o.op = "load" /\ o.st = "ok" => o.data = Units(o.of, 0, o.of.size)
    /\ o.st = "corrupt" => IF o.of.dir THEN ~SoundDir(o.of) ELSE ~Sound(o.of)

Counted ==
    /\ doing \in {"idle", "look", "seek", "run", "fetch", "whole", "give", "panic"}
    /\ fails \in 0 .. MaxFails /\ calls \in 0 .. MaxCalls

\* Nothing is read or asked before the mount.
Unread ==
    /\ doing = "idle" /\ look = NoLook /\ walk = NoWalk /\ file = NoFile /\ list = NoCursor
    /\ out = NoOut /\ touched = <<0, 0>>

InUse ==
    /\ LookIs(look, doing) /\ ListIs(list) /\ WalkIs(walk, doing, file) /\ FileIs(file)
    /\ TouchIs(touched) /\ AnswerIs(out)

EspInv == MountedOK /\ CachesOK /\ Counted /\ IF stage = "up" THEN InUse ELSE Unread

------------------------------------------------------------------------------
(* And what is true of a listing of the root.                              *)

\* The slots a listing has passed.
Place(cursor) ==
    IF cursor.c = 0 THEN cursor.at ELSE cursor.steps * Length(cursor) + cursor.at

\* The slots up to p end with the parts n down to e + 1 of a long name.
EndsWith(s, p, n, e) ==
    /\ n \in 1 .. 20 /\ e \in 0 .. n - 1 /\ n - e <= p
    /\ \A j \in e + 1 .. n : LET t == s[p + e + 1 - j]
                             IN  /\ t.is = "part" /\ t.seq = j /\ t.sum = s[p].sum
                                 /\ (t.begins <=> j = n)

\* The name so far: the parts there are, and room for the others.
TextOf(s, p, n, e) == [j \in 1 .. n |-> IF j > e THEN s[p + e + 1 - j].part ELSE ""]

\* The long name in hand after p slots is the one these end with, if they do.
NameIs(l, s, p) ==
    /\ DOMAIN l = {"ok", "expect", "sum", "text"} /\ l.ok \in BOOLEAN
    /\ l.ok => \E n \in 1 .. 20 : EndsWith(s, p, n, l.expect)
    /\ \A n \in 1 .. 20, e \in 0 .. 19 :
           EndsWith(s, p, n, e) =>
               l.ok /\ l.expect = e /\ l.sum = s[p].sum /\ l.text = TextOf(s, p, n, e)

\* Those of some numbers that are at most k.
UpTo(S, k) == {i \in S : i <= k}

\* A listing has given the entries among the slots it has passed, none of them free.
ListedTo(cursor, given) ==
    LET s == SlotsOf(Root)
        p == Place(cursor)
    IN  /\ ~cursor.done
        /\ \A i \in 1 .. p : s[i].is # "free"
        /\ NameIs(cursor.lfn, s, p)
        /\ Cardinality(UpTo(UsedIn(s), p)) = Len(given)

\* What has been given are the first entries there are.
Given(given) ==
    /\ Len(given) \in 0 .. Len(Items(Root))
    /\ given = [k \in 1 .. Len(given) |-> Items(Root)[k]]

Listings ==
    /\ listed # <<>> => Given(listed)
    /\ IF list = NoCursor THEN listed = <<>> ELSE ListedTo(list, listed)
    /\ doing = "give" => ListedTo(look.cur, listed)
    /\ out.op = "list" /\ out.st = "end" => Len(listed) = Len(Items(Root))

ListInv == IF stage = "up" THEN Listings ELSE listed = <<>>

------------------------------------------------------------------------------
(* Chains and numbers.                                                     *)

\* Some numbers have a least one.
LEMMA LeastOf ==
    ASSUME NEW T, T \subseteq Nat, T # {} PROVE \E k \in T : \A l \in T : k <= l
<1>1. PICK k \in T : \A l \in T : ~(<<l, k>> \in OpToRel(<, Nat))
  BY NatLessThanWellFounded, WFMin, Zenon
<1>2. ASSUME NEW l \in T PROVE ~(l < k)
  <2>1. <<l, k>> \in Nat \X Nat
    OBVIOUS
  <2>2. QED
    BY <1>1, <2>1 DEF OpToRel
<1>3. QED
  BY <1>2

LinkOf(fat, clusters, n) ==
    IF n = 0 \/ fat[n] >= End \/ ~InVolume(fat[n], clusters) THEN 0 ELSE fat[n]

ChainOf(fat, clusters, c, k, f) ==
    f = [i \in 0 .. k |-> IF i = 0 THEN IF InVolume(c, clusters) THEN c ELSE 0
                          ELSE LinkOf(fat, clusters, f[i - 1])]

\* A chain of any length is defined, ...
LEMMA ChainExists ==
    ASSUME NEW fat, NEW clusters, NEW c, NEW k \in Nat
    PROVE  \E f : ChainOf(fat, clusters, c, k, f)
<1> DEFINE T == {n \in Nat : ~\E f : ChainOf(fat, clusters, c, n, f)}
<1>1. SUFFICES ASSUME T # {} PROVE FALSE
  OBVIOUS
<1>2. PICK n \in T : \A l \in T : n <= l
  BY <1>1, LeastOf, Zenon
<1>3. CASE n = 0
  <2> DEFINE f == [i \in 0 .. 0 |-> IF InVolume(c, clusters) THEN c ELSE 0]
  <2>1. ChainOf(fat, clusters, c, 0, f)
    BY DEF ChainOf
  <2>2. QED
    BY <1>3, <2>1
<1>4. CASE n # 0
  <2>1. n - 1 \in Nat /\ n - 1 \notin T /\ n \in Nat
    BY <1>2, <1>4
  <2>2. PICK f : ChainOf(fat, clusters, c, n - 1, f)
    BY <2>1
  <2> DEFINE g == [i \in 0 .. n |-> IF i = n THEN LinkOf(fat, clusters, f[n - 1]) ELSE f[i]]
  <2>3. \A i \in 0 .. n : g[i] = IF i = 0 THEN IF InVolume(c, clusters) THEN c ELSE 0
                                 ELSE LinkOf(fat, clusters, g[i - 1])
    BY <2>1, <2>2, <1>4 DEF ChainOf
  <2>4. g = [i \in 0 .. n |-> g[i]]
    OBVIOUS
  <2> HIDE DEF g
  <2>5. ChainOf(fat, clusters, c, n, g)
    BY <2>3, <2>4 DEF ChainOf
  <2>6. QED
    BY <2>5
<1>5. QED
  BY <1>3, <1>4

\* ... and a longer one goes on from it.
LEMMA ChainGoesOn ==
    ASSUME NEW fat, NEW clusters, NEW c, NEW k \in Nat, NEW m \in Nat, k <= m, NEW f, NEW g,
           ChainOf(fat, clusters, c, k, f), ChainOf(fat, clusters, c, m, g)
    PROVE  f[k] = g[k]
<1> DEFINE T == {n \in 0 .. k : f[n] # g[n]}
<1>1. SUFFICES ASSUME T # {} PROVE FALSE
  OBVIOUS
<1>2. PICK n \in T : \A l \in T : n <= l
  <2>1. T \subseteq Nat
    OBVIOUS
  <2>2. QED
    BY <1>1, <2>1, LeastOf, Zenon
<1>3. \A h, j : ChainOf(fat, clusters, c, j, h) => 
        \A i \in 0 .. j : h[i] = IF i = 0 THEN IF InVolume(c, clusters) THEN c ELSE 0
                                 ELSE LinkOf(fat, clusters, h[i - 1])
  BY DEF ChainOf
<1>4. n # 0
  BY <1>2, <1>3
<1>5. n - 1 \in 0 .. k /\ n - 1 \notin T
  BY <1>2, <1>4
<1>6. f[n] = g[n]
  BY <1>2, <1>3, <1>4, <1>5
<1>7. QED
  BY <1>2, <1>6

\* So the first cluster of a chain is where it starts, and the next the link's.
LEMMA NthFirst ==
    ASSUME NEW fat, NEW clusters, NEW c
    PROVE  Nth(fat, clusters, c, 0) = IF InVolume(c, clusters) THEN c ELSE 0
<1> DEFINE f == CHOOSE g : ChainOf(fat, clusters, c, 0, g)
<1>1. Nth(fat, clusters, c, 0) = f[0]
  BY DEF Nth, ChainOf, LinkOf
<1>2. ChainOf(fat, clusters, c, 0, f)
  BY ChainExists
<1>3. QED
  BY <1>1, <1>2 DEF ChainOf

\* So the first cluster of a chain is where it starts, and the next the link's.
LEMMA NthNext ==
    ASSUME NEW fat, NEW clusters, NEW c, NEW k \in Nat
    PROVE  Nth(fat, clusters, c, k + 1) = LinkOf(fat, clusters, Nth(fat, clusters, c, k))
<1> DEFINE f == CHOOSE g : ChainOf(fat, clusters, c, k, g)
           h == CHOOSE g : ChainOf(fat, clusters, c, k + 1, g)
<1>1. Nth(fat, clusters, c, k) = f[k] /\ Nth(fat, clusters, c, k + 1) = h[k + 1]
  BY DEF Nth, ChainOf, LinkOf
<1>2. ChainOf(fat, clusters, c, k, f) /\ ChainOf(fat, clusters, c, k + 1, h)
  <2>1. ChainOf(fat, clusters, c, k, f)
    BY ChainExists
  <2>2. ChainOf(fat, clusters, c, k + 1, h)
    BY ChainExists
  <2>3. QED
    BY <2>1, <2>2
<1> HIDE DEF f, h
<1>3. f[k] = h[k]
  BY <1>2, ChainGoesOn
<1>4. h[k + 1] = LinkOf(fat, clusters, h[k])
  BY <1>2 DEF ChainOf
<1>5. QED
  BY <1>1, <1>3, <1>4

------------------------------------------------------------------------------
(* Where things are.                                                       *)

\* Whole parts and what is left over.
LEMMA Division ==
    ASSUME NEW n \in Nat, NEW d \in Nat \ {0}
    PROVE  /\ n \div d \in Nat /\ n % d \in 0 .. d - 1
           /\ n = (n \div d) * d + (n % d)
  OBVIOUS

\* Less of a product is less by a factor.
LEMMA Products ==
    ASSUME NEW a \in Nat, NEW b \in Nat, NEW f \in Nat, a < b
    PROVE  a * f + f <= b * f /\ (a + 1) * f = a * f + f /\ a * f \in Nat
<1>1. (a + 1) * f = a * f + f
  OBVIOUS
<1>2. (a + 1) * f <= b * f
  OBVIOUS
<1>3. QED
  BY <1>1, <1>2

\* A number of whole parts, and less than one, has that many whole parts.
LEMMA Quotient ==
    ASSUME NEW q \in Nat, NEW r \in Nat, NEW d \in Nat \ {0}, r < d
    PROVE  (q * d + r) \div d = q /\ (q * d + r) % d = r
  OBVIOUS

\* The volume fits its partition: each region comes after the one before, and
\* the last cluster ends in it.
Laid ==
    /\ vol.kind \in {12, 16, 32} /\ vol.spc \in Nat \ {0} /\ vol.clusters \in Nat
    /\ vol.fatAt \in Nat /\ vol.rootAt \in Nat /\ vol.rootLen \in Nat /\ vol.dataAt \in Nat
    /\ Sectors \in Nat
    /\ vol.fatAt < vol.rootAt
    /\ vol.dataAt = vol.rootAt + vol.rootLen
    /\ vol.dataAt + vol.clusters * vol.spc <= Sectors
    /\ IF vol.kind = 32 THEN Valid(vol.root) /\ vol.root \in Nat ELSE vol.root = 0

\* What it says is numbers and entries.
Says ==
    /\ Current = disk.fats[vol.active]
    /\ \A c \in Nat : Valid(c) => Current[c] \in Nat
    /\ \A c \in Nat : Valid(c) \/ (c = 0 /\ vol.kind # 32) =>
          /\ DOMAIN disk.slots[c] = 1 .. SlotsIn(vol, c)
          /\ \A i \in DOMAIN disk.slots[c] : IsSlot(disk.slots[c][i])

\* The ESP found is one of the table's.
LEMMA FirstIsOne ==
    ASSUME disk \in Disks, Esps # {}
    PROVE  FirstEsp \in [esp : BOOLEAN, first : Nat, last : Nat]
<1>1. Esps \subseteq Nat
  BY DisksAssumption DEF Esps
<1>2. \E i \in Esps : \A j \in Esps : i <= j
  BY <1>1, LeastOf, Zenon
<1>3. QED
  BY <1>2, DisksAssumption DEF FirstEsp, Esps

\* So a mounted volume lies in its partition.
LEMMA MountedIsLaid ==
    ASSUME MountedOK, stage = "up"
    PROVE  Laid
<1> DEFINE b == disk.boot
           all == b.nfats * FatSize(b)
           meta == b.reserved + all + RootLen(b)
<1>1. /\ b \in [spc : Nat, reserved : Nat, nfats : Nat, fat16 : Nat, fat32 : Nat,
                roots : Nat, total : Nat, single : BOOLEAN, active : Nat, root : Nat]
      /\ FatSize(b) \in Nat /\ FatSize(b) # 0
  BY DisksAssumption DEF MountedOK, FatSize, Fits, Agrees
<1> HIDE DEF b
<1>2. vol = Volume(b) /\ Fits(b)
  BY DEF MountedOK, b
<1>3. RootLen(b) \in Nat
  <2>1. SectorSlots \in Nat \ {0}
    BY EspAssumption
  <2>2. b.roots + SectorSlots - 1 \in Nat
    BY <1>1, <2>1
  <2>3. QED
    BY <2>1, <2>2, Division DEF RootLen, Up
<1>4. b.spc \in Nat \ {0} /\ b.nfats \in Nat \ {0} /\ b.reserved \in Nat \ {0}
  BY <1>1, <1>2 DEF Fits, Agrees
<1>5. all \in Nat
  BY <1>1, <1>4
<1>6. Active(b) \in Nat /\ Active(b) < b.nfats
  BY <1>1, <1>2, <1>4 DEF Fits, Agrees, Active
<1>7. Active(b) * FatSize(b) \in Nat /\ Active(b) * FatSize(b) + FatSize(b) <= all
  BY <1>1, <1>4, <1>6, Products
<1> HIDE DEF all
<1>8. Meta(b) = meta /\ meta \in Nat /\ meta < b.total
  BY <1>1, <1>2, <1>3, <1>5 DEF Meta, all, Fits, Agrees
<1>9. Clusters(b) \in Nat /\ Clusters(b) * b.spc <= b.total - meta
  <2>1. b.total - meta \in Nat
    BY <1>1, <1>8
  <2>2. Clusters(b) = (b.total - meta) \div b.spc
    BY <1>8 DEF Clusters
  <2> DEFINE n == b.total - meta
  <2>3. n \in Nat
    BY <2>1
  <2> HIDE DEF n
  <2>4. n \div b.spc \in Nat /\ (n \div b.spc) * b.spc <= n
    <3>1. /\ n \div b.spc \in Nat /\ n % b.spc \in 0 .. b.spc - 1
          /\ n = (n \div b.spc) * b.spc + (n % b.spc)
      BY <2>3, <1>4, Division
    <3>2. QED
      BY <2>3, <3>1, <1>4
  <2>5. QED
    BY <2>2, <2>4 DEF n
<1>10. Sectors \in Nat /\ b.total <= Sectors
  <2>1. FirstEsp \in [esp : BOOLEAN, first : Nat, last : Nat]
    BY FirstIsOne DEF MountedOK, GptGood
  <2>2. part.first = FirstEsp.first /\ part.last = FirstEsp.last /\ FirstEsp.last >= FirstEsp.first
    BY DEF MountedOK, GptGood
  <2>3. QED
    BY <2>1, <2>2, <1>2 DEF Sectors, Fits
<1>11. Kind(b) \in {12, 16, 32}
  BY DEF Kind
<1>12. /\ vol.kind = Kind(b) /\ vol.spc = b.spc /\ vol.clusters = Clusters(b)
       /\ vol.fatAt = b.reserved + Active(b) * FatSize(b)
       /\ vol.rootAt = b.reserved + all /\ vol.rootLen = RootLen(b)
       /\ vol.dataAt = vol.rootAt + RootLen(b)
       /\ vol.root = IF Kind(b) = 32 THEN b.root ELSE 0
  BY <1>2 DEF Volume, all
<1>13. IF vol.kind = 32 THEN Valid(vol.root) /\ vol.root \in Nat ELSE vol.root = 0
  BY <1>1, <1>2, <1>12 DEF Fits, Agrees, Valid
<1>14. vol.dataAt + vol.clusters * vol.spc <= Sectors
  <2>1. vol.dataAt = meta
    BY <1>12, <1>1, <1>3, <1>5
  <2>2. Clusters(b) * b.spc \in Nat
    BY <1>4, <1>9
  <2>3. QED
    BY <2>1, <2>2, <1>1, <1>8, <1>9, <1>10, <1>12
<1>15. vol.fatAt \in Nat /\ vol.rootAt \in Nat /\ vol.dataAt \in Nat /\ vol.fatAt < vol.rootAt
  BY <1>1, <1>3, <1>4, <1>5, <1>7, <1>12
<1>16. QED
  BY <1>3, <1>4, <1>9, <1>10, <1>11, <1>12, <1>13, <1>14, <1>15 DEF Laid

\* ... and says what a disk may.
LEMMA MountedSays ==
    ASSUME MountedOK, stage = "up"
    PROVE  Says
<1> DEFINE b == disk.boot
<1>1. disk \in Disks /\ Agrees(b) /\ vol = Volume(b)
  BY DEF MountedOK, Fits
<1>2. vol.clusters \in Nat
  BY MountedIsLaid DEF Laid
<1>3. \A c \in Nat : Valid(c) <=> c \in 2 .. vol.clusters + 1
  BY <1>2 DEF Valid, InVolume
<1>4. vol.active = IF b.fat16 = 0 /\ b.single THEN b.active ELSE 0
  BY <1>1 DEF Volume, Active, Agrees, Kind
<1>5. Current = disk.fats[vol.active]
  BY <1>4 DEF Current
<1>6. QED
  BY <1>1, <1>3, <1>5, DisksAssumption DEF Says

\* A cluster lies in the partition, and the next one follows it.
LEMMA ClusterInside ==
    ASSUME Laid, NEW c \in Nat, Valid(c)
    PROVE  /\ ClusterAt(c) \in Nat /\ ClusterAt(c) >= vol.dataAt
           /\ ClusterAt(c) + vol.spc <= Sectors
           /\ ClusterAt(c + 1) = ClusterAt(c) + vol.spc
<1>1. c - 2 \in Nat /\ c - 2 < vol.clusters
  BY DEF Laid, Valid, InVolume
<1>2. /\ (c - 2) * vol.spc + vol.spc <= vol.clusters * vol.spc
      /\ (c - 2 + 1) * vol.spc = (c - 2) * vol.spc + vol.spc
      /\ (c - 2) * vol.spc \in Nat
  <2> DEFINE k == c - 2
  <2>1. k \in Nat /\ k < vol.clusters
    BY <1>1
  <2> HIDE DEF k
  <2>2. /\ k * vol.spc + vol.spc <= vol.clusters * vol.spc
        /\ (k + 1) * vol.spc = k * vol.spc + vol.spc
        /\ k * vol.spc \in Nat
    BY <2>1, Products DEF Laid
  <2>3. QED
    BY <2>2 DEF k
<1>3. c + 1 - 2 = c - 2 + 1
  OBVIOUS
<1>4. vol.clusters * vol.spc \in Nat
  BY DEF Laid
<1>5. ClusterAt(c + 1) = vol.dataAt + (c - 2 + 1) * vol.spc
  BY <1>3 DEF ClusterAt
<1>6. QED
  BY <1>1, <1>2, <1>4, <1>5 DEF ClusterAt, Laid

\* The sectors of a FAT's entry.
EntryLo(c) == vol.fatAt + EntryAt(c) \div SectorFat
EntryHi(c) == vol.fatAt + (EntryAt(c) + Width - 1) \div SectorFat

\* Though mount does not ask whether its FATs have an entry for each cluster,
\* each entry is in the partition: an entry is smaller than a sector.
LEMMA EntryInside ==
    ASSUME Laid, NEW c \in Nat, Valid(c)
    PROVE  /\ EntryLo(c) \in Nat /\ EntryHi(c) \in Nat
           /\ EntryLo(c) + 1 <= Sectors /\ EntryHi(c) + 1 <= Sectors
<1>1. SectorFat \in Nat /\ SectorFat >= 8 /\ SectorFat \in Nat \ {0}
  BY EspAssumption
<1>2. c >= 2 /\ c <= vol.clusters + 1 /\ vol.clusters \in Nat
  BY DEF Laid, Valid, InVolume
<1>3. EntryAt(c) \in Nat /\ Width \in Nat /\ Width >= 1 /\ EntryAt(c) + Width - 1 <= 4 * c + 3
  BY DEF EntryAt, Width, Laid
<1>4. ASSUME NEW n \in Nat, n <= 4 * c + 3 PROVE n \div SectorFat \in 0 .. vol.clusters
  <2>1. /\ n \div SectorFat \in Nat /\ n % SectorFat \in 0 .. SectorFat - 1
        /\ n = (n \div SectorFat) * SectorFat + (n % SectorFat)
    BY <1>1, Division
  <2> DEFINE q == n \div SectorFat
  <2>2. q \in Nat /\ q * SectorFat <= n
    BY <2>1, <1>1
  <2> HIDE DEF q
  <2>3. q * 8 <= q * SectorFat
    BY <2>2, <1>1
  <2>4. q * 8 <= 4 * vol.clusters + 7
    <3>1. q * SectorFat \in Nat
      BY <2>2, <1>1
    <3>2. QED
      BY <2>2, <2>3, <3>1, <1>2, <1>4
  <2>5. q <= vol.clusters
    BY <2>2, <2>4, <1>2
  <2>6. QED
    BY <2>2, <2>5, <1>2 DEF q
<1>5. EntryAt(c) \div SectorFat \in 0 .. vol.clusters
  BY <1>3, <1>4
<1>6. (EntryAt(c) + Width - 1) \div SectorFat \in 0 .. vol.clusters
  <2>1. EntryAt(c) + Width - 1 \in Nat
    BY <1>3
  <2>2. QED
    BY <2>1, <1>3, <1>4
<1>7. vol.clusters <= vol.clusters * vol.spc /\ vol.clusters * vol.spc \in Nat
  BY DEF Laid
<1>8. vol.fatAt + vol.clusters + 1 <= Sectors
  BY <1>7 DEF Laid
<1>9. QED
  BY <1>2, <1>5, <1>6, <1>8 DEF EntryLo, EntryHi, Laid

\* A slot of the root or of a cluster is in the partition.
LEMMA SlotInside ==
    ASSUME Laid, NEW cursor, cursor.c \in Nat, cursor.at \in Nat, cursor.at < Length(cursor),
           Valid(cursor.c) \/ cursor.c = 0
    PROVE  SlotSector(cursor) \in Nat /\ SlotSector(cursor) + 1 <= Sectors
<1>1. SectorSlots \in Nat \ {0}
  BY EspAssumption
<1> DEFINE q == cursor.at \div SectorSlots
<1>2. q \in Nat /\ q * SectorSlots <= cursor.at
  <2>1. /\ q \in Nat /\ cursor.at % SectorSlots \in 0 .. SectorSlots - 1
        /\ cursor.at = q * SectorSlots + (cursor.at % SectorSlots)
    BY <1>1, Division
  <2> HIDE DEF q
  <2>2. QED
    BY <2>1, <1>1
<1> HIDE DEF q
<1>3. ASSUME NEW n \in Nat, Length(cursor) = n * SectorSlots PROVE q < n
  <2>1. q * SectorSlots < n * SectorSlots
    BY <1>1, <1>2, <1>3
  <2>2. CASE n <= q
    <3>1. n * SectorSlots <= q * SectorSlots
      BY <1>1, <1>2, <2>2
    <3>2. QED
      BY <2>1, <3>1, <1>1, <1>2
  <2>3. QED
    BY <2>2, <1>2
<1>4. CASE cursor.c = 0
  <2>1. q < vol.rootLen
    BY <1>3, <1>4 DEF Length, SlotsIn, Laid
  <2>2. SlotSector(cursor) = vol.rootAt + q
    BY <1>4 DEF SlotSector, q
  <2>3. vol.clusters * vol.spc \in Nat
    BY DEF Laid
  <2>4. QED
    BY <1>2, <2>1, <2>2, <2>3 DEF Laid
<1>5. CASE cursor.c # 0
  <2>1. q < vol.spc
    BY <1>3, <1>5 DEF Length, SlotsIn, Laid
  <2>2. SlotSector(cursor) = ClusterAt(cursor.c) + q
    BY <1>5 DEF SlotSector, q
  <2>3. ClusterAt(cursor.c) \in Nat /\ ClusterAt(cursor.c) + vol.spc <= Sectors
    BY <1>5, ClusterInside
  <2>4. QED
    BY <1>2, <2>1, <2>2, <2>3 DEF Laid
<1>6. QED
  BY <1>4, <1>5

------------------------------------------------------------------------------
(* Links.                                                                  *)

\* Where a read of one sector of the volume may be.
Inside(sector) == sector \in Nat /\ sector + 1 <= Sectors

\* What a read of sectors lo to hi through such a cache is.
Reads(r, lo, hi) ==
    /\ Honest(r.cache) /\ r.at \in {lo, hi}
    /\ \/ r.ok = TRUE /\ r.right = TRUE /\ r.at = lo
       \/ r.ok = FALSE /\ r.right = FALSE /\ fails # MaxFails

\* Through a cache that is what it says, what is read is the sector's own.
LEMMA CachedRight ==
    ASSUME NEW k, Honest(k), NEW lo \in Nat, NEW hi \in Nat, NEW r \in Cached(k, lo, hi)
    PROVE  Reads(r, lo, hi)
<1>1. CASE r = [ok |-> TRUE, right |-> k.at # lo \/ k.holds = lo, at |-> lo,
                cache |-> IF k.at = lo /\ hi = lo THEN k ELSE [at |-> hi, holds |-> hi]]
  <2>1. k.at # lo \/ k.holds = lo
    BY DEF Honest, Nowhere
  <2>2. (k.at # lo \/ k.holds = lo) = TRUE
    BY <2>1, Zenon
  <2>3. r.ok = TRUE /\ r.right = TRUE /\ r.at = lo
    BY <1>1, <2>2, Zenon
  <2>4. r.cache = IF k.at = lo /\ hi = lo THEN k ELSE [at |-> hi, holds |-> hi]
    BY <1>1, Zenon
  <2>5. Honest([at |-> hi, holds |-> hi])
    BY DEF Honest
  <2>6. Honest(r.cache)
    BY <2>4, <2>5
  <2>7. QED
    BY <2>3, <2>6, Zenon DEF Reads
<1>2. CASE \E sector \in IF fails = MaxFails THEN {} ELSE {lo, hi} \ {k.at} :
               r = [ok |-> FALSE, right |-> FALSE, at |-> sector, cache |-> Missed(k, sector)]
  <2>1. PICK sector \in IF fails = MaxFails THEN {} ELSE {lo, hi} \ {k.at} :
                r = [ok |-> FALSE, right |-> FALSE, at |-> sector, cache |-> Missed(k, sector)]
    BY <1>2, Zenon
  <2>2. fails # MaxFails /\ sector \in {lo, hi}
    BY <2>1
  <2>3. r.ok = FALSE /\ r.right = FALSE /\ r.at = sector /\ r.cache = Missed(k, sector)
    BY <2>1, Zenon
  <2>4. Missed(k, sector) = [at |-> Nowhere, holds |-> k.holds]
    BY DEF Missed, Honest
  <2>5. Honest([at |-> Nowhere, holds |-> k.holds])
    BY DEF Honest
  <2>6. QED
    BY <2>2, <2>3, <2>4, <2>5, Zenon DEF Reads
<1>3. QED
  BY <1>1, <1>2, Zenon DEF Cached

\* What a link of the volume's FAT may be, of a cluster in it.
Follows(r, c) ==
    /\ Honest(r.cache) /\ Inside(r.at)
    /\ \/ r.st = "io" /\ fails # MaxFails
       \/ r.st = "end" /\ r.c = Current[c] /\ r.c >= End
       \/ r.st = "ok" /\ r.c = Current[c] /\ r.c < End /\ Valid(r.c)
       \/ r.st = "corrupt" /\ r.c = Current[c] /\ r.c < End /\ ~Valid(r.c)

\* The link of a cluster is what the FAT says of it.
LEMMA NextFollows ==
    ASSUME Laid, Says, Honest(fatCache), NEW c \in Nat, Valid(c), NEW r \in Next1(c)
    PROVE  Follows(r, c)
<1>1. /\ EntryLo(c) \in Nat /\ EntryHi(c) \in Nat
      /\ EntryLo(c) + 1 <= Sectors /\ EntryHi(c) + 1 <= Sectors
  BY EntryInside
<1>2. PICK q \in Cached(fatCache, EntryLo(c), EntryHi(c)) :
           r \in IF ~q.ok THEN {[st |-> "io", c |-> 0, cache |-> q.cache, at |-> q.at]}
                 ELSE {[st |-> IF v >= End THEN "end" ELSE IF Valid(v) THEN "ok" ELSE "corrupt",
                        c |-> v, cache |-> q.cache, at |-> EntryHi(c)] : v \in Value(c, q.right)}
  BY Zenon DEF Next1, EntryLo, EntryHi
<1>3. Reads(q, EntryLo(c), EntryHi(c))
  BY <1>1, CachedRight
<1>4. CASE q.ok = FALSE
  <2>1. r = [st |-> "io", c |-> 0, cache |-> q.cache, at |-> q.at]
    BY <1>2, <1>4, Zenon
  <2>2. r.st = "io" /\ r.cache = q.cache /\ r.at = q.at
    BY <2>1, Zenon
  <2>3. fails # MaxFails
    BY <1>3, <1>4, Zenon DEF Reads
  <2>4. Inside(q.at)
    BY <1>1, <1>3 DEF Inside, Reads
  <2>5. QED
    BY <1>3, <2>2, <2>3, <2>4, Zenon DEF Follows, Reads
<1>5. CASE q.ok = TRUE
  <2>1. q.right = TRUE
    BY <1>3, <1>5, Zenon DEF Reads
  <2>2. Value(c, q.right) = {Current[c]}
    BY <2>1, Zenon DEF Value, Says
  <2>3. r = [st |-> IF Current[c] >= End THEN "end" ELSE IF Valid(Current[c]) THEN "ok" ELSE "corrupt",
             c |-> Current[c], cache |-> q.cache, at |-> EntryHi(c)]
    BY <1>2, <1>5, <2>2, Zenon
  <2>4. /\ r.st = IF Current[c] >= End THEN "end" ELSE IF Valid(Current[c]) THEN "ok" ELSE "corrupt"
        /\ r.c = Current[c] /\ r.cache = q.cache /\ r.at = EntryHi(c)
    BY <2>3, Zenon
  <2>5. Inside(r.at)
    BY <1>1, <2>4 DEF Inside
  <2>6. Honest(r.cache)
    BY <1>3, <2>4, Zenon DEF Reads
  <2>7. Current[c] \in Nat /\ End \in Nat
    BY EspAssumption DEF Says
  <2>8. (Current[c] >= End) \/ (Current[c] < End)
    BY <2>7
  <2>9. QED
    BY <2>4, <2>5, <2>6, <2>8, Zenon DEF Follows
<1>6. QED
  BY <1>3, <1>4, <1>5, Zenon DEF Reads

\* The first cluster of a chain, by its number.
LEMMA KthFirst ==
    ASSUME NEW c
    PROVE  Kth(c, 0) = IF Valid(c) THEN c ELSE 0
  BY NthFirst DEF Kth, Valid

\* The cluster after the k-th.
LEMMA KthNext ==
    ASSUME NEW c, NEW k \in Nat, NEW d \in Nat, Valid(d), Kth(c, k) = d
    PROVE  Kth(c, k + 1) = IF Current[d] >= End \/ ~Valid(Current[d]) THEN 0 ELSE Current[d]
<1>1. Kth(c, k + 1) = LinkOf(Current, vol.clusters, Kth(c, k))
  BY NthNext DEF Kth
<1>2. d # 0
  BY DEF Valid, InVolume
<1>3. QED
  BY <1>1, <1>2 DEF LinkOf, Valid

\* What is in a chain is in the volume.
LEMMA ChainIsValid ==
    ASSUME Says, NEW c \in Nat
    PROVE  \A k \in Nat : Kth(c, k) = 0 \/ (Kth(c, k) \in Nat /\ Valid(Kth(c, k)))
<1> DEFINE T == {k \in Nat : ~(Kth(c, k) = 0 \/ (Kth(c, k) \in Nat /\ Valid(Kth(c, k))))}
<1>1. SUFFICES ASSUME T # {} PROVE FALSE
  OBVIOUS
<1>2. PICK k \in T : \A l \in T : k <= l
  BY <1>1, LeastOf, Zenon
<1>3. k # 0
  BY <1>2, KthFirst
<1>4. k - 1 \in Nat /\ k - 1 \notin T
  BY <1>2, <1>3
<1>5. Kth(c, k) = LinkOf(Current, vol.clusters, Kth(c, k - 1))
  <2>1. Kth(c, k - 1 + 1) = LinkOf(Current, vol.clusters, Kth(c, k - 1))
    BY <1>4, NthNext DEF Kth
  <2>2. k - 1 + 1 = k
    BY <1>2
  <2>3. QED
    BY <2>1, <2>2
<1>6. QED
  BY <1>2, <1>4, <1>5 DEF LinkOf, Valid, Says

\* The cluster the link of the k-th is of is the next, and there is none where
\* the link is of none.
LEMMA FollowsNext ==
    ASSUME Laid, Says, NEW c, NEW k \in Nat, NEW d \in Nat, Valid(d), Kth(c, k) = d,
           NEW r, Follows(r, d)
    PROVE  /\ r.st = "ok" => r.c \in Nat /\ Valid(r.c) /\ Kth(c, k + 1) = r.c /\ r.c # 0
           /\ r.st \in {"end", "corrupt"} => Kth(c, k + 1) = 0
           /\ r.st = "end" => Current[d] >= End
           /\ r.st = "corrupt" => ~(Current[d] >= End)
           /\ r.st = "io" => fails # MaxFails
           /\ r.st \in {"ok", "end", "corrupt", "io"}
<1>1. Current[d] \in Nat /\ End \in Nat
  BY EspAssumption DEF Says
<1>2. Kth(c, k + 1) = IF Current[d] >= End \/ ~Valid(Current[d]) THEN 0 ELSE Current[d]
  BY KthNext
<1>4. Valid(r.c) /\ r.c \in Nat => r.c # 0
  BY DEF Valid, InVolume
<1>5. QED
  BY <1>1, <1>2, <1>4 DEF Follows

------------------------------------------------------------------------------
(* Listings.                                                               *)

\* Where the listing of a directory starts is what its definition says.
LEMMA DirStartIs ==
    ASSUME Laid, NEW e
    PROVE  DirStart(e) = IF e.first = 0 THEN vol.root ELSE e.first
  BY DEF DirStart, Laid

\* A directory whose chain has no (k+1)-th cluster, without an end, or whose
\* chain is longer than the volume, is not sound.
LEMMA Unsound ==
    ASSUME Laid, Says, NEW e, DirStart(e) # 0, NEW k \in Nat,
           \A j \in 0 .. k : Kth(DirStart(e), j) # 0 /\ Kth(DirStart(e), j) \in Nat
                             /\ Valid(Kth(DirStart(e), j)),
           \/ k >= vol.clusters
           \/ Kth(DirStart(e), k + 1) = 0 /\ ~(Current[Kth(DirStart(e), k)] >= End)
    PROVE  ~SoundDir(e)
<1> DEFINE c == DirStart(e)
<1>1. SUFFICES ASSUME SoundDir(e) PROVE FALSE
  OBVIOUS
<1>2. PICK n \in 0 .. vol.clusters - 1 :
          (\A j \in 0 .. n : Kth(c, j) # 0) /\ Current[Kth(c, n)] >= End
  BY <1>1, DirStartIs DEF SoundDir
<1>3. n \in Nat /\ vol.clusters \in Nat
  BY <1>2 DEF Laid
<1>4. CASE n < k
  <2>1. n \in 0 .. k /\ n + 1 \in 0 .. k
    BY <1>3, <1>4
  <2>2. Kth(c, n + 1) = 0
    BY <1>2, <1>3, <2>1, KthNext
  <2>3. QED
    BY <2>1, <2>2
<1>5. CASE n = k
  BY <1>2, <1>3, <1>5 
<1>6. CASE n > k
  <2>1. k + 1 \in 0 .. n /\ ~(k >= vol.clusters)
    BY <1>2, <1>3, <1>6
  <2>2. QED
    BY <1>2, <2>1
<1>7. QED
  BY <1>3, <1>4, <1>5, <1>6

\* A file whose chain has no (k+1)-th cluster though its size takes more than
\* k+1 is not sound, and neither is one that takes more than the volume has.
LEMMA UnsoundFile ==
    ASSUME Laid, NEW e \in Entries, NEW k \in Nat,
           (k + 1) * vol.spc < e.size,
           Kth(e.first, k + 1) = 0 \/ k + 1 >= vol.clusters
    PROVE  ~Sound(e)
<1> DEFINE last == Up(e.size, vol.spc) - 1
<1>1. vol.spc \in Nat \ {0} /\ e.size \in Nat /\ vol.clusters \in Nat
  BY DEF Laid, Entries
<1>2. e.size + vol.spc - 1 \in Nat
  BY <1>1
<1>3. last \in Int /\ k + 1 <= last
  <2> DEFINE n == e.size + vol.spc - 1
             q == n \div vol.spc
  <2>1. /\ q \in Nat /\ n % vol.spc \in 0 .. vol.spc - 1 /\ n = q * vol.spc + (n % vol.spc)
    BY <1>1, <1>2, Division
  <2>2. last = q - 1 /\ n >= e.size /\ n \in Nat
    BY <1>1 DEF Up
  <2>3. n >= (k + 1) * vol.spc + vol.spc
    BY <1>1
  <2> HIDE DEF q, n, last
  <2>4. (k + 1) * vol.spc + vol.spc = (k + 2) * vol.spc
    BY <1>1
  <2>5. CASE q < k + 2
    <3>1. q * vol.spc + vol.spc <= (k + 2) * vol.spc
      BY <1>1, <2>1, <2>5, Products
    <3>2. n < q * vol.spc + vol.spc
      <4>1. q * vol.spc \in Nat
        BY <1>1, <2>1
      <4>2. QED
        BY <1>1, <2>1, <2>2, <4>1
    <3>3. (k + 2) * vol.spc \in Nat /\ q * vol.spc \in Nat
      BY <1>1, <2>1
    <3>4. QED
      BY <1>1, <2>2, <2>3, <2>4, <3>1, <3>2, <3>3
  <2>6. QED
    BY <2>1, <2>2, <2>5
<1> HIDE DEF last
<1>4. Sound(e) => last < vol.clusters /\ \A j \in 0 .. last : Kth(e.first, j) # 0
  BY DEF Sound, last
<1>5. QED
  BY <1>1, <1>3, <1>4

\* A cursor that moves within what it is at is as good.
LEMMA CursorMoves ==
    ASSUME NEW cursor, NEW e, CursorOK(cursor, e), NEW to, DOMAIN to = DOMAIN cursor,
           to.c = cursor.c, to.steps = cursor.steps, to.at \in 0 .. Length(cursor)
    PROVE  CursorOK(to, e)
<1>1. Length(to) = Length(cursor)
  BY DEF Length
<1>2. QED
  BY <1>1 DEF CursorOK

\* What a step of the listing of `dir` from `cursor` may be.
Advances(a, dir) ==
    /\ Honest(a.fat) /\ Honest(a.dir)
    /\ a.touched = touched \/ \E sector \in Nat : a.touched = <<sector, 1>> /\ Inside(sector)
    /\ a.fails = fails \/ (a.fails = fails + 1 /\ fails # MaxFails)
    /\ a.step.st \in {"more", "ok", "end", "corrupt", "io", "panic"}
    /\ a.step.st \in {"more", "ok", "end"} => CursorOK(a.step.cur, dir)
    /\ a.step.st = "ok" => a.step.item.e \in Entries
    /\ a.step.st = "corrupt" => ~SoundDir(dir)

\* A cluster of a listing is one of its directory's chain.
LEMMA CursorIsAt ==
    ASSUME NEW cursor, NEW dir, CursorOK(cursor, dir)
    PROVE  /\ DOMAIN cursor = {"c", "at", "steps", "done", "lfn"}
           /\ cursor.c = 0 \/ (cursor.c \in Nat /\ Valid(cursor.c))
           /\ cursor.c = 0 <=> DirStart(dir) = 0
           /\ cursor.at \in 0 .. Length(cursor)
  BY DEF CursorOK, Valid, InVolume

\* A directory's slots are so many.
LEMMA LengthIs ==
    ASSUME Laid, NEW cursor
    PROVE  Length(cursor) \in Nat
<1>1. SectorSlots \in Nat /\ vol.rootLen \in Nat /\ vol.spc \in Nat
  BY EspAssumption DEF Laid
<1>2. vol.rootLen * SectorSlots \in Nat /\ vol.spc * SectorSlots \in Nat
  BY <1>1
<1>3. QED
  BY <1>2 DEF Length, SlotsIn

\* A directory is listed from its start.
LEMMA DirIsListed ==
    ASSUME Laid, NEW e, DirOK(e)
    PROVE  CursorOK(Cursor(e), e)
<1> DEFINE cursor == Cursor(e)
<1>1. /\ DOMAIN cursor = {"c", "at", "steps", "done", "lfn"} /\ cursor.c = DirStart(e)
      /\ cursor.at = 0 /\ cursor.steps = 0
  BY DEF Cursor, NoCursor
<1> HIDE DEF cursor
<1>2. Length(cursor) \in Nat /\ vol.clusters \in Nat
  BY LengthIs DEF Laid
<1>3. DirStart(e) \in Nat
  BY DEF DirOK, Entries, DirStart, Laid
<1>4. DirStart(e) # 0 => Kth(DirStart(e), 0) = DirStart(e)
  BY KthFirst DEF DirOK
<1>5. ASSUME DirStart(e) = 0 PROVE CursorOK(cursor, e)
  BY <1>1, <1>2, <1>5 DEF CursorOK
<1>6. ASSUME DirStart(e) # 0 PROVE CursorOK(cursor, e)
  <2>1. Valid(DirStart(e)) /\ \A k \in 0 .. cursor.steps : Kth(DirStart(e), k) # 0
    BY <1>1, <1>4, <1>6 DEF DirOK
  <2>2. QED
    BY <1>1, <1>2, <1>3, <1>4, <1>6, <2>1 DEF CursorOK
<1>7. QED
  BY <1>5, <1>6 DEF cursor

\* The end of a listing leaves it where it was.
LEMMA EndsAdvance ==
    ASSUME NEW cursor, NEW dir, CursorOK(cursor, dir)
    PROVE  Ends(cursor).st = "end" /\ CursorOK(Ends(cursor).cur, dir)
<1> DEFINE to == [cursor EXCEPT !.done = TRUE]
<1>1. DOMAIN to = DOMAIN cursor /\ to.c = cursor.c /\ to.steps = cursor.steps /\ to.at = cursor.at
  BY CursorIsAt
<1>2. Ends(cursor).st = "end" /\ Ends(cursor).cur = to
  BY DEF Ends, Step
<1> HIDE DEF to
<1>3. CursorOK(to, dir)
  BY <1>1, CursorIsAt, CursorMoves
<1>4. QED
  BY <1>2, <1>3

\* A slot is passed within what the listing is at.
LEMMA SlottedAdvance ==
    ASSUME NEW cursor, NEW dir, CursorOK(cursor, dir), cursor.at < Length(cursor),
           Length(cursor) \in Nat, NEW s,
           s.is = "entry" => s.e \in Entries
    PROVE  LET step == Slotted(cursor, s)
           IN  /\ step.st \in {"more", "ok", "end", "panic"}
               /\ step.st \in {"more", "ok", "end"} => CursorOK(step.cur, dir)
               /\ step.st = "ok" => step.item.e \in Entries
<1>1. DOMAIN cursor = {"c", "at", "steps", "done", "lfn"} /\ cursor.at + 1 \in 0 .. Length(cursor)
  BY CursorIsAt
<1>2. ASSUME NEW to, DOMAIN to = DOMAIN cursor, to.c = cursor.c, to.steps = cursor.steps,
             to.at = cursor.at + 1
      PROVE  CursorOK(to, dir)
  BY <1>1, <1>2, CursorMoves
<1>3. /\ DOMAIN Past(cursor) = DOMAIN cursor /\ Past(cursor).c = cursor.c
      /\ Past(cursor).steps = cursor.steps
      /\ Past(cursor).at = cursor.at + 1
  BY <1>1 DEF Past
<1>4. CursorOK(Past(cursor), dir)
  BY <1>2, <1>3
<1>5. CursorOK(Skips(cursor, s), dir)
  <2> DEFINE to == [Past(cursor) EXCEPT !.lfn = Pushed(cursor.lfn, s)]
  <2>1. DOMAIN to = DOMAIN cursor /\ to.c = cursor.c /\ to.steps = cursor.steps /\ to.at = cursor.at + 1
    BY <1>1, <1>3
  <2> HIDE DEF to
  <2>2. CursorOK(to, dir)
    BY <1>2, <2>1
  <2>3. QED
    BY <1>4, <2>2 DEF Skips, to
<1>6. CASE s.is = "free"
  BY <1>6, EndsAdvance DEF Slotted
<1>7. CASE s.is # "free" /\ Wraps(cursor.lfn, s)
  BY <1>7 DEF Slotted, Step
<1>8. CASE s.is # "free" /\ ~Wraps(cursor.lfn, s) /\ s.is # "entry"
  <2>1. Slotted(cursor, s).st = "more" /\ Slotted(cursor, s).cur = Skips(cursor, s)
    BY <1>8 DEF Slotted, Step
  <2>2. QED
    BY <1>5, <2>1
<1>9. CASE s.is = "entry" /\ ~Wraps(cursor.lfn, s)
  <2>1. /\ Slotted(cursor, s).st = "ok" /\ Slotted(cursor, s).cur = Past(cursor)
        /\ Slotted(cursor, s).item.e = s.e
    BY <1>9 DEF Slotted, Step, Listed
  <2>2. QED
    BY <1>4, <1>9, <2>1
<1>10. QED
  BY <1>6, <1>7, <1>8, <1>9

\* A link is followed along the directory's chain, and called corrupt only where
\* the directory is.
LEMMA LinkedAdvance ==
    ASSUME Laid, Says, NEW cursor, NEW dir, DirOK(dir), CursorOK(cursor, dir), cursor.c # 0,
           NEW r, Follows(r, cursor.c)
    PROVE  LET step == Linked(cursor, r)
           IN  /\ step.st \in {"more", "end", "corrupt", "io"}
               /\ step.st \in {"more", "end"} => CursorOK(step.cur, dir)
               /\ step.st = "corrupt" => ~SoundDir(dir)
               /\ r.st = "io" => fails # MaxFails
<1> DEFINE start == DirStart(dir)
<1>1. /\ start # 0 /\ cursor.c \in Nat /\ Valid(cursor.c) /\ cursor.steps \in 0 .. vol.clusters
      /\ Kth(start, cursor.steps) = cursor.c /\ \A k \in 0 .. cursor.steps : Kth(start, k) # 0
      /\ DOMAIN cursor = {"c", "at", "steps", "done", "lfn"}
      /\ vol.clusters \in Nat /\ cursor.steps \in Nat
  BY DEF CursorOK, Laid
<1>2. /\ r.st = "ok" => r.c \in Nat /\ Valid(r.c) /\ Kth(start, cursor.steps + 1) = r.c /\ r.c # 0
      /\ r.st \in {"end", "corrupt"} => Kth(start, cursor.steps + 1) = 0
      /\ r.st = "corrupt" => ~(Current[cursor.c] >= End)
      /\ r.st = "io" => fails # MaxFails
      /\ r.st \in {"ok", "end", "corrupt", "io"}
  BY <1>1, FollowsNext
<1>3. \A k \in 0 .. cursor.steps : /\ Kth(start, k) # 0 /\ Kth(start, k) \in Nat
                                /\ Valid(Kth(start, k))
  <2>1. start \in Nat
    BY DEF DirOK, Entries, DirStart, Laid
  <2>2. QED
    BY <1>1, <2>1, ChainIsValid
<1>4. CASE r.st = "end"
  BY <1>4, EndsAdvance DEF Linked
<1>5. CASE r.st = "io"
  BY <1>2, <1>5 DEF Linked, Step
<1>6. CASE r.st = "corrupt"
  <2>1. ~SoundDir(dir)
    BY <1>1, <1>2, <1>3, <1>6, Unsound
  <2>2. QED
    BY <1>6, <2>1 DEF Linked, Step
<1>7. CASE r.st = "ok" /\ TooManySteps(cursor.steps + 1)
  <2>1. cursor.steps >= vol.clusters
    BY <1>1, <1>7 DEF TooManySteps
  <2>2. ~SoundDir(dir)
    BY <1>1, <1>3, <2>1, Unsound
  <2>3. QED
    BY <1>7, <2>2 DEF Linked, Step
<1>8. CASE r.st = "ok" /\ ~TooManySteps(cursor.steps + 1)
  <2> DEFINE to == [cursor EXCEPT !.c = r.c, !.at = 0, !.steps = @ + 1]
  <2>1. DOMAIN to = DOMAIN cursor /\ to.c = r.c /\ to.at = 0 /\ to.steps = cursor.steps + 1
    BY <1>1
  <2>2. Linked(cursor, r).st = "more" /\ Linked(cursor, r).cur = to
    BY <1>8 DEF Linked, Step
  <2> HIDE DEF to
  <2>3. cursor.steps + 1 \in 0 .. vol.clusters
    BY <1>1, <1>8 DEF TooManySteps
  <2>4. \A k \in 0 .. cursor.steps + 1 : Kth(start, k) # 0
    BY <1>1, <1>2, <1>8
  <2>5. Length(to) \in Nat
    BY LengthIs
  <2>6. CursorOK(to, dir)
    <3>1. /\ to.c \in Nat /\ Valid(to.c) /\ to.c = Kth(start, to.steps)
          /\ \A k \in 0 .. to.steps : Kth(start, k) # 0
      BY <1>2, <1>8, <2>1, <2>4
    <3>2. to.at \in 0 .. Length(to) /\ to.steps \in 0 .. vol.clusters
      BY <2>1, <2>3, <2>5
    <3>3. QED
      BY <1>1, <2>1, <3>1, <3>2 DEF CursorOK
  <2>7. QED
    BY <1>8, <2>2, <2>6
<1>9. QED
  BY <1>2, <1>4, <1>5, <1>6, <1>7, <1>8

\* What one step of a listing may be.
LEMMA AdvanceAdvances ==
    ASSUME Laid, Says, CachesOK, NEW dir, DirOK(dir), NEW cursor, CursorOK(cursor, dir),
           NEW a \in Advance(cursor)
    PROVE  Advances(a, dir)
<1>1. /\ DOMAIN cursor = {"c", "at", "steps", "done", "lfn"} /\ Length(cursor) \in Nat
      /\ (cursor.c = 0 \/ (cursor.c \in Nat /\ Valid(cursor.c))) /\ cursor.at \in 0 .. Length(cursor)
      /\ Honest(fatCache) /\ Honest(dirCache)
      /\ cursor.c = 0 => vol.kind # 32
  <2>1. Length(cursor) \in Nat
    BY LengthIs
  <2>2. QED
    BY <2>1, CursorIsAt DEF CachesOK, DirOK
<1>2. CASE cursor.done \/ (cursor.at >= Length(cursor) /\ cursor.c = 0)
  <2>1. a = [step |-> Ends(cursor), fat |-> fatCache, dir |-> dirCache, touched |-> touched,
             fails |-> fails]
    BY <1>2, Zenon DEF Advance
  <2>2. /\ a.step = Ends(cursor) /\ a.fat = fatCache /\ a.dir = dirCache /\ a.touched = touched
        /\ a.fails = fails
    BY <2>1
  <2>3. QED
    BY <1>1, <2>2, EndsAdvance DEF Advances
<1>3. CASE ~(cursor.done \/ (cursor.at >= Length(cursor) /\ cursor.c = 0)) /\ cursor.at >= Length(cursor)
  <2>1. a \in FollowsLink(cursor) /\ cursor.c # 0 /\ cursor.c \in Nat /\ Valid(cursor.c)
    BY <1>1, <1>3, Zenon DEF Advance
  <2>2. PICK r \in Next1(cursor.c) :
            a = [step |-> Linked(cursor, r), fat |-> r.cache, dir |-> dirCache,
                 touched |-> <<r.at, 1>>, fails |-> IF r.st = "io" THEN fails + 1 ELSE fails]
    BY <2>1, Zenon DEF FollowsLink
  <2>3. /\ a.step = Linked(cursor, r) /\ a.fat = r.cache /\ a.dir = dirCache
        /\ a.touched = <<r.at, 1>> /\ a.fails = IF r.st = "io" THEN fails + 1 ELSE fails
    BY <2>2
  <2>4. Follows(r, cursor.c)
    BY <1>1, <2>1, NextFollows
  <2>5. Honest(r.cache) /\ Inside(r.at)
    BY <2>4 DEF Follows
  <2>6. /\ a.step.st \in {"more", "end", "corrupt", "io"}
        /\ a.step.st \in {"more", "end"} => CursorOK(a.step.cur, dir)
        /\ a.step.st = "corrupt" => ~SoundDir(dir)
        /\ r.st = "io" => fails # MaxFails
    BY <2>1, <2>3, <2>4, LinkedAdvance
  <2>7. \E sector \in Nat : a.touched = <<sector, 1>> /\ Inside(sector)
    BY <2>3, <2>5 DEF Inside
  <2>8. QED
    BY <1>1, <2>3, <2>5, <2>6, <2>7 DEF Advances
<1>4. CASE ~cursor.done /\ cursor.at < Length(cursor)
  <2> DEFINE sector == SlotSector(cursor)
             slots(right) == IF right THEN {disk.slots[cursor.c][cursor.at + 1]} ELSE {[is |-> "free"]}
             steps(r) == IF r.ok THEN {Slotted(cursor, s) : s \in slots(r.right)}
                                 ELSE {Step("io", cursor, Nothing)}
  <2>1. a \in ReadsSlot(cursor)
    <3>1. ~(cursor.at >= Length(cursor))
      BY <1>1, <1>4
    <3>2. QED
      BY <1>4, <3>1, Zenon DEF Advance
  <2>2. sector \in Nat /\ Inside(sector)
    <3>1. cursor.c \in Nat /\ cursor.at \in Nat
      BY <1>1
    <3>2. QED
      BY <1>1, <1>4, <3>1, SlotInside DEF Inside
  <2> HIDE DEF sector
  <2>3. PICK r \in Cached(dirCache, sector, sector) :
            \E st \in steps(r) :
                a = [step |-> st, fat |-> fatCache, dir |-> r.cache, touched |-> <<sector, 1>>,
                     fails |-> IF r.ok THEN fails ELSE fails + 1]
    BY <2>1, Zenon DEF ReadsSlot, sector
  <2>4. PICK st \in steps(r) :
            a = [step |-> st, fat |-> fatCache, dir |-> r.cache, touched |-> <<sector, 1>>,
                 fails |-> IF r.ok THEN fails ELSE fails + 1]
    BY <2>3, Zenon
  <2>5. Reads(r, sector, sector)
    BY <1>1, <2>2, CachedRight
  <2>6. /\ a.step = st /\ a.fat = fatCache /\ a.dir = r.cache /\ a.touched = <<sector, 1>>
        /\ a.fails = IF r.ok THEN fails ELSE fails + 1
    BY <2>4
  <2>7. CASE r.ok = FALSE
    <3>1. st = Step("io", cursor, Nothing) /\ fails # MaxFails
      BY <2>4, <2>5, <2>7, Zenon DEF Reads
    <3>2. st.st = "io"
      BY <3>1 DEF Step
    <3>3. Honest(r.cache)
      BY <2>5 DEF Reads
    <3>4. a.fails = fails + 1
      BY <2>6, <2>7, Zenon
    <3>5. QED
      BY <1>1, <2>2, <2>6, <3>1, <3>2, <3>3, <3>4 DEF Advances
  <2>8. CASE r.ok = TRUE
    <3>1. r.right = TRUE
      BY <2>5, <2>8, Zenon DEF Reads
    <3>2. st = Slotted(cursor, disk.slots[cursor.c][cursor.at + 1])
      BY <2>4, <2>8, <3>1, Zenon
    <3> DEFINE s == disk.slots[cursor.c][cursor.at + 1]
    <3>3. s.is = "entry" => s.e \in Entries
      <4>1. /\ DOMAIN disk.slots[cursor.c] = 1 .. Length(cursor)
            /\ \A i \in DOMAIN disk.slots[cursor.c] : IsSlot(disk.slots[cursor.c][i])
        BY <1>1 DEF Says, Length
      <4>2. cursor.at + 1 \in 1 .. Length(cursor)
        BY <1>1, <1>4
      <4>3. QED
        BY <4>1, <4>2 DEF IsSlot
    <3> HIDE DEF s
    <3>4. /\ st.st \in {"more", "ok", "end", "panic"}
          /\ st.st \in {"more", "ok", "end"} => CursorOK(st.cur, dir)
          /\ st.st = "ok" => st.item.e \in Entries
      BY <1>1, <1>4, <3>2, <3>3, SlottedAdvance DEF s
    <3>5. Honest(r.cache)
      BY <2>5 DEF Reads
    <3>6. a.fails = fails
      BY <2>6, <2>8, Zenon
    <3>7. QED
      BY <1>1, <2>2, <2>6, <3>4, <3>5, <3>6 DEF Advances
  <2>9. QED
    BY <2>5, <2>7, <2>8, Zenon DEF Reads
<1>5. QED
  BY <1>1, <1>2, <1>3, <1>4

------------------------------------------------------------------------------
(* A step of a volume in use.                                              *)

\* What is said of the volume stays so while it is mounted, ...
LEMMA SameVolume ==
    ASSUME mounted' = mounted
    PROVE  /\ \A c, k : Kth(c, k)' = Kth(c, k)
           /\ \A c : Valid(c)' <=> Valid(c)
           /\ \A c : ClusterAt(c)' = ClusterAt(c)
           /\ \A e : DirStart(e)' = DirStart(e)
           /\ \A e, u : UnitAt(e, u)' = UnitAt(e, u)
           /\ \A e, u, n : Units(e, u, n)' = Units(e, u, n)
           /\ disk' = disk /\ vol' = vol /\ part' = part /\ stage' = stage
<1>1. disk' = disk /\ vol' = vol /\ part' = part /\ stage' = stage
  BY DEF mounted
<1>2. \A c, k : Kth(c, k)' = Kth(c, k)
  BY <1>1 DEF Kth, Current
<1>3. \A c : ClusterAt(c)' = ClusterAt(c)
  BY <1>1 DEF ClusterAt
<1>4. \A e, u : UnitAt(e, u)' = UnitAt(e, u)
  BY <1>1, <1>2, <1>3 DEF UnitAt
<1>5. \A e, u, n : Units(e, u, n)' = Units(e, u, n)
  BY <1>4 DEF Units
<1>6. (\A c : Valid(c)' <=> Valid(c)) /\ \A e : DirStart(e)' = DirStart(e)
  BY <1>1 DEF Valid, DirStart
<1>7. QED
  BY <1>1, <1>2, <1>3, <1>4, <1>5, <1>6

\* ... and so what of a state is said by it.
LEMMA SameSaid ==
    ASSUME mounted' = mounted
    PROVE  /\ \A l, d : LookIs(l, d)' <=> LookIs(l, d)
           /\ \A cursor : ListIs(cursor)' <=> ListIs(cursor)
           /\ \A w, d, f : WalkIs(w, d, f)' <=> WalkIs(w, d, f)
           /\ \A f : FileIs(f)' <=> FileIs(f)
           /\ \A t : TouchIs(t)' <=> TouchIs(t)
           /\ \A o : AnswerIs(o)' <=> AnswerIs(o)
<1>1. /\ \A c, k : Kth(c, k)' = Kth(c, k)
      /\ \A c : Valid(c)' <=> Valid(c)
      /\ \A c : ClusterAt(c)' = ClusterAt(c)
      /\ \A e : DirStart(e)' = DirStart(e)
      /\ \A e, u : UnitAt(e, u)' = UnitAt(e, u)
      /\ \A e, u, n : Units(e, u, n)' = Units(e, u, n)
      /\ disk' = disk /\ vol' = vol /\ part' = part /\ stage' = stage
  BY SameVolume
<1>2. \A e : DirOK(e)' <=> DirOK(e)
  BY <1>1 DEF DirOK
<1>3. \A cursor, e : CursorOK(cursor, e)' <=> CursorOK(cursor, e)
  BY <1>1 DEF CursorOK, Length, SlotsIn
<1>4. \A l, d : LookIs(l, d)' <=> LookIs(l, d)
  BY <1>2, <1>3 DEF LookIs
<1>5. \A cursor : ListIs(cursor)' <=> ListIs(cursor)
  BY <1>3 DEF ListIs
<1>6. \A w, d, f : Reading(w, d, f)' <=> Reading(w, d, f)
  BY <1>1 DEF Reading
<1>7. \A w : Seeking(w)' <=> Seeking(w)
  BY <1>1 DEF Seeking
<1>8. \A w, d, i : Here(w, d, i)' <=> Here(w, d, i)
  BY <1>1 DEF Here
<1>9. \A w : RunFrom(w)' = RunFrom(w)
  BY <1>1 DEF RunFrom
<1>10. \A w, d : Running(w, d)' <=> Running(w, d)
  BY <1>1, <1>8, <1>9 DEF Running
<1>11. \A w, d, f : WalkIs(w, d, f)' <=> WalkIs(w, d, f)
  BY <1>6, <1>7, <1>10 DEF WalkIs
<1>12. \A f : FileIs(f)' <=> FileIs(f)
  BY <1>1 DEF FileIs
<1>13. \A t : TouchIs(t)' <=> TouchIs(t)
  BY <1>1 DEF TouchIs, Sectors
<1>14. \A e : (Sound(e)' <=> Sound(e)) /\ (SoundDir(e)' <=> SoundDir(e))
  <2>1. Current' = Current
    BY <1>1 DEF Current
  <2>2. QED
    BY <1>1, <2>1 DEF Sound, SoundDir
<1>15. \A o : AnswerIs(o)' <=> AnswerIs(o)
  BY <1>1, <1>14 DEF AnswerIs
<1>16. QED
  BY <1>4, <1>5, <1>11, <1>12, <1>13, <1>15, Zenon

\* So a step of it is right when what it leaves is.
LEMMA StepIsRight ==
    ASSUME EspInv, stage = "up", mounted' = mounted, CachesOK', Counted',
           LookIs(look', doing'), ListIs(list'), WalkIs(walk', doing', file'), FileIs(file'),
           TouchIs(touched'), AnswerIs(out')
    PROVE  EspInv'
<1>1. InUse'
  BY SameSaid DEF InUse
<1>2. disk' = disk /\ vol' = vol /\ part' = part /\ stage' = stage
  BY SameVolume
<1>3. MountedOK'
  BY <1>2 DEF EspInv, MountedOK, GptGood, FirstEsp, Esps, Fits, Sectors
<1>4. QED
  BY <1>1, <1>2, <1>3 DEF EspInv

\* A volume that something is asked of is mounted.
LEMMA UpFacts ==
    ASSUME EspInv, stage = "up" \/ doing # "idle"
    PROVE  stage = "up" /\ Laid /\ Says /\ InUse /\ CachesOK /\ Counted
<1>1. stage = "up" /\ MountedOK /\ InUse /\ CachesOK /\ Counted
  BY DEF EspInv, Unread
<1>2. QED
  BY <1>1, MountedIsLaid, MountedSays

\* What the caches, the calls and the last read are stays so where they do.
LEMMA CachesStay ==
    ASSUME EspInv, stage = "up", UNCHANGED caches
    PROVE  CachesOK' /\ TouchIs(touched') /\ fails' \in 0 .. MaxFails
<1>1. fatCache' = fatCache /\ dirCache' = dirCache /\ touched' = touched /\ fails' = fails
  BY DEF caches
<1>2. QED
  BY <1>1, UpFacts DEF InUse, CachesOK, Honest, Counted

\* No answer is not a wrong one.
LEMMA NoAnswer == AnswerIs(NoOut)
  BY DEF AnswerIs, NoOut

\* Root is a directory that can be listed, from its start.
LEMMA RootIs ==
    ASSUME Laid
    PROVE  DirOK(Root) /\ CursorOK(Cursor(Root), Root)
<1>1. Root \in Entries /\ Root.dir /\ Root.first = 0
  BY DEF Root, Entries
<1>2. DirOK(Root)
  <2>1. IF vol.kind = 32 THEN Valid(vol.root) /\ vol.root # 0 ELSE vol.root = 0
    BY DEF Laid, Valid, InVolume
  <2>2. QED
    BY <1>1, <2>1 DEF DirOK, DirStart
<1>3. QED
  BY <1>1, <1>2, DirIsListed

\* The walk to a file is from the root.
LEMMA StartFindStep == ASSUME EspInv, StartFind PROVE EspInv'
<1>1. stage = "up" /\ mounted' = mounted /\ UNCHANGED caches /\ doing = "idle"
  BY DEF StartFind, MayCall, Idle
<1>2. Laid /\ InUse /\ Counted
  BY <1>1, UpFacts
<1>3. CachesOK' /\ TouchIs(touched') /\ fails' \in 0 .. MaxFails
  BY <1>1, CachesStay
<1>4. PICK op \in {"load", "open"} :
          look' = [op |-> op, path |-> disk.path, dir |-> Root, cur |-> Cursor(Root)]
  BY DEF StartFind
<1>5. doing' = "look" /\ out' = NoOut /\ walk' = walk /\ file' = file /\ list' = list
      /\ calls' = calls + 1 /\ calls < MaxCalls
  BY DEF StartFind, MayCall
<1>6. LookIs(look', doing')
  BY <1>2, <1>4, <1>5, RootIs DEF LookIs
<1>7. WalkIs(walk', doing', file') /\ ListIs(list') /\ FileIs(file') /\ AnswerIs(out')
  BY <1>1, <1>2, <1>5, NoAnswer DEF InUse, WalkIs
<1>8. Counted'
  BY <1>2, <1>3, <1>5, EspAssumption DEF Counted
<1>9. QED
  BY <1>1, <1>3, <1>6, <1>7, <1>8, StepIsRight

\* A listing goes on where it was, or begins at the root's first slot.
LEMMA StartListStep == ASSUME EspInv, StartList PROVE EspInv'
<1>1. stage = "up" /\ mounted' = mounted /\ UNCHANGED caches /\ doing = "idle"
  BY DEF StartList, MayCall, Idle
<1>2. Laid /\ InUse /\ Counted
  BY <1>1, UpFacts
<1>3. CachesOK' /\ TouchIs(touched') /\ fails' \in 0 .. MaxFails
  BY <1>1, CachesStay
<1>4. doing' = "give" /\ out' = NoOut /\ walk' = walk /\ file' = file /\ list' = list
      /\ calls' = calls + 1 /\ calls < MaxCalls
      /\ look' = [NoLook EXCEPT !.op = "list", !.cur = IF list = NoCursor THEN Cursor(Root) ELSE list]
  BY DEF StartList, MayCall
<1>5. /\ DOMAIN look' = {"op", "path", "dir", "cur"} /\ look'.dir = Root
      /\ look'.cur = IF list = NoCursor THEN Cursor(Root) ELSE list
  BY <1>4 DEF NoLook
<1>6. LookIs(look', doing')
  BY <1>2, <1>4, <1>5, RootIs DEF LookIs, InUse, ListIs
<1>7. WalkIs(walk', doing', file') /\ ListIs(list') /\ FileIs(file') /\ AnswerIs(out')
  BY <1>1, <1>2, <1>4, NoAnswer DEF InUse, WalkIs
<1>8. Counted'
  BY <1>2, <1>3, <1>4, EspAssumption DEF Counted
<1>9. QED
  BY <1>1, <1>3, <1>6, <1>7, <1>8, StepIsRight

\* A rewound listing has not begun.
LEMMA RewindStep == ASSUME EspInv, Rewind PROVE EspInv'
<1>1. stage = "up" /\ mounted' = mounted /\ UNCHANGED caches
  BY DEF Rewind, MayCall, Idle
<1>2. InUse /\ Counted
  BY <1>1, UpFacts
<1>3. CachesOK' /\ TouchIs(touched') /\ fails' \in 0 .. MaxFails
  BY <1>1, CachesStay
<1>4. UNCHANGED <<doing, look, walk, file>> /\ list' = NoCursor /\ out' = NoOut
      /\ calls' = calls + 1 /\ calls < MaxCalls
  BY DEF Rewind, MayCall
<1>5. Counted'
  BY <1>2, <1>3, <1>4, EspAssumption DEF Counted
<1>6. QED
  BY <1>1, <1>2, <1>3, <1>4, <1>5, NoAnswer, StepIsRight DEF InUse, ListIs

\* A seek changes the position only.
LEMMA SeekStep == ASSUME EspInv, Seek PROVE EspInv'
<1>1. stage = "up" /\ mounted' = mounted /\ UNCHANGED caches /\ doing = "idle"
  BY DEF Seek, MayCall, Idle
<1>2. InUse /\ Counted
  BY <1>1, UpFacts
<1>3. CachesOK' /\ TouchIs(touched') /\ fails' \in 0 .. MaxFails
  BY <1>1, CachesStay
<1>4. UNCHANGED <<doing, look, walk, list, out>> /\ file.open
      /\ calls' = calls + 1 /\ calls < MaxCalls
  BY DEF Seek, MayCall
<1>5. PICK pos \in 0 .. file.of.size + 1 : file' = [file EXCEPT !.pos = pos]
  BY DEF Seek
<1>6. DOMAIN file = {"open", "of", "pos", "idx", "c"} /\ FileIs(file)
  BY <1>2, <1>4 DEF InUse, FileIs
<1>7. DOMAIN file' = DOMAIN file /\ file'.of = file.of /\ file'.pos = pos /\ file'.idx = file.idx
      /\ file'.c = file.c
  BY <1>5, <1>6
<1>8. FileIs(file')
  BY <1>4, <1>5, <1>6, <1>7 DEF FileIs
<1>9. WalkIs(walk', doing', file')
  BY <1>1, <1>2, <1>4 DEF InUse, WalkIs
<1>10. Counted'
  BY <1>2, <1>3, <1>4, EspAssumption DEF Counted
<1>11. QED
  BY <1>1, <1>2, <1>3, <1>4, <1>8, <1>9, <1>10, StepIsRight DEF InUse

------------------------------------------------------------------------------
(* Units.                                                                  *)

\* No units are none.
LEMMA NoUnits == \A e, from : Units(e, from, 0) = <<>> /\ Len(Units(e, from, 0)) = 0
  BY DEF Units

\* The units from one in a cluster of the file are the cluster's, to its end.
LEMMA UnitsOfCluster ==
    ASSUME Laid, NEW e, NEW i \in Nat, NEW off \in 0 .. vol.spc - 1,
           NEW c \in Nat, Valid(c), c = Kth(e.first, i)
    PROVE  \A u \in 0 .. vol.spc - off - 1 :
               UnitAt(e, i * vol.spc + off + u) = ClusterAt(c) + off + u
<1>1. vol.spc \in Nat \ {0} /\ i * vol.spc \in Nat
  BY DEF Laid
<1>2. ASSUME NEW u \in 0 .. vol.spc - off - 1
      PROVE  UnitAt(e, i * vol.spc + off + u) = ClusterAt(c) + off + u
  <2>1. off + u \in Nat /\ off + u < vol.spc
    BY <1>1
  <2>2. /\ (i * vol.spc + (off + u)) \div vol.spc = i
        /\ (i * vol.spc + (off + u)) % vol.spc = off + u
    BY <1>1, <2>1, Quotient
  <2>3. i * vol.spc + off + u = i * vol.spc + (off + u)
    BY <1>1, <2>1
  <2>4. UnitAt(e, i * vol.spc + off + u) = ClusterAt(c) + (off + u)
    BY <2>2, <2>3 DEF UnitAt
  <2>5. ClusterAt(c) + (off + u) = ClusterAt(c) + off + u
    BY ClusterInside
  <2>6. QED
    BY <2>4, <2>5
<1>3. QED
  BY <1>2

\* The units read, and n more of the file's from the sector `sector' on.
GoesOn(more, data, e, from, n, sector) ==
    /\ from \in Nat /\ n \in Nat /\ sector \in Nat
    /\ Len(data) \in Nat /\ data = Units(e, from, Len(data))
    /\ \A u \in 0 .. n - 1 : UnitAt(e, from + Len(data) + u) = sector + u
    /\ more = data \o [i \in 1 .. n |-> sector + i - 1]

\* Units read after units read are the units of both.
LEMMA UnitsMore ==
    ASSUME NEW e, NEW from, NEW data, NEW n, NEW sector, NEW more,
           GoesOn(more, data, e, from, n, sector)
    PROVE  Len(more) = Len(data) + n /\ more = Units(e, from, Len(data) + n)
<1> DEFINE m == Len(data)
           new == [i \in 1 .. n |-> sector + i - 1]
           S == {UnitAt(e, from + i - 1) : i \in 1 .. m} \cup Nat
<1>1. m \in Nat /\ data = [i \in 1 .. m |-> UnitAt(e, from + i - 1)]
  BY DEF Units, GoesOn
<1>9. from \in Nat /\ n \in Nat /\ sector \in Nat /\ more = data \o new
  <2> HIDE DEF S, m
  <2>1. from \in Nat /\ n \in Nat /\ sector \in Nat
    BY DEF GoesOn
  <2>2. more = data \o new
    BY Zenon DEF GoesOn
  <2>3. QED
    BY <2>1, <2>2
<1>2. data \in [1 .. m -> S] /\ new \in [1 .. n -> S]
  BY <1>1, <1>9
<1> HIDE DEF S, m, new
<1>3. data \in Seq(S) /\ new \in Seq(S) /\ Len(new) = n
  <2>1. m \in Nat
    BY <1>1
  <2>2. data \in Seq(S)
    BY <1>2, <2>1
  <2>3. new \in Seq(S)
    BY <1>9, <1>2
  <2>4. Len(new) = n
    BY <1>9, <1>2 DEF new
  <2>5. QED
    BY <2>2, <2>3, <2>4
<1>4. /\ Len(data) = m /\ Len(data \o new) = m + n
      /\ \A i \in 1 .. m + n : (data \o new)[i] = IF i <= m THEN data[i] ELSE new[i - m]
      /\ data \o new \in Seq(S)
  <2>1. Len(data) = m
    BY DEF m
  <2>2. data \in Seq(S) /\ new \in Seq(S) /\ Len(new) = n /\ m \in Nat /\ n \in Nat
    BY <1>1, <1>3, <1>9
  <2>3. Len(data \o new) = m + n /\ data \o new \in Seq(S)
    BY <2>1, <2>2
  <2>4. \A i \in 1 .. m + n : (data \o new)[i] = IF i <= m THEN data[i] ELSE new[i - m]
    BY <2>1, <2>2
  <2>5. QED
    BY <2>1, <2>3, <2>4
<1>5. \A i \in 1 .. m + n : (data \o new)[i] = UnitAt(e, from + i - 1)
  <2>1. ASSUME NEW i \in 1 .. m + n PROVE (data \o new)[i] = UnitAt(e, from + i - 1)
    <3>1. CASE i <= m
      BY <1>9, <1>1, <1>4, <3>1
    <3>2. CASE i > m
      <4>1. i - m - 1 \in 0 .. n - 1 /\ i - m \in 1 .. n
        BY <1>9, <1>1, <3>2
      <4>2. UnitAt(e, from + m + (i - m - 1)) = sector + (i - m - 1)
        BY <4>1 DEF m, GoesOn
      <4>3. from + m + (i - m - 1) = from + i - 1 /\ sector + (i - m - 1) = sector + (i - m) - 1
        BY <1>9, <1>1
      <4>4. new[i - m] = sector + (i - m) - 1
        BY <4>1 DEF new
      <4>5. QED
        BY <1>1, <1>4, <3>2, <4>2, <4>3, <4>4
    <3>3. m \in Nat
      BY <1>1
    <3>4. i <= m \/ i > m
      BY <3>3
    <3>5. QED
      BY <3>1, <3>2, <3>4, Zenon
  <2>2. QED
    BY <2>1
<1>6. data \o new = [i \in 1 .. m + n |-> (data \o new)[i]]
  BY <1>1, <1>4
<1>7. data \o new = Units(e, from, m + n)
  BY <1>5, <1>6 DEF Units
<1>8. QED
  BY <1>9, <1>4, <1>7 DEF m

\* A file whose first cluster is not one has no clusters for what it holds.
LEMMA UnsoundFirst ==
    ASSUME Laid, NEW e \in Entries, e.size # 0, ~Valid(e.first)
    PROVE  ~Sound(e)
<1> DEFINE n == e.size + vol.spc - 1
           q == n \div vol.spc
<1>1. vol.spc \in Nat \ {0} /\ e.size \in Nat /\ n \in Nat /\ n >= vol.spc
  BY DEF Laid, Entries
<1>2. q \in Nat /\ n % vol.spc \in 0 .. vol.spc - 1 /\ n = q * vol.spc + (n % vol.spc)
  BY <1>1, Division
<1>3. Up(e.size, vol.spc) = q
  BY DEF Up
<1> HIDE DEF n, q
<1>4. q # 0
  BY <1>1, <1>2
<1>5. 0 \in 0 .. Up(e.size, vol.spc) - 1
  BY <1>2, <1>3, <1>4
<1>6. Kth(e.first, 0) = 0
  BY KthFirst
<1>7. QED
  BY <1>5, <1>6 DEF Sound

------------------------------------------------------------------------------
(* Calls and what they answer.                                             *)

\* A call that is over leaves nothing in hand, and what it answers.
LEMMA Returned ==
    ASSUME NEW op, NEW st, NEW of, NEW pos, NEW data, Returns(op, st, of, pos, data),
           st = "ok" /\ op = "read" => data = Units(of, pos, Len(data)),
           st = "ok" /\ op = "load" => data = Units(of, 0, of.size),
           st = "corrupt" => IF of.dir THEN ~SoundDir(of) ELSE ~Sound(of)
    PROVE  /\ doing' \in {"idle", "panic"} /\ LookIs(look', doing') /\ AnswerIs(out')
           /\ \A f : WalkIs(walk', doing', f)
<1>1. /\ out'.op = op /\ out'.st = st /\ out'.of = of /\ out'.pos = pos /\ out'.data = data
      /\ doing' \in {"idle", "panic"} /\ look' = NoLook /\ walk' = NoWalk
  BY DEF Returns
<1>2. AnswerIs(out')
  BY <1>1 DEF AnswerIs
<1>3. QED
  BY <1>1, <1>2 DEF LookIs, WalkIs

\* One more of a number.
LEMMA Multiples ==
    ASSUME NEW i \in Nat, NEW d \in Nat
    PROVE  i * d \in Nat /\ (i + 1) * d = i * d + d
  OBVIOUS

\* What a run that begins with one cluster is, and one that has grown by another.
Begun(w, i, off) ==
    /\ w.pos \in Nat /\ Len(w.data) \in Nat /\ w.pos + Len(w.data) = i * vol.spc + off
    /\ off = IF w.data = <<>> THEN w.pos % vol.spc ELSE 0
    /\ w.c \in Nat /\ Valid(w.c) /\ w.c = Kth(w.of.first, i) /\ w.start = w.c
    /\ w.span = vol.spc - off /\ w.after = 0 /\ w.steps <= i /\ (w.op = "read" => i = w.idx)
Grown(w, v, i) ==
    /\ w.after = 0 /\ w.pos \in Nat /\ Len(w.data) \in Nat /\ w.c \in Nat /\ Valid(w.c)
    /\ w.steps \in Nat /\ Valid(w.c + 1) /\ Kth(w.of.first, i + 1) = w.c + 1
    /\ v.of = w.of /\ v.pos = w.pos /\ v.data = w.data /\ v.start = w.start
    /\ v.span = w.span + vol.spc /\ v.c = w.c + 1 /\ v.after = 0 /\ v.steps = w.steps + 1
    /\ (v.op = "read" => v.idx = i + 1)

\* A run begins with one cluster, at the unit that is next.
LEMMA RunBegins ==
    ASSUME Laid, NEW w, NEW does, does # "fetch", NEW i \in Nat, NEW off \in 0 .. vol.spc - 1,
           Begun(w, i, off)
    PROVE  Running(w, does)
<1> DEFINE d == vol.spc
           base == w.pos + Len(w.data)
           sector == ClusterAt(w.c)
<1>1. d \in Nat \ {0} /\ off \in 0 .. d - 1 /\ off \in Nat
  BY DEF Laid
<1>2. sector \in Nat /\ RunFrom(w) = sector + off /\ w.span = d - off
  BY ClusterInside DEF RunFrom, Begun
<1>3. base = i * d + off /\ w.c \in Nat /\ Valid(w.c) /\ w.c = Kth(w.of.first, i)
  BY DEF Begun
<1>4. \A u \in 0 .. d - off - 1 : UnitAt(w.of, i * d + off + u) = sector + off + u
  BY <1>3, UnitsOfCluster
<1> HIDE DEF d, base, sector
<1>5. \A u \in 0 .. w.span - 1 : UnitAt(w.of, base + u) = RunFrom(w) + u
  BY <1>2, <1>3, <1>4
<1>6. w.span \in Nat \ {0} /\ RunFrom(w) + w.span = sector + d
  BY <1>1, <1>2
<1>7. (i + 1) * d = base + w.span
  <2>1. i * d \in Nat /\ (i + 1) * d = i * d + d
    BY <1>1, Multiples
  <2> DEFINE m == i * d
  <2> HIDE DEF m
  <2>2. m \in Nat /\ (i + 1) * d = m + d /\ base = m + off
    BY <1>3, <2>1 DEF m
  <2>3. m + off + (d - off) = m + d
    BY <1>1, <2>2
  <2>4. QED
    BY <1>2, <2>2, <2>3
<1>8. Here(w, does, i)
  BY <1>7 DEF Here, Begun, d, base
<1>9. QED
  BY <1>5, <1>6, <1>8 DEF Running, Begun, d, base, sector

\* A run grows by the cluster that is both the file's next and the volume's.
LEMMA RunGrows ==
    ASSUME Laid, NEW w, NEW does, does # "fetch", Running(w, does), NEW i \in Nat,
           Here(w, does, i), NEW v, Grown(w, v, i)
    PROVE  Running(v, does)
<1> DEFINE d == vol.spc
           base == w.pos + Len(w.data)
           span == w.span
           sector == ClusterAt(w.c)
           from == RunFrom(w)
           m == (i + 1) * d
<1>1. d \in Nat \ {0}
  BY DEF Laid
<1>2. base \in Nat /\ base = v.pos + Len(v.data)
  BY DEF Grown
<1>3. span \in Nat \ {0} /\ from + span = sector + d /\ w.start \in Nat /\ Valid(w.start)
      /\ \A u \in 0 .. span - 1 : UnitAt(w.of, base + u) = from + u
  BY DEF Running
<1>4. /\ w.c \in Nat /\ w.c + 1 \in Nat /\ Valid(w.c) /\ Valid(w.c + 1)
      /\ Kth(w.of.first, i + 1) = w.c + 1
  BY DEF Grown
<1>5. sector \in Nat /\ ClusterAt(w.c + 1) = sector + d /\ ClusterAt(w.start) \in Nat
  BY <1>3, <1>4, ClusterInside
<1>6. from \in Nat /\ RunFrom(v) = from
  <2>1. w.pos \in Nat /\ w.start = v.start /\ w.data = v.data /\ w.pos = v.pos
    BY DEF Grown
  <2>2. w.pos % vol.spc \in 0 .. vol.spc - 1
    BY <1>1, <2>1, Division
  <2>3. w.pos % vol.spc \in Nat
    BY <1>1, <2>2
  <2>4. QED
    BY <1>5, <2>1, <2>3 DEF RunFrom
<1>7. m = base + span /\ w.steps <= i
  BY DEF Here, Grown
<1>8. /\ v.of = w.of /\ v.start = w.start /\ v.span = span + d /\ v.c = w.c + 1 /\ v.after = 0
      /\ v.steps <= i + 1 /\ (v.op = "read" => v.idx = i + 1)
  <2>1. w.steps + 1 <= i + 1
    BY <1>7 DEF Grown
  <2>2. QED
    BY <2>1 DEF Grown
<1>9. m \in Nat /\ (i + 1 + 1) * d = m + d
  BY <1>1, Multiples
<1>10. ASSUME NEW u \in 0 .. d - 1 PROVE UnitAt(w.of, m + u) = sector + d + u
  <2>1. 0 \in 0 .. vol.spc - 1 /\ i + 1 \in Nat
    BY <1>1
  <2>2. \A x \in 0 .. vol.spc - 0 - 1 :
            UnitAt(w.of, (i + 1) * vol.spc + 0 + x) = ClusterAt(w.c + 1) + 0 + x
    BY <1>4, <2>1, UnitsOfCluster
  <2>3. u \in 0 .. d - 0 - 1
    BY <1>1
  <2>4. UnitAt(w.of, m + 0 + u) = sector + d + 0 + u
    BY <1>5, <2>2, <2>3
  <2> HIDE DEF m, sector, d
  <2>5. m + 0 + u = m + u /\ sector + d + 0 + u = sector + d + u
    BY <1>1, <1>5, <1>9
  <2>6. QED
    BY <2>4, <2>5
<1> HIDE DEF m, d, base, span, sector, from
<1>11. ASSUME NEW u \in 0 .. span + d - 1 PROVE UnitAt(w.of, base + u) = from + u
  <2>1. CASE u < span
    BY <1>1, <1>3, <2>1
  <2>2. CASE u >= span
    <3>1. u - span \in 0 .. d - 1
      BY <1>1, <1>3, <2>2
    <3>2. UnitAt(w.of, m + (u - span)) = sector + d + (u - span)
      BY <1>10, <3>1
    <3>3. m + (u - span) = base + u /\ sector + d + (u - span) = from + u
      BY <1>1, <1>2, <1>3, <1>5, <1>6, <1>7
    <3>4. QED
      BY <3>2, <3>3
  <2>3. span \in Nat
    BY <1>3
  <2>4. QED
    BY <1>1, <2>1, <2>2, <2>3
<1>12. (i + 1 + 1) * d = base + (span + d) /\ span + d \in Nat \ {0}
       /\ from + (span + d) = sector + d + d
  BY <1>1, <1>2, <1>3, <1>5, <1>6, <1>7, <1>9
<1>13. Here(v, does, i + 1)
  BY <1>2, <1>4, <1>8, <1>12 DEF Here, d
<1>14. ASSUME NEW u \in 0 .. v.span - 1
       PROVE  UnitAt(v.of, v.pos + Len(v.data) + u) = RunFrom(v) + u
  <2>1. v.span = span + d
    BY <1>8
  <2>2. u \in 0 .. span + d - 1
    BY <2>1, <1>1, <1>3
  <2>3. UnitAt(w.of, base + u) = from + u
    BY <1>11, <2>2
  <2>4. QED
    BY <1>2, <1>6, <1>8, <2>3, Zenon
<1>15. RunFrom(v) + v.span = ClusterAt(v.c) + vol.spc
  BY <1>5, <1>6, <1>8, <1>12 DEF d
<1>16. QED
  BY <1>3, <1>8, <1>12, <1>13, <1>14, <1>15 DEF Running

\* A read of the file begins with a seek, from the cluster that the last one
\* left when that is not past the position.
LEMMA StartReadStep == ASSUME EspInv, StartRead PROVE EspInv'
<1>1. stage = "up" /\ mounted' = mounted /\ UNCHANGED caches /\ doing = "idle"
  BY DEF StartRead, MayCall, Idle
<1>2. Laid /\ InUse /\ Counted
  BY <1>1, UpFacts
<1>3. CachesOK' /\ TouchIs(touched') /\ fails' \in 0 .. MaxFails
  BY <1>1, CachesStay
<1>4. /\ file' = file /\ list' = list /\ file.open /\ ~file.of.dir
      /\ calls' = calls + 1 /\ calls < MaxCalls
  BY DEF StartRead, MayCall
<1>5. /\ file.of \in Entries /\ file.pos \in 0 .. file.of.size + 1 /\ FileIs(file) /\ ListIs(list)
      /\ file.c # 0 => /\ file.c \in Nat /\ Valid(file.c) /\ file.idx \in Nat
                       /\ file.c = Kth(file.of.first, file.idx)
      /\ look = NoLook /\ walk = NoWalk
  BY <1>1, <1>2, <1>4 DEF InUse, FileIs, LookIs, WalkIs
<1>6. file.of.size \in Nat /\ file.pos \in Nat
  BY <1>5 DEF Entries
<1> DEFINE target == file.pos \div vol.spc
           hinted == FromHint(target)
<1> DEFINE Over == Returns("read", "device error", file.of, file.pos, <<>>)
           Zero == Returns("read", "ok", file.of, file.pos, <<>>)
           Astray == /\ Returns("read", "corrupt", file.of, file.pos, <<>>)
                     /\ ~Valid(file.of.first) /\ file.pos < file.of.size
           Sought(n) ==
               /\ n # 0 /\ file.pos < file.of.size /\ (hinted \/ Valid(file.of.first))
               /\ doing' = "seek" /\ out' = NoOut /\ look' = look
               /\ walk' = [NoWalk EXCEPT
                      !.op = "read", !.of = file.of, !.pos = file.pos,
                      !.want = Least(n, file.of.size - file.pos),
                      !.idx = IF hinted THEN file.idx ELSE 0,
                      !.c = IF hinted THEN file.c ELSE file.of.first]
           Right == LookIs(look', doing') /\ AnswerIs(out') /\ WalkIs(walk', doing', file')
                    /\ doing' \in {"idle", "panic", "seek"}
<1>7. PICK n \in Buffers : Over \/ Zero \/ Astray \/ Sought(n)
  <2>1. PICK n \in Buffers :
            IF file.pos > file.of.size THEN Over
            ELSE IF n = 0 \/ file.pos = file.of.size THEN Zero
            ELSE IF ~hinted /\ ~Valid(file.of.first)
            THEN Returns("read", "corrupt", file.of, file.pos, <<>>)
            ELSE /\ doing' = "seek" /\ out' = NoOut /\ UNCHANGED look
                 /\ walk' = [NoWalk EXCEPT
                        !.op = "read", !.of = file.of, !.pos = file.pos,
                        !.want = Least(n, file.of.size - file.pos),
                        !.idx = IF hinted THEN file.idx ELSE 0,
                        !.c = IF hinted THEN file.c ELSE file.of.first]
    BY Zenon DEF StartRead
  <2>2. file.pos > file.of.size \/ file.pos = file.of.size \/ file.pos < file.of.size
    BY <1>6
  <2> HIDE DEF hinted, Over, Zero
  <2>3. Over \/ Zero \/ Astray \/ Sought(n)
    BY <2>1, <2>2, Zenon
  <2>4. QED
    BY <2>3, Zenon
<1>8. ASSUME Over \/ Zero PROVE Right
  <2>1. Units(file.of, file.pos, Len(<<>>)) = <<>>
    <3>1. Len(<<>>) = 0
      OBVIOUS
    <3>2. QED
      BY <3>1, NoUnits
  <2>2. CASE Over
    BY <2>1, <2>2, Returned
  <2>3. CASE Zero
    BY <2>1, <2>3, Returned
  <2>4. QED
    BY <1>8, <2>2, <2>3
<1>9. ASSUME Astray PROVE Right
  <2>1. ~Sound(file.of)
    BY <1>2, <1>5, <1>6, <1>9, UnsoundFirst
  <2>2. QED
    BY <1>4, <1>9, <2>1, Returned
<1>10. ASSUME Sought(n) PROVE Right
  <2>1. /\ DOMAIN walk' = {"op", "of", "pos", "want", "idx", "c", "start", "span", "data", "after",
                           "steps"}
        /\ walk'.op = "read" /\ walk'.of = file.of /\ walk'.pos = file.pos
        /\ walk'.want = Least(n, file.of.size - file.pos)
        /\ walk'.idx = (IF hinted THEN file.idx ELSE 0)
        /\ walk'.c = (IF hinted THEN file.c ELSE file.of.first)
        /\ walk'.data = <<>> /\ walk'.after = 0 /\ walk'.steps = 0
    BY <1>10 DEF NoWalk
  <2>2. target \in Nat
    BY <1>2, <1>6, Division DEF Laid
  <2> HIDE DEF target
  <2>3. /\ walk'.idx \in Nat /\ walk'.c \in Nat /\ Valid(walk'.c) /\ walk'.idx <= target
        /\ walk'.c = Kth(file.of.first, walk'.idx)
    <3>1. CASE hinted
      BY <1>5, <2>1, <3>1 DEF FromHint
    <3>2. CASE ~hinted
      BY <1>5, <1>10, <2>1, <2>2, <3>2, KthFirst DEF Entries
    <3>3. QED
      BY <3>1, <3>2
  <2>4. walk'.want \in Nat \ {0} /\ file.pos + walk'.want <= file.of.size
    <3>1. n \in Nat
      BY EspAssumption
    <3>2. QED
      BY <1>6, <1>10, <2>1, <3>1 DEF Least
  <2>5. Len(walk'.data) = 0 /\ walk'.data = Units(walk'.of, walk'.pos, Len(walk'.data))
    BY <2>1, NoUnits
  <2>6. Reading(walk', "seek", file)
    BY <1>2, <1>4, <1>5, <1>6, <2>1, <2>3, <2>4, <2>5 DEF Reading, Laid
  <2>7. Seeking(walk')
    BY <2>1, <2>3 DEF Seeking, target
  <2>8. QED
    BY <1>4, <1>5, <1>10, <2>6, <2>7, NoAnswer DEF WalkIs, LookIs
<1> HIDE DEF Over, Zero, Astray, Sought
<1>11. Right
  BY <1>7, <1>8, <1>9, <1>10, Zenon
<1>12. Counted'
  BY <1>2, <1>3, <1>4, <1>11, EspAssumption DEF Counted
<1>13. QED
  BY <1>1, <1>3, <1>4, <1>5, <1>11, <1>12, StepIsRight

\* A directory that starts at no cluster is not sound.
LEMMA UnsoundStart ==
    ASSUME Laid, NEW e, DirStart(e) # 0, ~Valid(DirStart(e))
    PROVE  ~SoundDir(e)
<1>1. Kth(DirStart(e), 0) = 0
  BY KthFirst
<1>2. vol.clusters \in Nat
  BY DEF Laid
<1>3. SoundDir(e) => \E n \in 0 .. vol.clusters - 1 : \A k \in 0 .. n : Kth(DirStart(e), k) # 0
  BY DirStartIs DEF SoundDir
<1>4. \A n \in 0 .. vol.clusters - 1 : 0 \in 0 .. n
  BY <1>2
<1>5. QED
  BY <1>1, <1>3, <1>4

\* A step of a listing leaves the caches honest, and read inside the volume.
LEMMA AdvancedStep ==
    ASSUME EspInv, stage = "up", NEW dir, DirOK(dir), NEW cursor, CursorOK(cursor, dir),
           NEW a \in Advance(cursor), Advanced(a)
    PROVE  CachesOK' /\ TouchIs(touched') /\ fails' \in 0 .. MaxFails /\ Advances(a, dir)
<1>1. Laid /\ Says /\ InUse /\ CachesOK /\ Counted
  BY UpFacts
<1>2. Advances(a, dir)
  BY <1>1, AdvanceAdvances
<1>3. fatCache' = a.fat /\ dirCache' = a.dir /\ touched' = a.touched /\ fails' = a.fails
  BY DEF Advanced
<1>4. CachesOK'
  BY <1>2, <1>3 DEF Advances, CachesOK, Honest
<1>5. TouchIs(touched')
  <2>1. CASE a.touched = touched
    BY <1>1, <1>3, <2>1 DEF InUse
  <2>2. CASE \E sector \in Nat : a.touched = <<sector, 1>> /\ Inside(sector)
    BY <1>3, <2>2 DEF TouchIs, Inside
  <2>3. QED
    BY <1>2, <2>1, <2>2 DEF Advances
<1>6. fails' \in 0 .. MaxFails
  BY <1>1, <1>2, <1>3, EspAssumption DEF Advances, Counted
<1>7. QED
  BY <1>2, <1>4, <1>5, <1>6

\* A link followed does too.
LEMMA FollowedStep ==
    ASSUME EspInv, stage = "up", NEW c \in Nat, Valid(c), NEW r \in Next1(c), Followed(r)
    PROVE  CachesOK' /\ TouchIs(touched') /\ fails' \in 0 .. MaxFails /\ Follows(r, c)
<1>1. Laid /\ Says /\ CachesOK /\ Counted
  BY UpFacts
<1>2. Follows(r, c)
  BY <1>1, NextFollows DEF CachesOK
<1>3. /\ fatCache' = r.cache /\ dirCache' = dirCache /\ touched' = <<r.at, 1>>
      /\ fails' = IF r.st = "io" THEN fails + 1 ELSE fails
  BY DEF Followed
<1>4. CachesOK'
  BY <1>1, <1>2, <1>3 DEF Follows, CachesOK, Honest
<1>5. TouchIs(touched')
  BY <1>2, <1>3 DEF TouchIs, Follows, Inside
<1>6. fails' \in 0 .. MaxFails
  <2>1. r.st = "io" => fails # MaxFails
    BY <1>2 DEF Follows
  <2>2. QED
    BY <1>1, <1>3, <2>1, EspAssumption DEF Counted
<1>7. QED
  BY <1>2, <1>4, <1>5, <1>6

\* What a step of a call leaves in hand is right.
Right ==
    /\ LookIs(look', doing') /\ AnswerIs(out') /\ WalkIs(walk', doing', file')
    /\ FileIs(file')
    /\ doing' \in {"idle", "look", "seek", "run", "fetch", "whole", "give", "panic"}

\* A call that is over leaves it so.
LEMMA ReturnedRight ==
    ASSUME NEW op, NEW st, NEW of, NEW pos, NEW data, Returns(op, st, of, pos, data),
           st = "ok" /\ op = "read" => data = Units(of, pos, Len(data)),
           st = "ok" /\ op = "load" => data = Units(of, 0, of.size),
           st = "corrupt" => IF of.dir THEN ~SoundDir(of) ELSE ~Sound(of),
           FileIs(file')
    PROVE  Right
  BY Returned DEF Right

\* A load begins with a run of the file's first cluster.
LEMMA WholeRight ==
    ASSUME EspInv, stage = "up", NEW e \in Entries, Whole(e), file' = file
    PROVE  Right
<1>1. Laid /\ FileIs(file')
  BY UpFacts DEF InUse
<1>2. e.size \in Nat /\ e.first \in Nat /\ vol.spc \in Nat \ {0} /\ vol.clusters \in Nat
  BY <1>1 DEF Entries, Laid
<1>3. CASE Returns("load", "not a file", e, 0, <<>>)
  BY <1>1, <1>3, ReturnedRight
<1>4. CASE e.size = 0 /\ Returns("load", "ok", e, 0, <<>>)
  <2>1. <<>> = Units(e, 0, e.size)
    BY <1>4, NoUnits
  <2>2. QED
    BY <1>1, <1>4, <2>1, ReturnedRight
<1>5. CASE ~e.dir /\ e.size # 0 /\ ~Valid(e.first) /\ Returns("load", "corrupt", e, 0, <<>>)
  <2>1. ~Sound(e)
    BY <1>1, <1>5, UnsoundFirst
  <2>2. QED
    BY <1>1, <1>5, <2>1, ReturnedRight
<1>6. CASE /\ ~e.dir /\ e.size # 0 /\ Valid(e.first)
           /\ walk' = [NoWalk EXCEPT !.op = "load", !.of = e, !.want = e.size, !.c = e.first,
                                     !.start = e.first, !.span = vol.spc]
           /\ doing' = "whole" /\ look' = NoLook /\ out' = NoOut
  <2>1. /\ DOMAIN walk' = {"op", "of", "pos", "want", "idx", "c", "start", "span", "data", "after",
                           "steps"}
        /\ walk'.op = "load" /\ walk'.of = e /\ walk'.pos = 0 /\ walk'.want = e.size
        /\ walk'.idx = 0 /\ walk'.c = e.first /\ walk'.start = e.first /\ walk'.span = vol.spc
        /\ walk'.data = <<>> /\ walk'.after = 0 /\ walk'.steps = 0
    BY <1>6 DEF NoWalk
  <2>2. Len(walk'.data) = 0 /\ walk'.data = Units(walk'.of, walk'.pos, Len(walk'.data))
    BY <2>1, NoUnits
  <2>3. Reading(walk', "whole", file)
    BY <1>2, <1>6, <2>1, <2>2 DEF Reading
  <2>4. Begun(walk', 0, 0)
    <3>1. 0 % vol.spc = 0 /\ 0 * vol.spc = 0
      BY <1>2
    <3>2. Kth(e.first, 0) = e.first
      BY <1>6, KthFirst
    <3>3. QED
      BY <1>2, <1>6, <2>1, <2>2, <3>1, <3>2 DEF Begun
  <2>5. 0 \in 0 .. vol.spc - 1
    BY <1>2
  <2>6. Running(walk', "whole")
    BY <1>1, <2>4, <2>5, RunBegins
  <2>7. LookIs(look', doing') /\ AnswerIs(out') /\ WalkIs(walk', doing', file')
    BY <1>6, <2>3, <2>6, NoAnswer DEF LookIs, WalkIs
  <2>8. QED
    BY <1>1, <1>6, <2>7 DEF Right
<1>7. QED
  BY <1>3, <1>4, <1>5, <1>6 DEF Whole

\* A component found is a directory that is looked in, the file, or an answer.
LEMMA FoundRight ==
    ASSUME EspInv, doing = "look", NEW e \in Entries, Found(e)
    PROVE  Right
<1>1. stage = "up" /\ Laid /\ InUse
  BY UpFacts
<1>2. /\ DOMAIN look = {"op", "path", "dir", "cur"} /\ look.op \in {"load", "open"}
      /\ FileIs(file) /\ AnswerIs(out) /\ walk = NoWalk
  BY <1>1 DEF InUse, LookIs, WalkIs
<1>3. CASE /\ Opens(e)
           /\ look' = [look EXCEPT !.path = Tail(@), !.dir = e, !.cur = Cursor(e)]
           /\ UNCHANGED <<doing, walk, out, file>>
  <2>1. DirOK(e)
    <3>1. vol.kind = 32 => vol.root # 0
      BY <1>1 DEF Laid, Valid, InVolume
    <3>2. DirStart(e) = 0 => vol.kind # 32
      BY <3>1 DEF DirStart
    <3>3. QED
      BY <1>3, <3>2 DEF DirOK, Opens
  <2>2. CursorOK(Cursor(e), e)
    BY <1>1, <2>1, DirIsListed
  <2>3. /\ DOMAIN look' = {"op", "path", "dir", "cur"} /\ look'.op = look.op /\ look'.dir = e
        /\ look'.cur = Cursor(e)
    BY <1>2, <1>3
  <2>4. LookIs(look', doing')
    BY <1>2, <1>3, <2>1, <2>2, <2>3 DEF LookIs
  <2>5. QED
    BY <1>2, <1>3, <2>4 DEF Right, WalkIs
<1>4. CASE /\ ~Opens(e) /\ file' = file
           /\ Returns(look.op, IF e.dir THEN "corrupt" ELSE "not found", e, 0, <<>>)
  <2>1. CASE e.dir
    <3>1. ~SoundDir(e)
      BY <1>1, <1>4, <2>1, UnsoundStart DEF Opens
    <3>2. Returns(look.op, "corrupt", e, 0, <<>>)
      BY <1>4, <2>1
    <3>3. QED
      BY <1>2, <1>4, <2>1, <3>1, <3>2, ReturnedRight
  <2>2. CASE ~e.dir
    <3>1. Returns(look.op, "not found", e, 0, <<>>)
      BY <1>4, <2>2
    <3>2. QED
      BY <1>2, <1>4, <3>1, ReturnedRight
  <2>3. QED
    BY <2>1, <2>2
<1>5. CASE Whole(e) /\ file' = file
  BY <1>1, <1>5, WholeRight
<1>6. CASE file' = [NoFile EXCEPT !.open = TRUE, !.of = e] /\ Returns("open", "ok", e, 0, <<>>)
  <2>1. /\ DOMAIN file' = {"open", "of", "pos", "idx", "c"} /\ file'.of = e /\ file'.pos = 0
        /\ file'.c = 0
    BY <1>6 DEF NoFile
  <2>2. FileIs(file')
    BY <2>1 DEF FileIs, Entries
  <2>3. QED
    BY <1>6, <2>2, ReturnedRight
<1>7. QED
  BY <1>3, <1>4, <1>5, <1>6 DEF Found

\* One step of a lookup.
LEMMA LookStep == ASSUME EspInv, Look PROVE EspInv'
<1>1. doing = "look" /\ stage = "up" /\ mounted' = mounted /\ list' = list /\ calls' = calls
  BY UpFacts DEF Look
<1>2. Laid /\ Says /\ InUse /\ Counted
  BY <1>1, UpFacts
<1>3. PICK a \in Advance(look.cur) : Looks(a.step) /\ Advanced(a)
  BY DEF Look
<1>4. /\ DOMAIN look = {"op", "path", "dir", "cur"} /\ look.op \in {"load", "open"}
      /\ DirOK(look.dir) /\ CursorOK(look.cur, look.dir) /\ look.dir.dir
      /\ FileIs(file) /\ AnswerIs(out) /\ walk = NoWalk /\ ListIs(list)
  BY <1>1, <1>2 DEF InUse, LookIs, WalkIs, DirOK
<1>5. CachesOK' /\ TouchIs(touched') /\ fails' \in 0 .. MaxFails /\ Advances(a, look.dir)
  BY <1>1, <1>3, <1>4, AdvancedStep
<1> DEFINE r == a.step
           On == look' = [look EXCEPT !.cur = r.cur] /\ UNCHANGED <<doing, walk, out, file>>
           Over(st) == Returns(look.op, st, look.dir, 0, <<>>) /\ UNCHANGED file
<1>6. /\ r.st \in {"more", "ok", "end", "corrupt", "io", "panic"}
      /\ r.st \in {"more", "ok", "end"} => CursorOK(r.cur, look.dir)
      /\ r.st = "ok" => r.item.e \in Entries
      /\ r.st = "corrupt" => ~SoundDir(look.dir)
  BY <1>5 DEF Advances
<1>7. \/ r.st \in {"more", "ok"} /\ On
      \/ r.st = "ok" /\ Found(Goes(r.item.e))
      \/ r.st = "end" /\ Over("not found")
      \/ r.st \in {"corrupt", "io", "panic"} /\ Over(r.st)
  BY <1>3, <1>6 DEF Looks
<1>8. ASSUME r.st \in {"more", "ok"}, On PROVE Right
  <2>1. /\ DOMAIN look' = DOMAIN look /\ look'.op = look.op /\ look'.dir = look.dir
        /\ look'.cur = r.cur
    BY <1>4, <1>8
  <2>2. LookIs(look', doing')
    BY <1>1, <1>4, <1>6, <1>8, <2>1 DEF LookIs
  <2>3. QED
    BY <1>1, <1>4, <1>8, <2>2 DEF Right, WalkIs
<1>9. ASSUME r.st = "ok", Found(Goes(r.item.e)) PROVE Right
  <2>1. Goes(r.item.e) \in Entries
    BY <1>6, <1>9 DEF Goes, Root, Entries
  <2>2. QED
    BY <1>1, <1>9, <2>1, FoundRight
<1>10. ASSUME Over("not found") PROVE Right
  BY <1>4, <1>10, ReturnedRight
<1>11. ASSUME r.st \in {"corrupt", "io", "panic"}, Over(r.st) PROVE Right
  BY <1>4, <1>6, <1>11, ReturnedRight
<1> HIDE DEF On, Over, r
<1>12. Right
  BY <1>7, <1>8, <1>9, <1>10, <1>11
<1>13. Counted'
  BY <1>1, <1>2, <1>5, <1>12 DEF Counted, Right
<1>14. QED
  BY <1>1, <1>4, <1>5, <1>12, <1>13, StepIsRight DEF Right

\* One step of a directory's Read.
LEMMA GiveStep == ASSUME EspInv, Give PROVE EspInv'
<1>1. doing = "give" /\ stage = "up" /\ mounted' = mounted /\ file' = file /\ calls' = calls
  BY UpFacts DEF Give
<1>2. Laid /\ Says /\ InUse /\ Counted
  BY <1>1, UpFacts
<1>3. PICK a \in Advance(look.cur) : Gives(a.step) /\ Advanced(a)
  BY DEF Give
<1>4. /\ DOMAIN look = {"op", "path", "dir", "cur"} /\ look.dir = Root
      /\ DirOK(Root) /\ CursorOK(look.cur, Root) /\ Root.dir
      /\ FileIs(file) /\ AnswerIs(out) /\ walk = NoWalk /\ ListIs(list)
  BY <1>1, <1>2 DEF InUse, LookIs, WalkIs, DirOK
<1>5. CachesOK' /\ TouchIs(touched') /\ fails' \in 0 .. MaxFails /\ Advances(a, Root)
  BY <1>1, <1>3, <1>4, AdvancedStep
<1> DEFINE r == a.step
           On == look' = [look EXCEPT !.cur = r.cur] /\ UNCHANGED <<doing, walk, out, list, listed>>
           Over(st) == Returns("list", st, Root, 0, <<>>)
<1>6. /\ r.st \in {"more", "ok", "end", "corrupt", "io", "panic"}
      /\ r.st \in {"more", "ok", "end"} => CursorOK(r.cur, Root)
      /\ r.st = "corrupt" => ~SoundDir(Root)
  BY <1>5 DEF Advances
<1>7. \/ r.st = "more" /\ On
      \/ /\ r.st = "ok"
         /\ \E fits \in BOOLEAN : /\ list' = Kept(r.cur, fits)
                                  /\ Over(IF fits THEN "ok" ELSE "too small")
      \/ r.st \in {"end", "corrupt", "io", "panic"} /\ Over(r.st) /\ list' = list
  BY <1>3, <1>6 DEF Gives
<1>8. ASSUME r.st = "more", On PROVE Right /\ ListIs(list')
  <2>1. DOMAIN look' = DOMAIN look /\ look'.dir = look.dir /\ look'.cur = r.cur
    BY <1>4, <1>8
  <2>2. LookIs(look', doing')
    BY <1>1, <1>4, <1>6, <1>8, <2>1 DEF LookIs
  <2>3. QED
    BY <1>1, <1>4, <1>8, <2>2 DEF Right, WalkIs
<1>9. ASSUME r.st = "ok", NEW fits \in BOOLEAN, list' = Kept(r.cur, fits),
             Over(IF fits THEN "ok" ELSE "too small")
      PROVE  Right /\ ListIs(list')
  <2>1. CursorOK(list', Root)
    <3>1. CursorOK(Cursor(Root), Root) /\ CursorOK(r.cur, Root)
      BY <1>2, <1>6, <1>9, RootIs
    <3>2. QED
      BY <1>4, <1>9, <3>1 DEF Kept, ListIs
  <2>2. Right
    <3>1. CASE fits
      <4>1. Over("ok")
        BY <1>9, <3>1
      <4>2. QED
        BY <1>1, <1>4, <4>1, ReturnedRight
    <3>2. CASE ~fits
      <4>1. Over("too small")
        BY <1>9, <3>2
      <4>2. QED
        BY <1>1, <1>4, <4>1, ReturnedRight
    <3>3. QED
      BY <3>1, <3>2
  <2>3. QED
    BY <2>1, <2>2 DEF ListIs
<1>10. ASSUME r.st \in {"end", "corrupt", "io", "panic"}, Over(r.st), list' = list
       PROVE  Right /\ ListIs(list')
  BY <1>1, <1>4, <1>6, <1>10, ReturnedRight
<1> HIDE DEF On, Over, r
<1>11. Right /\ ListIs(list')
  BY <1>7, <1>8, <1>9, <1>10
<1>12. Counted'
  BY <1>1, <1>2, <1>5, <1>11 DEF Counted, Right
<1>13. QED
  BY <1>1, <1>5, <1>11, <1>12, StepIsRight DEF Right

------------------------------------------------------------------------------
(* Reads.                                                                  *)

\* A read that fails does not call a sound file corrupt.
LEMMA FailRight ==
    ASSUME FileIs(file'), ~walk.of.dir, NEW st, st # "ok", st = "corrupt" => ~Sound(walk.of),
           Fail(st)
    PROVE  Right
<1>1. Returns(walk.op, st, walk.of, walk.pos, <<>>)
  BY DEF Fail
<1>2. QED
  BY <1>1, ReturnedRight

\* A link that is followed before the file's end is its chain's, or an error
\* the file's chain is to blame for.
LEMMA LinkRight ==
    ASSUME Laid, Says, FileIs(file'), walk.of \in Entries, ~walk.of.dir,
           walk.c \in Nat, Valid(walk.c), walk.steps \in Nat,
           NEW i \in Nat, Kth(walk.of.first, i) = walk.c, (i + 1) * vol.spc < walk.of.size,
           walk.steps <= i, NEW r, Follows(r, walk.c), NEW w, Link(r, w)
    PROVE  \/ Right
           \/ /\ r.st = "ok" /\ r.c \in Nat /\ Valid(r.c) /\ Kth(walk.of.first, i + 1) = r.c
              /\ walk' = [w EXCEPT !.steps = @ + 1] /\ UNCHANGED <<doing, look, out>>
              /\ walk.steps + 1 \in 0 .. vol.clusters
<1>1. /\ r.st = "ok" => r.c \in Nat /\ Valid(r.c) /\ Kth(walk.of.first, i + 1) = r.c
      /\ r.st \in {"end", "corrupt"} => Kth(walk.of.first, i + 1) = 0
      /\ r.st \in {"ok", "end", "corrupt", "io"}
  BY FollowsNext
<1>2. ASSUME r.st = "end" \/ r.st = "corrupt" PROVE Right
  <2>1. ~Sound(walk.of)
    BY <1>1, <1>2, UnsoundFile
  <2>2. Fail("corrupt")
    BY <1>2 DEF Link
  <2>3. QED
    BY <2>1, <2>2, FailRight
<1>3. ASSUME r.st = "io" PROVE Right
  <2>1. Fail("io")
    BY <1>3 DEF Link
  <2>2. QED
    BY <2>1, FailRight
<1>4. ASSUME r.st = "ok", TooManySteps(walk.steps + 1) PROVE Right
  <2>1. vol.clusters \in Nat
    BY DEF Laid
  <2>2. i + 1 >= vol.clusters
    BY <1>4, <2>1 DEF TooManySteps
  <2>3. ~Sound(walk.of)
    BY <2>2, UnsoundFile
  <2>4. Fail("corrupt")
    BY <1>4 DEF Link
  <2>5. QED
    BY <2>3, <2>4, FailRight
<1>5. ASSUME r.st = "ok", ~TooManySteps(walk.steps + 1)
      PROVE  /\ walk' = [w EXCEPT !.steps = @ + 1] /\ UNCHANGED <<doing, look, out>>
             /\ walk.steps + 1 \in 0 .. vol.clusters
  <2>1. vol.clusters \in Nat
    BY DEF Laid
  <2>2. walk.steps + 1 \in 0 .. vol.clusters
    BY <1>5, <2>1 DEF TooManySteps
  <2>3. QED
    BY <1>5, <2>2 DEF Link
<1>6. QED
  BY <1>1, <1>2, <1>3, <1>4, <1>5

\* What a read in hand says of itself.
LEMMA ReadFacts ==
    ASSUME EspInv, doing \in {"seek", "run", "fetch", "whole"}
    PROVE  /\ stage = "up" /\ Laid /\ Says /\ InUse /\ Counted
           /\ Reading(walk, doing, file) /\ FileIs(file) /\ ListIs(list) /\ AnswerIs(out)
           /\ LookIs(look, doing) /\ look = NoLook /\ ~walk.of.dir
           /\ walk.of \in Entries /\ walk.of.size \in Nat
           /\ walk.c \in Nat /\ Valid(walk.c) /\ walk.steps \in Nat /\ walk.idx \in Nat
           /\ walk.pos \in Nat /\ walk.want \in Nat \ {0} /\ Len(walk.data) \in 0 .. walk.want - 1
           /\ walk.pos + walk.want <= walk.of.size
           /\ IF doing = "seek" THEN Seeking(walk) ELSE Running(walk, doing)
<1>1. stage = "up" /\ Laid /\ Says /\ InUse /\ Counted
  BY UpFacts
<1>2. /\ WalkIs(walk, doing, file) /\ FileIs(file) /\ ListIs(list) /\ AnswerIs(out)
      /\ LookIs(look, doing) /\ look = NoLook
  BY <1>1 DEF InUse, LookIs
<1>3. Reading(walk, doing, file) /\ IF doing = "seek" THEN Seeking(walk) ELSE Running(walk, doing)
  BY <1>2 DEF WalkIs
<1>4. /\ walk.of \in Entries /\ ~walk.of.dir
      /\ walk.c \in Nat /\ Valid(walk.c) /\ walk.steps \in 0 .. vol.clusters /\ walk.idx \in Nat
      /\ walk.pos \in Nat /\ walk.want \in Nat \ {0} /\ Len(walk.data) \in 0 .. walk.want - 1
  BY <1>3 DEF Reading
<1>5. walk.of.size \in Nat /\ walk.steps \in Nat
  BY <1>1, <1>4 DEF Entries, Laid
<1>6. walk.pos + walk.want <= walk.of.size
  <2>1. CASE doing = "whole"
    <3>1. walk.pos = 0 /\ walk.want = walk.of.size
      BY <1>3, <2>1 DEF Reading
    <3>2. QED
      BY <1>5, <3>1
  <2>2. CASE doing # "whole"
    BY <1>3, <2>2 DEF Reading
  <2>3. QED
    BY <2>1, <2>2
<1>7. QED
  BY <1>1, <1>2, <1>3, <1>4, <1>5, <1>6

\* What is read for the cluster after one before the position's is before the
\* file's end.
LEMMA SeekBefore ==
    ASSUME NEW idx \in Nat, NEW pos \in Nat, NEW spc \in Nat \ {0}, idx < pos \div spc
    PROVE  (idx + 1) * spc <= pos
<1> DEFINE q == pos \div spc
<1>1. q \in Nat /\ pos % spc \in 0 .. spc - 1 /\ pos = q * spc + (pos % spc)
  BY Division
<1> HIDE DEF q
<1>2. idx < q
  BY DEF q
<1>3. idx * spc + spc <= q * spc /\ (idx + 1) * spc = idx * spc + spc
  BY <1>1, <1>2, Products
<1>4. q * spc \in Nat /\ idx * spc \in Nat
  BY <1>1, Multiples
<1>5. QED
  BY <1>1, <1>3, <1>4

\* A walk's fields but for what a step changes.
Walked == {"op", "of", "pos", "want", "idx", "c", "start", "span", "data", "after", "steps"}

\* A seek goes on by a link, or is there.
LEMMA SeekOnStep == ASSUME EspInv, SeekOn PROVE EspInv'
<1>1. doing = "seek" /\ mounted' = mounted /\ file' = file /\ list' = list /\ calls' = calls
  BY DEF SeekOn
<1>2. /\ stage = "up" /\ Laid /\ Says /\ InUse /\ Counted
      /\ Reading(walk, doing, file) /\ FileIs(file) /\ ListIs(list) /\ AnswerIs(out)
      /\ LookIs(look, doing) /\ look = NoLook /\ ~walk.of.dir
      /\ walk.of \in Entries /\ walk.of.size \in Nat
      /\ walk.c \in Nat /\ Valid(walk.c) /\ walk.steps \in Nat /\ walk.idx \in Nat
      /\ walk.pos \in Nat /\ walk.want \in Nat \ {0}
      /\ walk.pos + walk.want <= walk.of.size /\ Seeking(walk)
  BY <1>1, ReadFacts
<1>3. /\ DOMAIN walk = Walked /\ walk.data = <<>> /\ walk.after = 0
      /\ walk.c = Kth(walk.of.first, walk.idx) /\ walk.steps <= walk.idx
      /\ walk.idx <= walk.pos \div vol.spc /\ vol.spc \in Nat \ {0} /\ walk.op = "read"
  BY <1>1, <1>2 DEF Seeking, Reading, Walked, Laid
<1> DEFINE Cached1 == CachesOK' /\ TouchIs(touched') /\ fails' \in 0 .. MaxFails
<1>4. ASSUME walk.idx < walk.pos \div vol.spc,
             NEW r \in Next1(walk.c), Followed(r), Link(r, [walk EXCEPT !.idx = @ + 1, !.c = r.c])
      PROVE  Cached1 /\ Right
  <2> DEFINE w == [walk EXCEPT !.idx = @ + 1, !.c = r.c]
  <2>1. Cached1 /\ Follows(r, walk.c)
    BY <1>2, <1>4, FollowedStep
  <2>2. (walk.idx + 1) * vol.spc < walk.of.size
    <3>1. (walk.idx + 1) * vol.spc <= walk.pos
      BY <1>2, <1>3, <1>4, SeekBefore
    <3>2. (walk.idx + 1) * vol.spc \in Nat
      BY <1>2, <1>3
    <3>3. QED
      BY <1>2, <3>1, <3>2
  <2>3. \/ Right
        \/ /\ r.c \in Nat /\ Valid(r.c) /\ Kth(walk.of.first, walk.idx + 1) = r.c
           /\ walk' = [w EXCEPT !.steps = @ + 1] /\ UNCHANGED <<doing, look, out>>
           /\ walk.steps + 1 \in 0 .. vol.clusters
    BY <1>1, <1>2, <1>3, <1>4, <2>1, <2>2, LinkRight
  <2>4. CASE /\ r.c \in Nat /\ Valid(r.c) /\ Kth(walk.of.first, walk.idx + 1) = r.c
             /\ walk' = [w EXCEPT !.steps = @ + 1] /\ UNCHANGED <<doing, look, out>>
             /\ walk.steps + 1 \in 0 .. vol.clusters
    <3>1. /\ DOMAIN w = Walked /\ w.idx = walk.idx + 1 /\ w.c = r.c /\ w.steps = walk.steps
          /\ w.op = walk.op /\ w.of = walk.of /\ w.pos = walk.pos /\ w.want = walk.want
          /\ w.data = walk.data /\ w.after = walk.after
      BY <1>3 DEF Walked
    <3> HIDE DEF w
    <3>2. /\ DOMAIN walk' = Walked /\ walk'.idx = walk.idx + 1 /\ walk'.c = r.c
          /\ walk'.steps = walk.steps + 1
          /\ walk'.op = walk.op /\ walk'.of = walk.of /\ walk'.pos = walk.pos
          /\ walk'.want = walk.want /\ walk'.data = walk.data /\ walk'.after = walk.after
      BY <2>4, <3>1 DEF Walked
    <3>3. Reading(walk', "seek", file)
      BY <1>1, <1>2, <2>4, <3>2 DEF Reading, Walked
    <3>4. walk'.idx <= walk'.pos \div vol.spc
      <4>1. walk.pos \div vol.spc \in Nat
        BY <1>2, <1>3, Division
      <4>2. QED
        BY <1>2, <1>4, <3>2, <4>1
    <3>5. Seeking(walk')
      BY <1>2, <1>3, <2>4, <3>2, <3>4 DEF Seeking
    <3>6. WalkIs(walk', doing', file')
      BY <1>1, <2>4, <3>3, <3>5 DEF WalkIs
    <3>7. QED
      BY <1>1, <1>2, <2>1, <2>4, <3>6 DEF Right
  <2>5. QED
    BY <2>1, <2>3, <2>4
<1>5. ASSUME ~(walk.idx < walk.pos \div vol.spc), doing' = "run",
             walk' = [walk EXCEPT !.start = walk.c, !.span = vol.spc - (walk.pos % vol.spc)],
             UNCHANGED <<caches, look, out>>
      PROVE  Cached1 /\ Right
  <2>1. Cached1
    BY <1>2, <1>5, CachesStay
  <2>2. /\ DOMAIN walk' = Walked /\ walk'.start = walk.c
        /\ walk'.span = vol.spc - (walk.pos % vol.spc)
        /\ walk'.op = walk.op /\ walk'.of = walk.of /\ walk'.pos = walk.pos /\ walk'.idx = walk.idx
        /\ walk'.want = walk.want /\ walk'.data = walk.data /\ walk'.after = walk.after
        /\ walk'.c = walk.c /\ walk'.steps = walk.steps
    BY <1>3, <1>5 DEF Walked
  <2>3. Reading(walk', "run", file)
    BY <1>1, <1>2, <2>2 DEF Reading, Walked
  <2>4. /\ walk.pos \div vol.spc \in Nat /\ walk.pos % vol.spc \in 0 .. vol.spc - 1
        /\ walk.pos = (walk.pos \div vol.spc) * vol.spc + (walk.pos % vol.spc)
    BY <1>2, <1>3, Division
  <2>5. walk.idx = walk.pos \div vol.spc
    <3> DEFINE q == walk.pos \div vol.spc
    <3>1. q \in Nat /\ walk.idx <= q /\ ~(walk.idx < q) /\ walk.idx \in Nat
      BY <1>2, <1>3, <1>5, <2>4, Zenon
    <3> HIDE DEF q
    <3>2. walk.idx = q
      BY <3>1
    <3>3. QED
      BY <3>2 DEF q
  <2>6. walk'.pos + Len(walk'.data) = walk.idx * vol.spc + (walk.pos % vol.spc)
    <3>1. walk.pos = walk.idx * vol.spc + (walk.pos % vol.spc)
      BY <2>4, <2>5, Zenon
    <3>2. Len(walk'.data) = 0
      BY <1>3, <2>2
    <3>3. walk'.pos + Len(walk'.data) = walk.pos
      BY <1>2, <2>2, <3>2
    <3>4. QED
      BY <3>1, <3>3, Zenon
  <2>7. Len(walk'.data) \in Nat /\ walk'.steps <= walk.idx
    BY <1>3, <2>2
  <2>8. Begun(walk', walk.idx, walk.pos % vol.spc)
    BY <1>2, <1>3, <2>2, <2>6, <2>7 DEF Begun
  <2>9. Running(walk', "run")
    BY <1>2, <2>4, <2>8, RunBegins
  <2>10. WalkIs(walk', doing', file')
    BY <1>1, <1>5, <2>3, <2>9 DEF WalkIs
  <2>11. QED
    BY <1>1, <1>2, <1>5, <2>1, <2>10 DEF Right, LookIs
<1>6. Cached1 /\ Right
  BY <1>4, <1>5 DEF SeekOn
<1>7. Counted'
  BY <1>1, <1>2, <1>6 DEF Counted, Right
<1>8. QED
  BY <1>1, <1>2, <1>6, <1>7, StepIsRight DEF Right

\* A run that stops before the file's end leaves where the file goes on.
LEMMA RunStops ==
    ASSUME NEW w, NEW does, does # "fetch", Running(w, does), w.after = 0,
           w.span < w.want - Len(w.data), w.steps \in Nat,
           NEW i \in Nat, Here(w, does, i), NEW a \in Nat, Valid(a), Kth(w.of.first, i + 1) = a,
           NEW v, v.of = w.of, v.pos = w.pos, v.data = w.data, v.start = w.start, v.span = w.span,
           v.c = w.c, v.want = w.want, v.op = w.op, v.idx = w.idx, v.after = a,
           v.steps = IF does = "whole" THEN w.steps + 1 ELSE w.steps
    PROVE  Running(v, does)
<1>1. a # 0
  BY DEF Valid, InVolume
<1>2. RunFrom(v) = RunFrom(w)
  BY DEF RunFrom
<1>3. w.steps <= i /\ (i + 1) * vol.spc = w.pos + Len(w.data) + w.span
      /\ w.c = Kth(w.of.first, i) /\ (w.op = "read" => i = w.idx)
  BY DEF Here
<1>4. v.steps <= IF does = "whole" /\ v.after # 0 THEN i + 1 ELSE i
  <2>1. w.steps <= i
    BY <1>3
  <2>2. QED
    BY <1>1, <2>1
<1>5. Here(v, does, i)
  BY <1>3, <1>4 DEF Here
<1>6. QED
  BY <1>2, <1>5 DEF Running

\* A run that is short of what is wanted ends before the file does.
LEMMA RunBefore ==
    ASSUME EspInv, doing \in {"run", "fetch", "whole"}, walk.span < Left,
           NEW i \in Nat, Here(walk, doing, i)
    PROVE  (i + 1) * vol.spc < walk.of.size
<1>1. /\ walk.pos \in Nat /\ walk.want \in Nat \ {0} /\ Len(walk.data) \in 0 .. walk.want - 1
      /\ walk.pos + walk.want <= walk.of.size /\ walk.of.size \in Nat /\ Running(walk, doing)
  BY ReadFacts
<1>2. walk.span \in Nat
  BY <1>1 DEF Running
<1>3. walk.pos + Len(walk.data) + walk.span < walk.of.size
  BY <1>1, <1>2 DEF Left
<1>4. QED
  BY <1>3 DEF Here

\* A run goes on by a link, stops short of one that is elsewhere, or is whole.
LEMMA RunOnStep == ASSUME EspInv, RunOn PROVE EspInv'
<1>1. doing = "run" /\ mounted' = mounted /\ file' = file /\ list' = list /\ calls' = calls
  BY DEF RunOn
<1>2. /\ stage = "up" /\ Laid /\ Says /\ InUse /\ Counted
      /\ Reading(walk, doing, file) /\ FileIs(file) /\ ListIs(list) /\ AnswerIs(out)
      /\ LookIs(look, doing) /\ look = NoLook /\ ~walk.of.dir
      /\ walk.of \in Entries /\ walk.of.size \in Nat
      /\ walk.c \in Nat /\ Valid(walk.c) /\ walk.steps \in Nat /\ walk.idx \in Nat
      /\ walk.pos \in Nat /\ walk.want \in Nat \ {0} /\ Len(walk.data) \in 0 .. walk.want - 1
      /\ Running(walk, doing)
  BY <1>1, ReadFacts
<1>3. DOMAIN walk = Walked /\ walk.op = "read"
  BY <1>1, <1>2 DEF Reading, Walked
<1>4. PICK i \in Nat : Here(walk, doing, i)
  BY <1>2 DEF Running
<1>5. i = walk.idx /\ walk.c = Kth(walk.of.first, i)
  BY <1>3, <1>4 DEF Here
<1> DEFINE Cached1 == CachesOK' /\ TouchIs(touched') /\ fails' \in 0 .. MaxFails
<1>6. ASSUME walk.span < Left, walk.after = 0, NEW r \in Next1(walk.c), Followed(r),
             r.st = "ok", r.c # walk.c + 1,
             walk' = [walk EXCEPT !.after = r.c], UNCHANGED <<doing, look, out>>
      PROVE  Cached1 /\ Right
  <2>1. Cached1 /\ Follows(r, walk.c)
    BY <1>2, <1>6, FollowedStep
  <2>2. r.c \in Nat /\ Valid(r.c) /\ Kth(walk.of.first, i + 1) = r.c
    BY <1>2, <1>5, <1>6, <2>1, FollowsNext
  <2>3. /\ DOMAIN walk' = Walked /\ walk'.after = r.c /\ walk'.start = walk.start
        /\ walk'.span = walk.span /\ walk'.op = walk.op /\ walk'.of = walk.of
        /\ walk'.pos = walk.pos /\ walk'.idx = walk.idx /\ walk'.want = walk.want
        /\ walk'.data = walk.data /\ walk'.c = walk.c /\ walk'.steps = walk.steps
    BY <1>3, <1>6 DEF Walked
  <2>4. Running(walk', "run")
    <3>1. Running(walk, "run") /\ Here(walk, "run", i) /\ walk.span < walk.want - Len(walk.data)
      BY <1>1, <1>2, <1>4, <1>6 DEF Left
    <3>2. walk'.steps = IF "run" = "whole" THEN walk.steps + 1 ELSE walk.steps
      BY <2>3
    <3> DEFINE v == walk'
    <3>3. /\ v.of = walk.of /\ v.pos = walk.pos /\ v.data = walk.data /\ v.start = walk.start
          /\ v.span = walk.span /\ v.c = walk.c /\ v.want = walk.want /\ v.op = walk.op
          /\ v.idx = walk.idx /\ v.after = r.c
          /\ v.steps = IF "run" = "whole" THEN walk.steps + 1 ELSE walk.steps
      BY <2>3, <3>2
    <3> HIDE DEF v
    <3>4. Running(v, "run")
      BY <1>2, <1>6, <2>2, <3>1, <3>3, RunStops
    <3>5. QED
      BY <3>4 DEF v
  <2>5. Reading(walk', "run", file)
    BY <1>1, <1>2, <2>3 DEF Reading, Walked
  <2>6. WalkIs(walk', doing', file')
    BY <1>1, <1>6, <2>4, <2>5 DEF WalkIs
  <2>7. QED
    BY <1>1, <1>2, <1>6, <2>1, <2>6 DEF Right
<1>7. ASSUME walk.span < Left, walk.after = 0, NEW r \in Next1(walk.c), Followed(r),
             ~(r.st = "ok" /\ r.c # walk.c + 1),
             Link(r, [walk EXCEPT !.idx = @ + 1, !.c = r.c, !.span = @ + vol.spc])
      PROVE  Cached1 /\ Right
  <2> DEFINE w == [walk EXCEPT !.idx = @ + 1, !.c = r.c, !.span = @ + vol.spc]
  <2>1. Cached1 /\ Follows(r, walk.c)
    BY <1>2, <1>7, FollowedStep
  <2>2. (i + 1) * vol.spc < walk.of.size /\ walk.steps <= i
    <3>1. (i + 1) * vol.spc < walk.of.size
      BY <1>1, <1>4, <1>7, RunBefore
    <3>2. walk.steps <= i
      BY <1>4, <1>7 DEF Here
    <3>3. QED
      BY <3>1, <3>2
  <2>3. \/ Right
        \/ /\ r.st = "ok" /\ r.c \in Nat /\ Valid(r.c) /\ Kth(walk.of.first, i + 1) = r.c
           /\ walk' = [w EXCEPT !.steps = @ + 1] /\ UNCHANGED <<doing, look, out>>
           /\ walk.steps + 1 \in 0 .. vol.clusters
    BY <1>1, <1>2, <1>5, <1>7, <2>1, <2>2, LinkRight
  <2>4. CASE /\ r.st = "ok" /\ r.c \in Nat /\ Valid(r.c) /\ Kth(walk.of.first, i + 1) = r.c
             /\ walk' = [w EXCEPT !.steps = @ + 1] /\ UNCHANGED <<doing, look, out>>
             /\ walk.steps + 1 \in 0 .. vol.clusters
    <3>1. /\ DOMAIN w = Walked /\ w.idx = walk.idx + 1 /\ w.c = r.c /\ w.span = walk.span + vol.spc
          /\ w.steps = walk.steps /\ w.start = walk.start
          /\ w.op = walk.op /\ w.of = walk.of /\ w.pos = walk.pos /\ w.want = walk.want
          /\ w.data = walk.data /\ w.after = walk.after
      BY <1>3 DEF Walked
    <3> HIDE DEF w
    <3>2. /\ DOMAIN walk' = Walked /\ walk'.idx = walk.idx + 1 /\ walk'.c = r.c
          /\ walk'.span = walk.span + vol.spc
          /\ walk'.steps = walk.steps + 1 /\ walk'.start = walk.start
          /\ walk'.op = walk.op /\ walk'.of = walk.of /\ walk'.pos = walk.pos
          /\ walk'.want = walk.want /\ walk'.data = walk.data /\ walk'.after = walk.after
      BY <2>4, <3>1 DEF Walked
    <3>3. Reading(walk', "run", file)
      BY <1>1, <1>2, <2>4, <3>2 DEF Reading, Walked
    <3>4. Grown(walk, walk', i)
      <4>1. r.c = walk.c + 1
        BY <1>7, <2>4
      <4>2. QED
        BY <1>2, <1>5, <1>7, <2>4, <3>2, <4>1 DEF Grown
    <3>5. Running(walk', "run")
      BY <1>1, <1>2, <1>4, <3>4, RunGrows
    <3>6. WalkIs(walk', doing', file')
      BY <1>1, <2>4, <3>3, <3>5 DEF WalkIs
    <3>7. QED
      BY <1>1, <1>2, <2>1, <2>4, <3>6 DEF Right
  <2>5. QED
    BY <2>1, <2>3, <2>4
<1>8. ASSUME ~(walk.span < Left /\ walk.after = 0), doing' = "fetch",
             UNCHANGED <<caches, walk, look, out>>
      PROVE  Cached1 /\ Right
  <2>1. Cached1
    BY <1>2, <1>8, CachesStay
  <2>2. Here(walk, "fetch", i)
    BY <1>1, <1>4 DEF Here
  <2>3. Running(walk, "fetch")
    BY <1>1, <1>2, <1>8, <2>2 DEF Running, Left
  <2>4. Reading(walk, "fetch", file)
    BY <1>1, <1>2 DEF Reading
  <2>5. WalkIs(walk', doing', file')
    BY <1>1, <1>8, <2>3, <2>4 DEF WalkIs
  <2>6. QED
    BY <1>1, <1>2, <1>8, <2>1, <2>5 DEF Right, LookIs
<1>9. Cached1 /\ Right
  BY <1>6, <1>7, <1>8 DEF RunOn
<1>10. Counted'
  BY <1>1, <1>2, <1>9 DEF Counted, Right
<1>11. QED
  BY <1>1, <1>2, <1>9, <1>10, StepIsRight DEF Right

\* What is fetched of a run is the file's next units, from inside the volume.
LEMMA FetchedUnits ==
    ASSUME EspInv, doing \in {"run", "fetch", "whole"}
    PROVE  /\ Left \in Nat \ {0} /\ walk.span \in Nat \ {0}
           /\ Wanted[2] = Least(walk.span, Left) /\ TouchIs(Wanted)
           /\ Len(Fetched) = Len(walk.data) + Least(walk.span, Left)
           /\ Fetched = Units(walk.of, walk.pos, Len(walk.data) + Least(walk.span, Left))
<1>1. /\ stage = "up" /\ Laid /\ Reading(walk, doing, file) /\ Running(walk, doing)
      /\ walk.c \in Nat /\ Valid(walk.c)
      /\ walk.pos \in Nat /\ walk.want \in Nat \ {0} /\ Len(walk.data) \in 0 .. walk.want - 1
  BY ReadFacts
<1> DEFINE n == Least(walk.span, Left)
           sector == RunAt
<1>2. walk.span \in Nat \ {0} /\ Left \in Nat \ {0}
  BY <1>1 DEF Running, Left
<1>3. n \in Nat /\ n <= walk.span
  BY <1>2 DEF Least
<1>4. RunAt = RunFrom(walk)
  BY DEF RunAt, RunFrom
<1>5. /\ walk.start \in Nat /\ Valid(walk.start)
      /\ sector + walk.span = ClusterAt(walk.c) + vol.spc
      /\ \A u \in 0 .. walk.span - 1 : UnitAt(walk.of, walk.pos + Len(walk.data) + u) = sector + u
  BY <1>1, <1>4 DEF Running
<1>6. sector \in Nat
  <2>1. ClusterAt(walk.start) \in Nat /\ vol.spc \in Nat \ {0}
    BY <1>1, <1>5, ClusterInside DEF Laid
  <2>2. walk.pos % vol.spc \in 0 .. vol.spc - 1
    BY <1>1, <2>1, Division
  <2>3. walk.pos % vol.spc \in Nat
    BY <2>1, <2>2
  <2>4. QED
    BY <2>1, <2>3 DEF RunAt
<1>7. Wanted[1] = sector /\ Wanted[2] = n
  BY DEF Wanted
<1>8. ClusterAt(walk.c) \in Nat /\ ClusterAt(walk.c) + vol.spc <= Sectors /\ vol.spc \in Nat
      /\ Sectors \in Nat
  BY <1>1, ClusterInside DEF Laid
<1> HIDE DEF n, sector
<1>9. TouchIs(Wanted)
  BY <1>2, <1>3, <1>5, <1>6, <1>7, <1>8 DEF TouchIs
<1>10. \A u \in 0 .. n - 1 : UnitAt(walk.of, walk.pos + Len(walk.data) + u) = sector + u
  BY <1>2, <1>3, <1>5
<1>11. walk.data = Units(walk.of, walk.pos, Len(walk.data)) /\ Len(walk.data) \in Nat
  BY <1>1 DEF Reading
<1>12. Fetched = walk.data \o [i \in 1 .. n |-> sector + i - 1]
  BY <1>7 DEF Fetched, sector
<1>13. Len(Fetched) = Len(walk.data) + n /\ Fetched = Units(walk.of, walk.pos, Len(walk.data) + n)
  <2> DEFINE e == walk.of
             from == walk.pos
             data == walk.data
             more == Fetched
  <2>1. /\ n \in Nat /\ from \in Nat /\ sector \in Nat /\ Len(data) \in Nat
        /\ data = Units(e, from, Len(data)) /\ more = data \o [i \in 1 .. n |-> sector + i - 1]
        /\ \A u \in 0 .. n - 1 : UnitAt(e, from + Len(data) + u) = sector + u
    BY <1>1, <1>3, <1>6, <1>10, <1>11, <1>12
  <2> HIDE DEF e, from, data, more
  <2>2. GoesOn(more, data, e, from, n, sector)
    BY <2>1 DEF GoesOn
  <2>4. Len(more) = Len(data) + n /\ more = Units(e, from, Len(data) + n)
    BY <2>2, UnitsMore
  <2>5. QED
    BY <2>4 DEF more, data, e, from
<1>14. QED
  BY <1>2, <1>7, <1>9, <1>13 DEF n

\* A run that did not hold all that is wanted is gone on from.
LEMMA RunGoesOn ==
    ASSUME EspInv, doing \in {"fetch", "whole"}, walk.after # 0,
           NEW v, v.op = walk.op, v.of = walk.of, v.pos = walk.pos,
           v.c = walk.after, v.start = walk.after, v.span = vol.spc, v.data = Fetched,
           v.after = 0, v.op = "read" => v.idx = walk.idx + 1,
           v.steps = IF doing = "whole" THEN walk.steps ELSE walk.steps + 1,
           NEW does, does # "fetch"
    PROVE  /\ Running(v, does) /\ walk.after \in Nat /\ Valid(walk.after)
           /\ Len(Fetched) \in 0 .. walk.want - 1 /\ Fetched = Units(walk.of, walk.pos, Len(Fetched))
<1>1. /\ stage = "up" /\ Laid /\ Reading(walk, doing, file) /\ Running(walk, doing)
      /\ walk.c \in Nat /\ Valid(walk.c) /\ walk.steps \in Nat /\ walk.idx \in Nat
      /\ walk.pos \in Nat /\ walk.want \in Nat \ {0} /\ Len(walk.data) \in 0 .. walk.want - 1
  BY ReadFacts
<1>2. walk.span < Left
  BY <1>1 DEF Running, Left
<1>3. /\ Left \in Nat \ {0} /\ walk.span \in Nat \ {0}
      /\ Len(Fetched) = Len(walk.data) + Least(walk.span, Left)
      /\ Fetched = Units(walk.of, walk.pos, Len(walk.data) + Least(walk.span, Left))
  BY FetchedUnits
<1>4. Len(Fetched) = Len(walk.data) + walk.span
      /\ Fetched = Units(walk.of, walk.pos, Len(Fetched))
  BY <1>2, <1>3 DEF Least
<1>5. Len(Fetched) \in 0 .. walk.want - 1 /\ Len(Fetched) # 0
  BY <1>1, <1>2, <1>3, <1>4 DEF Left
<1>6. Fetched # <<>>
  BY <1>5
<1>7. PICK i \in Nat : Here(walk, doing, i)
  BY <1>1 DEF Running
<1>8. /\ (i + 1) * vol.spc = walk.pos + Len(walk.data) + walk.span
      /\ walk.after \in Nat /\ Valid(walk.after) /\ walk.after = Kth(walk.of.first, i + 1)
      /\ walk.steps <= (IF doing = "whole" THEN i + 1 ELSE i) /\ (walk.op = "read" => i = walk.idx)
  BY <1>7 DEF Here
<1>9. v.pos + Len(v.data) = (i + 1) * vol.spc + 0
  <2> DEFINE m == (i + 1) * vol.spc
  <2>1. m = walk.pos + Len(walk.data) + walk.span
    BY <1>8
  <2> HIDE DEF m
  <2>2. v.pos + Len(v.data) = m + 0
    <3>1. v.pos = walk.pos /\ Len(v.data) = Len(walk.data) + walk.span
      BY <1>4
    <3>2. walk.pos \in Nat /\ Len(walk.data) \in Nat /\ walk.span \in Nat
      BY <1>1, <1>3
    <3>3. QED
      BY <2>1, <3>1, <3>2
  <2>3. QED
    BY <2>2 DEF m
<1>10. v.steps <= i + 1 /\ i + 1 \in Nat
  <2>1. CASE doing = "whole"
    BY <1>8, <2>1
  <2>2. CASE doing # "whole"
    <3>1. v.steps = walk.steps + 1 /\ walk.steps <= i
      BY <1>8, <2>2
    <3>2. QED
      BY <1>1, <3>1
  <2>3. QED
    BY <2>1, <2>2
<1>11. v.span = vol.spc - 0 /\ 0 \in 0 .. vol.spc - 1 /\ Len(v.data) \in Nat /\ v.data # <<>>
       /\ v.pos \in Nat
  <2>1. vol.spc \in Nat \ {0}
    BY <1>1 DEF Laid
  <2>2. v.span = vol.spc - 0 /\ 0 \in 0 .. vol.spc - 1
    BY <2>1
  <2>3. Len(v.data) \in Nat
    BY <1>5
  <2>4. QED
    BY <1>1, <1>6, <2>2, <2>3
<1>12. v.op = "read" => i + 1 = v.idx
  BY <1>8
<1>13. Begun(v, i + 1, 0)
  BY <1>8, <1>9, <1>10, <1>11, <1>12 DEF Begun
<1>14. Running(v, does)
  BY <1>1, <1>10, <1>11, <1>13, RunBegins
<1>15. QED
  BY <1>4, <1>5, <1>8, <1>14

\* A load's run grows, stops short of a cluster that is elsewhere, or fails.
LEMMA WholeOnStep == ASSUME EspInv, WholeOn PROVE EspInv'
<1>1. /\ doing = "whole" /\ mounted' = mounted /\ file' = file /\ list' = list /\ calls' = calls
      /\ walk.span < Left /\ walk.after = 0
  BY DEF WholeOn, Short
<1>2. /\ stage = "up" /\ Laid /\ Says /\ InUse /\ Counted
      /\ Reading(walk, doing, file) /\ FileIs(file) /\ ListIs(list) /\ AnswerIs(out)
      /\ LookIs(look, doing) /\ look = NoLook /\ ~walk.of.dir
      /\ walk.of \in Entries /\ walk.of.size \in Nat
      /\ walk.c \in Nat /\ Valid(walk.c) /\ walk.steps \in Nat
      /\ walk.pos \in Nat /\ walk.want \in Nat \ {0} /\ Len(walk.data) \in 0 .. walk.want - 1
      /\ Running(walk, doing)
  BY <1>1, ReadFacts
<1>3. DOMAIN walk = Walked /\ walk.op = "load"
  BY <1>1, <1>2 DEF Reading, Walked
<1>4. PICK i \in Nat : Here(walk, doing, i)
  BY <1>2 DEF Running
<1>5. walk.c = Kth(walk.of.first, i) /\ walk.steps <= i
  BY <1>1, <1>4 DEF Here
<1> DEFINE Cached1 == CachesOK' /\ TouchIs(touched') /\ fails' \in 0 .. MaxFails
           grown(r) == [walk EXCEPT !.c = r.c, !.span = @ + vol.spc]
           stopped(r) == [walk EXCEPT !.after = r.c]
<1>6. PICK r \in Next1(walk.c) :
          /\ Followed(r)
          /\ Link(r, IF r.c = walk.c + 1 THEN grown(r) ELSE stopped(r))
  BY Zenon DEF WholeOn
<1> DEFINE w == IF r.c = walk.c + 1 THEN grown(r) ELSE stopped(r)
<1>7. Cached1 /\ Follows(r, walk.c)
  BY <1>2, <1>6, FollowedStep
<1>8. (i + 1) * vol.spc < walk.of.size
  BY <1>1, <1>4, RunBefore
<1> DEFINE Goes1 ==
        /\ r.st = "ok" /\ r.c \in Nat /\ Valid(r.c) /\ Kth(walk.of.first, i + 1) = r.c
        /\ walk' = [w EXCEPT !.steps = @ + 1] /\ UNCHANGED <<doing, look, out>>
        /\ walk.steps + 1 \in 0 .. vol.clusters
<1>9. Right \/ Goes1
  <2> DEFINE x == w
  <2>1. Link(r, x)
    BY <1>6
  <2> HIDE DEF w
  <2>2. \/ Right
        \/ /\ r.st = "ok" /\ r.c \in Nat /\ Valid(r.c) /\ Kth(walk.of.first, i + 1) = r.c
           /\ walk' = [x EXCEPT !.steps = @ + 1] /\ UNCHANGED <<doing, look, out>>
           /\ walk.steps + 1 \in 0 .. vol.clusters
    BY <1>1, <1>2, <1>5, <1>7, <1>8, <2>1, LinkRight
  <2>3. QED
    BY <2>2
<1>10. ASSUME Goes1, r.c = walk.c + 1 PROVE Right
  <2>1. w = grown(r)
    BY <1>10
  <2>2. /\ DOMAIN w = Walked /\ w.c = r.c /\ w.span = walk.span + vol.spc
        /\ w.idx = walk.idx /\ w.steps = walk.steps /\ w.start = walk.start
        /\ w.op = walk.op /\ w.of = walk.of /\ w.pos = walk.pos /\ w.want = walk.want
        /\ w.data = walk.data /\ w.after = walk.after
    BY <1>3, <2>1 DEF Walked
  <2> HIDE DEF w
  <2>3. /\ DOMAIN walk' = Walked /\ walk'.c = r.c /\ walk'.span = walk.span + vol.spc
        /\ walk'.idx = walk.idx /\ walk'.steps = walk.steps + 1 /\ walk'.start = walk.start
        /\ walk'.op = walk.op /\ walk'.of = walk.of /\ walk'.pos = walk.pos
        /\ walk'.want = walk.want /\ walk'.data = walk.data /\ walk'.after = walk.after
    BY <1>10, <2>2 DEF Walked
  <2>4. Reading(walk', "whole", file)
    BY <1>1, <1>2, <1>10, <2>3 DEF Reading, Walked
  <2>5. Grown(walk, walk', i)
    BY <1>1, <1>2, <1>3, <1>5, <1>10, <2>3 DEF Grown
  <2>6. Running(walk', "whole")
    BY <1>1, <1>2, <1>4, <2>5, RunGrows
  <2>7. WalkIs(walk', doing', file')
    BY <1>1, <1>10, <2>4, <2>6 DEF WalkIs
  <2>8. QED
    BY <1>1, <1>2, <1>10, <2>7 DEF Right
<1>11. ASSUME Goes1, r.c # walk.c + 1 PROVE Right
  <2>1. w = stopped(r)
    BY <1>11
  <2>2. /\ DOMAIN w = Walked /\ w.c = walk.c /\ w.span = walk.span
        /\ w.idx = walk.idx /\ w.steps = walk.steps /\ w.start = walk.start
        /\ w.op = walk.op /\ w.of = walk.of /\ w.pos = walk.pos /\ w.want = walk.want
        /\ w.data = walk.data /\ w.after = r.c
    BY <1>3, <2>1 DEF Walked
  <2> HIDE DEF w
  <2> DEFINE v == walk'
  <2>3. /\ DOMAIN v = Walked /\ v.c = walk.c /\ v.span = walk.span
        /\ v.idx = walk.idx /\ v.steps = walk.steps + 1 /\ v.start = walk.start
        /\ v.op = walk.op /\ v.of = walk.of /\ v.pos = walk.pos
        /\ v.want = walk.want /\ v.data = walk.data /\ v.after = r.c
    BY <1>11, <2>2 DEF Walked
  <2>4. Reading(v, "whole", file)
    BY <1>1, <1>2, <1>11, <2>3 DEF Reading, Walked
  <2>5. Running(v, "whole")
    <3>1. Running(walk, "whole") /\ Here(walk, "whole", i) /\ walk.span < walk.want - Len(walk.data)
      BY <1>1, <1>2, <1>4 DEF Left
    <3>2. v.steps = IF "whole" = "whole" THEN walk.steps + 1 ELSE walk.steps
      BY <2>3
    <3>3. r.c \in Nat /\ Valid(r.c) /\ Kth(walk.of.first, i + 1) = r.c
      BY <1>11
    <3> HIDE DEF v
    <3>4. QED
      BY <1>1, <1>2, <2>3, <3>1, <3>2, <3>3, RunStops
  <2>6. WalkIs(walk', doing', file')
    BY <1>1, <1>11, <2>4, <2>5 DEF WalkIs
  <2>7. QED
    BY <1>1, <1>2, <1>11, <2>6 DEF Right
<1> HIDE DEF Goes1
<1>12. Right
  BY <1>9, <1>10, <1>11
<1>13. Counted'
  BY <1>1, <1>2, <1>7, <1>12 DEF Counted, Right
<1>14. QED
  BY <1>1, <1>2, <1>7, <1>12, <1>13, StepIsRight DEF Right

\* What a read of a run leaves of the caches.
LEMMA FetchCaches ==
    ASSUME EspInv, doing \in {"fetch", "whole"}, UNCHANGED <<fatCache, dirCache>>,
           touched' = Wanted, fails' \in 0 .. MaxFails
    PROVE  CachesOK' /\ TouchIs(touched') /\ fails' \in 0 .. MaxFails
<1>1. CachesOK /\ stage = "up"
  BY UpFacts
<1>2. TouchIs(Wanted)
  BY FetchedUnits
<1>3. QED
  BY <1>1, <1>2 DEF CachesOK, Honest

\* A run is read, which is all that was wanted, or the next one is gone on to.
LEMMA FetchStep == ASSUME EspInv, Fetch PROVE EspInv'
<1>1. /\ doing = "fetch" /\ mounted' = mounted /\ list' = list /\ calls' = calls
      /\ touched' = Wanted /\ fatCache' = fatCache /\ dirCache' = dirCache /\ fails' = fails
  BY DEF Fetch
<1>2. /\ stage = "up" /\ Laid /\ Says /\ InUse /\ Counted
      /\ Reading(walk, doing, file) /\ FileIs(file) /\ ListIs(list) /\ AnswerIs(out)
      /\ LookIs(look, doing) /\ look = NoLook /\ ~walk.of.dir
      /\ walk.of \in Entries /\ walk.of.size \in Nat /\ walk.idx \in Nat
      /\ walk.c \in Nat /\ Valid(walk.c) /\ walk.steps \in Nat
      /\ walk.pos \in Nat /\ walk.want \in Nat \ {0} /\ Len(walk.data) \in 0 .. walk.want - 1
      /\ walk.pos + walk.want <= walk.of.size /\ Running(walk, doing)
  BY <1>1, ReadFacts
<1>3. /\ DOMAIN walk = Walked /\ walk.op = "read" /\ walk.of = file.of /\ walk.pos = file.pos
      /\ file.open /\ DOMAIN file = {"open", "of", "pos", "idx", "c"}
  BY <1>1, <1>2 DEF Reading, Walked, FileIs
<1>4. PICK i \in Nat : Here(walk, doing, i)
  BY <1>2 DEF Running
<1>5. walk.c = Kth(walk.of.first, i) /\ walk.steps <= i /\ i = walk.idx
  BY <1>1, <1>3, <1>4 DEF Here
<1>6. /\ Left \in Nat \ {0} /\ walk.span \in Nat \ {0}
      /\ Len(Fetched) = Len(walk.data) + Least(walk.span, Left)
      /\ Fetched = Units(walk.of, walk.pos, Len(walk.data) + Least(walk.span, Left))
  BY <1>1, FetchedUnits
<1>7. CachesOK' /\ TouchIs(touched') /\ fails' \in 0 .. MaxFails
  BY <1>1, <1>2, FetchCaches DEF Counted
<1>8. ASSUME Returns("read", "ok", walk.of, walk.pos, Fetched),
             file' = [file EXCEPT !.pos = @ + walk.want, !.idx = walk.idx, !.c = walk.c]
      PROVE  Right
  <2>1. /\ DOMAIN file' = DOMAIN file /\ file'.open = file.open /\ file'.of = walk.of
        /\ file'.pos = walk.pos + walk.want /\ file'.idx = walk.idx /\ file'.c = walk.c
    BY <1>3, <1>8
  <2>2. FileIs(file')
    BY <1>2, <1>3, <1>5, <2>1 DEF FileIs
  <2>3. Fetched = Units(walk.of, walk.pos, Len(Fetched))
    BY <1>6
  <2> DEFINE data == Fetched
  <2> HIDE DEF data
  <2>4. Returns("read", "ok", walk.of, walk.pos, data)
        /\ data = Units(walk.of, walk.pos, Len(data))
    BY <1>8, <2>3 DEF data
  <2>5. QED
    BY <2>2, <2>4, ReturnedRight
<1>9. ASSUME ~(walk.span >= Left), TooManySteps(walk.steps + 1), Fail("corrupt"), file' = file
      PROVE  Right
  <2>1. walk.span < Left
    BY <1>6, <1>9
  <2>2. (i + 1) * vol.spc < walk.of.size
    BY <1>1, <1>4, <2>1, RunBefore
  <2>3. vol.clusters \in Nat
    BY <1>2 DEF Laid
  <2>4. i + 1 >= vol.clusters
    BY <1>2, <1>5, <1>9, <2>3 DEF TooManySteps
  <2>5. ~Sound(walk.of)
    BY <1>2, <2>2, <2>4, UnsoundFile
  <2>6. QED
    BY <1>2, <1>9, <2>5, FailRight
<1>10. ASSUME ~(walk.span >= Left), ~TooManySteps(walk.steps + 1), doing' = "run",
              UNCHANGED <<look, out>>, file' = file,
              walk' = [walk EXCEPT !.data = Fetched, !.c = walk.after,
                           !.start = walk.after, !.idx = @ + 1, !.span = vol.spc, !.after = 0,
                           !.steps = @ + 1]
       PROVE  Right
  <2>1. walk.after # 0
    BY <1>1, <1>2, <1>6, <1>10 DEF Running, Left
  <2> DEFINE v == walk'
  <2>2. /\ DOMAIN v = Walked /\ v.data = Fetched /\ v.c = walk.after /\ v.start = walk.after
        /\ v.idx = walk.idx + 1 /\ v.span = vol.spc /\ v.after = 0 /\ v.steps = walk.steps + 1
        /\ v.op = walk.op /\ v.of = walk.of /\ v.pos = walk.pos /\ v.want = walk.want
    BY <1>3, <1>10 DEF Walked
  <2>3. v.steps = IF doing = "whole" THEN walk.steps ELSE walk.steps + 1
    BY <1>1, <2>2
  <2> HIDE DEF v
  <2>4. /\ Running(v, "run") /\ walk.after \in Nat /\ Valid(walk.after)
        /\ Len(Fetched) \in 0 .. walk.want - 1 /\ Fetched = Units(walk.of, walk.pos, Len(Fetched))
    BY <1>1, <2>1, <2>2, <2>3, RunGoesOn
  <2>5. v.steps \in 0 .. vol.clusters
    <3>1. vol.clusters \in Nat
      BY <1>2 DEF Laid
    <3>2. QED
      BY <1>2, <1>10, <2>2, <3>1 DEF TooManySteps
  <2>6. Reading(v, "run", file)
    BY <1>1, <1>2, <1>3, <2>2, <2>4, <2>5 DEF Reading, Walked
  <2>7. WalkIs(walk', doing', file')
    BY <1>10, <2>4, <2>6 DEF WalkIs, v
  <2>8. QED
    BY <1>1, <1>2, <1>10, <2>7 DEF Right, LookIs
<1>11. Right
  BY <1>8, <1>9, <1>10 DEF Fetch
<1>12. Counted'
  BY <1>1, <1>2, <1>7, <1>11 DEF Counted, Right
<1>13. QED
  BY <1>1, <1>2, <1>7, <1>11, <1>12, StepIsRight DEF Right

\* A load's run is read, and the load is whole, or the next run is gone on to.
LEMMA WholeFetchStep == ASSUME EspInv, WholeFetch PROVE EspInv'
<1>1. /\ doing = "whole" /\ mounted' = mounted /\ list' = list /\ calls' = calls /\ file' = file
      /\ touched' = Wanted /\ fatCache' = fatCache /\ dirCache' = dirCache /\ fails' = fails
      /\ ~(walk.span < Left) \/ walk.after # 0
  BY DEF WholeFetch, Short
<1>2. /\ stage = "up" /\ Laid /\ Says /\ InUse /\ Counted
      /\ Reading(walk, doing, file) /\ FileIs(file) /\ ListIs(list) /\ AnswerIs(out)
      /\ LookIs(look, doing) /\ look = NoLook /\ ~walk.of.dir
      /\ walk.of \in Entries /\ walk.of.size \in Nat
      /\ walk.pos \in Nat /\ walk.want \in Nat \ {0} /\ Len(walk.data) \in 0 .. walk.want - 1
      /\ Running(walk, doing)
  BY <1>1, ReadFacts
<1>3. DOMAIN walk = Walked /\ walk.op = "load" /\ walk.pos = 0 /\ walk.want = walk.of.size
  BY <1>1, <1>2 DEF Reading, Walked
<1>4. /\ Left \in Nat \ {0} /\ walk.span \in Nat \ {0}
      /\ Len(Fetched) = Len(walk.data) + Least(walk.span, Left)
      /\ Fetched = Units(walk.of, walk.pos, Len(walk.data) + Least(walk.span, Left))
  BY <1>1, FetchedUnits
<1>5. CachesOK' /\ TouchIs(touched') /\ fails' \in 0 .. MaxFails
  BY <1>1, <1>2, FetchCaches DEF Counted
<1>6. ASSUME walk.after = 0, Returns("load", "ok", walk.of, 0, Fetched)
      PROVE  Right
  <2>1. Least(walk.span, Left) = walk.want - Len(walk.data)
    BY <1>1, <1>4, <1>6 DEF Least, Left
  <2>2. Len(walk.data) + (walk.want - Len(walk.data)) = walk.of.size
    BY <1>2, <1>3
  <2>3. Fetched = Units(walk.of, 0, walk.of.size)
    BY <1>3, <1>4, <2>1, <2>2
  <2> DEFINE data == Fetched
  <2> HIDE DEF data
  <2>4. Returns("load", "ok", walk.of, 0, data) /\ data = Units(walk.of, 0, walk.of.size)
    BY <1>6, <2>3 DEF data
  <2>5. QED
    BY <1>1, <1>2, <2>4, ReturnedRight
<1>7. ASSUME walk.after # 0, UNCHANGED <<doing, look, out>>,
             walk' = [walk EXCEPT !.data = Fetched, !.c = walk.after, !.start = walk.after,
                                  !.span = vol.spc, !.after = 0]
      PROVE  Right
  <2> DEFINE v == walk'
  <2>2. /\ DOMAIN v = Walked /\ v.data = Fetched /\ v.c = walk.after /\ v.start = walk.after
        /\ v.idx = walk.idx /\ v.span = vol.spc /\ v.after = 0 /\ v.steps = walk.steps
        /\ v.op = walk.op /\ v.of = walk.of /\ v.pos = walk.pos /\ v.want = walk.want
    BY <1>3, <1>7 DEF Walked
  <2>3. /\ v.steps = IF doing = "whole" THEN walk.steps ELSE walk.steps + 1
        /\ v.op # "read"
    BY <1>1, <1>3, <2>2
  <2> HIDE DEF v
  <2>4. /\ Running(v, "whole") /\ walk.after \in Nat /\ Valid(walk.after)
        /\ Len(Fetched) \in 0 .. walk.want - 1 /\ Fetched = Units(walk.of, walk.pos, Len(Fetched))
    BY <1>1, <1>7, <2>2, <2>3, RunGoesOn
  <2>5. Reading(v, "whole", file)
    BY <1>1, <1>2, <1>3, <2>2, <2>4 DEF Reading, Walked
  <2>6. WalkIs(walk', doing', file')
    BY <1>1, <1>7, <2>4, <2>5 DEF WalkIs, v
  <2>7. QED
    BY <1>1, <1>2, <1>7, <2>6 DEF Right, LookIs
<1>8. Right
  BY <1>6, <1>7 DEF WholeFetch
<1>9. Counted'
  BY <1>1, <1>2, <1>5, <1>8 DEF Counted, Right
<1>10. QED
  BY <1>1, <1>2, <1>5, <1>8, <1>9, StepIsRight DEF Right

\* A read of a run that fails is the call's end.
LEMMA FetchFailsStep == ASSUME EspInv, FetchFails PROVE EspInv'
<1>1. /\ doing \in {"fetch", "whole"} /\ mounted' = mounted /\ list' = list /\ calls' = calls
      /\ file' = file /\ fatCache' = fatCache /\ dirCache' = dirCache
      /\ touched' = Wanted /\ Fail("io") /\ fails < MaxFails /\ fails' = fails + 1
  BY DEF FetchFails, Fails
<1>2. /\ stage = "up" /\ InUse /\ Counted /\ FileIs(file) /\ ListIs(list) /\ ~walk.of.dir
  BY <1>1, ReadFacts
<1>3. fails' \in 0 .. MaxFails
  BY <1>1, <1>2, EspAssumption DEF Counted
<1>4. CachesOK' /\ TouchIs(touched') /\ fails' \in 0 .. MaxFails
  BY <1>1, <1>3, FetchCaches
<1>5. Right
  BY <1>1, <1>2, FailRight
<1>6. Counted'
  BY <1>1, <1>2, <1>4, <1>5 DEF Counted, Right
<1>7. QED
  BY <1>1, <1>2, <1>4, <1>5, <1>6, StepIsRight DEF Right

------------------------------------------------------------------------------
(* The invariant of the specification.                                     *)

\* Nothing has been asked, and nothing is held.
LEMMA Afresh ==
    ASSUME Unread, Sectors \in Nat
    PROVE  InUse
<1>1. LookIs(look, doing) /\ ListIs(list) /\ WalkIs(walk, doing, file) /\ FileIs(file)
  BY DEF Unread, LookIs, ListIs, WalkIs, FileIs, NoFile
<1>2. TouchIs(touched)
  BY DEF Unread, TouchIs
<1>3. AnswerIs(out)
  BY NoAnswer DEF Unread
<1>4. QED
  BY <1>1, <1>2, <1>3 DEF InUse

\* The partition is found, or there is none.
LEMMA FindEspStep == ASSUME EspInv, FindEsp PROVE EspInv'
<1>1. /\ stage = "gpt" /\ stage' \in {"dead", "mount"} /\ MountedOK /\ CachesOK /\ Counted /\ Unread
  BY DEF FindEsp, EspInv
<1>2. /\ disk' = disk /\ vol' = vol /\ fatCache' = fatCache /\ dirCache' = dirCache /\ doing' = doing
      /\ look' = look /\ walk' = walk /\ file' = file /\ list' = list /\ out' = out
      /\ touched' = touched /\ calls' = calls
  BY DEF FindEsp
<1>3. MountedOK'
  <2>1. (GptGood' <=> GptGood) /\ FirstEsp' = FirstEsp
    BY <1>2 DEF GptGood, FirstEsp, Esps
  <2>2. \/ stage' = "dead" /\ part' = part
        \/ stage' = "mount" /\ GptGood /\ part' = [first |-> FirstEsp.first, last |-> FirstEsp.last]
    BY DEF FindEsp
  <2>3. part' = NoPart \/ part' # NoPart
    OBVIOUS
  <2>4. \/ part = NoPart
        \/ GptGood /\ part = [first |-> FirstEsp.first, last |-> FirstEsp.last]
    <3>1. part # NoPart => GptGood /\ part = [first |-> FirstEsp.first, last |-> FirstEsp.last]
      BY <1>1, Zenon DEF MountedOK
    <3>2. QED
      BY <3>1, Zenon
  <2>5. stage' = "mount" => part' # NoPart
    <3>1. GptGood => FirstEsp.first # 0
      BY DEF GptGood
    <3>2. [first |-> FirstEsp.first, last |-> FirstEsp.last].first = FirstEsp.first
          /\ NoPart.first = 0
      BY DEF NoPart
    <3>3. QED
      BY <2>2, <3>1, <3>2
  <2>6. disk \in Disks /\ vol = NoVol
    BY <1>1 DEF MountedOK
  <2>7. QED
    BY <1>1, <1>2, <2>1, <2>2, <2>4, <2>5, <2>6 DEF MountedOK
<1>4. CachesOK'
  BY <1>1, <1>2 DEF CachesOK, Honest
<1>5. Counted'
  <2>1. fails' = fails \/ (fails < MaxFails /\ fails' = fails + 1)
    BY Zenon DEF FindEsp, Fails
  <2>2. QED
    BY <1>1, <1>2, <2>1, EspAssumption DEF Counted
<1>6. Unread'
  BY <1>1, <1>2 DEF Unread
<1>7. QED
  BY <1>1, <1>3, <1>4, <1>5, <1>6 DEF EspInv

\* The volume is mounted, or nothing is.
LEMMA MountStep == ASSUME EspInv, Mount PROVE EspInv'
<1>1. stage = "mount" /\ stage' \in {"dead", "up"} /\ MountedOK /\ CachesOK /\ Counted /\ Unread
  BY DEF Mount, EspInv
<1>2. /\ disk' = disk /\ part' = part /\ fatCache' = Empty /\ dirCache' = Empty /\ doing' = doing
      /\ look' = look /\ walk' = walk /\ file' = file /\ list' = list /\ out' = out
      /\ touched' = touched /\ calls' = calls
  BY DEF Mount
<1>3. \/ stage' = "dead" /\ vol' = vol
      \/ stage' = "up" /\ Fits(disk.boot) /\ vol' = Volume(disk.boot)
  BY DEF Mount
<1>4. MountedOK'
  <2>1. /\ GptGood' <=> GptGood
        /\ FirstEsp' = FirstEsp
        /\ \A b : (Fits(b)' <=> Fits(b))
    BY <1>2 DEF GptGood, FirstEsp, Esps, Fits, Sectors
  <2>2. /\ disk \in Disks /\ vol = NoVol /\ part # NoPart
        /\ GptGood /\ part = [first |-> FirstEsp.first, last |-> FirstEsp.last]
    BY <1>1 DEF MountedOK
  <2>3. QED
    BY <1>1, <1>2, <1>3, <2>1, <2>2 DEF MountedOK
<1>5. CachesOK'
  BY <1>2 DEF CachesOK, Honest, Empty
<1>6. Counted'
  <2>1. fails' = fails \/ (fails < MaxFails /\ fails' = fails + 1)
    BY Zenon DEF Mount, Fails
  <2>2. QED
    BY <1>1, <1>2, <2>1, EspAssumption DEF Counted
<1>7. Unread'
  BY <1>1, <1>2 DEF Unread
<1>8. ASSUME stage' = "up" PROVE InUse'
  <2>1. Sectors' \in Nat
    <3>1. FirstEsp \in [esp : BOOLEAN, first : Nat, last : Nat]
      BY <1>1, FirstIsOne DEF MountedOK, GptGood
    <3>2. part.first = FirstEsp.first /\ part.last = FirstEsp.last /\ FirstEsp.last >= FirstEsp.first
      BY <1>1 DEF MountedOK, GptGood
    <3>3. QED
      BY <1>2, <3>1, <3>2 DEF Sectors
  <2>2. LookIs(look, doing)' /\ ListIs(list)' /\ WalkIs(walk, doing, file)' /\ FileIs(file)'
    BY <1>7 DEF Unread, LookIs, ListIs, WalkIs, FileIs, NoFile
  <2>3. TouchIs(touched)'
    BY <1>7, <2>1 DEF Unread, TouchIs
  <2>4. AnswerIs(out)'
    BY <1>7 DEF Unread, AnswerIs, NoOut
  <2>5. QED
    BY <2>2, <2>3, <2>4 DEF InUse
<1>9. QED
  BY <1>4, <1>5, <1>6, <1>7, <1>8 DEF EspInv

\* The reader begins with nothing found.
LEMMA EspStarts == ASSUME EspInit PROVE EspInv
<1>1. MountedOK
  BY DEF EspInit, MountedOK
<1>2. CachesOK
  BY DEF EspInit, CachesOK, Honest, Empty
<1>3. Counted
  BY EspAssumption DEF EspInit, Counted
<1>4. Unread
  BY DEF EspInit, Unread
<1>5. QED
  BY <1>1, <1>2, <1>3, <1>4 DEF EspInit, EspInv

\* A step that changes nothing keeps it.
LEMMA EspStutters == ASSUME EspInv, UNCHANGED espVars PROVE EspInv'
<1>1. /\ mounted' = mounted /\ UNCHANGED caches /\ doing' = doing /\ look' = look /\ walk' = walk
      /\ file' = file /\ list' = list /\ out' = out /\ calls' = calls /\ stage' = stage
  BY DEF espVars, mounted, caches
<1>2. CASE stage = "up"
  <2>1. InUse /\ Counted
    BY <1>2, UpFacts
  <2>2. CachesOK' /\ TouchIs(touched') /\ fails' \in 0 .. MaxFails
    BY <1>1, <1>2, CachesStay
  <2>3. Counted'
    BY <1>1, <2>1, <2>2 DEF Counted
  <2>4. QED
    BY <1>1, <1>2, <2>1, <2>2, <2>3, StepIsRight DEF InUse
<1>3. CASE stage # "up"
  <2>1. MountedOK /\ CachesOK /\ Counted /\ Unread
    BY <1>3 DEF EspInv
  <2>2. /\ disk' = disk /\ part' = part /\ vol' = vol
        /\ fatCache' = fatCache /\ dirCache' = dirCache /\ touched' = touched /\ fails' = fails
    BY <1>1 DEF mounted, caches
  <2>3. MountedOK'
    BY <1>1, <2>1, <2>2, <1>3 DEF MountedOK, GptGood, FirstEsp, Esps
  <2>4. CachesOK' /\ Counted' /\ Unread'
    BY <1>1, <2>1, <2>2 DEF CachesOK, Honest, Counted, Unread
  <2>5. QED
    BY <1>1, <1>3, <2>3, <2>4 DEF EspInv
<1>4. QED
  BY <1>2, <1>3

\* Every step of the reader keeps its invariant.
LEMMA EspSteps == ASSUME EspInv, [EspNext]_espVars PROVE EspInv'
<1>1. CASE FindEsp
  BY <1>1, FindEspStep
<1>2. CASE Mount
  BY <1>2, MountStep
<1>3. CASE StartFind
  BY <1>3, StartFindStep
<1>4. CASE Look
  BY <1>4, LookStep
<1>5. CASE StartList
  BY <1>5, StartListStep
<1>6. CASE Give
  BY <1>6, GiveStep
<1>7. CASE Rewind
  BY <1>7, RewindStep
<1>8. CASE Seek
  BY <1>8, SeekStep
<1>9. CASE StartRead
  BY <1>9, StartReadStep
<1>10. CASE SeekOn
  BY <1>10, SeekOnStep
<1>11. CASE RunOn
  BY <1>11, RunOnStep
<1>12. CASE FetchFails
  BY <1>12, FetchFailsStep
<1>13. CASE Fetch
  BY <1>13, FetchStep
<1>14. CASE WholeOn
  BY <1>14, WholeOnStep
<1>15. CASE WholeFetch
  BY <1>15, WholeFetchStep
<1>16. CASE UNCHANGED espVars
  BY <1>16, EspStutters
<1>17. QED
  BY <1>1, <1>2, <1>3, <1>4, <1>5, <1>6, <1>7, <1>8, <1>9, <1>10, <1>11, <1>12, <1>13, <1>14, <1>15,
     <1>16 DEF EspNext

\* What is in hand is what the disk says, whatever has been called, and whatever
\* reads of the disk failed.
THEOREM EspAlwaysRead == EspSpec => []EspInv
<1>1. EspInit => EspInv
  BY EspStarts
<1>2. EspInv /\ [EspNext]_espVars => EspInv'
  BY EspSteps
<1>3. QED
  BY <1>1, <1>2, PTL DEF EspSpec

\* The bytes read are the image's ESP's: of the partition its table means, and
\* none outside it.
THEOREM AlwaysInTheEsp == EspSpec => []StaysInTheEsp
<1>1. ASSUME EspInv PROVE StaysInTheEsp
  <2>1. TheEsp
    <3>1. part # NoPart => GptGood /\ part = [first |-> FirstEsp.first, last |-> FirstEsp.last]
      BY <1>1 DEF EspInv, MountedOK
    <3>2. QED
      BY <3>1 DEF TheEsp, GptGood
  <2>2. ReadsInside
    <3>1. ASSUME stage = "up" PROVE touched[1] >= 0 /\ touched[1] + touched[2] <= Sectors
      BY <1>1, <3>1, UpFacts DEF InUse, TouchIs
    <3>2. QED
      BY <3>1 DEF ReadsInside
  <2>3. /\ stage \in {"gpt", "mount", "up", "dead"}
        /\ doing \in {"idle", "look", "seek", "run", "fetch", "whole", "give", "panic"}
        /\ fails \in 0 .. MaxFails /\ calls \in 0 .. MaxCalls
        /\ doing # "idle" => stage = "up"
    BY <1>1, UpFacts DEF EspInv, MountedOK, Counted
  <2>4. /\ walk.steps <= vol.clusters /\ look.cur.steps <= vol.clusters
        /\ Len(walk.data) <= walk.want
    <3>1. vol.clusters \in Nat
      <4>1. CASE stage = "up"
        BY <1>1, <4>1, UpFacts DEF Laid
      <4>2. CASE stage # "up"
        BY <1>1, <4>2 DEF EspInv, MountedOK, NoVol
      <4>3. QED
        BY <4>1, <4>2
    <3>2. walk.steps <= vol.clusters /\ Len(walk.data) <= walk.want
      <4>1. CASE walk = NoWalk
        <5>1. walk.steps = 0 /\ walk.data = <<>> /\ walk.want = 0
          BY <4>1 DEF NoWalk
        <5>2. QED
          BY <3>1, <5>1
      <4>2. CASE walk # NoWalk
        <5>1. stage = "up" /\ InUse
          BY <1>1, <4>2, UpFacts DEF EspInv, Unread
        <5>2. Reading(walk, doing, file)
          BY <4>2, <5>1 DEF InUse, WalkIs
        <5>3. QED
          BY <3>1, <5>2 DEF Reading
      <4>3. QED
        BY <4>1, <4>2
    <3>3. look.cur.steps <= vol.clusters
      <4>1. CASE look = NoLook
        <5>1. look.cur = NoCursor
          BY <4>1 DEF NoLook
        <5>2. look.cur.steps = 0
          BY <5>1 DEF NoCursor
        <5>3. QED
          BY <3>1, <5>2
      <4>2. CASE look # NoLook
        <5>1. stage = "up" /\ InUse
          BY <1>1, <4>2, UpFacts DEF EspInv, Unread
        <5>2. CursorOK(look.cur, look.dir)
          BY <4>2, <5>1 DEF InUse, LookIs
        <5>3. QED
          BY <3>1, <5>2 DEF CursorOK
      <4>3. QED
        BY <4>1, <4>2
    <3>4. QED
      BY <3>2, <3>3
  <2>5. file.open => file.pos \in 0 .. file.of.size + 1
    <3>1. CASE file = NoFile
      BY <3>1 DEF NoFile
    <3>2. CASE file # NoFile
      <4>1. FileIs(file)
        BY <1>1, <3>2, UpFacts DEF EspInv, Unread, InUse
      <4>2. QED
        BY <4>1 DEF FileIs
    <3>3. QED
      BY <3>1, <3>2
  <2>6. QED
    BY <2>1, <2>2, <2>3, <2>4, <2>5 DEF StaysInTheEsp, EspTypeOK
<1>2. QED
  BY <1>1, EspAlwaysRead, PTL

\* What a call answers is so: the file's bytes, or that it is corrupt.
THEOREM AnswersAlwaysTrue == EspSpec => []AnswersTrue
<1>1. ASSUME EspInv PROVE AnswersTrue
  <2>1. AnswerIs(out)
    BY <1>1, NoAnswer, UpFacts DEF EspInv, Unread, InUse
  <2>2. QED
    BY <2>1 DEF AnswerIs, AnswersTrue, ReadIsTheChain, CorruptIsSo
<1>2. QED
  BY <1>1, EspAlwaysRead, PTL

------------------------------------------------------------------------------
(* The names and the entries a listing gives.                              *)

\* An entry is the one after those before it.
LEMMA NthIs ==
    ASSUME NEW S, S \subseteq Nat, IsFiniteSet(S), NEW i \in S
    PROVE  LET before == Cardinality({j \in S : j < i})
           IN  before \in Nat /\ before < Cardinality(S) /\ NthOf(S, before + 1) = i
<1> DEFINE Before(k) == {j \in S : j < k}
           n == Cardinality(Before(i))
<1>1. \A k : IsFiniteSet(Before(k)) /\ Cardinality(Before(k)) \in Nat
  <2>1. ASSUME NEW k PROVE IsFiniteSet(Before(k))
    BY FS_Subset
  <2>2. QED
    BY <2>1, FS_CardinalityType
<1>2. Cardinality(S) \in Nat /\ n <= Cardinality(S) /\ (Cardinality(S) = n => S = Before(i))
  BY FS_Subset, FS_CardinalityType
<1>3. i \notin Before(i) /\ n \in Nat
  BY <1>1
<1>4. ASSUME NEW a \in S, NEW b \in S, a < b, Cardinality(Before(a)) = Cardinality(Before(b))
      PROVE  FALSE
  <2>1. ASSUME NEW j \in S, j < a PROVE j < b
    <3>1. j \in Nat /\ a \in Nat /\ b \in Nat
      OBVIOUS
    <3>2. QED
      BY <1>4, <2>1, <3>1
  <2>2. ~(a < a)
    <3>1. a \in Nat
      OBVIOUS
    <3>2. QED
      BY <3>1
  <2>3. Before(a) \in SUBSET Before(b) /\ a \in Before(b) /\ a \notin Before(a)
    BY <1>4, <2>1, <2>2
  <2>4. Before(b) = Before(a)
    <3> HIDE DEF Before
    <3>1. QED
      BY <1>1, <1>4, <2>3, FS_Subset
  <2>5. QED
    BY <2>3, <2>4
<1>5. ASSUME NEW k \in S, Cardinality(Before(k)) = n PROVE k = i
  <2>1. k \in Nat /\ i \in Nat
    OBVIOUS
  <2>2. k < i \/ k = i \/ i < k
    BY <2>1
  <2>3. QED
    BY <1>4, <1>5, <2>2
<1>6. NthOf(S, n + 1) = i
  <2>1. NthOf(S, n + 1) = CHOOSE k \in S : Cardinality(Before(k)) + 1 = n + 1
    BY DEF NthOf
  <2>2. \A k \in S : Cardinality(Before(k)) + 1 = n + 1 <=> k = i
    <3>1. ASSUME NEW k \in S PROVE Cardinality(Before(k)) + 1 = n + 1 <=> k = i
      <4>1. Cardinality(Before(k)) \in Nat /\ n \in Nat
        BY <1>1
      <4>2. Cardinality(Before(k)) + 1 = n + 1 <=> Cardinality(Before(k)) = n
        BY <4>1
      <4>3. QED
        BY <1>5, <4>2
    <3>2. QED
      BY <3>1
  <2> HIDE DEF Before, n
  <2>3. QED
    BY <2>1, <2>2
<1>7. QED
  BY <1>2, <1>3, <1>6

\* What is before p + 1 is what is at most p.
LEMMA UpToNext ==
    ASSUME NEW S, S \subseteq Nat, IsFiniteSet(S), NEW p \in Nat
    PROVE  /\ {j \in S : j < p + 1} = UpTo(S, p)
           /\ IsFiniteSet(UpTo(S, p)) /\ Cardinality(UpTo(S, p)) \in Nat
           /\ Cardinality(UpTo(S, p + 1)) = Cardinality(UpTo(S, p)) + IF p + 1 \in S THEN 1 ELSE 0
<1>1. \A j \in S : j \in Nat
  OBVIOUS
<1>2. {j \in S : j < p + 1} = UpTo(S, p)
  <2>1. \A j \in S : j < p + 1 <=> j <= p
    BY <1>1
  <2>2. QED
    BY <2>1 DEF UpTo
<1>3. IsFiniteSet(UpTo(S, p)) /\ Cardinality(UpTo(S, p)) \in Nat
  BY FS_Subset, FS_CardinalityType DEF UpTo
<1>4. \A j \in S : j <= p + 1 <=> j <= p \/ j = p + 1
  BY <1>1
<1>5. CASE p + 1 \in S
  <2>1. UpTo(S, p + 1) = UpTo(S, p) \cup {p + 1} /\ p + 1 \notin UpTo(S, p)
    <3>1. UpTo(S, p + 1) = UpTo(S, p) \cup {p + 1}
      BY <1>4, <1>5 DEF UpTo
    <3>2. ~(p + 1 <= p)
      OBVIOUS
    <3>3. QED
      BY <3>1, <3>2 DEF UpTo
  <2>2. Cardinality(UpTo(S, p) \cup {p + 1}) = Cardinality(UpTo(S, p)) + 1
    BY <1>3, <2>1, FS_AddElement
  <2>3. QED
    BY <1>2, <1>3, <1>5, <2>1, <2>2
<1>6. CASE p + 1 \notin S
  <2>1. UpTo(S, p + 1) = UpTo(S, p)
    BY <1>4, <1>6 DEF UpTo
  <2>2. QED
    BY <1>2, <1>3, <1>6, <2>1
<1>7. QED
  BY <1>5, <1>6

\* The part before the last one a run ends with.
LEMMA EndsBefore ==
    ASSUME NEW s, NEW p \in Nat, NEW n \in 1 .. 20, NEW e \in 0 .. 19, EndsWith(s, p + 1, n, e)
    PROVE  /\ e < n /\ s[p + 1].is = "part" /\ s[p + 1].seq = e + 1 /\ (s[p + 1].begins <=> e + 1 = n)
           /\ e + 1 < n => /\ EndsWith(s, p, n, e + 1) /\ e + 1 \in 0 .. 19
                           /\ s[p].sum = s[p + 1].sum
<1>1. e \in 0 .. n - 1 /\ n - e <= p + 1
  BY DEF EndsWith
<1>2. ASSUME NEW j \in e + 1 .. n
      PROVE  /\ s[p + e + 2 - j].is = "part" /\ s[p + e + 2 - j].seq = j
             /\ s[p + e + 2 - j].sum = s[p + 1].sum /\ (s[p + e + 2 - j].begins <=> j = n)
  <2>1. p + 1 + e + 1 - j = p + e + 2 - j
    BY <1>1
  <2>2. QED
    BY <2>1 DEF EndsWith
<1>3. s[p + 1].is = "part" /\ s[p + 1].seq = e + 1 /\ (s[p + 1].begins <=> e + 1 = n)
  <2>1. e + 1 \in e + 1 .. n /\ p + e + 2 - (e + 1) = p + 1
    BY <1>1
  <2>2. QED
    BY <1>2, <2>1
<1>4. ASSUME e + 1 < n
      PROVE  EndsWith(s, p, n, e + 1) /\ e + 1 \in 0 .. 19 /\ s[p].sum = s[p + 1].sum
  <2>1. e + 2 \in e + 1 .. n /\ p + e + 2 - (e + 2) = p
    BY <1>1, <1>4
  <2>2. s[p].sum = s[p + 1].sum
    BY <1>2, <2>1
  <2>3. ASSUME NEW j \in e + 1 + 1 .. n
        PROVE  /\ s[p + (e + 1) + 1 - j].is = "part" /\ s[p + (e + 1) + 1 - j].seq = j
               /\ s[p + (e + 1) + 1 - j].sum = s[p].sum /\ (s[p + (e + 1) + 1 - j].begins <=> j = n)
    <3>1. j \in e + 1 .. n /\ p + (e + 1) + 1 - j = p + e + 2 - j
      BY <1>1
    <3>2. QED
      BY <1>2, <2>2, <3>1
  <2>4. e + 1 \in 0 .. n - 1 /\ n - (e + 1) <= p /\ e + 1 \in 0 .. 19
    BY <1>1, <1>4
  <2>5. QED
    BY <2>2, <2>3, <2>4 DEF EndsWith
<1>5. QED
  BY <1>1, <1>3, <1>4

\* One part more.
LEMMA EndsMore ==
    ASSUME NEW s, NEW p \in Nat, NEW n \in 1 .. 20, NEW e \in Nat, EndsWith(s, p, n, e + 1),
           s[p + 1].is = "part", s[p + 1].seq = e + 1, s[p + 1].sum = s[p].sum,
           ~s[p + 1].begins
    PROVE  EndsWith(s, p + 1, n, e) /\ e + 1 < n
<1>1. e + 1 \in 0 .. n - 1 /\ n - (e + 1) <= p
  BY DEF EndsWith
<1>2. ASSUME NEW j \in e + 1 .. n
      PROVE  /\ s[p + 1 + e + 1 - j].is = "part" /\ s[p + 1 + e + 1 - j].seq = j
             /\ s[p + 1 + e + 1 - j].sum = s[p + 1].sum /\ (s[p + 1 + e + 1 - j].begins <=> j = n)
  <2>1. CASE j = e + 1
    <3>1. p + 1 + e + 1 - j = p + 1 /\ j # n
      BY <1>1, <2>1
    <3>2. QED
      BY <2>1, <3>1
  <2>2. CASE j # e + 1
    <3>1. j \in e + 1 + 1 .. n /\ p + 1 + e + 1 - j = p + (e + 1) + 1 - j
      BY <1>1, <2>2
    <3>2. QED
      BY <3>1 DEF EndsWith
  <2>3. QED
    BY <2>1, <2>2
<1>3. e \in 0 .. n - 1 /\ n - e <= p + 1 /\ e + 1 < n
  BY <1>1
<1>4. QED
  BY <1>2, <1>3 DEF EndsWith

\* A part is taken into the long name in hand as it is by the slots' definition.
LEMMA NamePushed ==
    ASSUME NEW l, NEW s, NEW p \in Nat, NameIs(l, s, p), IsSlot(s[p + 1]), s[p + 1].is = "part",
           ~Wraps(l, s[p + 1])
    PROVE  NameIs(Pushed(l, s[p + 1]), s, p + 1)
<1> DEFINE t == s[p + 1]
           to == Pushed(l, t)
<1>1. /\ t.seq \in Nat /\ t.begins \in BOOLEAN /\ l.ok \in BOOLEAN
      /\ DOMAIN l = {"ok", "expect", "sum", "text"}
  BY DEF IsSlot, NameIs
<1>2. ASSUME NEW n \in 1 .. 20, NEW e \in 0 .. 19, EndsWith(s, p + 1, n, e)
      PROVE  /\ e < n /\ t.seq = e + 1 /\ (t.begins <=> e + 1 = n)
             /\ e + 1 < n => /\ l.ok /\ l.expect = e + 1 /\ l.sum = t.sum
                             /\ l.text = TextOf(s, p, n, e + 1)
  <2>1. /\ e < n /\ t.seq = e + 1 /\ (t.begins <=> e + 1 = n)
        /\ e + 1 < n => EndsWith(s, p, n, e + 1) /\ e + 1 \in 0 .. 19 /\ s[p].sum = t.sum
    BY <1>2, EndsBefore
  <2>2. QED
    BY <2>1 DEF NameIs
<1>3. CASE t.begins
  <2>1. to = BeginsName(t)
    BY <1>3 DEF Pushed
  <2> HIDE DEF to, t
  <2>2. /\ DOMAIN to = {"ok", "expect", "sum", "text"} /\ to.ok \in BOOLEAN
        /\ (to.ok <=> t.seq \in 1 .. 20) /\ to.expect = t.seq - 1 /\ to.sum = t.sum
        /\ to.text = [i \in 1 .. t.seq |-> IF i = t.seq THEN t.part ELSE ""]
    <3>1. to.ok = (t.seq \in 1 .. 20)
      BY <2>1, Zenon DEF BeginsName
    <3>2. /\ DOMAIN to = {"ok", "expect", "sum", "text"} /\ to.expect = t.seq - 1 /\ to.sum = t.sum
          /\ to.text = [i \in 1 .. t.seq |-> IF i = t.seq THEN t.part ELSE ""]
      BY <2>1 DEF BeginsName
    <3>3. (t.seq \in 1 .. 20) \in BOOLEAN
      OBVIOUS
    <3>4. to.ok \in BOOLEAN /\ (to.ok <=> t.seq \in 1 .. 20)
      BY <3>1, <3>3, Zenon
    <3>5. QED
      BY <3>2, <3>4
  <2>3. ASSUME to.ok PROVE t.seq \in 1 .. 20 /\ EndsWith(s, p + 1, t.seq, to.expect)
    <3>0. t.seq \in 1 .. 20
      BY <2>2, <2>3, Zenon
    <3>1. t.seq \in 1 .. 20 /\ t.seq - 1 + 1 = t.seq
      BY <3>0
    <3>2. ASSUME NEW j \in t.seq - 1 + 1 .. t.seq
          PROVE  p + 1 + (t.seq - 1) + 1 - j = p + 1 /\ j = t.seq
      BY <3>1
    <3>3. t.seq - 1 \in 0 .. t.seq - 1 /\ t.seq - (t.seq - 1) <= p + 1
      BY <3>1
    <3>4. EndsWith(s, p + 1, t.seq, t.seq - 1)
      BY <1>3, <3>1, <3>2, <3>3 DEF EndsWith, t
    <3>5. QED
      BY <2>2, <3>1, <3>4
  <2>4. ASSUME NEW n \in 1 .. 20, NEW e \in 0 .. 19, EndsWith(s, p + 1, n, e)
        PROVE  to.ok /\ to.expect = e /\ to.sum = t.sum /\ to.text = TextOf(s, p + 1, n, e)
    <3>1. t.seq = n /\ e = n - 1
      BY <1>2, <1>3, <2>4
    <3>2. ASSUME NEW j \in 1 .. n PROVE (j > e <=> j = n) /\ p + 1 + e + 1 - n = p + 1
      BY <3>1
    <3>3. TextOf(s, p + 1, n, e) = [j \in 1 .. n |-> IF j = n THEN t.part ELSE ""]
      BY <3>2 DEF TextOf, t
    <3>4. t.seq \in 1 .. 20 /\ t.seq - 1 = e
      BY <3>1, <2>4
    <3>5. to.text = [j \in 1 .. n |-> IF j = n THEN t.part ELSE ""]
      BY <2>2, <3>1, Zenon
    <3>6. QED
      BY <2>2, <3>3, <3>4, <3>5
  <2>5. QED
    BY <2>2, <2>3, <2>4 DEF NameIs, to, t
<1>4. CASE ~t.begins /\ ~(l.ok /\ t.seq = l.expect /\ t.sum = l.sum)
  <2>1. to = [l EXCEPT !.ok = FALSE]
    BY <1>4 DEF Pushed
  <2>2. DOMAIN to = {"ok", "expect", "sum", "text"} /\ to.ok = FALSE
    BY <1>1, <2>1
  <2>3. ASSUME NEW n \in 1 .. 20, NEW e \in 0 .. 19, EndsWith(s, p + 1, n, e) PROVE FALSE
    <3>1. e + 1 < n
      BY <1>2, <1>4, <2>3
    <3>2. QED
      BY <1>2, <1>4, <2>3, <3>1
  <2> HIDE DEF to, t
  <2>4. NameIs(to, s, p + 1)
    BY <2>2, <2>3 DEF NameIs
  <2>5. QED
    BY <2>4 DEF to, t
<1>5. CASE ~t.begins /\ l.ok /\ t.seq = l.expect /\ t.sum = l.sum
  <2>1. to = [l EXCEPT !.expect = t.seq - 1, !.text[t.seq] = t.part]
    BY <1>5 DEF Pushed
  <2>2. /\ DOMAIN to = {"ok", "expect", "sum", "text"} /\ to.ok = l.ok /\ to.expect = t.seq - 1
        /\ to.sum = t.sum /\ to.text = [l.text EXCEPT ![t.seq] = t.part]
    BY <1>1, <1>5, <2>1
  <2> HIDE DEF to
  <2>3. t.seq # 0
    BY <1>5 DEF Wraps
  <2>4. PICK n \in 1 .. 20 : EndsWith(s, p, n, l.expect)
    BY <1>5 DEF NameIs
  <2>5. EndsWith(s, p + 1, n, to.expect)
    <3>1. t.seq - 1 \in Nat /\ t.seq - 1 + 1 = l.expect /\ l.expect \in 0 .. 19
      BY <1>1, <1>5, <2>3, <2>4 DEF EndsWith
    <3>2. t.sum = s[p].sum
      BY <1>5, <2>4, <3>1 DEF NameIs
    <3>3. QED
      BY <1>5, <2>2, <2>4, <3>1, <3>2, EndsMore
  <2>6. ASSUME NEW m \in 1 .. 20, NEW e \in 0 .. 19, EndsWith(s, p + 1, m, e)
        PROVE  to.ok /\ to.expect = e /\ to.sum = t.sum /\ to.text = TextOf(s, p + 1, m, e)
    <3>1. e + 1 < m /\ t.seq = e + 1
      BY <1>2, <1>5, <2>6
    <3>2. l.text = TextOf(s, p, m, e + 1)
      BY <1>2, <2>6, <3>1
    <3>3. ASSUME NEW j \in 1 .. m
          PROVE  /\ (j > e <=> j = e + 1 \/ j > e + 1) /\ p + 1 + e + 1 - j = p + (e + 1) + 1 - j
                 /\ p + (e + 1) + 1 - (e + 1) = p + 1
      OBVIOUS
    <3>4. e + 1 \in 1 .. m
      BY <3>1
    <3>5. [TextOf(s, p, m, e + 1) EXCEPT ![e + 1] = t.part] = TextOf(s, p + 1, m, e)
      BY <3>3, <3>4 DEF TextOf
    <3>6. QED
      BY <1>5, <2>2, <3>1, <3>2, <3>5
  <2>7. QED
    BY <1>1, <2>2, <2>4, <2>5, <2>6 DEF NameIs, to
<1>6. QED
  BY <1>1, <1>3, <1>4, <1>5

\* A slot that is no part ends the name in hand.
LEMMA NameLost ==
    ASSUME NEW l, NEW s, NEW p \in Nat, NameIs(l, s, p), s[p + 1].is # "part"
    PROVE  NameIs([l EXCEPT !.ok = FALSE], s, p + 1)
<1> DEFINE to == [l EXCEPT !.ok = FALSE]
<1>1. DOMAIN to = {"ok", "expect", "sum", "text"} /\ to.ok = FALSE
  BY DEF NameIs
<1>2. ASSUME NEW n \in 1 .. 20, NEW e \in 0 .. 19, EndsWith(s, p + 1, n, e) PROVE FALSE
  BY <1>2, EndsBefore
<1> HIDE DEF to
<1>3. QED
  BY <1>1, <1>2 DEF NameIs, to

\* The name a short name is given is the one the slots have before it.
LEMMA NameGiven ==
    ASSUME NEW l, NEW s, NEW p \in Nat, NameIs(l, s, p)
    PROVE  LongName(l, s[p + 1].sum) = NameOf(s, p + 1)
<1> DEFINE i == p + 1
           runs == {n \in 1 .. 20 : n < i /\ IsNamed(s, i, n)}
<1>1. \A n \in 1 .. 20 :
          n \in runs <=> EndsWith(s, p, n, 0) /\ s[p].sum = s[i].sum
  <2>1. ASSUME NEW n \in 1 .. 20, NEW j \in 1 .. n
        PROVE  i - j = p + 1 - j /\ p + 0 + 1 - j = p + 1 - j
    OBVIOUS
  <2>2. ASSUME NEW n \in 1 .. 20, n \in runs
        PROVE  EndsWith(s, p, n, 0) /\ s[p].sum = s[i].sum
    <3>1. \A j \in 1 .. n : /\ s[p + 1 - j].is = "part" /\ s[p + 1 - j].seq = j
                            /\ s[p + 1 - j].sum = s[i].sum /\ (s[p + 1 - j].begins <=> j = n)
      BY <2>2 DEF IsNamed
    <3>2. 1 \in 1 .. n /\ p + 1 - 1 = p
      OBVIOUS
    <3>3. s[p].sum = s[i].sum
      BY <3>1, <3>2
    <3>4. 0 \in 0 .. n - 1 /\ n - 0 <= p /\ 0 + 1 = 1
      BY <2>2
    <3>5. QED
      BY <2>1, <3>1, <3>3, <3>4 DEF EndsWith
  <2>3. ASSUME NEW n \in 1 .. 20, EndsWith(s, p, n, 0), s[p].sum = s[i].sum
        PROVE  n \in runs
    <3>1. n < i
      BY <2>3 DEF EndsWith
    <3>2. \A j \in 1 .. n : /\ s[p + 1 - j].is = "part" /\ s[p + 1 - j].seq = j
                            /\ s[p + 1 - j].sum = s[i].sum /\ (s[p + 1 - j].begins <=> j = n)
      BY <2>1, <2>3 DEF EndsWith
    <3>3. QED
      BY <3>1, <3>2 DEF IsNamed
  <2>4. QED
    BY <2>2, <2>3
<1> HIDE DEF runs
<1>2. CASE runs = {}
  <2>1. ASSUME l.ok, l.expect = 0, l.sum = s[i].sum PROVE FALSE
    <3>1. PICK n \in 1 .. 20 : EndsWith(s, p, n, 0)
      BY <2>1 DEF NameIs
    <3>2. l.sum = s[p].sum
      BY <3>1 DEF NameIs
    <3>3. QED
      BY <1>1, <1>2, <2>1, <3>1, <3>2
  <2>2. QED
    BY <1>2, <2>1 DEF LongName, NameOf, runs
<1>3. CASE runs # {}
  <2> DEFINE n == CHOOSE n \in runs : TRUE
  <2>1. n \in runs /\ n \in 1 .. 20
    BY <1>3 DEF runs
  <2> HIDE DEF n
  <2>2. l.ok /\ l.expect = 0 /\ l.sum = s[i].sum /\ l.text = TextOf(s, p, n, 0)
    BY <1>1, <2>1 DEF NameIs
  <2>3. TextOf(s, p, n, 0) = [j \in 1 .. n |-> s[i - j].part]
    <3>1. ASSUME NEW j \in 1 .. n PROVE j > 0 /\ p + 0 + 1 - j = i - j
      BY <2>1
    <3>2. QED
      BY <3>1 DEF TextOf
  <2>4. NameOf(s, i) = [j \in 1 .. n |-> s[i - j].part]
    BY <1>3 DEF NameOf, runs, n
  <2>5. QED
    BY <2>2, <2>3, <2>4 DEF LongName
<1>4. QED
  BY <1>2, <1>3

------------------------------------------------------------------------------
(* A listing's slots, and its steps.                                       *)

\* The root's slots are numbered from 1, and are not without number.
LEMMA SlotsAreFinite ==
    ASSUME Laid, Says
    PROVE  /\ DOMAIN SlotsOf(Root) \subseteq Nat \ {0} /\ IsFiniteSet(DOMAIN SlotsOf(Root))
           /\ UsedIn(SlotsOf(Root)) \subseteq Nat /\ IsFiniteSet(UsedIn(SlotsOf(Root)))
           /\ Cardinality(UsedIn(SlotsOf(Root))) \in Nat
<1> DEFINE s == SlotsOf(Root)
           c == vol.root
           n == SlotsIn(vol, c)
<1>1. n \in Nat /\ vol.clusters \in Nat /\ Root.first = 0
  <2>1. SectorSlots \in Nat /\ vol.rootLen \in Nat /\ vol.spc \in Nat /\ vol.clusters \in Nat
    BY EspAssumption DEF Laid
  <2>2. vol.rootLen * SectorSlots \in Nat /\ vol.spc * SectorSlots \in Nat
    BY <2>1
  <2>3. QED
    BY <2>1, <2>2 DEF SlotsIn, Root
<1> HIDE DEF n
<1>2. \E m \in Nat : DOMAIN s \subseteq 1 .. m
  <2>1. CASE c = 0
    <3>1. s = disk.slots[0]
      BY <1>1, <2>1 DEF SlotsOf
    <3>2. vol.kind # 32
      BY <2>1 DEF Laid, Valid, InVolume
    <3>3. DOMAIN disk.slots[0] = 1 .. n
      BY <2>1, <3>2 DEF Says, n
    <3>4. QED
      BY <1>1, <3>1, <3>3
  <2>2. CASE c # 0
    <3>1. DOMAIN s \subseteq 1 .. (vol.clusters + 1) * n
      BY <1>1, <2>2 DEF SlotsOf, n
    <3>2. (vol.clusters + 1) * n \in Nat
      BY <1>1
    <3>3. QED
      BY <3>1, <3>2
  <2>3. QED
    BY <2>1, <2>2
<1> HIDE DEF s
<1>3. PICK m \in Nat : DOMAIN s \subseteq 1 .. m
  BY <1>2
<1>4. IsFiniteSet(1 .. m)
  BY FS_Interval
<1>5. IsFiniteSet(DOMAIN s) /\ DOMAIN s \subseteq Nat \ {0}
  BY <1>3, <1>4, FS_Subset
<1>6. UsedIn(s) \in SUBSET DOMAIN s
  BY DEF UsedIn
<1>7. IsFiniteSet(UsedIn(s))
  BY <1>5, <1>6, FS_Subset
<1>8. QED
  BY <1>5, <1>6, <1>7, FS_CardinalityType DEF s

\* There are as many items as entries in use, and each is the item of its entry.
LEMMA ItemsAre ==
    ASSUME Laid, Says
    PROVE  LET s == SlotsOf(Root)
               n == Cardinality(UsedIn(s))
           IN  /\ n \in Nat /\ Len(Items(Root)) = n
               /\ \A k \in 1 .. n : Items(Root)[k] = ItemAt(s, NthOf(UsedIn(s), k))
<1> DEFINE s == SlotsOf(Root)
           n == Cardinality(UsedIn(s))
<1>1. n \in Nat
  BY SlotsAreFinite
<1>2. Items(Root) = [k \in 1 .. n |-> ItemAt(s, NthOf(UsedIn(s), k))]
  BY DEF Items
<1> HIDE DEF n
<1>3. Len(Items(Root)) = n
  BY <1>1, <1>2
<1>4. QED
  BY <1>1, <1>2, <1>3 DEF n

\* The slot a listing is at is the next of the root's, in order.
LEMMA SlotIsNext ==
    ASSUME Laid, Says, NEW cursor, CursorOK(cursor, Root)
    PROVE  /\ Place(cursor) \in Nat
           /\ cursor.at < Length(cursor) =>
                  /\ Place(cursor) + 1 \in DOMAIN SlotsOf(Root)
                  /\ SlotsOf(Root)[Place(cursor) + 1] = disk.slots[cursor.c][cursor.at + 1]
                  /\ IsSlot(SlotsOf(Root)[Place(cursor) + 1])
<1> DEFINE c == DirStart(Root)
           n == Length(cursor)
           p == Place(cursor)
           s == SlotsOf(Root)
<1>1. /\ cursor.at \in 0 .. n /\ n \in Nat /\ cursor.steps \in 0 .. vol.clusters
      /\ vol.clusters \in Nat /\ c = vol.root /\ n = SlotsIn(vol, cursor.c) /\ Root.first = 0
  BY LengthIs, DirStartIs DEF CursorOK, Laid, Root, Length
<1>2. CASE c = 0
  <2>1. cursor.c = 0 /\ p = cursor.at /\ s = disk.slots[0]
    BY <1>1, <1>2 DEF CursorOK, Place, SlotsOf
  <2>2. vol.kind # 32
    BY <1>1, <1>2 DEF Laid, Valid, InVolume
  <2>3. /\ DOMAIN disk.slots[0] = 1 .. n
        /\ \A i \in DOMAIN disk.slots[0] : IsSlot(disk.slots[0][i])
    BY <1>1, <2>1, <2>2 DEF Says
  <2>4. QED
    BY <1>1, <2>1, <2>3
<1>3. CASE c # 0
  <2>1. /\ cursor.c \in Nat /\ Valid(cursor.c) /\ cursor.c = Kth(c, cursor.steps) /\ cursor.c # 0
        /\ \A k \in 0 .. cursor.steps : Kth(c, k) # 0
    BY <1>3 DEF CursorOK, Valid, InVolume
  <2>2. n = SlotsIn(vol, c)
    BY <1>1, <1>3, <2>1 DEF SlotsIn
  <2>3. p = cursor.steps * n + cursor.at
    BY <2>1 DEF Place
  <2>4. cursor.steps * n \in Nat
    BY <1>1
  <2>5. p \in Nat
    BY <1>1, <2>3, <2>4
  <2> HIDE DEF p, n, c
  <2>6. ASSUME cursor.at < n
        PROVE  /\ p + 1 \in DOMAIN s /\ s[p + 1] = disk.slots[cursor.c][cursor.at + 1]
               /\ IsSlot(s[p + 1])
    <3>1. n \in Nat \ {0} /\ cursor.at \in Nat /\ cursor.steps \in Nat
      BY <1>1, <2>6
    <3>2. (cursor.steps * n + cursor.at) \div n = cursor.steps
          /\ (cursor.steps * n + cursor.at) % n = cursor.at
      BY <2>6, <3>1, Quotient
    <3> DEFINE here == p + 1
    <3>3. here - 1 = cursor.steps * n + cursor.at
      BY <2>3, <2>5
    <3> HIDE DEF here
    <3>4. (here - 1) \div n = cursor.steps /\ (here - 1) % n = cursor.at
      BY <3>2, <3>3
    <3>5. here \in 1 .. (vol.clusters + 1) * n
      <4>1. cursor.steps < vol.clusters + 1 /\ vol.clusters + 1 \in Nat
        BY <1>1
      <4>2. cursor.steps * n + n <= (vol.clusters + 1) * n
        BY <3>1, <4>1, Products
      <4>3. (vol.clusters + 1) * n \in Nat
        BY <3>1, <4>1
      <4>4. QED
        BY <2>3, <2>4, <2>5, <2>6, <3>1, <4>2, <4>3 DEF here
    <3> DEFINE places == {j \in 1 .. (vol.clusters + 1) * n :
                              \A k \in 0 .. (j - 1) \div n : Kth(c, k) # 0}
    <3>6. s = [j \in places |-> disk.slots[Kth(c, (j - 1) \div n)][((j - 1) % n) + 1]]
      BY <1>1, <1>3, <2>2 DEF SlotsOf
    <3>7. here \in places
      <4>1. \A k \in 0 .. (here - 1) \div n : Kth(c, k) # 0
        BY <2>1, <3>4, Zenon
      <4>2. QED
        BY <3>5, <4>1, Zenon
    <3> HIDE DEF places, s
    <3>8. here \in DOMAIN s /\ s[here] = disk.slots[cursor.c][cursor.at + 1]
      <4>1. s[here] = disk.slots[Kth(c, (here - 1) \div n)][((here - 1) % n) + 1]
        BY <3>6, <3>7, Zenon
      <4>2. DOMAIN s = places
        BY <3>6
      <4>3. QED
        BY <2>1, <3>4, <3>7, <4>1, <4>2
    <3>9. IsSlot(disk.slots[cursor.c][cursor.at + 1])
      <4>1. /\ DOMAIN disk.slots[cursor.c] = 1 .. SlotsIn(vol, cursor.c)
            /\ \A i \in DOMAIN disk.slots[cursor.c] : IsSlot(disk.slots[cursor.c][i])
        BY <2>1 DEF Says
      <4>2. cursor.at + 1 \in 1 .. n
        BY <2>6, <3>1
      <4>3. QED
        BY <1>1, <4>1, <4>2
    <3>10. QED
      BY <3>8, <3>9 DEF here
  <2>7. QED
    BY <2>5, <2>6 DEF p, n
<1>4. QED
  BY <1>2, <1>3

\* At the end of a chain, or of the fixed root, all the slots have been passed.
LEMMA SlotsEnd ==
    ASSUME Laid, Says, NEW cursor, CursorOK(cursor, Root), cursor.at >= Length(cursor),
           cursor.c = 0 \/ Kth(DirStart(Root), cursor.steps + 1) = 0
    PROVE  \A i \in DOMAIN SlotsOf(Root) : i <= Place(cursor)
<1> DEFINE c == DirStart(Root)
           n == Length(cursor)
           p == Place(cursor)
           s == SlotsOf(Root)
<1>1. /\ cursor.at = n /\ n \in Nat /\ cursor.steps \in 0 .. vol.clusters /\ cursor.steps \in Nat
      /\ vol.clusters \in Nat /\ c = vol.root /\ n = SlotsIn(vol, cursor.c) /\ Root.first = 0
  BY LengthIs, DirStartIs DEF CursorOK, Laid, Root, Length
<1>2. CASE c = 0
  <2>1. cursor.c = 0 /\ p = n /\ s = disk.slots[0]
    BY <1>1, <1>2 DEF CursorOK, Place, SlotsOf
  <2>2. vol.kind # 32
    BY <1>1, <1>2 DEF Laid, Valid, InVolume
  <2>3. DOMAIN disk.slots[0] = 1 .. n
    BY <1>1, <2>1, <2>2 DEF Says
  <2>4. QED
    BY <1>1, <2>1, <2>3
<1>3. CASE c # 0
  <2>1. cursor.c # 0
    BY <1>3 DEF CursorOK, Valid, InVolume
  <2>2. n = SlotsIn(vol, c)
    BY <1>1, <1>3, <2>1 DEF SlotsIn
  <2>3. p = cursor.steps * n + n
    BY <1>1, <2>1 DEF Place
  <2> HIDE DEF p, n, c
  <2>4. ASSUME NEW i \in DOMAIN s PROVE i <= p
    <3>1. i \in 1 .. (vol.clusters + 1) * n /\ \A k \in 0 .. (i - 1) \div n : Kth(c, k) # 0
      BY <1>1, <1>3, <2>2, <2>4 DEF SlotsOf
    <3> DEFINE q == (i - 1) \div n
    <3>2. CASE n = 0
      <4>1. (vol.clusters + 1) * n = 0
        BY <1>1, <3>2
      <4>2. QED
        BY <3>1, <4>1
    <3>3. CASE n # 0
      <4>1. n \in Nat \ {0} /\ i \in Nat /\ i - 1 \in Nat
        BY <1>1, <3>1, <3>3
      <4>2. q \in Nat /\ (i - 1) % n \in 0 .. n - 1 /\ i - 1 = q * n + ((i - 1) % n)
        BY <4>1, Division
      <4> HIDE DEF q
      <4>3. ~(cursor.steps + 1 \in 0 .. q)
        BY <2>1, <3>1 DEF q, c
      <4>4. q < cursor.steps + 1
        BY <1>1, <4>2, <4>3
      <4>5. q * n + n <= (cursor.steps + 1) * n
        <5>1. q \in Nat /\ cursor.steps + 1 \in Nat /\ n \in Nat
          BY <1>1, <4>2
        <5>2. QED
          BY <4>4, <5>1, Products
      <4>6. (cursor.steps + 1) * n = cursor.steps * n + n /\ cursor.steps * n \in Nat /\ q * n \in Nat
        BY <1>1, <4>1, <4>2
      <4> DEFINE whole == q * n
                 all == cursor.steps * n
                 rest == (i - 1) % n
      <4>7. /\ i - 1 = whole + rest /\ rest \in 0 .. n - 1 /\ whole + n <= all + n
            /\ p = all + n /\ whole \in Nat /\ all \in Nat
        BY <2>3, <4>2, <4>5, <4>6
      <4> HIDE DEF whole, all, rest
      <4>8. QED
        BY <4>1, <4>7
    <3>4. QED
      BY <3>2, <3>3
  <2>5. QED
    BY <2>4 DEF p
<1>4. QED
  BY <1>2, <1>3

\* What the steps of a listing are: its end, a link, a slot, or a failure.
Went(cursor, dir, r) ==
    \/ r.st \in {"io", "corrupt", "panic"}
    \/ /\ r.st = "end" /\ cursor.at >= Length(cursor)
       /\ cursor.c = 0 \/ Kth(DirStart(dir), cursor.steps + 1) = 0
    \/ /\ r.st = "more" /\ cursor.at >= Length(cursor) /\ cursor.c # 0
       /\ \E c \in Nat : /\ Valid(c)
                         /\ r.cur = [cursor EXCEPT !.c = c, !.at = 0, !.steps = cursor.steps + 1]
    \/ /\ cursor.at < Length(cursor)
       /\ r = Slotted(cursor, disk.slots[cursor.c][cursor.at + 1])

\* A step of a listing is one of those.
LEMMA AdvanceWent ==
    ASSUME Laid, Says, CachesOK, NEW dir, DirOK(dir), NEW cursor, CursorOK(cursor, dir),
           ~cursor.done, NEW a \in Advance(cursor)
    PROVE  Went(cursor, dir, a.step)
<1>1. /\ DOMAIN cursor = {"c", "at", "steps", "done", "lfn"} /\ Length(cursor) \in Nat
      /\ (cursor.c = 0 \/ (cursor.c \in Nat /\ Valid(cursor.c))) /\ cursor.at \in 0 .. Length(cursor)
      /\ Honest(fatCache) /\ Honest(dirCache)
      /\ cursor.c = 0 => vol.kind # 32
  <2>1. Length(cursor) \in Nat
    BY LengthIs
  <2>2. QED
    BY <2>1, CursorIsAt DEF CachesOK, DirOK
<1>2. CASE cursor.at >= Length(cursor) /\ cursor.c = 0
  <2>1. a = [step |-> Ends(cursor), fat |-> fatCache, dir |-> dirCache, touched |-> touched,
             fails |-> fails]
    BY <1>2, Zenon DEF Advance
  <2>2. a.step.st = "end"
    BY <2>1 DEF Ends, Step
  <2>3. QED
    BY <1>2, <2>2 DEF Went
<1>3. CASE cursor.at >= Length(cursor) /\ cursor.c # 0
  <2>1. a \in FollowsLink(cursor) /\ cursor.c \in Nat /\ Valid(cursor.c)
    BY <1>1, <1>3, Zenon DEF Advance
  <2>2. PICK r \in Next1(cursor.c) :
            a = [step |-> Linked(cursor, r), fat |-> r.cache, dir |-> dirCache,
                 touched |-> <<r.at, 1>>, fails |-> IF r.st = "io" THEN fails + 1 ELSE fails]
    BY <2>1, Zenon DEF FollowsLink
  <2>3. a.step = Linked(cursor, r)
    BY <2>2
  <2>4. Follows(r, cursor.c)
    BY <1>1, <2>1, NextFollows
  <2>5. /\ cursor.steps \in Nat /\ Kth(DirStart(dir), cursor.steps) = cursor.c
    BY <1>3 DEF CursorOK, Laid
  <2>6. /\ r.st = "ok" => r.c \in Nat /\ Valid(r.c)
        /\ r.st = "end" => Kth(DirStart(dir), cursor.steps + 1) = 0
        /\ r.st \in {"ok", "end", "corrupt", "io"}
    BY <2>1, <2>4, <2>5, FollowsNext
  <2>7. CASE r.st = "end"
    <3>1. a.step.st = "end"
      BY <2>3, <2>7 DEF Linked, Ends, Step
    <3>2. QED
      BY <1>3, <2>6, <2>7, <3>1 DEF Went
  <2>8. CASE r.st \in {"io", "corrupt"}
    <3>1. a.step.st = r.st
      BY <2>3, <2>8 DEF Linked, Step
    <3>2. QED
      BY <2>8, <3>1 DEF Went
  <2>9. CASE r.st = "ok" /\ TooManySteps(cursor.steps + 1)
    <3>1. a.step.st = "corrupt"
      BY <2>3, <2>9 DEF Linked, Step
    <3>2. QED
      BY <3>1 DEF Went
  <2>10. CASE r.st = "ok" /\ ~TooManySteps(cursor.steps + 1)
    <3>1. a.step.st = "more" /\ a.step.cur = [cursor EXCEPT !.c = r.c, !.at = 0, !.steps = cursor.steps + 1]
      BY <2>3, <2>10 DEF Linked, Step
    <3>2. QED
      BY <1>3, <2>6, <2>10, <3>1, Zenon DEF Went
  <2>11. QED
    BY <2>6, <2>7, <2>8, <2>9, <2>10
<1>4. CASE cursor.at < Length(cursor)
  <2> DEFINE sector == SlotSector(cursor)
             slots(right) == IF right THEN {disk.slots[cursor.c][cursor.at + 1]} ELSE {[is |-> "free"]}
             steps(r) == IF r.ok THEN {Slotted(cursor, s) : s \in slots(r.right)}
                                 ELSE {Step("io", cursor, Nothing)}
  <2>1. a \in ReadsSlot(cursor)
    <3>1. ~(cursor.at >= Length(cursor))
      BY <1>1, <1>4
    <3>2. QED
      BY <3>1, Zenon DEF Advance
  <2>2. sector \in Nat /\ Inside(sector)
    <3>1. cursor.c \in Nat /\ cursor.at \in Nat
      BY <1>1
    <3>2. QED
      BY <1>1, <1>4, <3>1, SlotInside DEF Inside
  <2> HIDE DEF sector
  <2>3. PICK r \in Cached(dirCache, sector, sector) :
            \E st \in steps(r) :
                a = [step |-> st, fat |-> fatCache, dir |-> r.cache, touched |-> <<sector, 1>>,
                     fails |-> IF r.ok THEN fails ELSE fails + 1]
    BY <2>1, Zenon DEF ReadsSlot, sector
  <2>4. PICK st \in steps(r) :
            a = [step |-> st, fat |-> fatCache, dir |-> r.cache, touched |-> <<sector, 1>>,
                 fails |-> IF r.ok THEN fails ELSE fails + 1]
    BY <2>3, Zenon
  <2>5. Reads(r, sector, sector) /\ a.step = st
    BY <1>1, <2>2, <2>4, CachedRight
  <2>6. CASE r.ok = FALSE
    <3>1. st = Step("io", cursor, Nothing)
      BY <2>4, <2>6, Zenon
    <3>2. st.st = "io"
      BY <3>1 DEF Step
    <3>3. QED
      BY <2>5, <3>2 DEF Went
  <2>7. CASE r.ok = TRUE
    <3>1. r.right = TRUE
      BY <2>5, <2>7, Zenon DEF Reads
    <3>2. st = Slotted(cursor, disk.slots[cursor.c][cursor.at + 1])
      BY <2>4, <2>7, <3>1, Zenon
    <3>3. QED
      BY <1>4, <2>5, <3>2, Zenon DEF Went
  <2>8. QED
    BY <2>5, <2>6, <2>7, Zenon DEF Reads
<1>5. QED
  BY <1>1, <1>2, <1>3, <1>4

------------------------------------------------------------------------------
(* What a listing has given.                                               *)

\* A slot that is not free is passed, and counted if it is an entry's.
LEMMA PassedOn ==
    ASSUME Laid, Says, NEW cursor, CursorOK(cursor, Root), NEW given, ListedTo(cursor, given),
           cursor.at < Length(cursor), NEW to, to.c = cursor.c, to.steps = cursor.steps,
           to.at = cursor.at + 1, ~to.done, NEW s, s = SlotsOf(Root),
           NEW p, p = Place(cursor), s[p + 1].is # "free",
           NameIs(to.lfn, s, p + 1),
           NEW more, Len(more) = Len(given) + IF s[p + 1].is = "entry" THEN 1 ELSE 0
    PROVE  ListedTo(to, more)
<1>1. p \in Nat /\ p + 1 \in DOMAIN s
  BY SlotIsNext
<1>2. Place(to) = p + 1
  <2>1. Length(to) = Length(cursor) /\ cursor.at \in Nat
    BY LengthIs DEF Length, CursorOK
  <2>2. CASE cursor.c = 0
    BY <2>2 DEF Place
  <2>3. CASE cursor.c # 0
    <3>1. cursor.steps \in Nat /\ Length(cursor) \in Nat
      BY LengthIs DEF CursorOK, Laid
    <3>2. cursor.steps * Length(cursor) \in Nat
      BY <3>1
    <3>3. p = cursor.steps * Length(cursor) + cursor.at
          /\ Place(to) = cursor.steps * Length(cursor) + (cursor.at + 1)
      BY <2>1, <2>3 DEF Place
    <3> DEFINE before == cursor.steps * Length(cursor)
    <3> HIDE DEF before
    <3>4. before \in Nat /\ p = before + cursor.at /\ Place(to) = before + (cursor.at + 1)
      BY <3>2, <3>3 DEF before
    <3>5. QED
      BY <2>1, <3>4
  <2>4. QED
    BY <2>2, <2>3
<1>3. \A i \in 1 .. p : s[i].is # "free"
  BY DEF ListedTo
<1>4. \A i \in 1 .. p + 1 : s[i].is # "free"
  <2>1. \A i \in 1 .. p + 1 : i \in 1 .. p \/ i = p + 1
    BY <1>1
  <2>2. QED
    BY <1>3, <2>1
<1>5. p + 1 \in UsedIn(s) <=> s[p + 1].is = "entry"
  BY <1>1, <1>4 DEF UsedIn
<1>6. Cardinality(UpTo(UsedIn(s), p + 1)) = Len(more)
  <2>1. Cardinality(UpTo(UsedIn(s), p + 1)) =
            Cardinality(UpTo(UsedIn(s), p)) + IF p + 1 \in UsedIn(s) THEN 1 ELSE 0
    <3>1. UsedIn(s) \subseteq Nat /\ IsFiniteSet(UsedIn(s))
      BY SlotsAreFinite
    <3>2. QED
      BY <1>1, <3>1, UpToNext
  <2>2. Cardinality(UpTo(UsedIn(s), p)) = Len(given)
    BY DEF ListedTo
  <2>3. QED
    BY <1>5, <2>1, <2>2
<1>7. QED
  BY <1>2, <1>4, <1>6 DEF ListedTo

\* The entry a listing comes to is the item after those given.
LEMMA GivesTheNext ==
    ASSUME Laid, Says, NEW cursor, CursorOK(cursor, Root), NEW given, ListedTo(cursor, given),
           cursor.at < Length(cursor), NEW t, t = disk.slots[cursor.c][cursor.at + 1],
           t.is = "entry"
    PROVE  /\ Len(given) \in Nat /\ Len(given) + 1 <= Len(Items(Root))
           /\ Listed(t, cursor.lfn) = Items(Root)[Len(given) + 1]
<1> DEFINE s == SlotsOf(Root)
           p == Place(cursor)
           used == UsedIn(s)
           n == Len(given)
<1>1. p \in Nat /\ p + 1 \in DOMAIN s /\ s[p + 1] = t
  BY SlotIsNext
<1>2. (\A i \in 1 .. p : s[i].is # "free") /\ NameIs(cursor.lfn, s, p)
      /\ Cardinality(UpTo(used, p)) = n
  BY DEF ListedTo
<1> HIDE DEF s, p
<1>3. p + 1 \in used
  <2>1. \A i \in 1 .. p + 1 : i \in 1 .. p \/ i = p + 1
    BY <1>1
  <2>2. \A i \in 1 .. p + 1 : s[i].is # "free"
    BY <1>1, <1>2, <2>1
  <2>3. QED
    BY <1>1, <2>2 DEF UsedIn
<1>4. used \subseteq Nat /\ IsFiniteSet(used)
  BY SlotsAreFinite DEF s
<1> HIDE DEF used
<1>5. {i \in used : i < p + 1} = UpTo(used, p)
  BY <1>1, <1>4, UpToNext
<1>6. n \in Nat /\ n < Cardinality(used) /\ NthOf(used, n + 1) = p + 1
  <2>1. LET before == Cardinality({i \in used : i < p + 1})
        IN  before \in Nat /\ before < Cardinality(used) /\ NthOf(used, before + 1) = p + 1
    BY <1>3, <1>4, NthIs
  <2>2. Cardinality({i \in used : i < p + 1}) = n
    BY <1>2, <1>5
  <2> HIDE DEF n
  <2>3. QED
    BY <2>1, <2>2
<1>7. Cardinality(used) \in Nat /\ Len(Items(Root)) = Cardinality(used)
      /\ \A k \in 1 .. Cardinality(used) : Items(Root)[k] = ItemAt(s, NthOf(used, k))
  BY ItemsAre DEF s, used
<1>8. n + 1 \in 1 .. Cardinality(used)
  BY <1>6, <1>7
<1>9. Items(Root)[n + 1] = ItemAt(s, p + 1)
  BY <1>6, <1>7, <1>8
<1>10. LongName(cursor.lfn, t.sum) = NameOf(s, p + 1)
  BY <1>1, <1>2, NameGiven
<1>11. Listed(t, cursor.lfn) = ItemAt(s, p + 1)
  BY <1>1, <1>10 DEF Listed, ItemAt
<1>12. QED
  BY <1>6, <1>7, <1>8, <1>9, <1>11

\* One item more has been given.
LEMMA GivenMore ==
    ASSUME Laid, Says, NEW given, given # <<>> => Given(given), Len(given) \in Nat,
           Len(given) + 1 <= Len(Items(Root)), NEW item, item = Items(Root)[Len(given) + 1]
    PROVE  Given(Append(given, item)) /\ Len(Append(given, item)) = Len(given) + 1
<1> DEFINE items == Items(Root)
           n == Len(given)
           all == {items[k] : k \in 1 .. Len(items)}
<1>1. Len(items) \in Nat
  BY ItemsAre
<1>2. given = [k \in 1 .. n |-> items[k]]
  <2>1. CASE given = <<>>
    <3>1. n = 0
      BY <2>1
    <3>2. QED
      BY <2>1, <3>1
  <2>2. CASE given # <<>>
    BY <2>2 DEF Given
  <2>3. QED
    BY <2>1, <2>2
<1> HIDE DEF items, n
<1>3. n \in Nat /\ n + 1 <= Len(items) /\ item = items[n + 1] /\ item \in all
  BY <1>1 DEF n, items
<1>4. given \in Seq(all)
  <2>1. \A k \in 1 .. n : items[k] \in all
    BY <1>1, <1>3
  <2> HIDE DEF all
  <2>2. [k \in 1 .. n |-> items[k]] \in [1 .. n -> all]
    BY <2>1
  <2>3. QED
    BY <1>2, <1>3, <2>2
<1> HIDE DEF all
<1>5. /\ Append(given, item) \in Seq(all) /\ Len(Append(given, item)) = n + 1
      /\ \A k \in 1 .. n : Append(given, item)[k] = given[k]
      /\ Append(given, item)[n + 1] = item
  BY <1>3, <1>4, AppendProperties DEF n
<1>6. Append(given, item) = [k \in 1 .. n + 1 |-> items[k]]
  <2> DEFINE more == Append(given, item)
  <2> HIDE DEF more
  <2>1. more \in Seq(all) /\ Len(more) = n + 1 /\ (\A k \in 1 .. n : more[k] = given[k])
        /\ more[n + 1] = item
    BY <1>5 DEF more
  <2>2. more = [k \in 1 .. n + 1 |-> more[k]]
    BY <2>1
  <2>3. \A k \in 1 .. n + 1 : more[k] = items[k]
    <3>1. \A k \in 1 .. n + 1 : k \in 1 .. n \/ k = n + 1
      BY <1>3
    <3>2. \A k \in 1 .. n : more[k] = items[k]
      BY <1>2, <2>1
    <3>3. QED
      BY <1>3, <2>1, <3>1, <3>2
  <2>4. QED
    BY <2>2, <2>3 DEF more
<1>7. QED
  BY <1>1, <1>3, <1>5, <1>6 DEF Given, n, items

\* A listing that has passed all the slots in use has given every item.
LEMMA GivenAll ==
    ASSUME Laid, Says, NEW cursor, NEW given, ListedTo(cursor, given),
           \A i \in UsedIn(SlotsOf(Root)) : i <= Place(cursor)
    PROVE  Len(given) = Len(Items(Root))
<1>1. UpTo(UsedIn(SlotsOf(Root)), Place(cursor)) = UsedIn(SlotsOf(Root))
  BY DEF UpTo
<1>2. Cardinality(UpTo(UsedIn(SlotsOf(Root)), Place(cursor))) = Len(given)
  BY DEF ListedTo
<1>3. QED
  BY <1>1, <1>2, ItemsAre

\* A step of a listing of the root goes on with it, gives the next item, or ends
\* it when all have been given.
LEMMA StepLists ==
    ASSUME Laid, Says, NEW cursor, CursorOK(cursor, Root), NEW given, ListedTo(cursor, given),
           given # <<>> => Given(given), NEW r, Went(cursor, Root, r)
    PROVE  /\ r.st = "more" => ListedTo(r.cur, given)
           /\ r.st = "ok" => /\ Given(Append(given, r.item)) /\ ListedTo(r.cur, Append(given, r.item))
           /\ r.st = "end" => Len(given) = Len(Items(Root))
<1> DEFINE s == SlotsOf(Root)
           p == Place(cursor)
           t == disk.slots[cursor.c][cursor.at + 1]
<1>1. /\ DOMAIN cursor = {"c", "at", "steps", "done", "lfn"} /\ ~cursor.done
      /\ (\A i \in 1 .. p : s[i].is # "free") /\ NameIs(cursor.lfn, s, p) /\ p \in Nat
  BY SlotIsNext DEF CursorOK, ListedTo
<1>2. CASE r.st \in {"io", "corrupt", "panic"}
  BY <1>2
<1>3. CASE /\ r.st = "end" /\ cursor.at >= Length(cursor)
           /\ cursor.c = 0 \/ Kth(DirStart(Root), cursor.steps + 1) = 0
  <2>1. \A i \in UsedIn(s) : i <= p
    BY <1>3, SlotsEnd DEF UsedIn
  <2>2. QED
    BY <1>3, <2>1, GivenAll
<1>4. CASE /\ r.st = "more" /\ cursor.at >= Length(cursor) /\ cursor.c # 0
           /\ \E c \in Nat : /\ Valid(c)
                             /\ r.cur = [cursor EXCEPT !.c = c, !.at = 0, !.steps = cursor.steps + 1]
  <2>1. PICK c \in Nat : /\ Valid(c)
                         /\ r.cur = [cursor EXCEPT !.c = c, !.at = 0, !.steps = cursor.steps + 1]
    BY <1>4
  <2> DEFINE to == r.cur
  <2>2. /\ to.c = c /\ c # 0 /\ to.at = 0 /\ to.steps = cursor.steps + 1 /\ to.done = cursor.done
        /\ to.lfn = cursor.lfn
    BY <1>1, <2>1 DEF Valid, InVolume
  <2> HIDE DEF to
  <2>3. Place(to) = p
    <3>1. /\ cursor.steps \in Nat /\ Length(cursor) \in Nat /\ cursor.at = Length(cursor)
          /\ Length(to) = Length(cursor)
      BY <1>4, <2>2, LengthIs DEF CursorOK, Laid, Length, SlotsIn
    <3>2. p = cursor.steps * Length(cursor) + Length(cursor)
          /\ Place(to) = (cursor.steps + 1) * Length(cursor) + 0
      BY <1>4, <2>2, <3>1 DEF Place
    <3>3. (cursor.steps + 1) * Length(cursor) = cursor.steps * Length(cursor) + Length(cursor)
          /\ (cursor.steps + 1) * Length(cursor) \in Nat
      BY <3>1
    <3>4. QED
      BY <3>2, <3>3
  <2>4. ListedTo(to, given)
    BY <1>1, <2>2, <2>3 DEF ListedTo
  <2>5. QED
    BY <1>4, <2>4 DEF to
<1>5. CASE cursor.at < Length(cursor) /\ r = Slotted(cursor, t)
  <2>1. p + 1 \in DOMAIN s /\ s[p + 1] = t /\ IsSlot(t)
    BY <1>5, SlotIsNext
  <2> DEFINE past == Past(cursor)
  <2>2. /\ past.c = cursor.c /\ past.at = cursor.at + 1 /\ past.steps = cursor.steps
        /\ past.done = cursor.done /\ past.lfn = [cursor.lfn EXCEPT !.ok = FALSE]
        /\ DOMAIN past = DOMAIN cursor
    BY <1>1 DEF Past
  <2> HIDE DEF s, p, t, past
  <2>3. CASE t.is = "free"
    <3>1. r.st = "end"
      BY <1>5, <2>3 DEF Slotted, Ends, Step
    <3>2. \A i \in UsedIn(s) : i <= p
      <4>1. ASSUME NEW i \in UsedIn(s), i > p PROVE FALSE
        <5>1. i \in Nat /\ \A j \in 1 .. i : s[j].is # "free"
          BY SlotsAreFinite DEF UsedIn, s
        <5>2. p + 1 \in 1 .. i
          BY <1>1, <4>1, <5>1
        <5>3. QED
          BY <2>1, <2>3, <5>1, <5>2
      <4>2. \A i \in UsedIn(s) : i \in Nat
        BY SlotsAreFinite DEF s
      <4>3. QED
        BY <1>1, <4>1, <4>2
    <3>3. QED
      BY <3>1, <3>2, GivenAll DEF s, p
  <2>4. CASE t.is # "free" /\ Wraps(cursor.lfn, t)
    <3>1. r.st = "panic"
      BY <1>5, <2>4 DEF Slotted, Step
    <3>2. QED
      BY <3>1
  <2>5. CASE t.is = "part" /\ ~Wraps(cursor.lfn, t)
    <3> DEFINE to == [past EXCEPT !.lfn = Pushed(cursor.lfn, t)]
    <3>1. r.st = "more" /\ r.cur = to
      BY <1>5, <2>5 DEF Slotted, Step, Skips, past
    <3>2. /\ to.c = cursor.c /\ to.at = cursor.at + 1 /\ to.steps = cursor.steps
          /\ to.done = cursor.done /\ to.lfn = Pushed(cursor.lfn, t)
      BY <1>1, <2>2
    <3> HIDE DEF to
    <3>3. NameIs(to.lfn, s, p + 1)
      BY <1>1, <2>1, <2>5, <3>2, NamePushed
    <3>4. Len(given) = Len(given) + IF s[p + 1].is = "entry" THEN 1 ELSE 0
      <4>1. Len(given) \in Nat
        <5>1. CASE given = <<>>
          BY <5>1
        <5>2. CASE given # <<>>
          BY <5>2, ItemsAre DEF Given
        <5>3. QED
          BY <5>1, <5>2
      <4>2. QED
        BY <2>1, <2>5, <4>1
    <3>5. ListedTo(to, given)
      BY <1>1, <1>5, <2>1, <2>5, <3>2, <3>3, <3>4, PassedOn DEF s, p
    <3>6. QED
      BY <3>1, <3>5
  <2>6. CASE t.is \notin {"free", "part", "entry"} /\ ~Wraps(cursor.lfn, t)
    <3>1. r.st = "more" /\ r.cur = past
      BY <1>5, <2>6 DEF Slotted, Step, Skips, past
    <3>2. NameIs(past.lfn, s, p + 1)
      BY <1>1, <2>1, <2>2, <2>6, NameLost
    <3>3. Len(given) = Len(given) + IF s[p + 1].is = "entry" THEN 1 ELSE 0
      <4>1. Len(given) \in Nat
        <5>1. CASE given = <<>>
          BY <5>1
        <5>2. CASE given # <<>>
          BY <5>2, ItemsAre DEF Given
        <5>3. QED
          BY <5>1, <5>2
      <4>2. QED
        BY <2>1, <2>6, <4>1
    <3>4. ListedTo(past, given)
      <4>1. /\ past.c = cursor.c /\ past.steps = cursor.steps /\ past.at = cursor.at + 1
            /\ ~past.done /\ s[p + 1].is # "free"
        BY <1>1, <2>1, <2>2, <2>6
      <4>2. QED
        BY <1>5, <3>2, <3>3, <4>1, PassedOn DEF s, p
    <3>5. QED
      BY <3>1, <3>4
  <2>7. CASE t.is = "entry" /\ ~Wraps(cursor.lfn, t)
    <3>1. r.st = "ok" /\ r.cur = past /\ r.item = Listed(t, cursor.lfn)
      BY <1>5, <2>7 DEF Slotted, Step, past
    <3>2. NameIs(past.lfn, s, p + 1)
      BY <1>1, <2>1, <2>2, <2>7, NameLost
    <3>3. /\ Len(given) \in Nat /\ Len(given) + 1 <= Len(Items(Root))
          /\ r.item = Items(Root)[Len(given) + 1]
      BY <1>5, <2>7, <3>1, GivesTheNext DEF t
    <3>4. /\ Given(Append(given, r.item))
          /\ Len(Append(given, r.item)) = Len(given) + IF s[p + 1].is = "entry" THEN 1 ELSE 0
      BY <2>1, <2>7, <3>3, GivenMore
    <3> DEFINE more == Append(given, r.item)
    <3>5. ListedTo(past, more)
      <4>1. /\ past.c = cursor.c /\ past.steps = cursor.steps /\ past.at = cursor.at + 1
            /\ ~past.done /\ s[p + 1].is # "free"
        BY <1>1, <2>1, <2>2, <2>7
      <4> HIDE DEF more
      <4>2. Len(more) = Len(given) + IF s[p + 1].is = "entry" THEN 1 ELSE 0
        BY <3>4 DEF more
      <4>3. QED
        BY <1>5, <3>2, <4>1, <4>2, PassedOn DEF s, p
    <3>6. QED
      BY <3>1, <3>4, <3>5
  <2>8. QED
    BY <2>3, <2>4, <2>5, <2>6, <2>7
<1>6. QED
  BY <1>2, <1>3, <1>4, <1>5 DEF Went

------------------------------------------------------------------------------
(* A step of the reader, and what has been listed.                         *)

\* What a listing is to give, and has given, is said by the volume.
LEMMA SameListed ==
    ASSUME mounted' = mounted
    PROVE  /\ \A g : Given(g)' <=> Given(g)
           /\ \A cursor, g : ListedTo(cursor, g)' <=> ListedTo(cursor, g)
           /\ Items(Root)' = Items(Root)
<1>1. /\ \A c, k : Kth(c, k)' = Kth(c, k)
      /\ disk' = disk /\ vol' = vol
  BY SameVolume
<1>2. SlotsOf(Root)' = SlotsOf(Root)
  BY <1>1 DEF SlotsOf
<1>3. Items(Root)' = Items(Root)
  BY <1>2 DEF Items
<1>4. \A g : Given(g)' <=> Given(g)
  BY <1>3 DEF Given
<1>5. \A cursor : Place(cursor)' = Place(cursor)
  BY <1>1 DEF Place, Length
<1>6. \A cursor, g : ListedTo(cursor, g)' <=> ListedTo(cursor, g)
  BY <1>2, <1>5 DEF ListedTo
<1>7. QED
  BY <1>3, <1>4, <1>6

\* A step of a volume in use is right by its listing when what it leaves is.
LEMMA ListsRight ==
    ASSUME stage = "up", mounted' = mounted,
           listed' # <<>> => Given(listed'),
           IF list' = NoCursor THEN listed' = <<>> ELSE ListedTo(list', listed'),
           doing' = "give" => ListedTo(look'.cur, listed'),
           out'.op = "list" /\ out'.st = "end" => Len(listed') = Len(Items(Root))
    PROVE  ListInv'
<1>1. stage' = "up"
  BY SameVolume
<1>2. Listings'
  BY SameListed DEF Listings
<1>3. QED
  BY <1>1, <1>2 DEF ListInv

\* A step that is no listing's.
Away == doing' # "give" /\ (out' = out \/ out'.op # "list")

\* Such a step keeps what is so of the listings.
LEMMA ListsStay ==
    ASSUME ListInv, stage = "up", mounted' = mounted, listed' = listed, list' = list, Away
    PROVE  ListInv'
<1>1. Listings
  BY DEF ListInv
<1>2. out'.op = "list" /\ out'.st = "end" => Len(listed') = Len(Items(Root))
  BY <1>1 DEF Listings, Away
<1>3. IF list' = NoCursor THEN listed' = <<>> ELSE ListedTo(list', listed')
  BY <1>1 DEF Listings
<1>4. listed' # <<>> => Given(listed')
  BY <1>1 DEF Listings
<1>5. QED
  BY <1>2, <1>3, <1>4, ListsRight DEF Away

\* The end of another call is.
LEMMA ReturnsAway ==
    ASSUME NEW op, op # "list", NEW st, NEW of, NEW pos, NEW data, Returns(op, st, of, pos, data)
    PROVE  Away
<1>1. doing' \in {"idle", "panic"} /\ out'.op = op
  BY DEF Returns
<1>2. QED
  BY <1>1 DEF Away

\* No answer is no listing's.
LEMMA NoOutAway ==
    ASSUME out' = NoOut, doing' # "give" PROVE Away
  BY DEF Away, NoOut

\* A read in hand is a read's or a load's.
LEMMA WalkOp ==
    ASSUME EspInv, doing \in {"seek", "run", "fetch", "whole"}
    PROVE  walk.op \in {"read", "load"}
<1>1. Reading(walk, doing, file)
  BY ReadFacts
<1>2. QED
  BY <1>1 DEF Reading

\* A link followed for one is no listing's step.
LEMMA LinkAway ==
    ASSUME EspInv, doing \in {"seek", "run", "fetch", "whole"}, NEW r, NEW w, Link(r, w)
    PROVE  Away
<1>1. CASE \E st : Fail(st)
  <2>1. PICK st : Returns(walk.op, st, walk.of, walk.pos, <<>>)
    BY <1>1 DEF Fail
  <2>2. walk.op # "list"
    BY WalkOp
  <2>3. QED
    BY <2>1, <2>2, ReturnsAway
<1>2. CASE doing' = doing /\ out' = out
  BY <1>2 DEF Away
<1>3. QED
  BY <1>1, <1>2 DEF Link

\* Nor is a load's beginning.
LEMMA WholeAway ==
    ASSUME NEW e, Whole(e) PROVE Away
<1>1. ASSUME NEW st, Returns("load", st, e, 0, <<>>) PROVE Away
  BY <1>1, ReturnsAway
<1>2. CASE doing' = "whole" /\ out' = NoOut
  BY <1>2, NoOutAway
<1>3. QED
  BY <1>1, <1>2 DEF Whole

\* Nor is a lookup's step.
LEMMA LooksAway ==
    ASSUME EspInv, doing = "look", NEW r, Looks(r) PROVE Away
<1>1. look.op # "list"
  BY UpFacts DEF InUse, LookIs
<1>2. ASSUME NEW st, NEW of, Returns(look.op, st, of, 0, <<>>) PROVE Away
  BY <1>1, <1>2, ReturnsAway
<1>3. CASE UNCHANGED <<doing, walk, out, file>>
  BY <1>3 DEF Away
<1>4. ASSUME NEW e, Found(e) PROVE Away
  <2>1. CASE Whole(e)
    BY <2>1, WholeAway
  <2>2. CASE Returns("open", "ok", e, 0, <<>>)
    BY <2>2, ReturnsAway
  <2>3. QED
    BY <1>2, <1>3, <1>4, <2>1, <2>2 DEF Found
<1>5. QED
  BY <1>2, <1>3, <1>4 DEF Looks

\* The steps of the other calls are none.
LEMMA OtherSteps ==
    ASSUME EspInv, StartFind \/ Look \/ Seek \/ StartRead \/ SeekOn \/ RunOn \/ FetchFails \/ Fetch
                   \/ WholeOn \/ WholeFetch
    PROVE  stage = "up" /\ mounted' = mounted /\ listed' = listed /\ list' = list /\ Away
<1>1. mounted' = mounted /\ listed' = listed /\ list' = list
  BY DEF StartFind, Look, Seek, StartRead, SeekOn, RunOn, FetchFails, Fetch, WholeOn, WholeFetch
<1>2. stage = "up"
  BY UpFacts DEF StartFind, Look, Seek, StartRead, SeekOn, RunOn, FetchFails, Fetch, WholeOn,
     WholeFetch, MayCall, Idle
<1>3. Away
  <2>1. CASE StartFind
    BY <2>1, NoOutAway DEF StartFind
  <2>2. CASE Look
    BY <2>2, LooksAway DEF Look
  <2>3. CASE Seek
    BY <2>3 DEF Seek, MayCall, Idle, Away
  <2>4. CASE StartRead
    <3>1. ASSUME NEW st, Returns("read", st, file.of, file.pos, <<>>) PROVE Away
      BY <3>1, ReturnsAway
    <3>2. CASE doing' = "seek" /\ out' = NoOut
      BY <3>2, NoOutAway
    <3>3. QED
      BY <2>4, <3>1, <3>2 DEF StartRead
  <2>5. CASE SeekOn
    <3>1. CASE \E r \in Next1(walk.c) : Link(r, [walk EXCEPT !.idx = @ + 1, !.c = r.c])
      BY <2>5, <3>1, LinkAway DEF SeekOn
    <3>2. CASE doing' = "run" /\ out' = out
      BY <3>2 DEF Away
    <3>3. QED
      BY <2>5, <3>1, <3>2 DEF SeekOn
  <2>6. CASE RunOn
    <3>1. CASE \E r \in Next1(walk.c) :
                   Link(r, [walk EXCEPT !.idx = @ + 1, !.c = r.c, !.span = @ + vol.spc])
      BY <2>6, <3>1, LinkAway DEF RunOn
    <3>2. CASE doing' \in {"run", "fetch"} /\ out' = out
      BY <3>2 DEF Away
    <3>3. QED
      BY <2>6, <3>1, <3>2 DEF RunOn
  <2>7. ASSUME doing \in {"fetch", "whole"}, NEW st, Fail(st) PROVE Away
    <3>1. Returns(walk.op, st, walk.of, walk.pos, <<>>) /\ walk.op # "list"
      BY <2>7, WalkOp DEF Fail
    <3>2. QED
      BY <3>1, ReturnsAway
  <2>8. CASE FetchFails
    BY <2>7, <2>8 DEF FetchFails
  <2>9. CASE Fetch
    <3>1. CASE Returns("read", "ok", walk.of, walk.pos, Fetched)
      BY <3>1, ReturnsAway
    <3>2. CASE doing' = "run" /\ out' = out
      BY <3>2 DEF Away
    <3>3. QED
      BY <2>7, <2>9, <3>1, <3>2 DEF Fetch
  <2>10. CASE WholeOn
    BY <2>10, LinkAway DEF WholeOn
  <2>11. CASE WholeFetch
    <3>1. CASE Returns("load", "ok", walk.of, 0, Fetched)
      BY <3>1, ReturnsAway
    <3>2. CASE doing' = doing /\ out' = out
      BY <2>11, <3>2 DEF WholeFetch, Away
    <3>3. QED
      BY <2>11, <3>1, <3>2 DEF WholeFetch
  <2>12. QED
    BY <2>1, <2>2, <2>3, <2>4, <2>5, <2>6, <2>8, <2>9, <2>10, <2>11
<1>4. QED
  BY <1>1, <1>2, <1>3

\* Nothing has been passed at the root's first slot.
LEMMA NothingListed ==
    ASSUME Laid, Says
    PROVE  ListedTo(Cursor(Root), <<>>)
<1> DEFINE cursor == Cursor(Root)
           s == SlotsOf(Root)
<1>1. /\ cursor.at = 0 /\ cursor.steps = 0 /\ cursor.done = FALSE /\ cursor.lfn = NoLfn
  BY DEF Cursor, NoCursor
<1>2. Place(cursor) = 0
  <2>1. Length(cursor) \in Nat
    BY RootIs, LengthIs DEF CursorOK
  <2>2. 0 * Length(cursor) + 0 = 0
    BY <2>1
  <2>3. QED
    BY <1>1, <2>2 DEF Place
<1>3. NameIs(NoLfn, s, 0)
  <2>1. NoLfn.ok = FALSE /\ DOMAIN NoLfn = {"ok", "expect", "sum", "text"}
    BY DEF NoLfn
  <2>2. ASSUME NEW n \in 1 .. 20, NEW e \in 0 .. 19, EndsWith(s, 0, n, e) PROVE FALSE
    <3>1. e \in 0 .. n - 1 /\ n - e <= 0
      BY <2>2 DEF EndsWith
    <3>2. QED
      BY <3>1
  <2>3. QED
    BY <2>1, <2>2 DEF NameIs
<1>4. UpTo(UsedIn(s), 0) = {}
  <2>1. UsedIn(s) \subseteq Nat \ {0}
    BY SlotsAreFinite DEF UsedIn
  <2>2. \A i \in UsedIn(s) : ~(i <= 0)
    BY <2>1
  <2>3. QED
    BY <2>2 DEF UpTo
<1>5. Cardinality(UpTo(UsedIn(s), 0)) = Len(<<>>)
  BY <1>4, FS_EmptySet
<1> HIDE DEF cursor, s
<1>6. \A i \in 1 .. 0 : s[i].is # "free"
  OBVIOUS
<1>7. QED
  BY <1>1, <1>2, <1>3, <1>5, <1>6 DEF ListedTo, cursor, s

\* A listing's cursor is one.
LEMMA CursorIsOne ==
    ASSUME NEW cursor, CursorOK(cursor, Root) PROVE cursor # NoCursor
<1>1. cursor.c \in Nat
  BY DEF CursorOK
<1>2. NoCursor.c = -1
  BY DEF NoCursor, Nowhere
<1>3. QED
  BY <1>1, <1>2

\* Where a listing goes on from.
LEMMA ListedSoFar ==
    ASSUME EspInv, ListInv, stage = "up"
    PROVE  ListedTo(IF list = NoCursor THEN Cursor(Root) ELSE list, listed)
<1>1. Laid /\ Says /\ Listings
  BY UpFacts DEF ListInv
<1>2. CASE list = NoCursor
  BY <1>1, <1>2, NothingListed DEF Listings
<1>3. CASE list # NoCursor
  BY <1>1, <1>3 DEF Listings
<1>4. QED
  BY <1>2, <1>3

\* A listing that begins, or goes on, has the entry after those given before it.
LEMMA StartListLists == ASSUME EspInv, ListInv, StartList PROVE ListInv'
<1>1. /\ stage = "up" /\ mounted' = mounted /\ listed' = listed /\ list' = list /\ out' = NoOut
      /\ look' = [NoLook EXCEPT !.op = "list", !.cur = IF list = NoCursor THEN Cursor(Root) ELSE list]
  BY DEF StartList, MayCall, Idle
<1>2. look'.cur = IF list = NoCursor THEN Cursor(Root) ELSE list
  BY <1>1 DEF NoLook
<1>3. ListedTo(look'.cur, listed')
  BY <1>1, <1>2, ListedSoFar
<1>4. out'.op # "list"
  BY <1>1 DEF NoOut
<1>5. Listings
  BY <1>1 DEF ListInv
<1>6. /\ listed' # <<>> => Given(listed')
      /\ IF list' = NoCursor THEN listed' = <<>> ELSE ListedTo(list', listed')
  BY <1>1, <1>5 DEF Listings
<1>7. QED
  BY <1>1, <1>3, <1>4, <1>6, ListsRight

\* A rewound listing has given nothing.
LEMMA RewindLists == ASSUME EspInv, ListInv, Rewind PROVE ListInv'
<1>1. /\ stage = "up" /\ mounted' = mounted /\ listed' = <<>> /\ list' = NoCursor /\ out' = NoOut
      /\ doing' = "idle"
  BY DEF Rewind, MayCall, Idle
<1>2. out'.op # "list"
  BY <1>1 DEF NoOut
<1>3. QED
  BY <1>1, <1>2, ListsRight

\* A listing goes on, gives the next entry or keeps its place when that does not
\* fit or a read fails, and ends when all have been given.
LEMMA GiveLists == ASSUME EspInv, ListInv, Give PROVE ListInv'
<1>1. doing = "give" /\ stage = "up" /\ mounted' = mounted
  BY UpFacts DEF Give
<1>2. Laid /\ Says /\ InUse /\ CachesOK /\ Listings
  BY <1>1, UpFacts DEF ListInv
<1>3. PICK a \in Advance(look.cur) : Gives(a.step)
  BY DEF Give
<1>4. /\ DOMAIN look = {"op", "path", "dir", "cur"} /\ DirOK(Root) /\ CursorOK(look.cur, Root)
      /\ ListIs(list)
  BY <1>1, <1>2 DEF InUse, LookIs
<1>5. /\ ListedTo(look.cur, listed) /\ (listed # <<>> => Given(listed))
      /\ IF list = NoCursor THEN listed = <<>> ELSE ListedTo(list, listed)
  BY <1>1, <1>2 DEF Listings
<1> DEFINE r == a.step
           Over(st) == Returns("list", st, Root, 0, <<>>)
           Answered(st) == doing' # "give" /\ out'.st = st
<1>6. Went(look.cur, Root, r)
  BY <1>2, <1>4, <1>5, AdvanceWent DEF ListedTo
<1>7. Advances(a, Root)
  BY <1>2, <1>4, AdvanceAdvances
<1>8. /\ r.st \in {"more", "ok", "end", "corrupt", "io", "panic"}
      /\ r.st \in {"more", "ok", "end"} => CursorOK(r.cur, Root)
  BY <1>7 DEF Advances
<1>9. /\ r.st = "more" => ListedTo(r.cur, listed)
      /\ r.st = "ok" => /\ Given(Append(listed, r.item))
                        /\ ListedTo(r.cur, Append(listed, r.item))
      /\ r.st = "end" => Len(listed) = Len(Items(Root))
  BY <1>2, <1>4, <1>5, <1>6, StepLists
<1>10. ASSUME NEW st, Over(st) PROVE Answered(st)
  BY <1>10 DEF Returns
<1>11. \/ /\ r.st = "more" /\ look' = [look EXCEPT !.cur = r.cur]
          /\ UNCHANGED <<doing, walk, out, list, listed>>
       \/ /\ r.st = "ok"
          /\ \E fits \in BOOLEAN :
                 /\ list' = Kept(r.cur, fits)
                 /\ listed' = IF fits THEN Append(listed, r.item) ELSE listed
                 /\ Over(IF fits THEN "ok" ELSE "too small")
       \/ /\ r.st \in {"end", "corrupt", "io", "panic"} /\ Over(r.st)
          /\ list' = list /\ listed' = listed
  BY <1>3, <1>8 DEF Gives
<1> HIDE DEF r, Over
<1>12. CASE /\ r.st = "more" /\ look' = [look EXCEPT !.cur = r.cur]
            /\ UNCHANGED <<doing, walk, out, list, listed>>
  <2>1. look'.cur = r.cur
    BY <1>4, <1>12
  <2>2. out'.op = "list" /\ out'.st = "end" => Len(listed') = Len(Items(Root))
    BY <1>2, <1>12 DEF Listings
  <2>3. QED
    BY <1>1, <1>5, <1>9, <1>12, <2>1, <2>2, ListsRight
<1>13. CASE r.st \in {"end", "corrupt", "io", "panic"} /\ Over(r.st) /\ list' = list /\ listed' = listed
  <2>1. Answered(r.st)
    BY <1>10, <1>13
  <2>2. QED
    BY <1>1, <1>5, <1>9, <1>13, <2>1, ListsRight
<1>14. ASSUME r.st = "ok", NEW fits \in BOOLEAN, list' = Kept(r.cur, fits),
              listed' = IF fits THEN Append(listed, r.item) ELSE listed,
              Over(IF fits THEN "ok" ELSE "too small")
       PROVE  ListInv'
  <2>1. CASE fits
    <3>1. list' = r.cur /\ listed' = Append(listed, r.item) /\ Answered("ok")
      BY <1>10, <1>14, <2>1 DEF Kept
    <3>2. list' # NoCursor
      BY <1>8, <1>14, <3>1, CursorIsOne
    <3>3. ListedTo(list', listed') /\ Given(listed')
      BY <1>9, <1>14, <3>1
    <3>4. QED
      BY <1>1, <3>1, <3>2, <3>3, ListsRight
  <2>2. CASE ~fits
    <3>1. /\ list' = IF list = NoCursor THEN Cursor(Root) ELSE list
          /\ listed' = listed /\ Answered("too small")
      BY <1>10, <1>14, <2>2 DEF Kept
    <3>2. list' # NoCursor
      BY <1>2, <3>1, RootIs, CursorIsOne
    <3>3. ListedTo(list', listed')
      BY <1>1, <3>1, ListedSoFar
    <3>4. QED
      BY <1>1, <1>5, <3>1, <3>2, <3>3, ListsRight
  <2>3. QED
    BY <2>1, <2>2
<1>15. QED
  BY <1>11, <1>12, <1>13, <1>14

\* Nothing is listed before the mount.
LEMMA MountLists == ASSUME EspInv, ListInv, FindEsp \/ Mount PROVE ListInv'
<1>1. listed = <<>> /\ Unread
  BY DEF FindEsp, Mount, EspInv, ListInv
<1>2. listed' = listed /\ list' = list /\ doing' = doing /\ out' = out
  BY DEF FindEsp, Mount
<1>3. list' = NoCursor /\ doing' # "give" /\ out'.op # "list"
  BY <1>1, <1>2 DEF Unread, NoOut
<1>4. Listings'
  BY <1>1, <1>2, <1>3 DEF Listings
<1>5. QED
  BY <1>1, <1>2, <1>4 DEF ListInv

\* Every step of the reader keeps what is so of its listings.
LEMMA ListSteps == ASSUME EspInv, ListInv, [EspNext]_espVars PROVE ListInv'
<1>1. CASE FindEsp \/ Mount
  BY <1>1, MountLists
<1>2. CASE StartList
  BY <1>2, StartListLists
<1>3. CASE Give
  BY <1>3, GiveLists
<1>4. CASE Rewind
  BY <1>4, RewindLists
<1>5. CASE StartFind \/ Look \/ Seek \/ StartRead \/ SeekOn \/ RunOn \/ FetchFails \/ Fetch
           \/ WholeOn \/ WholeFetch
  <2>1. stage = "up" /\ mounted' = mounted /\ listed' = listed /\ list' = list /\ Away
    BY <1>5, OtherSteps
  <2>2. QED
    BY <2>1, ListsStay
<1>6. CASE UNCHANGED espVars
  <2>1. /\ mounted' = mounted /\ listed' = listed /\ list' = list /\ out' = out /\ doing' = doing
        /\ stage' = stage /\ look' = look
    BY <1>6 DEF espVars, mounted
  <2>2. CASE stage = "up"
    <3>1. Listings
      BY <2>2 DEF ListInv
    <3>2. /\ listed' # <<>> => Given(listed')
          /\ IF list' = NoCursor THEN listed' = <<>> ELSE ListedTo(list', listed')
          /\ doing' = "give" => ListedTo(look'.cur, listed')
          /\ out'.op = "list" /\ out'.st = "end" => Len(listed') = Len(Items(Root))
      BY <2>1, <3>1 DEF Listings
    <3>3. QED
      BY <2>1, <2>2, <3>2, ListsRight
  <2>3. CASE stage # "up"
    BY <2>1, <2>3 DEF ListInv
  <2>4. QED
    BY <2>2, <2>3
<1>7. QED
  BY <1>1, <1>2, <1>3, <1>4, <1>5, <1>6 DEF EspNext

\* A listing gives every entry once and in order, each under its own name,
\* whatever did not fit or failed in between; and it ends when it has given all.
THEOREM ListsAlwaysAll == EspSpec => []ListsThemAll
<1>1. EspInit => EspInv /\ ListInv
  <2>1. EspInit => ListInv
    BY DEF EspInit, ListInv
  <2>2. QED
    BY <2>1, EspStarts
<1>2. EspInv /\ ListInv /\ [EspNext]_espVars => EspInv' /\ ListInv'
  BY EspSteps, ListSteps
<1>3. ASSUME EspInv, ListInv PROVE ListsThemAll
  <2>1. CASE stage = "up"
    <3>1. Listings /\ Laid /\ Says
      BY <1>3, <2>1, UpFacts DEF ListInv
    <3>2. ASSUME listed # <<>>
          PROVE  /\ Len(listed) <= Len(Items(Root))
                 /\ \A k \in DOMAIN listed : listed[k] = Items(Root)[k]
      <4> DEFINE items == Items(Root)
                 n == Len(listed)
      <4>1. n \in 0 .. Len(items) /\ listed = [k \in 1 .. n |-> items[k]] /\ Len(items) \in Nat
        BY <3>1, <3>2, ItemsAre DEF Listings, Given
      <4> HIDE DEF items, n
      <4>2. n <= Len(items) /\ \A k \in DOMAIN listed : listed[k] = items[k]
        BY <4>1
      <4>3. QED
        BY <4>2 DEF items, n
    <3>3. QED
      BY <3>1, <3>2 DEF ListsThemAll, Listings
  <2>2. CASE stage # "up"
    <3>1. listed = <<>> /\ out = NoOut
      BY <1>3, <2>2 DEF ListInv, EspInv, Unread
    <3>2. QED
      BY <3>1 DEF ListsThemAll, NoOut
  <2>3. QED
    BY <2>1, <2>2
<1>4. QED
  BY <1>1, <1>2, <1>3, PTL DEF EspSpec
==============================================================================
