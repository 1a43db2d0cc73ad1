---------------------------- MODULE ConsoleProofs ----------------------------
(***************************************************************************)
(* Theorems about Console, for any machines, any number of NICs, any room  *)
(* in the log, the panel and its queue of keys, and any patience of the    *)
(* watch.                                                                  *)
(***************************************************************************)
EXTENDS Console, Integers, TLAPS

\* What the constants are: every room and every bound is at least one.
LEMMA Sizes ==
    /\ KeepLines \in Nat \ {0} /\ KeepPanel \in Nat \ {0} /\ KeyRoom \in Nat \ {0}
    /\ OfferTurns \in Nat \ {0} /\ PressTurns \in Nat \ {0}
    /\ First \in Nat \ {0} /\ Again \in Nat \ {0} /\ MaxTime \in Nat \ {0}
    /\ 0 \in Nics /\ NoNic \notin Nics /\ Cases \subseteq Machines
  BY KeepLinesAssumption, PanelAssumption, WatchAssumption, ConsoleAssumption

------------------------------------------------------------------------------
(* What is true in every state.                                            *)

\* The type invariant in the parts its proof goes by.
FlowTypeOK ==
    /\ machine \in Cases
    /\ phase \in Phases
    /\ leased \in BOOLEAN /\ asked \in BOOLEAN
    /\ left \in 0 .. OfferTurns + PressTurns
    /\ typed \in 0 .. MaxTyped

ChainTypeOK == /\ {conout, under} \subseteq {"firmware", "log", "panel"}
               /\ hooked \in BOOLEAN

DrawingTypeOK ==
    /\ out \in [stage : {"none", "copy", "draw"}, ends : BOOLEAN]
    /\ shown \in 0 .. KeepPanel
    /\ busy \in BOOLEAN /\ dirty \in BOOLEAN

KeysTypeOK ==
    /\ queue \in Seq(Keys) /\ Len(queue) <= KeyRoom
    /\ stdin \in Seq(Keys) /\ Len(stdin) <= MaxWaiting
    /\ details \in BOOLEAN /\ ours \in BOOLEAN /\ pressed \in BOOLEAN

ScreenTypeOK == screen \in {"firmware", "steps", "lines"}

StepsTypeOK == steps \in [Steps -> States]

\* The hooks stand as they were put: the log's while it is kept, the panel's above
\* it, the watch's timer from the boot to the release, and the panel leaves a
\* bootloader its keys.
Hooked ==
    /\ hooked = (phase \notin {"start", "firmware"})
    /\ hooked <=> conout # "firmware"
    /\ Installed => machine.screen
    /\ machine.screen /\ phase \notin {"start", "early", "chained", "firmware"}
         => under = "log"
    /\ phase \in {"early", "chained", "local", "ended", "reset"} => ~Installed
    /\ ~Installed => screen = "firmware"
    /\ phase \in {"start", "early", "chained", "last", "local", "ending", "ended",
                  "firmware"} => ~armed
    /\ phase = "image" => ~ours

\* main goes on when a send is over and a statement done, and an offer has turns
\* left.
Underway ==
    /\ flush # "no" => phase \in {"boot", "hold", "fall", "late"}
    /\ does # "idle" => phase \in {"boot", "hold", "fall", "late", "last", "shell"}
    /\ phase = "offer" => left \in 1 .. OfferTurns
    /\ phase = "pressed" => left \in 1 .. PressTurns

\* The lines that wait are those after what the network was told of.
Logged ==
    ~off => /\ ~gap
            /\ heard + dropped + Len(lines) = ended
            /\ \A i \in 1 .. Len(lines) : lines[i] = heard + dropped + i

\* What is marked is the call being made, and a report is of a call not over.
Marked ==
    /\ inside = NoCall <=> does \in {"idle", "mid"}
    /\ inside # NoCall => inside.nic \in Nics
    /\ mark.call => does = "call"
    /\ does \in {"enter2", "enter3", "call", "leave"} => mark.since = inside.since
    /\ does \in {"enter3", "call", "leave"} => mark.nic = inside.nic
    /\ report # NoCall => /\ report = inside /\ mark.told # 0
                          /\ does \in {"call", "leave"}
    /\ mark.since <= now /\ inside.since <= now

\* A line of this binary's is ended before a call is made, and the panel is busy
\* while it draws.
Whole ==
    /\ ~torn /\ "watch" \notin part
    /\ "ours" \in part => does = "mid"
    /\ ~dirty
    /\ out.stage = "draw" => busy

\* The inductive invariant.
InOrder == TypeOK /\ Hooked /\ Underway /\ Logged /\ Marked /\ Whole

\* TypeOK is the types of the eight groups of variables together.
LEMMA TypeParts ==
    TypeOK <=> /\ FlowTypeOK /\ LogTypeOK /\ WatchTypeOK /\ ChainTypeOK
               /\ DrawingTypeOK /\ KeysTypeOK /\ ScreenTypeOK /\ StepsTypeOK
<1>1. PanelTypeOK <=> /\ ChainTypeOK /\ DrawingTypeOK /\ KeysTypeOK
                      /\ ScreenTypeOK /\ StepsTypeOK
  BY Zenon DEF PanelTypeOK, ChainTypeOK, DrawingTypeOK, KeysTypeOK, ScreenTypeOK,
     StepsTypeOK
<1>2. QED
  BY <1>1, Zenon DEF TypeOK, FlowTypeOK

------------------------------------------------------------------------------
(* What a step does to the log, the call and the chain of hooks.           *)

\* A piece of text comes to the log.
Kept(by, ends) ==
    /\ Counted(hooked, ends)
    /\ IF conout = "firmware" THEN NotCaptured ELSE Capture(by, ends)
    /\ UNCHANGED <<off, heard, gap>>

\* Every piece this binary prints is a line it begins or the end of one, and
\* the watch only speaks in the middle of a call.
Speaks ==
    \/ Kept("ours", FALSE) /\ does' = "mid"
    \/ Kept("ours", TRUE) /\ does = "mid" /\ does' = "idle"
    \/ \E by \in {"driver", "image"}, ends \in BOOLEAN : Kept(by, ends) /\ does' = does
    \/ Kept("watch", TRUE) /\ mark.call /\ does' = does

LogStands == UNCHANGED <<off, lines, part, dropped, ended, heard, gap, torn>>

\* A step says a line, sends a batch, or leaves the log as it is.
LEMMA WhatIsLogged ==
    ASSUME [Next]_vars
    PROVE  \/ Speaks
           \/ LogStands /\ (does = "mid" => does' = "mid")
           \/ Take /\ UNCHANGED <<off, part, ended, torn, does>>
<1>1. CASE PrintLine
  BY <1>1, Zenon DEF PrintLine, Say, Output, NotSaid, Speaks, Kept
<1>2. CASE LineEnds
  BY <1>2, Zenon DEF LineEnds, EndLine, Say, Output, NotSaid, Speaks, Kept
<1>3. CASE DriverSays
  <2>1. PICK ends \in BOOLEAN : Say("driver", ends)
    BY <1>3, Zenon DEF DriverSays, DriverPrints
  <2>2. Kept("driver", ends) /\ does' = does
    BY <1>3, <2>1, Zenon DEF DriverSays, DriverPrints, Say, Output, NotSaid, Kept,
       watchVars
  <2>3. QED
    BY <2>2, Zenon DEF Speaks
<1>4. CASE ImagePrints
  <2>1. PICK ends \in BOOLEAN : Say("image", ends)
    BY <1>4, Zenon DEF ImagePrints
  <2>2. Kept("image", ends) /\ does' = does
    BY <1>4, <2>1, Zenon DEF ImagePrints, Say, Output, NotSaid, Kept, watchVars,
       NotWatching
  <2>3. QED
    BY <2>2, Zenon DEF Speaks
<1>5. CASE Watch
  <2>1. CASE Tick
    BY <2>1, Zenon DEF Tick, Due, PrintAtNotify, NotSaid, Speaks, Kept
  <2>2. CASE Second
    BY <2>2, Zenon DEF Second, NotPrinting, logVars, LogStands
  <2>3. QED
    BY <1>5, <2>1, <2>2 DEF Watch
<1>6. CASE Return
  <2>1. CASE UNCHANGED logVars
    BY <1>6, <2>1, Zenon DEF Return, Drop, LogStands, logVars
  <2>2. CASE does' = "mid" /\ Say("ours", FALSE)
    BY <2>2, Zenon DEF Say, Output, NotSaid, Speaks, Kept
  <2>3. QED
    BY <1>6, <2>1, <2>2, Zenon DEF Return, Drop, NotPrinting
<1>7. CASE Lookup
  <2>1. CASE Output("ours", FALSE) /\ does' = "mid"
    BY <1>7, <2>1, Zenon DEF Lookup, Output, Speaks, Kept, logVars, LogKept
  <2>2. QED
    BY <1>7, <2>1, Zenon DEF Lookup, LogKept, LogStands, NotWatching, watchVars
<1>8. CASE SayWhere
  BY <1>8, Zenon DEF SayWhere, Say, Output, NotSaid, Speaks, Kept, LogStands,
     NotWatching, watchVars
<1>9. CASE Send
  BY <1>9, Zenon DEF Send, TakeAndSend, Sent, LogStands, NotWatching, watchVars
<1>10. CASE \/ Start \/ ChainLoad \/ OldReturns \/ Begin \/ Prints \/ Polls
            \/ Attach \/ StartImage \/ ImageReads \/ ImageReturns
            \/ HoldTurn \/ HoldRetries \/ HoldResets
            \/ OfferConsole \/ Turns \/ OpenConsole \/ ConsoleReads
            \/ StartLocal \/ LocalEnds \/ Type
  BY <1>10, Zenon DEF Start, ChainLoad, OldReturns, Begin, Prints, Polls, PollKey, Attach, StartImage,
     ImageReads, ImageReturns, HoldTurn, HoldRetries, HoldResets, OfferConsole,
     Turns, OfferTurn, PressTurn, OpenConsole, ConsoleReads, StartLocal, LocalEnds,
     Type, NotLogging, NotWatching, watchVars, logVars, LogStands
<1>11. CASE Ending
  BY <1>11, Zenon DEF Ending, Giving, NotLogging, NotWatching, watchVars, logVars,
     LogStands
<1>12. CASE ArmWatch \/ Release
  BY <1>12, Zenon DEF ArmWatch, Arm, Release, Close, NotPrinting, logVars, LogStands
<1>13. CASE Call
  BY <1>13, Zenon DEF Call, Enter, NotPrinting, logVars, LogStands
<1>14. CASE Lease \/ Flush \/ Hold \/ FallThrough \/ CloseConsole
  BY <1>14, Zenon DEF Lease, Flush, Hold, FallThrough, CloseConsole, LogKept,
     NotLogging, NotWatching, watchVars, logVars, LogStands
<1>15. CASE UNCHANGED vars
  BY <1>15, Zenon DEF vars, logVars, watchVars, LogStands
<1>16. QED
  BY <1>1, <1>2, <1>3, <1>4, <1>5, <1>6, <1>7, <1>8, <1>9, <1>10, <1>11, <1>12,
     <1>13, <1>14, <1>15, Zenon DEF Next
\* A send begins when a NIC holds a lease, and only its own steps take it on.
LEMMA HowASendGoes ==
    ASSUME [Next]_vars
    PROVE  \/ UNCHANGED <<flush, said, collector>>
           \/ FlushIf(leased) /\ UNCHANGED <<said, collector>>
           \/ Lookup /\ (UNCHANGED said)
           \/ (SayWhere \/ Send) /\ UNCHANGED collector
<1>1. CASE \/ Start \/ ChainLoad \/ OldReturns \/ Begin \/ Prints \/ Polls
           \/ Attach \/ StartImage \/ ImageReads \/ ImageReturns
           \/ HoldTurn \/ HoldRetries \/ HoldResets \/ Lease
           \/ OfferConsole \/ Turns \/ OpenConsole \/ ConsoleReads
           \/ StartLocal \/ LocalEnds \/ Type \/ Ending
  <2>1. NotLogging
    <3>1. CASE \/ Start \/ ChainLoad \/ OldReturns \/ Begin \/ Prints \/ Polls
               \/ Attach \/ StartImage \/ ImageReads \/ ImageReturns \/ Lease
      BY <3>1, Zenon DEF Start, ChainLoad, OldReturns, Begin, Prints, Polls, PollKey, Attach,
         StartImage, ImageReads, ImageReturns, Lease
    <3>2. CASE \/ HoldTurn \/ HoldRetries \/ HoldResets
               \/ OfferConsole \/ Turns \/ OpenConsole \/ ConsoleReads
      BY <3>2, Zenon DEF HoldTurn, HoldRetries, HoldResets, OfferConsole, Turns,
         OfferTurn, PressTurn, OpenConsole, ConsoleReads
    <3>3. CASE StartLocal \/ LocalEnds \/ Type \/ Ending
      BY <3>3, Zenon DEF StartLocal, LocalEnds, Type, Ending, Giving
    <3>4. QED
      BY <1>1, <3>1, <3>2, <3>3, Zenon
  <2>2. QED
    BY <2>1, Zenon DEF NotLogging, logVars
<1>2. CASE PrintLine \/ LineEnds \/ DriverSays \/ ImagePrints \/ Watch \/ Return
  BY <1>2, Zenon DEF PrintLine, LineEnds, EndLine, DriverSays, DriverPrints,
     ImagePrints, Watch, Tick, Second, Return, Drop, Say, NotSaid, NotSent,
     NotPrinting, logVars
<1>3. CASE Lookup \/ SayWhere \/ Send
  BY <1>3, Zenon DEF Lookup, LogKept, SayWhere, Say, NotSaid, Send, TakeAndSend, Sent
<1>4. CASE Flush \/ Hold \/ FallThrough \/ CloseConsole
  BY <1>4, Zenon DEF Flush, Hold, FallThrough, CloseConsole, LogKept
<1>5. CASE ArmWatch \/ Release \/ Call
  BY <1>5, Zenon DEF ArmWatch, Arm, Release, Call, Enter, NotPrinting, logVars
<1>6. CASE UNCHANGED vars
  BY <1>6, Zenon DEF vars, logVars
<1>7. QED
  BY <1>1, <1>2, <1>3, <1>4, <1>5, <1>6, Zenon DEF Next

------------------------------------------------------------------------------
(* The log.                                                                *)

\* The oldest goes when there is one more.
LEMMA OneMore ==
    ASSUME NEW s \in Seq(Nat), NEW n \in Nat
    PROVE  /\ Append(s, n) \in Seq(Nat) /\ Len(Append(s, n)) = Len(s) + 1
           /\ Tail(Append(s, n)) \in Seq(Nat) /\ Len(Tail(Append(s, n))) = Len(s)
           /\ \A i \in 1 .. Len(s) : Tail(Append(s, n))[i] = Append(s, n)[i + 1]
<1>1. Append(s, n) \in Seq(Nat) /\ Len(Append(s, n)) = Len(s) + 1 /\ Len(s) \in Nat
  OBVIOUS
<1> DEFINE all == Append(s, n)
<1> HIDE DEF all
<1>2. all \in Seq(Nat) /\ Len(all) = Len(s) + 1
  BY <1>1 DEF all
<1>3. /\ Tail(all) \in Seq(Nat) /\ Len(Tail(all)) = Len(s)
      /\ \A i \in 1 .. Len(s) : Tail(all)[i] = all[i + 1]
  BY <1>1, <1>2
<1>4. QED
  BY <1>1, <1>3 DEF all

\* Every step keeps the lines said accounted for: queued, sent, or counted as lost.
LEMMA LoggedStep ==
    ASSUME LogTypeOK, Hooked, Logged, [Next]_vars
    PROVE  Logged'
<1> SUFFICES ASSUME ~off'
             PROVE  /\ ~gap'
                    /\ heard' + dropped' + Len(lines') = ended'
                    /\ \A i \in 1 .. Len(lines') : lines'[i] = heard' + dropped' + i
  BY DEF Logged
<1>1. ~off
  BY WhatIsLogged, Zenon DEF Speaks, Kept, LogStands
<1>2. /\ ~gap /\ heard + dropped + Len(lines) = ended
      /\ \A i \in 1 .. Len(lines) : lines[i] = heard + dropped + i
      /\ heard \in Nat /\ dropped \in Nat /\ ended \in Nat
      /\ lines \in Seq(Nat) /\ Len(lines) \in Nat
  BY <1>1 DEF Logged, LogTypeOK
<1>3. CASE LogStands
  BY <1>2, <1>3 DEF LogStands
<1>4. CASE Take /\ UNCHANGED ended
  <2>1. /\ lines' = <<>> /\ dropped' = 0 /\ ended' = ended
        /\ heard' = heard + dropped + Len(lines)
    BY <1>4 DEF Take
  <2>2. lines # <<>> => Head(lines) = heard + dropped + 1
    BY <1>2
  <2>3. ~gap'
    BY <1>2, <1>4, <2>2, Zenon DEF Take
  <2>4. Len(lines') = 0 /\ heard' + dropped' + Len(lines') = ended'
    BY <1>2, <2>1
  <2>5. \A i \in 1 .. Len(lines') : lines'[i] = heard' + dropped' + i
    BY <2>4
  <2>6. QED
    BY <2>3, <2>4, <2>5, Zenon
<1>5. ASSUME NEW by, NEW ends \in BOOLEAN, Kept(by, ends)
      PROVE  /\ ~gap'
             /\ heard' + dropped' + Len(lines') = ended'
             /\ \A i \in 1 .. Len(lines') : lines'[i] = heard' + dropped' + i
  <2>1. heard' = heard /\ gap' = gap
    BY <1>5 DEF Kept
  <2>2. CASE conout = "firmware" \/ ~ends
    <3>1. lines' = lines /\ dropped' = dropped /\ ended' = ended
      BY <1>5, <2>2, Zenon DEF Kept, Counted, Capture, NotCaptured, Hooked
    <3>2. QED
      BY <1>2, <2>1, <3>1
  <2>3. CASE conout # "firmware" /\ ends
    <3> DEFINE all == Append(lines, ended')
    <3>1. /\ ended' = ended + 1
          /\ IF Len(all) <= KeepLines
             THEN lines' = all /\ dropped' = dropped
             ELSE lines' = Tail(all) /\ dropped' = dropped + 1
      BY <1>1, <1>5, <2>3 DEF Kept, Counted, Capture, KeepLine, Hooked
    <3>2. /\ all \in Seq(Nat) /\ Len(all) = Len(lines) + 1
          /\ \A i \in 1 .. Len(all) : all[i] = heard + dropped + i
      BY <1>2, <3>1
    <3>5. /\ Len(Tail(all)) = Len(lines)
          /\ \A i \in 1 .. Len(lines) : Tail(all)[i] = all[i + 1]
      BY <1>2, <3>1, OneMore
    <3> HIDE DEF all
    <3>3. CASE Len(all) <= KeepLines
      BY <1>2, <2>1, <3>1, <3>2, <3>3
    <3>4. CASE ~(Len(all) <= KeepLines)
      <4>1. /\ lines' = Tail(all) /\ dropped' = dropped + 1
            /\ Len(lines') = Len(lines)
            /\ \A i \in 1 .. Len(lines') : lines'[i] = all[i + 1]
        BY <1>2, <3>1, <3>4, <3>5
      <4>2. \A i \in 1 .. Len(lines') : i + 1 \in 1 .. Len(all)
        BY <1>2, <3>2, <4>1
      <4>3. \A i \in 1 .. Len(lines') : lines'[i] = heard + dropped + (i + 1)
        BY <3>2, <4>1, <4>2
      <4>4. /\ dropped' = dropped + 1 /\ ended' = ended + 1
            /\ Len(lines') = Len(lines) /\ heard' = heard
        BY <2>1, <3>1, <4>1
      <4>5. \A i \in 1 .. Len(lines') : lines'[i] = heard' + dropped' + i
        BY <1>2, <4>3, <4>4
      <4>6. heard' + dropped' + Len(lines') = ended'
        BY <1>2, <4>4
      <4>7. QED
        BY <1>2, <2>1, <4>5, <4>6, Zenon
    <3>6. QED
      BY <3>3, <3>4
  <2>4. QED
    BY <2>2, <2>3
<1>6. QED
  BY <1>3, <1>4, <1>5, WhatIsLogged DEF Speaks

\* Every step keeps the log in its types.
LEMMA LogTyped ==
    ASSUME LogTypeOK, [Next]_vars
    PROVE  LogTypeOK'
<1>1. /\ off' \in BOOLEAN /\ part' \subseteq Authors
      /\ lines' \in Seq(Nat) /\ Len(lines') <= KeepLines
      /\ dropped' \in Nat /\ ended' \in Nat /\ heard' \in Nat
      /\ gap' \in BOOLEAN /\ torn' \in BOOLEAN
  <2>1. /\ heard \in Nat /\ dropped \in Nat /\ ended \in Nat
        /\ lines \in Seq(Nat) /\ Len(lines) \in Nat /\ Len(lines) <= KeepLines
    BY DEF LogTypeOK
  <2>2. CASE LogStands
    BY <2>2, Zenon DEF LogStands, LogTypeOK
  <2>3. CASE Take /\ UNCHANGED <<off, part, ended, torn>>
    <3>1. lines' \in Seq(Nat) /\ Len(lines') <= KeepLines /\ dropped' \in Nat
          /\ heard' \in Nat
      BY <2>1, <2>3, Sizes DEF Take
    <3>2. gap' \in BOOLEAN
      BY <2>3, Zenon DEF Take, LogTypeOK
    <3>3. QED
      BY <2>3, <3>1, <3>2, Zenon DEF LogTypeOK
  <2>4. ASSUME NEW by \in Authors, NEW ends \in BOOLEAN, Kept(by, ends)
        PROVE  /\ off' \in BOOLEAN /\ part' \subseteq Authors
               /\ lines' \in Seq(Nat) /\ Len(lines') <= KeepLines
               /\ dropped' \in Nat /\ ended' \in Nat /\ heard' \in Nat
               /\ gap' \in BOOLEAN /\ torn' \in BOOLEAN
    <3>1. ended' \in Nat
      BY <2>1, <2>4 DEF Kept, Counted
    <3>2. torn' \in BOOLEAN
      BY <2>4, Zenon DEF Kept, NotCaptured, Capture, LogTypeOK
    <3>3. part' \subseteq Authors
      BY <2>4 DEF Kept, NotCaptured, Capture, LogTypeOK
    <3>4. /\ lines' \in Seq(Nat) /\ Len(lines') <= KeepLines /\ dropped' \in Nat
      <4>1. CASE lines' = lines /\ dropped' = dropped
        BY <2>1, <4>1
      <4>2. CASE KeepLine
        <5> DEFINE all == Append(lines, ended')
        <5>1. /\ all \in Seq(Nat) /\ Tail(all) \in Seq(Nat)
              /\ Len(Tail(all)) = Len(lines)
          BY <2>1, <3>1, OneMore
        <5>2. \/ lines' = lines /\ dropped' = dropped
              \/ lines' = all /\ dropped' = dropped /\ Len(all) <= KeepLines
              \/ lines' = Tail(all) /\ dropped' = dropped + 1
          BY <4>2, Zenon DEF KeepLine
        <5> HIDE DEF all
        <5>3. CASE lines' = lines /\ dropped' = dropped
          BY <2>1, <5>3
        <5>4. CASE lines' = all /\ dropped' = dropped /\ Len(all) <= KeepLines
          BY <2>1, <5>1, <5>4
        <5>5. CASE lines' = Tail(all) /\ dropped' = dropped + 1
          <6>1. dropped + 1 \in Nat
            BY <2>1
          <6>2. QED
            BY <2>1, <5>1, <5>5, <6>1, Zenon
        <5>6. QED
          BY <5>2, <5>3, <5>4, <5>5
      <4>3. QED
        BY <2>4, <4>1, <4>2, Zenon DEF Kept, NotCaptured, Capture
    <3>5. QED
      BY <2>4, <3>1, <3>2, <3>3, <3>4, Zenon DEF Kept, LogTypeOK
  <2>5. {"ours", "driver", "image", "watch"} \subseteq Authors
    BY DEF Authors
  <2>6. QED
    BY <2>2, <2>3, <2>4, <2>5, WhatIsLogged DEF Speaks
<1>2. collector' \in {"none", "named", "found", "unknown"}
  <2>1. CASE Lookup
    BY <2>1, Zenon DEF Lookup, LogKept, LogTypeOK
  <2>2. CASE collector' = collector
    BY <2>2, Zenon DEF LogTypeOK
  <2>3. QED
    BY <2>1, <2>2, HowASendGoes
<1>3. flush' \in {"no", "lookup", "say", "take", "sending"} /\ said' \in BOOLEAN
  <2>1. CASE FlushIf(leased) /\ said' = said
    BY <2>1, Zenon DEF FlushIf, LogTypeOK
  <2>2. CASE UNCHANGED <<flush, said>>
    BY <2>2, Zenon DEF LogTypeOK
  <2>3. CASE Lookup \/ SayWhere \/ Send
    BY <2>3, Zenon DEF Lookup, SayWhere, Send, TakeAndSend, Sent, Output, Say, LogKept,
       LogTypeOK
  <2>4. QED
    BY <2>1, <2>2, <2>3, HowASendGoes
<1>4. QED
  BY <1>1, <1>2, <1>3 DEF LogTypeOK

------------------------------------------------------------------------------
(* The phases of a start.                                                  *)

\* Every step keeps the boot's phase and what is under way in it.
LEMMA FlowStep ==
    ASSUME FlowTypeOK, Underway, [Next]_vars
    PROVE  FlowTypeOK' /\ Underway'
<1>1. ASSUME UNCHANGED flow, does = "idle" => does' = "idle",
             flush = "no" => flush' = "no"
      PROVE  FlowTypeOK' /\ Underway'
  BY <1>1, Zenon DEF flow, FlowTypeOK, Underway
<1>2. CASE LineEnds \/ Return \/ DriverSays \/ Watch
  <2>1. UNCHANGED <<flow, flush>> /\ (does = "idle" => does' = "idle")
    BY <1>2, Zenon DEF LineEnds, EndLine, Return, Drop, DriverSays, DriverPrints,
       Watch, Tick, Second, NotFlowing, NotSent, NotPrinting, logVars, watchVars
  <2>2. QED
    BY <1>1, <2>1, Zenon
<1>3. CASE ArmWatch \/ Send \/ Prints \/ Polls \/ Attach \/ ImagePrints \/ ImageReads
           \/ OpenConsole \/ ConsoleReads
  <2>1. UNCHANGED flow /\ (does = "idle" => does' = "idle")
        /\ (flush = "no" => flush' = "no")
    BY <1>3, Zenon DEF ArmWatch, Arm, Send, TakeAndSend, Sent, Prints, Polls, PollKey, Attach,
       ImagePrints, ImageReads, OpenConsole, ConsoleReads, NotFlowing, NotSent,
       NotPrinting, NotLogging, NotWatching, logVars, watchVars
  <2>2. QED
    BY <1>1, <2>1, Zenon
<1>4. CASE PrintLine \/ Call \/ Flush \/ Lookup \/ SayWhere
  <2>1. /\ UNCHANGED flow
        /\ flush' # "no" => phase \in {"boot", "hold"} \/ flush # "no"
        /\ does' # "idle" => \/ phase \in {"boot", "hold", "late", "last", "shell"}
                            \/ does # "idle" \/ flush # "no"
    <3>1. CASE PrintLine
      BY <3>1, Zenon DEF PrintLine, NotFlowing, NotSent, Working
    <3>2. CASE Call
      BY <3>2, Zenon DEF Call, Polling, NotFlowing, Enter, NotPrinting, logVars
    <3>3. CASE Flush
      BY <3>3, Zenon DEF Flush, NotFlowing, NotWatching, watchVars
    <3>4. CASE Lookup \/ SayWhere
      BY <3>4, Zenon DEF Lookup, SayWhere, NotFlowing
    <3>5. QED
      BY <1>4, <3>1, <3>2, <3>3, <3>4
  <2>2. QED
    BY <2>1, Zenon DEF flow, FlowTypeOK, Underway
<1>5. ASSUME UNCHANGED <<machine, typed>>, does' = "idle", flush' = "no",
             leased' \in BOOLEAN, asked' \in BOOLEAN, phase' \in Phases,
             left' \in 0 .. OfferTurns + PressTurns,
             phase' = "offer" => left' \in 1 .. OfferTurns,
             phase' = "pressed" => left' \in 1 .. PressTurns
      PROVE  FlowTypeOK' /\ Underway'
  BY <1>5, Zenon DEF FlowTypeOK, Underway
<1>6. ASSUME NEW p \in Phases \ {"offer", "pressed"}, Go(p), Free,
             UNCHANGED <<does, flush>>, flush = "no"
      PROVE  FlowTypeOK' /\ Underway'
  BY <1>5, <1>6, Zenon DEF Go, Free, FlowTypeOK
<1>7. CASE Start \/ ChainLoad \/ OldReturns \/ Begin
  <2>1. PICK p \in {"early", "chained", "firmware", "boot"} : Go(p) /\ Free
    BY <1>7, Zenon DEF Start, ChainLoad, OldReturns, Begin
  <2>2. UNCHANGED <<does, flush>> /\ flush = "no"
    BY <1>7, Zenon DEF Start, ChainLoad, OldReturns, Begin, NotLogging, NotWatching,
       logVars, watchVars, Underway
  <2>3. p \in Phases \ {"offer", "pressed"}
    BY <2>1 DEF Phases
  <2>4. QED
    BY <1>6, <2>1, <2>2, <2>3
<1>8. CASE StartImage \/ ImageReturns \/ HoldRetries \/ HoldResets
  <2>1. PICK p \in {"image", "boot", "reset"} : Go(p) /\ Free
    BY <1>8, Zenon DEF StartImage, ImageReturns, HoldRetries, HoldResets
  <2>2. UNCHANGED <<does, flush>> /\ flush = "no"
    BY <1>8, Zenon DEF StartImage, ImageReturns, HoldRetries, HoldResets, NotLogging,
       NotWatching, logVars, watchVars, Underway
  <2>3. p \in Phases \ {"offer", "pressed"}
    BY <2>1 DEF Phases
  <2>4. QED
    BY <1>6, <2>1, <2>2, <2>3
<1>9. CASE Release \/ StartLocal \/ LocalEnds \/ Ending
  <2>1. PICK p \in {"last", "local", "ending", "ended", "firmware"} : Go(p) /\ Free
    BY <1>9, Zenon DEF Release, StartLocal, LocalEnds, Ending, Giving
  <2>2. UNCHANGED <<does, flush>> /\ flush = "no"
    BY <1>9, Zenon DEF Release, Close, StartLocal, LocalEnds, Ending, Giving,
       NotLogging, NotWatching, NotPrinting, logVars, watchVars, Underway
  <2>3. p \in Phases \ {"offer", "pressed"}
    BY <2>1 DEF Phases
  <2>4. QED
    BY <1>6, <2>1, <2>2, <2>3
<1>10. CASE HoldTurn
  <2>1. /\ UNCHANGED <<machine, typed, leased, asked, left>> /\ does' = "idle"
        /\ flush' = "no" /\ phase' \in {"hold", "falling"}
    BY <1>10, Zenon DEF HoldTurn, NotFlowing, NotLogging, NotWatching, Free, logVars,
       watchVars, flow
  <2>2. phase' \in Phases /\ phase' \notin {"offer", "pressed"}
    BY <2>1 DEF Phases
  <2>3. QED
    BY <1>5, <2>1, <2>2, Zenon DEF FlowTypeOK
<1>11. CASE Hold \/ FallThrough \/ CloseConsole \/ Lease
  <2>1. /\ UNCHANGED <<machine, left, typed>> /\ does' = "idle"
        /\ phase' \in {"hold", "fall", "late"} \/ (phase' = "boot" /\ phase = "boot" /\ UNCHANGED flush)
        /\ asked' \in BOOLEAN /\ leased' \in BOOLEAN
    <3>1. CASE Hold
      BY <3>1, Zenon DEF Hold, Go, Free, NotWatching, watchVars, FlowTypeOK
    <3>2. CASE FallThrough
      BY <3>2, Zenon DEF FallThrough, Free, NotWatching, watchVars, FlowTypeOK
    <3>3. CASE CloseConsole
      BY <3>3, Zenon DEF CloseConsole, Go, Free, NotWatching, watchVars, FlowTypeOK
    <3>4. CASE Lease
      BY <3>4, Zenon DEF Lease, Free, NotWatching, watchVars, NotLogging, logVars,
         FlowTypeOK
    <3>5. QED
      BY <1>11, <3>1, <3>2, <3>3, <3>4
  <2>2. phase' \in {"hold", "fall", "late", "boot"} /\ phase' \in Phases
    BY <2>1 DEF Phases
  <2>3. QED
    BY <2>1, <2>2, Zenon DEF FlowTypeOK, Underway
<1>12. CASE OfferConsole \/ Turns
  <2>1. /\ UNCHANGED <<machine, leased, asked, typed>> /\ does' = "idle"
        /\ flush' = flush /\ flush = "no"
    BY <1>12, Zenon DEF OfferConsole, Turns, OfferTurn, PressTurn, NotLogging,
       NotWatching, Free, logVars, watchVars, Underway
  <2>2. left \in Int
    BY DEF FlowTypeOK
  <2>3. /\ left' \in 0 .. OfferTurns + PressTurns
        /\ phase' = "offer" => left' \in 1 .. OfferTurns
        /\ phase' = "pressed" => left' \in 1 .. PressTurns
    <3>1. CASE OfferConsole
      BY <3>1, Sizes DEF OfferConsole
    <3>2. CASE OfferTurn
      BY <2>2, <3>2, Sizes DEF OfferTurn, Underway
    <3>3. CASE PressTurn
      BY <2>2, <3>3, Sizes DEF PressTurn, Underway
    <3>4. QED
      BY <1>12, <3>1, <3>2, <3>3 DEF Turns
  <2>4. phase' \in {"pressed", "offer", "shell", "declined"}
    BY <1>12, Zenon DEF OfferConsole, Turns, OfferTurn, PressTurn
  <2>5. phase' \in Phases
    BY <2>4 DEF Phases
  <2>6. QED
    BY <1>5, <2>1, <2>3, <2>5, Zenon DEF FlowTypeOK
<1>13. CASE Type
  <2>1. UNCHANGED <<machine, phase, leased, asked, left>> /\ UNCHANGED <<does, flush>>
    BY <1>13, Zenon DEF Type, NotLogging, NotWatching, logVars, watchVars
  <2>2. typed' \in 0 .. MaxTyped
    BY <1>13 DEF Type, FlowTypeOK, MaxTyped
  <2>3. QED
    BY <2>1, <2>2, Zenon DEF FlowTypeOK, Underway
<1>14. CASE UNCHANGED vars
  BY <1>1, <1>14, Zenon DEF vars, logVars, watchVars
<1>15. QED
  BY <1>2, <1>3, <1>4, <1>7, <1>8, <1>9, <1>10, <1>11, <1>12, <1>13, <1>14, Zenon
     DEF Next
------------------------------------------------------------------------------
(* The hooks.                                                              *)

\* Where the panel may be in front.
Middle == {"boot", "image", "hold", "fall", "falling", "offer", "declined", "pressed",
           "shell", "late"}

\* The chain is left alone, and only the panel in front draws.
LEMMA HooksStay ==
    ASSUME Hooked, UNCHANGED <<chain, machine, armed>>, ~Installed => screen' = screen,
           phase' = phase \/ (phase \in Middle /\ phase' \in Middle),
           phase' = "image" => ~ours'
    PROVE  Hooked'
<1>1. Installed' = Installed /\ conout' = conout /\ under' = under /\ hooked' = hooked
  BY Zenon DEF Installed, chain
<1>2. CASE phase' = phase
  BY <1>1, <1>2, Zenon DEF Hooked
<1>3. CASE phase \in Middle /\ phase' \in Middle
  <2>1. /\ phase' \notin {"start", "firmware", "early", "chained", "local", "ended",
                          "reset", "last", "ending"}
        /\ phase \notin {"start", "firmware", "early", "chained", "local", "ended",
                         "reset", "last", "ending"}
    BY <1>3 DEF Middle
  <2>2. QED
    BY <1>1, <2>1, Zenon DEF Hooked
<1>4. QED
  BY <1>2, <1>3

\* The steps of the mainline and of the timer that put no hook anywhere.
LEMMA HooksQuiet ==
    ASSUME Hooked,
           \/ PrintLine \/ LineEnds \/ Call \/ Return \/ DriverSays \/ Lookup
           \/ SayWhere \/ Send \/ Flush \/ Lease \/ ImagePrints \/ ImageReads
           \/ Watch \/ Type \/ OfferConsole \/ HoldRetries \/ Prints \/ Polls \/ Attach
           \/ StartImage \/ ImageReturns \/ Hold \/ FallThrough \/ HoldTurn
           \/ Turns \/ ConsoleReads
    PROVE  Hooked'
<1>1. CASE PrintLine \/ LineEnds \/ DriverSays \/ ImagePrints \/ SayWhere
  <2>1. UNCHANGED <<chain, screen, machine, phase, armed, ours>>
    BY <1>1, Zenon DEF PrintLine, LineEnds, EndLine, DriverSays, DriverPrints,
       ImagePrints, SayWhere, Say, Output, NotSaid, Clock, watchVars, NotWatching,
       NotFlowing, flow, keyboard, panelVars, panel
  <2>2. QED
    BY <2>1, HooksStay, Zenon DEF Hooked
<1>2. CASE Call \/ Return \/ Lookup \/ Watch
  <2>1. UNCHANGED <<chain, screen, machine, phase, armed, ours>>
    <3>1. CASE Call
      BY <3>1, Zenon DEF Call, Enter, NotFlowing, NotPrinting, Clock, flow, panelVars,
         panel, keyboard
    <3>2. CASE Return
      BY <3>2, Zenon DEF Return, Drop, Say, Output, NotSaid, NotFlowing, NotPrinting,
         Clock, flow, panelVars, panel, keyboard
    <3>3. CASE Lookup
      BY <3>3, Zenon DEF Lookup, Output, NotFlowing, NotWatching, Clock, flow,
         watchVars, panelVars, panel, keyboard
    <3>4. CASE Watch
      BY <3>4, Zenon DEF Watch, Tick, Second, PrintAtNotify, NotSaid, NotFlowing,
         NotPrinting, Clock, flow, panelVars, panel, keyboard
    <3>5. QED
      BY <1>2, <3>1, <3>2, <3>3, <3>4
  <2>2. QED
    BY <2>1, HooksStay, Zenon DEF Hooked
<1>3. CASE Send \/ Flush \/ Lease \/ ImageReads \/ Type \/ OfferConsole \/ HoldRetries
  <2>1. /\ UNCHANGED <<chain, screen, machine, armed, ours>>
        /\ phase' = phase \/ (phase \in Middle /\ phase' \in {"pressed", "offer", "boot"})
    BY <1>3, Zenon DEF Send, Flush, Lease, ImageReads, Type, OfferConsole, HoldRetries,
       Go, NotFlowing, NotWatching, flow, watchVars, panelVars, panel, keyboard, Middle
  <2>2. phase' \in {"pressed", "offer", "boot"} =>
          phase' \in Middle /\ phase' # "image"
    BY DEF Middle
  <2>3. QED
    BY <2>1, <2>2, HooksStay, Zenon DEF Hooked
<1>4. CASE Prints \/ Polls \/ Attach \/ Hold \/ FallThrough
  <2>1. /\ UNCHANGED <<chain, machine, armed, ours>>
        /\ ~Installed => screen' = screen
        /\ phase' = phase \/ (phase \in Middle /\ phase' \in {"hold", "fall"})
    <3>1. CASE Prints \/ Polls
      BY <3>1, Zenon DEF Prints, Polls, PollKey, Copy, Drawn, Draw, NotFlowing, NotWatching,
         flow, watchVars, keyboard
    <3>2. CASE Attach
      BY <3>2, Zenon DEF Attach, PollAndDraw, Draw, NotFlowing, NotWatching,
         flow, watchVars, keyboard
    <3>3. CASE Hold
      BY <3>3, Zenon DEF Hold, PollAndDraw, Draw, Go, NotWatching,
         watchVars, Middle, keyboard
    <3>4. CASE FallThrough
      BY <3>4, Zenon DEF FallThrough, DrawOnly, Draw, NotWatching, NotTyped, keyboard,
         watchVars, Middle
    <3>5. QED
      BY <1>4, <3>1, <3>2, <3>3, <3>4
  <2>2. phase' \in {"hold", "fall"} => phase' \in Middle /\ phase' # "image"
    BY DEF Middle
  <2>3. QED
    BY <2>1, <2>2, HooksStay, Zenon DEF Hooked
<1>5. CASE StartImage \/ ImageReturns
  <2>1. /\ UNCHANGED <<chain, machine, armed>>
        /\ ~Installed => screen' = screen
        /\ phase \in {"boot", "image"} /\ phase' \in {"boot", "image"}
        /\ phase' = "image" => ~ours'
    <3>1. CASE StartImage
      BY <3>1, Zenon DEF StartImage, Handoff, Draw, Go, NotWatching, watchVars
    <3>2. CASE ImageReturns
      BY <3>2, Zenon DEF ImageReturns, HandedBack, Draw, Go, NotWatching, watchVars
    <3>3. QED
      BY <1>5, <3>1, <3>2
  <2>2. phase \in Middle /\ phase' \in Middle
    BY <2>1 DEF Middle
  <2>3. QED
    BY <2>1, <2>2, HooksStay, Zenon
<1>6. CASE HoldTurn \/ Turns \/ ConsoleReads
  <2>1. /\ UNCHANGED <<chain, machine, armed, ours>>
        /\ ~Installed => screen' = screen
        /\ phase \in {"hold", "offer", "pressed", "shell"}
        /\ phase' \in {"hold", "falling", "offer", "pressed", "shell", "declined"}
    <3>1. CASE HoldTurn
      BY <3>1, Zenon DEF HoldTurn, ReadChar, Draw, NotFlowing, NotWatching, flow,
         watchVars
    <3>2. CASE Turns
      BY <3>2, Zenon DEF Turns, OfferTurn, PressTurn, ReadChar, Draw, NotWatching,
         watchVars
    <3>3. CASE ConsoleReads
      BY <3>3, Zenon DEF ConsoleReads, ReadChar, Draw, NotFlowing, NotWatching, flow,
         watchVars
    <3>4. QED
      BY <1>6, <3>1, <3>2, <3>3
  <2>2. phase \in Middle /\ phase' \in Middle /\ phase' # "image"
    BY <2>1 DEF Middle
  <2>3. QED
    BY <2>1, <2>2, HooksStay, Zenon
<1>7. QED
  BY <1>1, <1>2, <1>3, <1>4, <1>5, <1>6

\* suspend puts back what install found.
LEMMA Suspended ==
    ASSUME Hooked, Suspend, phase \notin {"start", "early", "chained", "firmware"}
    PROVE  /\ ~Installed' /\ screen' = "firmware" /\ UNCHANGED <<under, hooked>>
           /\ conout' # "firmware"
<1>1. /\ hooked /\ conout # "firmware" /\ (Installed => under = "log")
      /\ ~Installed => screen = "firmware"
  BY Zenon DEF Hooked
<1>2. QED
  BY <1>1, Zenon DEF Suspend, Installed, chain

\* The steps that put a hook in or take one out keep which hooks are in.
LEMMA HooksMove ==
    ASSUME Hooked, ChainTypeOK,
           \/ Start \/ ChainLoad \/ OldReturns \/ Begin \/ HoldResets \/ OpenConsole
           \/ CloseConsole \/ Release \/ StartLocal \/ LocalEnds \/ Ending \/ ArmWatch
    PROVE  Hooked'
<1>1. CASE Start
  <2>1. /\ phase = "start" /\ phase' = "early" /\ conout' = "log" /\ hooked'
        /\ UNCHANGED <<machine, screen, armed>>
    BY <1>1, Zenon DEF Start, LogBegin, Go, NotWatching, watchVars, panel
  <2>2. ~armed /\ ~Installed
    BY <2>1, Zenon DEF Hooked, Installed
  <2>3. QED
    BY <2>1, <2>2, Zenon DEF Hooked, Installed
<1>2. CASE ChainLoad
  <2>1. /\ phase = "early" /\ phase' = "chained"
        /\ UNCHANGED <<machine, screen, armed, conout, hooked>>
    BY <1>2, Zenon DEF ChainLoad, Go, NotWatching, watchVars, panelVars, panel, chain
  <2>2. QED
    BY <2>1, Zenon DEF Hooked, Installed
<1>3. CASE OldReturns
  <2>1. /\ phase = "chained" /\ phase' = "firmware" /\ hooked' = FALSE
        /\ conout' = IF conout = "log" THEN "firmware" ELSE conout
        /\ UNCHANGED <<machine, screen, armed>>
    BY <1>3, Zenon DEF OldReturns, LogEnd, Go, NotWatching, watchVars, panel
  <2>2. ~Installed /\ ~armed /\ conout' = "firmware"
    BY <2>1, Zenon DEF Hooked, Installed, ChainTypeOK
  <2>3. QED
    BY <2>1, <2>2, Zenon DEF Hooked, Installed
<1>4. CASE Begin
  <2>1. /\ phase = "early" /\ phase' = "boot" /\ UNCHANGED <<machine, armed>>
        /\ IF machine.screen THEN under' = conout /\ Install
                             ELSE UNCHANGED <<chain, screen>>
    BY <1>4, Zenon DEF Begin, PanelBegin, Go, NotWatching, watchVars
  <2>2. hooked /\ conout = "log" /\ screen = "firmware" /\ ~Installed
    BY <2>1, Zenon DEF Hooked, Installed, ChainTypeOK
  <2>3. CASE machine.screen
    BY <2>1, <2>2, <2>3, Zenon DEF Install, Hooked, Installed
  <2>4. CASE ~machine.screen
    BY <2>1, <2>2, <2>4, Zenon DEF chain, Hooked, Installed
  <2>5. QED
    BY <2>3, <2>4
<1>5. CASE HoldResets \/ OpenConsole \/ StartLocal
  <2>1. /\ Suspend /\ UNCHANGED <<machine, armed>> /\ phase \in {"hold", "shell", "last"}
        /\ phase' \in {"reset", "shell", "local"} /\ (phase' = "local" => phase = "last")
    BY <1>5, Zenon DEF HoldResets, OpenConsole, StartLocal, Go, NotFlowing,
       NotWatching, watchVars, flow
  <2>2. /\ ~Installed' /\ screen' = "firmware" /\ UNCHANGED <<under, hooked>>
        /\ conout' # "firmware"
    BY <2>1, Suspended, Zenon
  <2>3. QED
    BY <2>1, <2>2, Zenon DEF Hooked
<1>6. CASE CloseConsole
  <2>1. /\ phase \in {"shell", "declined"} /\ phase' = "late"
        /\ UNCHANGED <<machine, armed>>
        /\ Resume(machine.screen) \/ UNCHANGED <<chain, screen>>
    BY <1>6, Zenon DEF CloseConsole, Go, NotWatching, watchVars
  <2>2. CASE UNCHANGED <<chain, screen>>
    BY <2>1, <2>2, Zenon DEF Hooked, Installed, chain
  <2>3. CASE machine.screen /\ Install /\ UNCHANGED under
    BY <2>1, <2>3, Zenon DEF Hooked, Installed, Install
  <2>4. QED
    BY <2>1, <2>2, <2>3, Zenon DEF Resume
<1>7. CASE Release \/ LocalEnds \/ ArmWatch
  <2>1. /\ UNCHANGED <<machine, chain, screen>>
        /\ \/ phase = "late" /\ phase' = "last" /\ ~armed'
           \/ phase \in {"last", "local"} /\ phase' = "ending" /\ armed' = armed
           \/ phase = "boot" /\ phase' = "boot"
    BY <1>7, Zenon DEF Release, Close, LocalEnds, ArmWatch, Arm, Go, NotFlowing,
       NotPrinting, NotWatching, watchVars, panelVars, panel, flow
  <2>2. CASE phase = "late" /\ phase' = "last" /\ ~armed'
    BY <2>1, <2>2, Zenon DEF Hooked, Installed, chain
  <2>3. CASE phase \in {"last", "local"} /\ phase' = "ending" /\ armed' = armed
    BY <2>1, <2>3, Zenon DEF Hooked, Installed, chain
  <2>4. CASE phase = "boot" /\ phase' = "boot"
    BY <2>1, <2>4, Zenon DEF Hooked, Installed, chain
  <2>5. QED
    BY <2>1, <2>2, <2>3, <2>4
<1>8. CASE Ending
  <2>1. CASE phase = "ending"
    <3>1. Suspend /\ UNCHANGED <<machine, armed>> /\ phase' = "ended"
      BY <1>8, <2>1, Zenon DEF Ending, Giving, Go, NotWatching, watchVars
    <3>2. /\ ~Installed' /\ screen' = "firmware" /\ UNCHANGED <<under, hooked>>
          /\ conout' # "firmware"
      BY <2>1, <3>1, Suspended, Zenon
    <3>3. QED
      BY <2>1, <3>1, <3>2, Zenon DEF Hooked
  <2>2. CASE phase = "ended"
    <3>1. /\ LogEnd /\ UNCHANGED <<machine, armed, screen>> /\ phase' = "firmware"
      BY <1>8, <2>2, Zenon DEF Ending, Giving, Go, NotWatching, watchVars
    <3>2. ~Installed /\ ~armed /\ conout' = "firmware" /\ hooked' = FALSE
      BY <2>2, <3>1, Zenon DEF Hooked, Installed, ChainTypeOK, LogEnd
    <3>3. QED
      BY <2>2, <3>1, <3>2, Zenon DEF Hooked, Installed
  <2>3. QED
    BY <1>8, <2>1, <2>2 DEF Ending
<1>9. QED
  BY <1>1, <1>2, <1>3, <1>4, <1>5, <1>6, <1>7, <1>8

\* Every step keeps which hooks are in at which phase.
LEMMA HookedStep ==
    ASSUME Hooked, ChainTypeOK, [Next]_vars
    PROVE  Hooked'
<1>1. CASE UNCHANGED vars
  BY <1>1, HooksStay, Zenon DEF vars, flow, panelVars, panel, keyboard, watchVars,
     Hooked
<1>2. QED
  BY <1>1, HooksQuiet, HooksMove, Zenon DEF Next
------------------------------------------------------------------------------
(* The watch.                                                              *)

\* The watch changes by a call's start and end, the timer, and the clock only.
LEMMA WatchSteps ==
    ASSUME [Next]_vars
    PROVE  \/ UNCHANGED <<mark, does, now, inside, report>> /\ armed' \in {armed, TRUE, FALSE}
           \/ /\ UNCHANGED <<armed, mark, now, inside, report>>
              /\ does \in {"idle", "mid"} /\ does' \in {"idle", "mid"}
           \/ (\E nic \in Nics : Enter(nic)) \/ Drop \/ Tick \/ Second
<1>1. CASE ArmWatch \/ Release
  BY <1>1, Zenon DEF ArmWatch, Arm, Release, Close
<1>2. CASE PrintLine \/ LineEnds \/ Lookup \/ SayWhere
  BY <1>2, Zenon DEF PrintLine, LineEnds, EndLine, Lookup, SayWhere, Free, Clock,
     NotWatching, watchVars
<1>3. CASE Call \/ Return \/ Watch
  BY <1>3, Zenon DEF Call, Return, Watch
<1>4. CASE \/ Start \/ ChainLoad \/ OldReturns \/ Begin \/ Prints \/ Polls \/ DriverSays
           \/ Attach \/ StartImage \/ ImagePrints \/ ImageReads \/ ImageReturns
           \/ Lease \/ Flush \/ Send
  <2>1. UNCHANGED watchVars
    BY <1>4, Zenon DEF Start, ChainLoad, OldReturns, Begin, Prints, Polls, PollKey, DriverSays,
       DriverPrints, Attach, StartImage, ImagePrints, ImageReads, ImageReturns, Lease,
       Flush, Send, NotWatching
  <2>2. QED
    BY <2>1, Zenon DEF watchVars
<1>5. CASE \/ Hold \/ HoldTurn \/ HoldRetries \/ HoldResets \/ FallThrough
           \/ OfferConsole \/ Turns \/ OpenConsole \/ ConsoleReads \/ CloseConsole
           \/ StartLocal \/ LocalEnds \/ Ending \/ Type
  <2>1. UNCHANGED watchVars
    BY <1>5, Zenon DEF Hold, HoldTurn, HoldRetries, HoldResets, FallThrough,
       OfferConsole, Turns, OfferTurn, PressTurn, OpenConsole, ConsoleReads,
       CloseConsole, StartLocal, LocalEnds, Ending, Giving, Type, NotWatching
  <2>2. QED
    BY <2>1, Zenon DEF watchVars
<1>6. CASE UNCHANGED vars
  BY <1>6, Zenon DEF vars, watchVars
<1>7. QED
  BY <1>1, <1>2, <1>3, <1>4, <1>5, <1>6, Zenon DEF Next

\* The fields of the mark.
LEMMA MarkFields ==
    ASSUME WatchTypeOK
    PROVE  /\ mark.call \in BOOLEAN /\ mark.nic \in Nics
           /\ mark.since \in 0 .. MaxTime /\ mark.told \in 0 .. MaxTime
           /\ mark = [call |-> mark.call, nic |-> mark.nic, since |-> mark.since,
                      told |-> mark.told]
           /\ inside = [nic |-> inside.nic, since |-> inside.since]
           /\ inside.since \in 0 .. MaxTime /\ inside.nic \in Nics \cup {NoNic}
           /\ report \in [nic : Nics \cup {NoNic}, since : 0 .. MaxTime]
           /\ now \in 0 .. MaxTime /\ does \in Doings
  BY DEF WatchTypeOK

\* A call into the firmware's network leaves its own mark.
LEMMA EnterStep ==
    ASSUME WatchTypeOK, Marked, NEW nic \in Nics, Enter(nic)
    PROVE  WatchTypeOK' /\ Marked'
<1>1. /\ now' = now /\ armed' = armed /\ report' = report /\ MaxTime \in Nat
      /\ 0 \in 0 .. MaxTime
  BY Sizes DEF Enter, Clock
<1>2. /\ report = NoCall /\ mark.call = FALSE
      /\ [nic |-> nic, since |-> now] # NoCall
  <2>1. does \notin {"call", "leave"}
    BY DEF Enter
  <2>2. mark.call \in BOOLEAN
    BY MarkFields
  <2>3. nic # NoNic
    BY Sizes
  <2>4. QED
    BY <2>1, <2>2, <2>3 DEF Marked, NoCall
<1>3. CASE does = "idle"
  <2>1. /\ does' = "enter1" /\ inside' = [nic |-> nic, since |-> now]
        /\ mark' = [mark EXCEPT !.told = 0]
    BY <1>3 DEF Enter
  <2>2. WatchTypeOK'
    BY <1>1, <2>1, MarkFields DEF WatchTypeOK, Doings
  <2>3. mark'.since = mark.since /\ mark'.call = mark.call
    BY <2>1 DEF WatchTypeOK
  <2>4. /\ inside' # NoCall /\ inside'.nic \in Nics /\ inside'.since <= now'
    BY <1>1, <1>2, <2>1, MarkFields
  <2>5. QED
    BY <1>1, <1>2, <2>1, <2>2, <2>3, <2>4, Zenon DEF Marked
<1>4. CASE does = "enter1"
  <2>1. /\ does' = "enter2" /\ inside' = [inside EXCEPT !.since = now]
        /\ mark' = [mark EXCEPT !.since = now] /\ inside.nic = nic
    BY <1>4 DEF Enter
  <2>2. WatchTypeOK'
    BY <1>1, <2>1, MarkFields DEF WatchTypeOK, Doings
  <2>3. /\ mark'.since = now /\ mark'.call = mark.call
        /\ inside'.since = now /\ inside'.nic = nic
    BY <2>1 DEF WatchTypeOK
  <2>4. inside' # NoCall
    BY <2>3, Sizes DEF NoCall
  <2>5. now <= now
    BY MarkFields
  <2>6. QED
    BY <1>1, <1>2, <2>1, <2>2, <2>3, <2>4, <2>5, Zenon DEF Marked
<1>5. CASE does = "enter2"
  <2>1. /\ does' = "enter3" /\ inside' = inside
        /\ mark' = [mark EXCEPT !.nic = nic] /\ inside.nic = nic
    BY <1>5 DEF Enter
  <2>2. WatchTypeOK'
    BY <1>1, <2>1, MarkFields DEF WatchTypeOK, Doings
  <2>3. mark'.since = mark.since /\ mark'.call = mark.call /\ mark'.nic = nic
    BY <2>1 DEF WatchTypeOK
  <2>4. QED
    BY <1>1, <1>2, <1>5, <2>1, <2>2, <2>3, Zenon DEF Marked
<1>6. CASE does = "enter3"
  <2>1. /\ does' = "call" /\ inside' = inside
        /\ mark' = [mark EXCEPT !.call = TRUE] /\ inside.nic = nic
    BY <1>6 DEF Enter
  <2>2. WatchTypeOK'
    BY <1>1, <2>1, MarkFields DEF WatchTypeOK, Doings
  <2>3. mark'.since = mark.since /\ mark'.nic = mark.nic
    BY <2>1 DEF WatchTypeOK
  <2>4. QED
    BY <1>1, <1>2, <1>6, <2>1, <2>2, <2>3, Zenon DEF Marked
<1>7. QED
  BY <1>3, <1>4, <1>5, <1>6 DEF Enter

\* A call that returns takes its mark and its report back.
LEMMA DropStep ==
    ASSUME WatchTypeOK, Marked, Drop
    PROVE  WatchTypeOK' /\ Marked'
<1>1. now' = now /\ armed' = armed /\ MaxTime \in Nat /\ 0 \in 0 .. MaxTime
  BY Sizes DEF Drop, Clock
<1>2. NoCall \in [nic : Nics \cup {NoNic}, since : 0 .. MaxTime]
      /\ NoCall.since = 0 /\ 0 <= now
  BY <1>1, MarkFields DEF NoCall
<1>3. CASE does = "call"
  <2>1. /\ does' = "leave" /\ UNCHANGED <<inside, report>>
        /\ mark' = [mark EXCEPT !.call = FALSE]
    BY <1>3 DEF Drop
  <2>2. WatchTypeOK'
    BY <1>1, <2>1, MarkFields DEF WatchTypeOK, Doings
  <2>3. /\ mark'.since = mark.since /\ mark'.nic = mark.nic /\ mark'.call = FALSE
        /\ mark'.told = mark.told
    BY <2>1 DEF WatchTypeOK
  <2>4. QED
    BY <1>1, <1>3, <2>1, <2>2, <2>3, Zenon DEF Marked
<1>4. CASE does = "leave" /\ mark.told = 0
  <2>1. does' = "idle" /\ inside' = NoCall /\ UNCHANGED <<mark, report>>
    BY <1>4 DEF Drop
  <2>2. WatchTypeOK'
    BY <1>1, <1>2, <2>1, MarkFields DEF WatchTypeOK, Doings
  <2>3. report = NoCall /\ ~mark.call
    BY <1>4, Zenon DEF Marked
  <2>4. QED
    BY <1>1, <1>2, <2>1, <2>2, <2>3, Zenon DEF Marked
<1>5. CASE does = "leave" /\ mark.told # 0
  <2>1. /\ does' = "mid" /\ inside' = NoCall /\ report' = NoCall
        /\ mark' = [mark EXCEPT !.told = 0]
    BY <1>5 DEF Drop
  <2>2. WatchTypeOK'
    BY <1>1, <1>2, <2>1, MarkFields DEF WatchTypeOK, Doings
  <2>3. mark'.since = mark.since /\ mark'.call = mark.call
    BY <2>1 DEF WatchTypeOK
  <2>4. ~mark.call
    BY <1>5, Zenon DEF Marked
  <2>5. QED
    BY <1>1, <1>2, <2>1, <2>2, <2>3, <2>4, Zenon DEF Marked
<1>6. QED
  BY <1>3, <1>4, <1>5 DEF Drop

\* The timer reports the call that is in, or nothing.
LEMMA TickStep ==
    ASSUME WatchTypeOK, Marked, Tick
    PROVE  WatchTypeOK' /\ Marked'
<1>1. /\ UNCHANGED <<now, armed, does, inside>> /\ mark.call
      /\ mark' = [mark EXCEPT !.told = Secs]
      /\ report' = [nic |-> mark.nic, since |-> mark.since]
  BY DEF Tick, Due, Clock
<1>2. does = "call" /\ mark.since = inside.since /\ mark.nic = inside.nic
  BY <1>1, Zenon DEF Marked
<1>3. report' = inside
  BY <1>1, <1>2, MarkFields
<1>4. Secs \in 0 .. MaxTime /\ Secs # 0
  <2>1. /\ now \in Int /\ mark.since \in Int /\ mark.since <= now /\ now <= MaxTime
        /\ 0 <= mark.since /\ mark.told \in Int /\ 0 <= mark.told
    BY MarkFields, Sizes DEF Marked
  <2>2. Secs \in 0 .. MaxTime
    BY <2>1, Sizes DEF Secs
  <2>3. Secs >= First \/ Secs >= mark.told + Again
    BY DEF Tick, Due
  <2>4. QED
    BY <2>1, <2>2, <2>3, Sizes
<1>5. WatchTypeOK'
  BY <1>1, <1>3, <1>4, MarkFields DEF WatchTypeOK
<1>6. /\ mark'.since = mark.since /\ mark'.nic = mark.nic /\ mark'.call = mark.call
      /\ mark'.told = Secs
  BY <1>1 DEF WatchTypeOK
<1>7. QED
  BY <1>1, <1>2, <1>3, <1>4, <1>5, <1>6, Zenon DEF Marked

\* Every step keeps the mark that of the call which is in.
LEMMA WatchStep ==
    ASSUME WatchTypeOK, Marked, [Next]_vars
    PROVE  WatchTypeOK' /\ Marked'
<1>1. armed \in BOOLEAN
  BY Zenon DEF WatchTypeOK
<1>2. CASE UNCHANGED <<mark, does, now, inside, report>> /\ armed' \in {armed, TRUE, FALSE}
  BY <1>1, <1>2, Zenon DEF WatchTypeOK, Marked
<1>3. CASE /\ UNCHANGED <<armed, mark, now, inside, report>>
           /\ does \in {"idle", "mid"} /\ does' \in {"idle", "mid"}
  <2>1. does' \in Doings
    BY <1>3 DEF Doings
  <2>2. inside = NoCall /\ report = NoCall /\ ~mark.call
    BY <1>3, Zenon DEF Marked
  <2>3. QED
    BY <1>1, <1>3, <2>1, <2>2, Zenon DEF WatchTypeOK, Marked
<1>4. CASE Second
  <2>1. UNCHANGED <<armed, mark, does, inside, report>> /\ now' = now + 1 /\ now < MaxTime
    BY <1>4 DEF Second
  <2>2. /\ now' \in 0 .. MaxTime
        /\ mark.since <= now => mark.since <= now'
        /\ inside.since <= now => inside.since <= now'
    BY <2>1, MarkFields, Sizes
  <2>3. QED
    BY <2>1, <2>2, Zenon DEF WatchTypeOK, Marked
<1>5. QED
  BY <1>2, <1>3, <1>4, WatchSteps, EnterStep, DropStep, TickStep

------------------------------------------------------------------------------
(* The panel: what is drawn, the keys, the steps and the chain.            *)

\* The steps that leave all of the panel alone.
LEMMA PanelStands ==
    ASSUME \/ ChainLoad \/ Lease \/ Flush \/ Send \/ HoldRetries \/ OfferConsole
           \/ LocalEnds \/ ArmWatch \/ Release \/ Call \/ Second \/ UNCHANGED vars
    PROVE  UNCHANGED panelVars
BY Zenon DEF ChainLoad, Lease, Flush, Send, HoldRetries, OfferConsole, LocalEnds,
   ArmWatch, Arm, Release, Call, Enter, Second, NotPrinting, vars

\* The steps that print a piece, or nothing.
LEMMA SomethingSaid ==
    ASSUME \/ PrintLine \/ LineEnds \/ DriverSays \/ ImagePrints \/ SayWhere \/ Return
           \/ Lookup
    PROVE  \/ UNCHANGED panelVars
           \/ /\ \E by \in Authors, ends \in BOOLEAN : Output(by, ends)
              /\ UNCHANGED <<chain, steps, keyboard>>
<1>1. "ours" \in Authors /\ "driver" \in Authors /\ "image" \in Authors
  BY DEF Authors
<1>2. CASE PrintLine \/ LineEnds
  BY <1>1, <1>2, Zenon DEF PrintLine, LineEnds, EndLine, Say, NotSaid
<1>3. CASE DriverSays \/ ImagePrints
  BY <1>1, <1>3, Zenon DEF DriverSays, DriverPrints, ImagePrints, Say, NotSaid
<1>4. CASE SayWhere \/ Return
  BY <1>1, <1>4, Zenon DEF SayWhere, Return, Drop, Say, NotSaid, NotPrinting
<1>5. CASE Lookup
  BY <1>1, <1>5, Zenon DEF Lookup
<1>6. QED
  BY <1>2, <1>3, <1>4, <1>5

\* The panel begins a print, takes its copy, draws, or the timer has printed.
LEMMA WhatIsDrawn ==
    ASSUME [Next]_vars
    PROVE  \/ /\ UNCHANGED <<busy, shown, dirty>>
              /\ \/ out' \in {out, Quiet}
                 \/ \E ends \in BOOLEAN : out' = [stage |-> "copy", ends |-> ends]
           \/ Copy
           \/ busy' = FALSE /\ out' = Quiet /\ UNCHANGED <<shown, dirty>>
           \/ PrintAtNotify("watch")
<1>1. CASE UNCHANGED panelVars
  BY <1>1, Zenon DEF panelVars, panel
<1>2. ASSUME NEW by \in Authors, NEW ends \in BOOLEAN, Output(by, ends)
      PROVE  /\ UNCHANGED <<busy, shown, dirty>>
             /\ \/ out' \in {out, Quiet}
                \/ \E e \in BOOLEAN : out' = [stage |-> "copy", ends |-> e]
  BY <1>2, Zenon DEF Output
<1>3. CASE Prints \/ Polls \/ Tick
  BY <1>3, Zenon DEF Prints, Polls, PollKey, Drawn, Tick, NotDrawing
<1>4. CASE \/ Start \/ OldReturns \/ Begin \/ Attach \/ StartImage \/ ImageReads
           \/ ImageReturns \/ Hold \/ HoldTurn \/ HoldResets
  BY <1>4, Zenon DEF Start, OldReturns, Begin, Attach, PollAndDraw, StartImage,
     ImageReads, ImageReturns, Hold, HoldTurn, HoldResets, NotDrawing, panel
<1>5. CASE \/ FallThrough \/ Turns \/ OpenConsole \/ ConsoleReads \/ CloseConsole
           \/ StartLocal \/ Ending \/ Type
  BY <1>5, Zenon DEF FallThrough, DrawOnly, Turns, OfferTurn, PressTurn, OpenConsole,
     ConsoleReads, CloseConsole, StartLocal, Ending, Giving, Type, NotDrawing, panel
<1>6. QED
  BY <1>1, <1>2, <1>3, <1>4, <1>5, PanelStands, SomethingSaid, Zenon
     DEF Next, Watch

\* Nothing draws while the panel's log grows under it, and every line is whole.
LEMMA WholeStep ==
    ASSUME LogTypeOK, DrawingTypeOK, Hooked, Underway, Marked, Whole, [Next]_vars
    PROVE  Whole'
<1>1. /\ ~dirty' /\ (out'.stage = "draw" => busy')
  <2>1. ~dirty /\ (out.stage = "draw" => busy) /\ Quiet.stage # "draw"
    BY DEF Whole, Quiet
  <2>2. CASE /\ UNCHANGED <<busy, shown, dirty>>
             /\ \/ out' \in {out, Quiet}
                \/ \E ends \in BOOLEAN : out' = [stage |-> "copy", ends |-> ends]
    BY <2>1, <2>2
  <2>3. CASE Copy
    <3>1. /\ dirty' = dirty /\ busy' = out.ends
          /\ ~out.ends => out' = Quiet
      BY <2>3, Zenon DEF Copy
    <3>2. QED
      BY <2>1, <3>1, Zenon
  <2>4. CASE busy' = FALSE /\ out' = Quiet /\ UNCHANGED <<shown, dirty>>
    BY <2>1, <2>4, Zenon
  <2>5. CASE PrintAtNotify("watch")
    <3>1. /\ UNCHANGED <<out, busy>>
          /\ dirty' = dirty \/ (~busy /\ dirty' = (dirty \/ out.stage = "draw"))
      BY <2>5, Zenon DEF PrintAtNotify
    <3>2. out'.stage = "draw" => busy'
      BY <2>1, <3>1
    <3>3. CASE dirty' = dirty
      BY <2>1, <3>2, <3>3, Zenon
    <3>4. CASE ~busy /\ dirty' = (dirty \/ out.stage = "draw")
      BY <2>1, <3>2, <3>4, Zenon
    <3>5. QED
      BY <3>1, <3>3, <3>4
  <2>6. QED
    BY <2>2, <2>3, <2>4, <2>5, WhatIsDrawn
<1>2. /\ ~torn' /\ "watch" \notin part'
      /\ "ours" \in part' => does' = "mid"
  <2>1. /\ ~torn /\ "watch" \notin part /\ ("ours" \in part => does = "mid")
        /\ (does # "idle" => conout # "firmware")
        /\ (mark.call => does = "call")
    BY Zenon DEF Whole, Underway, Hooked, Marked
  <2>2. CASE LogStands /\ (does = "mid" => does' = "mid")
    BY <2>1, <2>2, Zenon DEF LogStands
  <2>3. CASE Take /\ UNCHANGED <<off, part, ended, torn, does>>
    BY <2>1, <2>3, Zenon
  <2>4. ASSUME NEW by, NEW ends \in BOOLEAN, Kept(by, ends)
        PROVE  \/ part' = part /\ torn' = torn /\ conout = "firmware"
               \/ /\ part' = IF ends THEN {} ELSE part \cup {by}
                  /\ torn' = (torn \/ {"ours", "watch"} \subseteq part \cup {by})
    BY <2>4, Zenon DEF Kept, Capture, NotCaptured
  <2>5. CASE Kept("ours", FALSE) /\ does' = "mid"
    BY <2>1, <2>4, <2>5
  <2>6. CASE Kept("ours", TRUE) /\ does = "mid" /\ does' = "idle"
    BY <2>1, <2>4, <2>6
  <2>7. ASSUME NEW by \in {"driver", "image"}, NEW ends \in BOOLEAN,
               Kept(by, ends) /\ does' = does
        PROVE  ~torn' /\ "watch" \notin part' /\ ("ours" \in part' => does' = "mid")
    <3>1. ~({"ours", "watch"} \subseteq part \cup {by}) /\ by # "watch" /\ by # "ours"
      BY <2>1, <2>7
    <3>2. ~torn' /\ part' \subseteq part \cup {by}
      BY <2>1, <2>4, <2>7, <3>1
    <3>3. QED
      BY <2>1, <2>7, <3>1, <3>2
  <2>8. CASE Kept("watch", TRUE) /\ mark.call /\ does' = does
    BY <2>1, <2>4, <2>8
  <2>9. QED
    BY <2>2, <2>3, <2>5, <2>6, <2>7, <2>8, WhatIsLogged DEF Speaks
<1>3. QED
  BY <1>1, <1>2 DEF Whole

\* Keys are polled, read by this binary or by a bootloader, or typed.
LEMMA WhatIsTyped ==
    ASSUME [Next]_vars
    PROVE  \/ UNCHANGED <<queue, stdin, pressed, details>> /\ ours' \in {ours, TRUE, FALSE}
           \/ PollKey
           \/ ReadChar /\ phase \in {"hold", "offer", "pressed", "shell"}
           \/ ImageReads \/ Type
<1>1. CASE UNCHANGED panelVars
  BY <1>1, Zenon DEF panelVars, panel, keyboard
<1>2. ASSUME NEW by \in Authors, NEW ends \in BOOLEAN, Output(by, ends),
             UNCHANGED keyboard
      PROVE  UNCHANGED <<queue, stdin, pressed, details, ours>>
  BY <1>2, Zenon DEF Output, keyboard
<1>3. CASE Prints \/ Polls \/ Tick
  BY <1>3, Zenon DEF Prints, Polls, PollKey, Copy, Drawn, Tick, PrintAtNotify, NotSaid, keyboard
<1>4. CASE \/ Start \/ OldReturns \/ Begin \/ Attach \/ StartImage
           \/ ImageReturns \/ Hold \/ HoldTurn \/ HoldResets
  BY <1>4, Zenon DEF Start, OldReturns, Begin, Attach, PollAndDraw, StartImage,
     ImageReturns, Hold, HoldTurn, HoldResets, Handoff, HandedBack, NotTyped, panel,
     keyboard
<1>5. CASE \/ FallThrough \/ Turns \/ OpenConsole \/ ConsoleReads \/ CloseConsole
           \/ StartLocal \/ Ending
  BY <1>5, Zenon DEF FallThrough, DrawOnly, Turns, OfferTurn, PressTurn, OpenConsole,
     ConsoleReads, CloseConsole, StartLocal, Ending, Giving, NotTyped, keyboard
<1>6. QED
  BY <1>1, <1>2, <1>3, <1>4, <1>5, PanelStands, SomethingSaid, Zenon
     DEF Next, Watch

\* Every step keeps the keys in their types.
LEMMA KeysStep ==
    ASSUME KeysTypeOK, FlowTypeOK, [Next]_vars
    PROVE  KeysTypeOK'
<1>1. /\ queue \in Seq(Keys) /\ Len(queue) <= KeyRoom
      /\ stdin \in Seq(Keys) /\ Len(stdin) <= MaxWaiting
      /\ details \in BOOLEAN /\ ours \in BOOLEAN /\ pressed \in BOOLEAN
  BY Zenon DEF KeysTypeOK
<1>2. /\ <<>> \in Seq(Keys) /\ Len(<<>>) <= MaxWaiting /\ Len(<<>>) <= KeyRoom
  BY Sizes DEF MaxWaiting
<1>3. ASSUME NEW s \in Seq(Keys), s # <<>>
      PROVE  Tail(s) \in Seq(Keys) /\ Len(Tail(s)) = Len(s) - 1 /\ Len(s) \in Nat
  BY <1>3
<1>4. CASE UNCHANGED <<queue, stdin, pressed, details>> /\ ours' \in {ours, TRUE, FALSE}
  BY <1>1, <1>4, Zenon DEF KeysTypeOK
<1>5. CASE PollKey
  <2>1. /\ stdin # <<>> /\ stdin' = Tail(stdin) /\ pressed' \in BOOLEAN /\ ours' = ours
        /\ details' \in {details, ~details}
        /\ queue' \in {queue, Append(queue, Head(stdin))}
        /\ queue' # queue => Len(queue) < KeyRoom
    BY <1>5, Zenon DEF PollKey
  <2>2. stdin' \in Seq(Keys) /\ Len(stdin') <= MaxWaiting
    BY <1>1, <1>3, <2>1 DEF MaxWaiting
  <2>3. queue' \in Seq(Keys) /\ Len(queue') <= KeyRoom
    <3>1. CASE queue' = queue
      BY <1>1, <3>1
    <3>2. CASE queue' # queue
      <4>1. queue' = Append(queue, Head(stdin)) /\ Len(queue) < KeyRoom
        BY <2>1, <3>2
      <4>2. Head(stdin) \in Keys
        BY <1>1, <2>1
      <4>3. queue' \in Seq(Keys) /\ Len(queue') = Len(queue) + 1
        BY <1>1, <4>1, <4>2
      <4>4. QED
        BY <1>1, <4>1, <4>3, Sizes
    <3>3. QED
      BY <3>1, <3>2
  <2>4. details' \in BOOLEAN
    BY <1>1, <2>1
  <2>5. QED
    BY <1>1, <2>1, <2>2, <2>3, <2>4, Zenon DEF KeysTypeOK
<1>6. CASE ReadChar
  <2> DEFINE rest == IF Readable = <<>> THEN <<>> ELSE Tail(Readable)
  <2>1. /\ pressed' \in BOOLEAN /\ ours' = ours
        /\ IF Installed THEN queue' = rest /\ stdin' = stdin
                        ELSE stdin' = rest /\ queue' = queue
        /\ details' = details
    BY <1>6, Zenon DEF ReadChar
  <2>2. /\ rest \in Seq(Keys)
        /\ Installed => Len(rest) <= KeyRoom
        /\ ~Installed => Len(rest) <= MaxWaiting
    <3>1. Readable \in Seq(Keys)
          /\ (Installed => Len(Readable) <= KeyRoom)
          /\ (~Installed => Len(Readable) <= MaxWaiting)
      BY <1>1, Zenon DEF Readable
    <3>2. KeyRoom \in Nat /\ MaxWaiting \in Nat
      BY Sizes DEF MaxWaiting
    <3>3. CASE Readable = <<>>
      BY <1>2, <3>3
    <3>4. CASE Readable # <<>>
      BY <1>3, <3>1, <3>2, <3>4
    <3>5. QED
      BY <3>3, <3>4
  <2> HIDE DEF rest
  <2>3. QED
    BY <1>1, <1>2, <2>1, <2>2, Zenon DEF KeysTypeOK
<1>7. CASE ImageReads
  <2>1. /\ stdin # <<>> /\ stdin' = Tail(stdin) /\ pressed' \in BOOLEAN
        /\ UNCHANGED <<queue, ours, details>>
    BY <1>7, Zenon DEF ImageReads, panel
  <2>2. stdin' \in Seq(Keys) /\ Len(stdin') <= MaxWaiting
    BY <1>1, <1>3, <2>1 DEF MaxWaiting
  <2>3. QED
    BY <1>1, <2>1, <2>2, Zenon DEF KeysTypeOK
<1>8. CASE Type
  <2>1. PICK k \in machine.keys : /\ stdin' = Append(stdin, k)
                                  /\ pressed' = (pressed \/ (k = "c" /\ phase \notin Theirs))
    BY <1>8, Zenon DEF Type
  <2>2. UNCHANGED <<queue, ours, details>> /\ pressed' \in BOOLEAN
    BY <1>1, <1>8, <2>1, Zenon DEF Type, panel
  <2>3. k \in Keys
    BY <2>1, Sizes DEF FlowTypeOK, Machines
  <2>4. Len(stdin) < MaxWaiting
    BY <1>8 DEF Type, MaxWaiting
  <2>5. stdin' \in Seq(Keys) /\ Len(stdin') <= MaxWaiting
    BY <1>1, <2>1, <2>3, <2>4 DEF MaxWaiting
  <2>6. QED
    BY <1>1, <2>2, <2>5, Zenon DEF KeysTypeOK
<1>9. QED
  BY <1>4, <1>5, <1>6, <1>7, <1>8, WhatIsTyped

\* Every step keeps the drawing in its types.
LEMMA DrawingStep ==
    ASSUME DrawingTypeOK, [Next]_vars
    PROVE  DrawingTypeOK'
<1>1. /\ out \in [stage : {"none", "copy", "draw"}, ends : BOOLEAN]
      /\ shown \in 0 .. KeepPanel /\ busy \in BOOLEAN /\ dirty \in BOOLEAN
  BY Zenon DEF DrawingTypeOK
<1>2. /\ Quiet \in [stage : {"none", "copy", "draw"}, ends : BOOLEAN]
      /\ \A ends \in BOOLEAN : [stage |-> "copy", ends |-> ends]
                                 \in [stage : {"none", "copy", "draw"}, ends : BOOLEAN]
  BY DEF Quiet
<1>3. Longer \in 0 .. KeepPanel
  BY <1>1, Sizes DEF Longer
<1>4. CASE /\ UNCHANGED <<busy, shown, dirty>>
           /\ \/ out' \in {out, Quiet}
              \/ \E ends \in BOOLEAN : out' = [stage |-> "copy", ends |-> ends]
  BY <1>1, <1>2, <1>4, Zenon DEF DrawingTypeOK
<1>5. CASE Copy
  <2>1. [out EXCEPT !.stage = "draw"]
          \in [stage : {"none", "copy", "draw"}, ends : BOOLEAN] /\ out.ends \in BOOLEAN
    BY <1>1
  <2>2. QED
    BY <1>1, <1>2, <1>3, <1>5, <2>1, Zenon DEF Copy, DrawingTypeOK
<1>6. CASE busy' = FALSE /\ out' = Quiet /\ UNCHANGED <<shown, dirty>>
  BY <1>1, <1>2, <1>6, Zenon DEF DrawingTypeOK
<1>7. CASE PrintAtNotify("watch")
  BY <1>1, <1>3, <1>7, Zenon DEF PrintAtNotify, DrawingTypeOK
<1>8. QED
  BY <1>4, <1>5, <1>6, <1>7, WhatIsDrawn

\* Every step keeps the screen in its types.
LEMMA ScreenStep ==
    ASSUME ScreenTypeOK, [Next]_vars
    PROVE  ScreenTypeOK'
<1> SUFFICES screen' \in {screen, "firmware", "steps", "lines"}
  BY DEF ScreenTypeOK
<1>1. CASE UNCHANGED panelVars
  BY <1>1, Zenon DEF panelVars, panel
<1>2. ASSUME NEW by \in Authors, NEW ends \in BOOLEAN, Output(by, ends)
      PROVE  UNCHANGED screen
  BY <1>2, Zenon DEF Output
<1>3. ASSUME NEW lined, Draw(lined)
      PROVE  screen' \in {screen, "firmware", "steps", "lines"}
  BY <1>3, Zenon DEF Draw, Page
<1>4. CASE Install \/ Suspend \/ Resume(machine.screen)
  BY <1>4, Zenon DEF Install, Suspend, Resume, Page
<1>5. CASE Prints \/ Polls \/ Tick
  BY <1>3, <1>5, Zenon DEF Prints, Polls, PollKey, Copy, Drawn, Tick, PrintAtNotify
<1>6. CASE \/ Start \/ OldReturns \/ Begin \/ Attach \/ StartImage \/ ImageReads
           \/ ImageReturns \/ Hold \/ HoldTurn \/ HoldResets
  BY <1>3, <1>4, <1>6, Zenon DEF Start, OldReturns, Begin, PanelBegin, Attach,
     PollAndDraw, StartImage, ImageReads, ImageReturns, Hold, HoldTurn, HoldResets,
     Handoff, HandedBack, ReadChar, panel
<1>7. CASE \/ FallThrough \/ Turns \/ OpenConsole \/ ConsoleReads \/ CloseConsole
           \/ StartLocal \/ Ending \/ Type
  BY <1>3, <1>4, <1>7, Zenon DEF FallThrough, DrawOnly, Turns, OfferTurn, PressTurn,
     OpenConsole, ConsoleReads, CloseConsole, StartLocal, Ending, Giving, Type,
     ReadChar, panel
<1>8. QED
  BY <1>1, <1>2, <1>5, <1>6, <1>7, PanelStands, SomethingSaid, Zenon DEF Next, Watch

\* Every step keeps the rows of the boot's steps in their types.
LEMMA StepsStep ==
    ASSUME StepsTypeOK, [Next]_vars
    PROVE  StepsTypeOK'
<1>1. CASE UNCHANGED steps
  BY <1>1, Zenon DEF StepsTypeOK
<1>2. ASSUME NEW s \in Steps, Began(s) \/ Failed(s)
      PROVE  StepsTypeOK'
  BY <1>2 DEF StepsTypeOK, Began, Failed, States
<1>3. "image" \in Steps /\ "handoff" \in Steps
  BY DEF Steps
<1>4. CASE Attach \/ StartImage \/ ImageReturns \/ Hold \/ FallThrough
  BY <1>1, <1>2, <1>3, <1>4, Zenon DEF Attach, StartImage, Handoff, ImageReturns,
     HandedBack, Hold, FallThrough, Problem
<1>5. CASE \/ Start \/ OldReturns \/ Begin \/ ImageReads \/ HoldTurn \/ HoldResets
           \/ Turns \/ OpenConsole \/ ConsoleReads \/ CloseConsole
           \/ StartLocal \/ Ending \/ Type \/ Prints \/ Polls \/ Tick
  BY <1>1, <1>5, Zenon DEF Start, OldReturns, Begin, ImageReads, HoldTurn, HoldResets,
     Turns, OfferTurn, PressTurn, OpenConsole, ConsoleReads, CloseConsole, StartLocal,
     Ending, Giving, Type, Prints, Polls, PollKey, Copy, Drawn, Tick, NotSaid
<1>6. CASE UNCHANGED panelVars
  BY <1>1, <1>6, Zenon DEF panelVars
<1>7. QED
  BY <1>1, <1>4, <1>5, <1>6, PanelStands, SomethingSaid, Zenon DEF Next, Watch

\* Every step keeps the chain of ConOut in its types.
LEMMA ChainStep ==
    ASSUME ChainTypeOK, [Next]_vars
    PROVE  ChainTypeOK'
<1> SUFFICES /\ conout' \in {conout, under, "firmware", "log", "panel"}
             /\ under' \in {under, conout} /\ hooked' \in {hooked, TRUE, FALSE}
  BY DEF ChainTypeOK
<1>1. CASE UNCHANGED chain
  BY <1>1, Zenon DEF chain
<1>2. CASE Suspend \/ Resume(machine.screen) \/ PanelBegin \/ LogBegin \/ LogEnd
  BY <1>2, Zenon DEF Suspend, Resume, PanelBegin, Install, LogBegin, LogEnd, chain
<1>3. CASE \/ Start \/ OldReturns \/ Begin \/ HoldResets \/ OpenConsole \/ CloseConsole
           \/ StartLocal \/ Ending
  BY <1>1, <1>2, <1>3, Zenon DEF Start, OldReturns, Begin, HoldResets, OpenConsole,
     CloseConsole, StartLocal, Ending, Giving, chain
<1>4. CASE \/ Attach \/ StartImage \/ ImageReturns \/ Hold \/ FallThrough \/ ImageReads
           \/ HoldTurn \/ Turns \/ ConsoleReads \/ Type \/ Prints \/ Polls \/ Tick
  BY <1>1, <1>4, Zenon DEF Attach, StartImage, ImageReturns, Hold, FallThrough,
     ImageReads, HoldTurn, Turns, OfferTurn, PressTurn, ConsoleReads, Type, Prints,
     Polls, PollKey, Copy, Drawn, Tick, NotSaid, chain
<1>5. CASE UNCHANGED panelVars
  BY <1>1, <1>5, Zenon DEF panelVars
<1>6. QED
  BY <1>1, <1>3, <1>4, <1>5, PanelStands, SomethingSaid, Zenon DEF Next, Watch

------------------------------------------------------------------------------
(* Every state is in order.                                                *)

\* The inductive invariant holds when the console is opened.
LEMMA InitInOrder == Init => InOrder
<1> SUFFICES ASSUME Init
             PROVE  InOrder
  OBVIOUS
<1>1. /\ machine \in Cases /\ phase = "start" /\ leased = FALSE /\ asked = FALSE
      /\ left = 0 /\ typed = 0
      /\ PanelInit /\ WatchInit
      /\ \E c \in {"named", "none"} : LogInit(machine.off, c)
  BY Zenon DEF Init
<1>2. FlowTypeOK
  <2>1. "start" \in Phases /\ 0 \in 0 .. OfferTurns + PressTurns /\ 0 \in 0 .. MaxTyped
    BY Sizes DEF Phases, MaxTyped
  <2>2. QED
    BY <1>1, <2>1, Zenon DEF FlowTypeOK
<1>3. LogTypeOK /\ Logged /\ flush = "no" /\ part = {} /\ torn = FALSE
  <2>1. PICK c \in {"named", "none"} : LogInit(machine.off, c)
    BY <1>1
  <2>2. machine.off \in BOOLEAN
    BY <1>1, Sizes DEF Machines
  <2>3. /\ off \in BOOLEAN /\ collector \in {"named", "none"}
        /\ lines = <<>> /\ part = {} /\ dropped = 0 /\ said = FALSE /\ flush = "no"
        /\ ended = 0 /\ heard = 0 /\ gap = FALSE /\ torn = FALSE
    BY <2>1, <2>2, Zenon DEF LogInit
  <2>4. LogTypeOK
    <3>1. lines \in Seq(Nat) /\ Len(lines) = 0 /\ 0 <= KeepLines
      BY <2>3, Sizes
    <3>2. QED
      BY <2>3, <3>1 DEF LogTypeOK
  <2>5. ~gap
    BY <2>3, Zenon
  <2>6. /\ heard + dropped + Len(lines) = ended
        /\ \A i \in 1 .. Len(lines) : lines[i] = heard + dropped + i
    BY <2>3
  <2>7. QED
    BY <2>3, <2>4, <2>5, <2>6, Zenon DEF Logged
<1>4. WatchTypeOK /\ Marked /\ does = "idle" /\ armed = FALSE
  <2>1. /\ armed = FALSE /\ does = "idle" /\ now = 0 /\ inside = NoCall /\ report = NoCall
        /\ mark = [call |-> FALSE, nic |-> 0, since |-> 0, told |-> 0]
    BY <1>1, Zenon DEF WatchInit
  <2>2. WatchTypeOK
    <3>1. /\ "idle" \in Doings /\ 0 \in 0 .. MaxTime
          /\ NoCall \in [nic : Nics \cup {NoNic}, since : 0 .. MaxTime]
      BY Sizes DEF Doings, NoCall
    <3>2. mark \in [call : BOOLEAN, nic : Nics, since : 0 .. MaxTime,
                    told : 0 .. MaxTime]
      BY <2>1, <3>1, Sizes
    <3>3. QED
      BY <2>1, <3>1, <3>2, Zenon DEF WatchTypeOK
  <2>3. /\ ~mark.call /\ mark.since <= now /\ inside.since <= now
    BY <2>1 DEF NoCall
  <2>4. Marked
    BY <2>1, <2>3, Zenon DEF Marked
  <2>5. QED
    BY <2>1, <2>2, <2>4, Zenon
<1>5. /\ conout = "firmware" /\ under = "firmware" /\ hooked = FALSE
      /\ out = Quiet /\ busy = FALSE /\ shown = 0 /\ details = FALSE
      /\ screen = "firmware" /\ dirty = FALSE
      /\ steps = [s \in Steps |-> "pending"]
      /\ ours = TRUE /\ queue = <<>> /\ stdin = <<>> /\ pressed = FALSE
  BY <1>1, Zenon DEF PanelInit
<1>6. ChainTypeOK /\ ScreenTypeOK /\ DrawingTypeOK
  <2>1. /\ Quiet \in [stage : {"none", "copy", "draw"}, ends : BOOLEAN]
        /\ 0 \in 0 .. KeepPanel
    BY Sizes DEF Quiet
  <2>2. DrawingTypeOK
    BY <1>5, <2>1, Zenon DEF DrawingTypeOK
  <2>3. ChainTypeOK /\ ScreenTypeOK
    BY <1>5, Zenon DEF ChainTypeOK, ScreenTypeOK
  <2>4. QED
    BY <2>2, <2>3
<1>7. KeysTypeOK /\ StepsTypeOK
  <2>1. <<>> \in Seq(Keys) /\ Len(<<>>) <= KeyRoom /\ Len(<<>>) <= MaxWaiting
    BY Sizes DEF MaxWaiting
  <2>2. KeysTypeOK
    BY <1>5, <2>1, Zenon DEF KeysTypeOK
  <2>3. StepsTypeOK
    BY <1>5 DEF StepsTypeOK, States
  <2>4. QED
    BY <2>2, <2>3
<1>8. Underway
  BY <1>1, <1>3, <1>4, Zenon DEF Underway
<1>9. Hooked
  BY <1>1, <1>4, <1>5, Zenon DEF Hooked, Installed
<1>10. Whole
  <2>1. out.stage # "draw"
    BY <1>5 DEF Quiet
  <2>2. QED
    BY <1>3, <1>5, <2>1, Zenon DEF Whole
<1>11. QED
  BY <1>2, <1>3, <1>4, <1>6, <1>7, <1>8, <1>9, <1>10, TypeParts DEF InOrder

\* Every step keeps the inductive invariant.
LEMMA StepInOrder == InOrder /\ [Next]_vars => InOrder'
<1> SUFFICES ASSUME InOrder, [Next]_vars
             PROVE  InOrder'
  OBVIOUS
<1>1. /\ FlowTypeOK /\ LogTypeOK /\ WatchTypeOK /\ ChainTypeOK
      /\ DrawingTypeOK /\ KeysTypeOK /\ ScreenTypeOK /\ StepsTypeOK
      /\ Hooked /\ Underway /\ Logged /\ Marked /\ Whole
  BY TypeParts, Zenon DEF InOrder
<1>2. FlowTypeOK' /\ Underway'
  BY <1>1, FlowStep
<1>3. LogTypeOK' /\ Logged'
  BY <1>1, LogTyped, LoggedStep
<1>4. WatchTypeOK' /\ Marked'
  BY <1>1, WatchStep
<1>5. ChainTypeOK' /\ DrawingTypeOK' /\ KeysTypeOK' /\ ScreenTypeOK' /\ StepsTypeOK'
  BY <1>1, ChainStep, DrawingStep, KeysStep, ScreenStep, StepsStep
<1>6. Hooked' /\ Whole'
  BY <1>1, HookedStep, WholeStep
<1>7. TypeOK'
  <2>1. PanelTypeOK'
    BY <1>5, Zenon DEF PanelTypeOK, ChainTypeOK, DrawingTypeOK, KeysTypeOK,
       ScreenTypeOK, StepsTypeOK
  <2>2. QED
    BY <1>2, <1>3, <1>4, <2>1, Zenon DEF TypeOK, FlowTypeOK
<1>8. QED
  BY <1>2, <1>3, <1>4, <1>6, <1>7 DEF InOrder

\* The inductive invariant holds throughout every boot.
LEMMA AlwaysInOrder == Spec => []InOrder
BY InitInOrder, StepInOrder, PTL DEF Spec

\* Every variable of the console has its type, whatever the machine and whatever the
\* limits of the log, the panel and the watch.
THEOREM TypeCorrect == Spec => []TypeOK
<1>1. InOrder => TypeOK
  BY DEF InOrder
<1>2. QED
  BY <1>1, AlwaysInOrder, PTL

\* Every line printed from netlog::begin to netlog::end waits in the log, or was
\* handed to the stack in its place, or was counted among the dropped ones, whoever
\* printed it and whichever ConOut was in front.
THEOREM AlwaysAccounted == Spec => []Accounted
<1>1. InOrder => Accounted
  BY DEF InOrder, Logged, Accounted
<1>2. QED
  BY <1>1, AlwaysInOrder, PTL

\* Wherever the watch's timer fires, it reports the call that is being made, from its
\* start; the return of a reported call is said; no report is inside a line of
\* this binary's, and the panel's lines stand while they are drawn.
THEOREM TimerAlwaysSafe == Spec => []TimerIsSafe
<1>1. InOrder => TimerIsSafe
  BY Zenon DEF InOrder, Marked, Whole, TimerIsSafe, ReportTrue, SaidBack, NotTorn,
     NoReentry
<1>2. QED
  BY <1>1, AlwaysInOrder, PTL

\* Whoever runs next has no hook under it, and keeps the keys typed to it.
LEMMA HandedOver ==
    ASSUME InOrder, InOrder', [Next]_vars
    PROVE  HooksGone' /\ (phase = "image" => UNCHANGED <<queue, details>>)
<1>1. HooksGone'
  <2>1. CASE phase' = "local"
    BY <2>1, Zenon DEF InOrder, Hooked, HooksGone
  <2>2. CASE phase' = "firmware"
    <3>1. conout' = "firmware" /\ ~armed'
      BY <2>2, Zenon DEF InOrder, Hooked
    <3>2. QED
      BY <3>1, Zenon DEF InOrder, Hooked, HooksGone, Installed
  <2>3. QED
    BY <2>1, <2>2, Zenon DEF HooksGone
<1>2. ASSUME phase = "image"
      PROVE  UNCHANGED <<queue, details>>
  <2>1. ~ours
    BY <1>2, Zenon DEF InOrder, Hooked
  <2>2. CASE ImageReads \/ Type
    BY <2>2, Zenon DEF ImageReads, Type, panel
  <2>3. CASE PollKey
    BY <2>1, <2>3, Zenon DEF PollKey
  <2>4. phase \notin {"hold", "offer", "pressed", "shell"}
    BY <1>2
  <2>5. QED
    BY <2>2, <2>3, <2>4, WhatIsTyped, Zenon
<1>3. QED
  BY <1>1, <1>2

\* Whoever has the machine next, a local disk's bootloader or the firmware, finds
\* no hook of this image in ConOut and no timer of the watch; and while a
\* bootloader runs under the panel, the panel takes none of its keys.
THEOREM MachineHandedOver == Spec => NextHasTheMachine
<1>1. QED
  BY AlwaysInOrder, HandedOver, PTL DEF Spec, NextHasTheMachine
=============================================================================
