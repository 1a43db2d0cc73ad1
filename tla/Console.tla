------------------------------- MODULE Console -------------------------------
(***************************************************************************)
(* A start of stormbootx as its console sees it: main.rs from              *)
(* netlog::begin to what it leaves to the firmware, with the network log,  *)
(* the panel and the watch on NIC calls of this module's parts, the hold's *)
(* keys (api.rs), the console's offer (shell.rs), and the bootloaders that *)
(* run while this image stays loaded.                                      *)
(***************************************************************************)
EXTENDS SnpWatch

CONSTANTS
    Cases,       \* the machines
    OfferTurns,  \* tenths of a second an offer lasts
    PressTurns   \* keys `pressed` reads at most

(***************************************************************************)
(* screen   there is one, and no `ui = log`                                *)
(* off      syslog = off                                                   *)
(* unicast  a collector is named                                           *)
(* keys     what somebody types                                            *)
(* typing   how many keys are typed; "endless": whenever none waits        *)
(* lines    lines printed before the prints that always come               *)
(* calls    a NIC's driver is called                                       *)
(***************************************************************************)
Machines ==
    [screen : BOOLEAN, off : BOOLEAN, unicast : BOOLEAN, keys : SUBSET Keys,
     typing : {"none", "some", "endless"}, lines : Nat, calls : BOOLEAN]

ASSUME ConsoleAssumption ==
    /\ Cases \subseteq Machines
    /\ OfferTurns \in Nat \ {0} /\ PressTurns \in Nat \ {0}

VARIABLES
    machine,
    phase,    \* where main is
    leased,   \* a NIC holds a lease
    asked,    \* the fall-through was asked for, and the local disk boots
    left,     \* turns left of the offer, or of `pressed`
    typed     \* keys typed so far

flow == <<machine, phase, leased, asked, left, typed>>
vars == <<flow, logVars, panelVars, watchVars>>

\* The pieces of main, and whoever it gives the machine to.
Phases == {"start", "early", "chained", "boot", "image", "hold", "fall",
           "falling", "offer", "declined", "pressed", "shell", "late", "last", "local", "ending",
           "ended", "firmware", "reset"}

Init ==
    /\ machine \in Cases
    /\ LogInit(machine.off, IF machine.unicast THEN "named" ELSE "none")
    /\ PanelInit /\ WatchInit
    /\ phase = "start" /\ leased = FALSE /\ asked = FALSE /\ left = 0
    /\ typed = 0

\* The mainline is between two statements of main.
Free == does = "idle" /\ out.stage = "none"

NotFlowing   == UNCHANGED flow
Go(p)        == phase' = p /\ UNCHANGED <<machine, leased, asked, left, typed>>
NotLogging   == UNCHANGED logVars
LogKept      == UNCHANGED <<off, collector, lines, part, dropped, said, ended,
                            heard, gap, torn>>
NotWatching  == UNCHANGED watchVars
NotDrawing   == UNCHANGED <<out, busy, shown, dirty>>
NotTyped     == UNCHANGED keyboard

------------------------------------------------------------------------------
(* The start.                                                              *)

Start ==
    /\ phase = "start" /\ Free
    /\ LogBegin
    /\ Go("early")
    /\ NotLogging /\ NotWatching /\ NotTyped
    /\ UNCHANGED <<panel, steps>>

\* at_start put the old set back and starts it: it hooks ConOut above this
\* one's hook, and takes its own away again.
ChainLoad ==
    /\ phase = "early" /\ Free
    /\ Go("chained")
    /\ NotLogging /\ NotWatching /\ UNCHANGED panelVars

OldReturns ==
    /\ phase = "chained" /\ Free
    /\ LogEnd
    /\ Go("firmware")
    /\ NotLogging /\ NotWatching /\ NotTyped
    /\ UNCHANGED <<panel, steps>>

Begin ==
    /\ phase = "early" /\ Free
    /\ IF machine.screen THEN PanelBegin ELSE UNCHANGED <<chain, screen>>
    /\ Go("boot")
    /\ NotLogging /\ NotWatching /\ NotTyped /\ NotDrawing
    /\ UNCHANGED <<details, steps>>

------------------------------------------------------------------------------
(* What goes on in every phase: prints, calls, leases, sends.              *)

Working == {"boot", "hold", "late"}

\* A println! of this binary's: its first piece.
PrintLine ==
    /\ phase \in Working \cup {"last"} /\ Free
    /\ ended < machine.lines
    /\ does' = "mid"
    /\ Say("ours", FALSE) /\ NotSent
    /\ NotFlowing
    /\ UNCHANGED <<Clock, mark, inside, report>>

\* Where the stack is polled: the boot, a hold, the console's commands, and
\* whatever a send asks.
Polling ==
    \/ phase \in {"boot", "hold"} /\ flush = "no"
    \/ phase = "shell" /\ ~Installed
    \/ flush \in {"lookup", "sending"}

Call ==
    /\ machine.calls
    /\ out.stage = "none"
    /\ \/ Polling /\ does = "idle" /\ now < MaxTime
       \/ does \in {"enter1", "enter2", "enter3"}
    /\ \E nic \in Nics : Enter(nic)
    /\ NotFlowing

Return == Drop /\ NotFlowing

DriverSays ==
    /\ ended < machine.lines
    /\ DriverPrints
    /\ NotFlowing

LineEnds == EndLine /\ NotFlowing

ArmWatch == phase = "boot" /\ Arm /\ NotFlowing

Lease ==
    /\ phase = "boot" /\ ~leased /\ Free
    /\ leased' = TRUE
    /\ UNCHANGED <<machine, phase, asked, left, typed>>
    /\ NotLogging /\ NotWatching /\ UNCHANGED panelVars

\* A send at one of the boot's fixed points, or of a hold.
Flush ==
    /\ phase \in {"boot", "hold"} /\ Free /\ flush = "no"
    /\ ~off \/ ~said
    /\ leased
    /\ FlushIf(leased)
    /\ NotFlowing /\ NotWatching /\ UNCHANGED panelVars
    /\ LogKept

\* The collector's address, asked once; a name nobody knows is said.
Lookup ==
    /\ flush = "lookup" /\ Free
    /\ flush' = "say"
    /\ \/ /\ off \/ collector # "named"
          /\ LogKept
          /\ NotWatching /\ UNCHANGED panelVars
       \/ /\ ~off /\ collector = "named"
          /\ collector' = "found"
          /\ UNCHANGED <<off, lines, part, dropped, said, ended, heard, gap, torn>>
          /\ NotWatching /\ UNCHANGED panelVars
       \/ /\ ~off /\ collector = "named"
          /\ collector' = "unknown"
          /\ does' = "mid"
          /\ Output("ours", FALSE)
          /\ UNCHANGED <<off, said, heard, gap, chain, steps, keyboard>>
          /\ UNCHANGED <<Clock, mark, inside, report>>
    /\ NotFlowing

\* Once a boot, the console is told where the log goes, or that it does not.
SayWhere ==
    /\ flush = "say" /\ Free
    /\ flush' = IF off THEN "no" ELSE "take"
    /\ said' = TRUE
    /\ IF said
       THEN /\ UNCHANGED <<off, collector, lines, part, dropped, ended, heard, gap, torn>>
            /\ NotWatching /\ UNCHANGED panelVars
       ELSE /\ does' = "mid"
            /\ Say("ours", FALSE)
            /\ UNCHANGED <<Clock, mark, inside, report>>
    /\ NotFlowing

Send ==
    /\ Free
    /\ TakeAndSend \/ Sent
    /\ NotFlowing /\ NotWatching /\ UNCHANGED panelVars

Prints == \/ (Copy \/ Drawn) /\ NotFlowing /\ NotLogging /\ NotWatching

\* The panel's keys are polled where it draws, waits or is asked for one.
Polls ==
    /\ \/ out.stage = "draw"
       \/ Free /\ flush = "no" /\ phase \in {"boot", "hold", "offer", "pressed", "last", "ending"}
    /\ PollKey
    /\ NotFlowing /\ NotLogging /\ NotWatching /\ NotDrawing
    /\ UNCHANGED <<chain, steps>>

Watch == (Tick \/ Second) /\ NotFlowing

------------------------------------------------------------------------------
(* The boot, its image, and a hold.                                        *)

\* The attach begins: step(Image).
Attach ==
    /\ phase = "boot" /\ Free /\ flush = "no"
    /\ steps["image"] # "active"
    /\ Began("image")
    /\ PollAndDraw
    /\ NotFlowing /\ NotLogging /\ NotWatching
    /\ UNCHANGED chain

StartImage ==
    /\ phase = "boot" /\ Free /\ flush = "no"
    /\ steps["image"] = "active"
    /\ Handoff
    /\ Go("image")
    /\ NotLogging /\ NotWatching /\ NotDrawing
    /\ UNCHANGED chain

\* The bootloader prints under the panel, and reads keys.
ImagePrints ==
    /\ phase \in {"image", "local"} /\ Free
    /\ ended < machine.lines
    /\ \E ends \in BOOLEAN : Say("image", ends)
    /\ NotSent /\ NotFlowing /\ NotWatching

ImageReads ==
    /\ phase \in {"image", "local", "chained"} /\ Free
    /\ stdin # <<>>
    /\ stdin' = Tail(stdin)
    /\ pressed' = (pressed /\ HasC(queue \o Tail(stdin)))
    /\ NotFlowing /\ NotLogging /\ NotWatching
    /\ UNCHANGED <<chain, panel, steps, ours, queue>>

ImageReturns ==
    /\ phase = "image" /\ Free
    /\ HandedBack
    /\ Go("boot")
    /\ NotLogging /\ NotWatching /\ NotDrawing
    /\ UNCHANGED chain

\* The pass failed and the policy is to hold: problem, next, and a send.
Hold ==
    /\ phase = "boot" /\ Free /\ flush = "no"
    /\ leased
    /\ Go("hold")
    /\ Problem /\ PollAndDraw
    /\ FlushIf(leased)
    /\ NotWatching /\ UNCHANGED chain
    /\ LogKept

\* take_char, and the key that ends the hold. Without the panel it reads none.
HoldTurn ==
    /\ phase = "hold" /\ Free /\ flush = "no"
    /\ Installed
    /\ queue # <<>>
    /\ ReadChar
    /\ IF NextChar = "l"
       THEN phase' = "falling" /\ UNCHANGED <<machine, leased, asked, left, typed>>
       ELSE NotFlowing
    /\ NotLogging /\ NotWatching /\ NotDrawing
    /\ UNCHANGED <<chain, steps>>

\* hold_retry, or a command: the boot again, or a reset.
HoldRetries ==
    /\ phase = "hold" /\ Free /\ flush = "no"
    /\ Go("boot")
    /\ NotLogging /\ NotWatching /\ UNCHANGED panelVars

HoldResets ==
    /\ phase = "hold" /\ Free /\ flush = "no"
    /\ Suspend
    /\ Go("reset")
    /\ NotLogging /\ NotWatching /\ NotTyped /\ NotDrawing
    /\ UNCHANGED <<details, steps>>

------------------------------------------------------------------------------
(* The fall-through.                                                       *)

\* It was asked for, or the pass failed, or the hold is over: the problem,
\* and what happened to the collectors before anything waits.
FallThrough ==
    /\ phase \in {"boot", "hold", "falling"} /\ Free /\ flush = "no"
    /\ phase' = "fall"
    /\ asked' \in BOOLEAN
    /\ UNCHANGED <<machine, leased, left, typed>>
    /\ Problem /\ DrawOnly
    /\ FlushIf(leased)
    /\ NotTyped /\ NotWatching /\ UNCHANGED chain
    /\ LogKept

\* The console is offered for a time, or, when the local disk was asked for,
\* only to a c already pressed.
OfferConsole ==
    /\ phase = "fall" /\ Free /\ flush = "no"
    /\ IF asked THEN phase' = "pressed" /\ left' = PressTurns
                ELSE phase' = "offer" /\ left' = OfferTurns
    /\ UNCHANGED <<machine, leased, asked, typed>>
    /\ NotLogging /\ NotWatching /\ UNCHANGED panelVars

\* offer: next() when a second begins, a key, a tenth of a second.
OfferTurn ==
    /\ phase = "offer" /\ Free
    /\ ReadChar
    /\ left' = left - 1
    /\ phase' = IF NextChar = "c" THEN "shell"
                ELSE IF left = 1 THEN "declined" ELSE "offer"
    /\ UNCHANGED <<machine, leased, asked, typed>>
    /\ NotLogging /\ NotWatching /\ NotDrawing
    /\ UNCHANGED <<chain, steps>>


\* pressed: until no key is there, and no more than PressTurns of them.  A c
\* read here is the console's even when other keys follow it.
PressTurn ==
    /\ phase = "pressed" /\ Free
    /\ ReadChar
    /\ left' = left - 1
    /\ phase' = IF NextChar = "c" THEN "shell"
                ELSE IF NextChar = "none" \/ left = 1 THEN "declined" ELSE "pressed"
    /\ UNCHANGED <<machine, leased, asked, typed>>
    /\ NotLogging /\ NotWatching /\ NotDrawing
    /\ UNCHANGED <<chain, steps>>

\* The network console has the screen; its commands may call the NICs.
OpenConsole ==
    /\ phase = "shell" /\ Free /\ Installed
    /\ Suspend
    /\ NotFlowing /\ NotLogging /\ NotWatching /\ NotTyped /\ NotDrawing
    /\ UNCHANGED <<details, steps>>

ConsoleReads ==
    /\ phase = "shell" /\ Free /\ ~Installed
    /\ stdin # <<>>
    /\ ReadChar
    /\ NotFlowing /\ NotLogging /\ NotWatching /\ NotDrawing
    /\ UNCHANGED <<chain, steps>>

\* `boot`: the panel again, the clock, and a send.
CloseConsole ==
    /\ \/ phase = "shell" /\ Free /\ ~Installed
       \/ phase = "declined" /\ Free
    /\ IF phase = "shell" THEN Resume(machine.screen) ELSE UNCHANGED <<chain, screen>>
    /\ Go("late")
    /\ FlushIf(leased)
    /\ LogKept /\ NotWatching /\ NotTyped /\ NotDrawing
    /\ UNCHANGED <<details, steps>>

\* net::release: the watch's timer before the image can be unloaded.
Release ==
    /\ phase = "late" /\ Free /\ flush = "no"
    /\ Close
    /\ Go("last")
    /\ NotPrinting

\* A local disk: its bootloader gets the screen.  end_saying prints the line
\* that names this build.
StartLocal ==
    /\ phase = "last" /\ Free
    /\ Suspend
    /\ Go("local")
    /\ NotLogging /\ NotWatching /\ NotTyped /\ NotDrawing
    /\ UNCHANGED <<details, steps>>

LocalEnds == \* it came back, or there was none to start
    /\ phase \in {"last", "local"} /\ Free
    /\ Go("ending")
    /\ NotLogging /\ NotWatching /\ UNCHANGED panelVars

Giving(step, next) ==
    /\ step
    /\ Go(next)
    /\ NotLogging /\ NotWatching /\ NotTyped /\ NotDrawing
    /\ UNCHANGED <<details, steps>>

\* Mutant of Ending: netlog::end, then ui::end.
EndingLogFirst ==
    /\ Free
    /\ \/ phase = "ending" /\ Giving(LogEnd /\ UNCHANGED screen, "ended")
       \/ phase = "ended" /\ Giving(Suspend, "firmware")

\* The end of fall_through: ui::end, then netlog::end.
Ending ==
    /\ Free
    /\ \/ phase = "ending" /\ Giving(Suspend, "ended")
       \/ phase = "ended" /\ Giving(LogEnd /\ UNCHANGED screen, "firmware")

------------------------------------------------------------------------------
(* Somebody at the keyboard.                                               *)

\* Where the keys are not this binary's to read.
Theirs == {"chained", "image", "shell", "local", "firmware", "reset"}

MaxTyped == 3

Type ==
    /\ phase \notin {"firmware", "reset"}
    /\ \/ /\ machine.typing = "some"
          /\ typed < MaxTyped /\ Len(stdin) < MaxWaiting
          /\ typed' = typed + 1
       \/ /\ machine.typing = "endless" /\ stdin = <<>>
          /\ UNCHANGED typed
    /\ \E k \in machine.keys :
          /\ stdin' = Append(stdin, k)
          /\ pressed' = (pressed \/ (k = "c" /\ phase \notin Theirs))
    /\ UNCHANGED <<machine, phase, leased, asked, left>>
    /\ NotLogging /\ NotWatching
    /\ UNCHANGED <<chain, panel, steps, ours, queue>>

------------------------------------------------------------------------------
Turns == OfferTurn \/ PressTurn

Next ==
    \/ Start \/ ChainLoad \/ OldReturns \/ Begin
    \/ PrintLine \/ LineEnds \/ Prints \/ Polls \/ Watch
    \/ Call \/ Return \/ DriverSays \/ ArmWatch \/ Lease
    \/ Flush \/ Lookup \/ SayWhere \/ Send
    \/ Attach \/ StartImage \/ ImagePrints \/ ImageReads \/ ImageReturns
    \/ Hold \/ HoldTurn \/ HoldRetries \/ HoldResets
    \/ FallThrough \/ OfferConsole \/ Turns
    \/ OpenConsole \/ ConsoleReads \/ CloseConsole
    \/ Release \/ StartLocal \/ LocalEnds \/ Ending
    \/ Type

Spec == Init /\ [][Next]_vars

\* The loops of `offer`, `pressed` and poll_keys go on by themselves.
FairSpec == Spec /\ WF_vars(Turns) /\ WF_vars(Polls)

------------------------------------------------------------------------------
\* Every variable has its type.
TypeOK ==
    /\ machine \in Cases
    /\ phase \in Phases
    /\ leased \in BOOLEAN /\ asked \in BOOLEAN
    /\ left \in 0 .. OfferTurns + PressTurns
    /\ typed \in 0 .. MaxTyped
    /\ LogTypeOK /\ PanelTypeOK /\ WatchTypeOK

\* Whatever is printed between netlog::begin and netlog::end, by whom, and
\* through whichever ConOut is in front, is once in the log: it waits, or it
\* was handed to the stack in its place, or the send said how many were not
\* (netlog.rs keep, take, flush).
Accounted == ~off => ~gap /\ heard + dropped + Len(lines) = ended

\* A report of the watch never lands inside a line of this binary's
\* (snpwatch.rs: "its line does not tear one of ours").
NotTorn == ~torn

\* The panel's lines do not change under the loop that draws them (ui.rs
\* BUSY), though the timer prints while a driver's line is drawn.
NoReentry == ~dirty

\* Whoever gets the machine next finds a ConOut that is not the panel's, and
\* the firmware, which unloads this image, one that does not point into it
\* and no timer that would call it (ui::end, netlog::end, net::release).
HooksGone ==
    /\ phase \in {"local", "firmware"} => ~Installed /\ screen = "firmware" /\ ~armed
    /\ phase = "firmware" => conout = "firmware"

\* A report names the call that is being made, and counts from its start.
ReportTrue == report # NoCall /\ inside # NoCall => report = inside

\* A call that was reported stuck and came back is said to have returned
\* before anything else is done.
SaidBack == report # NoCall => inside # NoCall

\* The timer may fire between any two steps: what the watch then says is so, in
\* lines of its own, and it finds and leaves the log and the panel in order.
TimerIsSafe == TypeOK /\ ReportTrue /\ SaidBack /\ NotTorn /\ NoReentry

\* What runs next has the machine to itself: its console and its timer, and no key
\* typed to a bootloader under the panel is taken by the panel.
NextHasTheMachine ==
    [][HooksGone' /\ (phase = "image" => UNCHANGED <<queue, details>>)]_vars

\* A c pressed during the boot opens the console of a fall-through that does
\* not wait, unless a hold read it or KeyRoom other keys were in front
\* (main.rs fall_through, shell.rs pressed).
PressedHeard ==
    [][phase = "pressed" /\ phase' = "declined" => ~pressed]_vars

=============================================================================
