-------------------------------- MODULE Panel --------------------------------
(***************************************************************************)
(* The boot screen (ui.rs) and the ConOut it shares with the network log:  *)
(* whose OutputString the system table holds, the panel's copy of the log, *)
(* what is on the screen, the boot's last two steps, and the keys.         *)
(*                                                                         *)
(* An OutputString of the mainline is three steps, since a timer at        *)
(* TPL_NOTIFY comes between its raised sections: the network log's copy,   *)
(* the panel's copy, the drawing.  Abstracted: text, colours, the rows of  *)
(* the panel, Esc beside F2, and the calls of ConOut that print nothing.     *)
(***************************************************************************)
EXTENDS NetLog, FiniteSets

CONSTANTS
    KeepPanel,   \* KEEP: lines kept for F2
    KeyRoom      \* keys the panel holds for take_char

ASSUME PanelAssumption == KeepPanel \in Nat \ {0} /\ KeyRoom \in Nat \ {0}

\* "x" is any key that nothing here asks for.
Keys   == {"c", "l", "x", "f2"}
MaxWaiting == 2   \* bound: keys the firmware holds at once
Steps  == {"image", "handoff"}
States == {"pending", "active", "failed"}

VARIABLES
    conout,   \* the system table's: the firmware's, the log's or the panel's
    under,    \* what the panel found there
    out,      \* the OutputString under way
    busy,     \* ui::BUSY
    shown,    \* lines in the panel's copy of the log
    details,  \* F2: the lines instead of the steps
    screen,   \* what the screen consoles show
    steps,    \* the states of the image's and the hand-off's step
    ours,     \* keys_ours
    queue,    \* keys read and not asked for yet
    stdin     \* keys the firmware holds

VARIABLES
    hooked,   \* from netlog::begin to netlog::end
    dirty,    \* the panel's log changed under its own drawing
    pressed   \* a c typed to this binary that nothing has read yet

chain     == <<conout, under, hooked>>
panel     == <<out, busy, shown, details, screen, dirty>>
keyboard  == <<ours, queue, stdin, pressed>>
panelVars == <<chain, panel, steps, keyboard>>

Quiet == [stage |-> "none", ends |-> FALSE]

PanelInit ==
    /\ conout = "firmware" /\ under = "firmware" /\ hooked = FALSE
    /\ out = Quiet /\ busy = FALSE /\ shown = 0 /\ details = FALSE
    /\ screen = "firmware" /\ dirty = FALSE
    /\ steps = [s \in Steps |-> "pending"]
    /\ ours = TRUE /\ queue = <<>> /\ stdin = <<>> /\ pressed = FALSE

PanelTypeOK ==
    /\ {conout, under} \subseteq {"firmware", "log", "panel"}
    /\ out \in [stage : {"none", "copy", "draw"}, ends : BOOLEAN]
    /\ shown \in 0 .. KeepPanel
    /\ screen \in {"firmware", "steps", "lines"}
    /\ steps \in [Steps -> States]
    /\ queue \in Seq(Keys) /\ Len(queue) <= KeyRoom
    /\ stdin \in Seq(Keys) /\ Len(stdin) <= MaxWaiting
    /\ {busy, details, hooked, dirty, ours, pressed} \subseteq BOOLEAN

Installed == conout = "panel"

------------------------------------------------------------------------------
(* The panel's own drawing and keys.                                       *)

Page(lined) == IF lined THEN "lines" ELSE "steps"

\* draw: nothing unless the panel is in front.
Draw(lined) == screen' = IF Installed THEN Page(lined) ELSE screen

HasC(q) == \E i \in DOMAIN q : q[i] = "c"

\* poll_keys, one turn of its loop: F2 is the panel's own, any other key waits,
\* and past KeyRoom is gone.
PollKey ==
    /\ ours /\ Installed /\ stdin # <<>>
    /\ stdin' = Tail(stdin)
    /\ IF Head(stdin) = "f2"
       THEN details' = ~details /\ Draw(details') /\ UNCHANGED queue
       ELSE /\ queue' = IF Len(queue) < KeyRoom THEN Append(queue, Head(stdin)) ELSE queue
            /\ UNCHANGED <<details, screen>>
    /\ pressed' = (pressed /\ HasC(queue' \o stdin'))
    /\ UNCHANGED ours

\* The loop is over when no key is left, however many came while it ran.
Polled == ours /\ Installed => stdin = <<>>

\* step, next: the keys, then the drawing.
PollAndDraw ==
    /\ Polled
    /\ Draw(details)
    /\ UNCHANGED <<out, busy, shown, details, dirty, keyboard>>

\* fail, problem: the drawing alone.
DrawOnly ==
    /\ Draw(details)
    /\ UNCHANGED <<out, busy, shown, details, dirty>>

------------------------------------------------------------------------------
(* ConOut.                                                                 *)

\* netlog::begin
LogBegin ==
    /\ conout' = "log"
    /\ hooked' = TRUE
    /\ UNCHANGED under

\* netlog::end: only when its own is the one in front.
LogEnd ==
    /\ conout' = IF conout = "log" THEN "firmware" ELSE conout
    /\ hooked' = FALSE
    /\ UNCHANGED under

\* install and draw.
Install ==
    /\ conout' = "panel"
    /\ screen' = Page(details)
    /\ UNCHANGED hooked

\* ui::begin, on a machine with a screen.
PanelBegin ==
    /\ under' = conout
    /\ Install

\* suspend, and end, which also forgets the screens.
Suspend ==
    IF Installed
    THEN /\ conout' = under
         /\ screen' = "firmware"
         /\ UNCHANGED <<under, hooked>>
    ELSE UNCHANGED <<chain, screen>>

Resume(screens) ==
    IF screens /\ ~Installed
    THEN Install /\ UNCHANGED under
    ELSE UNCHANGED <<chain, screen>>

\* OutputString, up to the panel's raised section: the network log's copy,
\* whichever of the two is in front, and the serial consoles.
Output(by, ends) ==
    /\ out.stage = "none"
    /\ Counted(hooked, ends)
    /\ IF conout = "firmware" THEN NotCaptured ELSE Capture(by, ends)
    /\ out' = IF Installed THEN [stage |-> "copy", ends |-> ends] ELSE Quiet
    /\ UNCHANGED <<busy, shown, details, screen, dirty>>

Longer == IF shown < KeepPanel THEN shown + 1 ELSE shown

\* The panel's copy: it stays busy through the drawing of a line that ended.
Copy ==
    /\ out.stage = "copy"
    /\ busy' = out.ends
    /\ shown' = IF out.ends THEN Longer ELSE shown
    /\ out' = IF out.ends THEN [out EXCEPT !.stage = "draw"] ELSE Quiet
    /\ UNCHANGED <<details, screen, dirty, steps, keyboard, chain>>

\* The lines, the bootloader's line in its step or the time of a step: then
\* the keys, with whatever F2 asks for.
Drawn ==
    /\ out.stage = "draw"
    /\ Polled
    /\ Draw(details)
    /\ busy' = FALSE
    /\ out' = Quiet
    /\ UNCHANGED <<shown, details, dirty, steps, keyboard, chain>>

\* OutputString from the timer, which nothing interrupts: it draws nothing,
\* and keeps nothing when another OutputString is at it.
PrintAtNotify(by) ==
    /\ Counted(hooked, TRUE)
    /\ IF conout = "firmware" THEN NotCaptured ELSE Capture(by, TRUE)
    /\ IF Installed /\ ~busy
       THEN /\ shown' = Longer
            /\ dirty' = (dirty \/ out.stage = "draw")
       ELSE UNCHANGED <<shown, dirty>>
    /\ UNCHANGED <<out, busy, details, screen>>

------------------------------------------------------------------------------
(* Steps and keys, for the rest of the binary.                             *)

Began(s)  == steps' = [steps EXCEPT ![s] = "active"]
Failed(s) == steps' = [steps EXCEPT ![s] = "failed"]

\* problem: the last step under way, if one is.
Problem ==
    IF steps["handoff"] = "active" THEN Failed("handoff")
    ELSE IF steps["image"] = "active" THEN Failed("image")
    ELSE UNCHANGED steps

\* A bootloader runs under the panel: its keys are its own.
Handoff ==
    /\ Began("handoff")
    /\ ours' = FALSE
    /\ Draw(details)
    /\ UNCHANGED <<details, queue, stdin, pressed>>

HandedBack ==
    /\ Failed("handoff")
    /\ ours' = TRUE
    /\ Draw(details)
    /\ UNCHANGED <<details, queue, stdin, pressed>>

\* read_char: the next of the panel's keys when it is up, all that wait having
\* been polled, else of the firmware's, where a key that is no character reads as
\* none.
Readable == IF Installed THEN queue ELSE stdin
NextChar == IF Readable = <<>> \/ Head(Readable) = "f2" THEN "none" ELSE Head(Readable)

ReadChar ==
    LET rest == IF Readable = <<>> THEN <<>> ELSE Tail(Readable)
    IN  /\ Polled
        /\ IF Installed THEN queue' = rest /\ UNCHANGED stdin
                        ELSE stdin' = rest /\ UNCHANGED queue
        /\ pressed' = (pressed /\ HasC(queue' \o stdin'))
        /\ UNCHANGED <<ours, details, screen>>
=============================================================================
