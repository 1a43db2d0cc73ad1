------------------------------ MODULE SnpWatch -------------------------------
(***************************************************************************)
(* The watch on calls into a NIC's driver (snpwatch.rs): four atomics that *)
(* mark the call, stored and cleared one at a time, and a timer at         *)
(* TPL_NOTIFY that reads them between any two steps of the mainline and    *)
(* says on the console which call has not returned.                        *)
(*                                                                         *)
(* Abstracted: which SNP function it is, the driver's name, and the wrap   *)
(* of the cycle counter; a second is a step of `now`.                      *)
(***************************************************************************)
EXTENDS Panel

CONSTANTS
    Nics,     \* the machine's NICs, by index
    NoNic,
    First,    \* FIRST: seconds before a call is reported
    Again,    \* AGAIN: seconds between reports
    MaxTime   \* seconds a run lasts

ASSUME WatchAssumption ==
    /\ 0 \in Nics /\ NoNic \notin Nics
    /\ {First, Again, MaxTime} \subseteq Nat \ {0}

VARIABLES
    armed,    \* the timer runs
    mark,     \* CALL (marked or not), NIC, SINCE, TOLD
    does,     \* what the mainline is at
    now,      \* seconds
    inside,   \* the NIC and the start of the call being made
    report    \* observer: the last report, until its call is over

watchVars == <<armed, mark, does, now, inside, report>>

NoCall == [nic |-> NoNic, since |-> 0]

\* "enter" 1 to 3: between the stores; "leave": CALL cleared; "mid": a line
\* begun and not ended.
Doings == {"idle", "enter1", "enter2", "enter3", "call", "leave", "mid"}

WatchInit ==
    /\ armed = FALSE
    /\ mark = [call |-> FALSE, nic |-> 0, since |-> 0, told |-> 0]
    /\ does = "idle" /\ now = 0
    /\ inside = NoCall /\ report = NoCall

WatchTypeOK ==
    /\ armed \in BOOLEAN
    /\ mark \in [call : BOOLEAN, nic : Nics, since : 0 .. MaxTime,
                 told : 0 .. MaxTime]
    /\ does \in Doings /\ now \in 0 .. MaxTime
    /\ {inside, report} \subseteq [nic : Nics \cup {NoNic}, since : 0 .. MaxTime]

NotPrinting == UNCHANGED <<logVars, panelVars>>

\* What an OutputString leaves alone, but for the send that prints.
NotSaid   == UNCHANGED <<off, collector, heard, gap, chain, steps, keyboard>>
NotSent   == UNCHANGED <<said, flush>>
Say(by, ends) == Output(by, ends) /\ NotSaid

Clock == <<armed, now>>

------------------------------------------------------------------------------
(* The mark.                                                               *)

\* arm: a firmware that makes no event leaves the calls unwatched.
Arm ==
    /\ does = "idle" /\ ~armed
    /\ armed' = TRUE
    /\ UNCHANGED <<mark, does, now, inside, report>>
    /\ NotPrinting

Close == armed' = FALSE /\ UNCHANGED <<mark, does, now, inside, report>>

\* Mutant of Enter: the call is marked before its NIC and its start are.
EnterMarkedFirst(nic) ==
    /\ \/ /\ does = "idle"
          /\ does' = "enter1" /\ inside' = [nic |-> nic, since |-> now]
          /\ mark' = [mark EXCEPT !.told = 0, !.call = TRUE]
       \/ /\ does = "enter1" /\ inside.nic = nic
          /\ does' = "call" /\ inside' = [inside EXCEPT !.since = now]
          /\ mark' = [mark EXCEPT !.since = now, !.nic = nic]
    /\ UNCHANGED <<Clock, report>>
    /\ NotPrinting

\* enter: TOLD, SINCE, NIC, and CALL last.
Enter(nic) ==
    /\ \/ /\ does = "idle"
          /\ does' = "enter1" /\ inside' = [nic |-> nic, since |-> now]
          /\ mark' = [mark EXCEPT !.told = 0]
       \/ /\ does = "enter1" /\ inside.nic = nic
          /\ does' = "enter2" /\ inside' = [inside EXCEPT !.since = now]
          /\ mark' = [mark EXCEPT !.since = now]
       \/ /\ does = "enter2" /\ inside.nic = nic
          /\ does' = "enter3" /\ UNCHANGED inside
          /\ mark' = [mark EXCEPT !.nic = nic]
       \/ /\ does = "enter3" /\ inside.nic = nic
          /\ does' = "call" /\ UNCHANGED inside
          /\ mark' = [mark EXCEPT !.call = TRUE]
    /\ UNCHANGED <<Clock, report>>
    /\ NotPrinting

\* The guard dropped: CALL.swap(0), then TOLD.swap(0), and a call that was
\* reported is said to have returned.
Drop ==
    /\ out.stage = "none"
    /\ \/ /\ does = "call"
          /\ does' = "leave"
          /\ mark' = [mark EXCEPT !.call = FALSE]
          /\ UNCHANGED <<inside, report>>
          /\ NotPrinting
       \/ /\ does = "leave" /\ mark.told = 0
          /\ does' = "idle" /\ inside' = NoCall
          /\ UNCHANGED <<mark, report>>
          /\ NotPrinting
       \/ /\ does = "leave" /\ mark.told # 0
          /\ does' = "mid" /\ inside' = NoCall /\ report' = NoCall
          /\ mark' = [mark EXCEPT !.told = 0]
          /\ Say("ours", FALSE) /\ NotSent
    /\ UNCHANGED Clock

\* The driver prints, a line or a piece of one, inside the call.
DriverPrints ==
    /\ does = "call"
    /\ \E ends \in BOOLEAN : Say("driver", ends)
    /\ NotSent
    /\ UNCHANGED watchVars

\* The second piece of a println!.
EndLine ==
    /\ does = "mid"
    /\ does' = "idle"
    /\ Say("ours", TRUE) /\ NotSent
    /\ UNCHANGED <<Clock, mark, inside, report>>

------------------------------------------------------------------------------
(* The timer.                                                              *)

Secs == now - mark.since

Due ==
    /\ mark.call
    /\ \/ mark.told = 0 /\ Secs >= First
       \/ mark.told # 0 /\ Secs >= mark.told + Again

\* tick, when it has something to say.
Tick ==
    /\ armed /\ Due
    /\ PrintAtNotify("watch")
    /\ mark' = [mark EXCEPT !.told = Secs]
    /\ report' = [nic |-> mark.nic, since |-> mark.since]
    /\ NotSaid /\ NotSent
    /\ UNCHANGED <<Clock, does, inside>>

\* Only a call in the making or made asks what time it is.
Second ==
    /\ now < MaxTime
    /\ inside # NoCall
    /\ now' = now + 1
    /\ UNCHANGED <<armed, mark, does, inside, report>>
    /\ NotPrinting
=============================================================================
