------------------------------- MODULE NetLog --------------------------------
(***************************************************************************)
(* The network log (netlog.rs): every line printed since the start is kept *)
(* until a NIC holds a lease and handed to the stack at fixed points.  A   *)
(* line is its number; what is printed comes in pieces, as println! hands  *)
(* them to OutputString, and a piece is known by who printed it.           *)
(*                                                                         *)
(* Abstracted: the text, its time stamp and the host's name in a frame,    *)
(* the limit in bytes beside the one in lines, and the history the API     *)
(* serves, which is the same queue with nobody taking from it.             *)
(***************************************************************************)
EXTENDS Naturals, Sequences

CONSTANT KeepLines   \* KEEP_LINES

ASSUME KeepLinesAssumption == KeepLines \in Nat \ {0}

Authors == {"ours", "driver", "watch", "image"}

VARIABLES
    off,      \* syslog = off
    collector,\* a unicast collector is "none", "named", "found", "unknown"
    lines,    \* the lines waiting
    part,     \* who printed the pieces of the line not yet ended
    dropped,  \* lines given up since the last send
    said,     \* the console was told where the log goes
    flush     \* where a send is: "no", "lookup", "say", "take", "sending"

VARIABLES     \* observers
    ended,    \* lines printed while the log is kept
    heard,    \* lines the network has been given, or told it will not get
    gap,      \* a line came after more or fewer than the network was told
    torn      \* a line of this binary's has a piece of the watch in it

logVars == <<off, collector, lines, part, dropped, said, flush, ended, heard,
             gap, torn>>

LogInit(o, c) ==
    /\ off = o /\ collector = c
    /\ lines = <<>> /\ part = {} /\ dropped = 0
    /\ said = FALSE /\ flush = "no"
    /\ ended = 0 /\ heard = 0 /\ gap = FALSE /\ torn = FALSE

LogTypeOK ==
    /\ off \in BOOLEAN
    /\ collector \in {"none", "named", "found", "unknown"}
    /\ lines \in Seq(Nat) /\ Len(lines) <= KeepLines
    /\ part \subseteq Authors
    /\ dropped \in Nat /\ ended \in Nat /\ heard \in Nat
    /\ flush \in {"no", "lookup", "say", "take", "sending"}
    /\ said \in BOOLEAN /\ gap \in BOOLEAN /\ torn \in BOOLEAN

------------------------------------------------------------------------------
(* Keeping.  capture runs at TPL_NOTIFY, so no timer's print is inside it. *)

\* Past the limit the oldest goes, and is counted.
KeepLine ==
    LET all == Append(lines, ended')
    IN  IF off
        THEN UNCHANGED <<lines, dropped>>
        ELSE IF Len(all) <= KeepLines
             THEN lines' = all /\ UNCHANGED dropped
             ELSE lines' = Tail(all) /\ dropped' = dropped + 1

Capture(by, ends) ==
    /\ part' = IF ends THEN {} ELSE part \cup {by}
    /\ torn' = (torn \/ {"ours", "watch"} \subseteq part \cup {by})
    /\ IF ends THEN KeepLine ELSE UNCHANGED <<lines, dropped>>

NotCaptured == UNCHANGED <<lines, part, dropped, torn>>

\* What was printed counts for as long as the log is kept.
Counted(kept, ends) == ended' = IF kept /\ ends THEN ended + 1 ELSE ended

------------------------------------------------------------------------------
(* Sending.                                                                *)

\* flush returns at once when no NIC holds a lease.
FlushIf(leased) == flush' = IF leased THEN "lookup" ELSE "no"

\* Mutant of Take: the count is taken and no frame says it.
TakeUntold ==
    /\ lines' = <<>> /\ dropped' = 0
    /\ heard' = heard + Len(lines)
    /\ gap' = (gap \/ (lines # <<>> /\ Head(lines) # heard + 1))

\* The lines out of the queue, after a frame that says how many are not in it.
Take ==
    /\ lines' = <<>> /\ dropped' = 0
    /\ heard' = heard + dropped + Len(lines)
    /\ gap' = (gap \/ (lines # <<>> /\ Head(lines) # heard + dropped + 1))

\* flush, from the take on; what udp_send makes of the frames is not asked.
TakeAndSend ==
    /\ flush = "take"
    /\ Take
    /\ flush' = IF lines = <<>> /\ dropped = 0 THEN "no" ELSE "sending"
    /\ UNCHANGED <<off, collector, part, said, ended, torn>>

Sent ==
    /\ flush = "sending"
    /\ flush' = "no"
    /\ UNCHANGED <<off, collector, lines, part, dropped, said, ended, heard,
                   gap, torn>>
=============================================================================
