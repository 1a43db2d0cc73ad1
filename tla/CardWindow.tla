------------------------------ MODULE CardWindow ------------------------------
(***************************************************************************)
(* mlxfec.rs over one ConnectX function: what card_fec asks of the card,   *)
(* each register command as the dword accesses it is made of, each access  *)
(* under the cap9 semaphore of the configuration window, the commands      *)
(* under the firmware's own ICMD semaphore, and the FEC step's budget of   *)
(* real time over all of them.                                             *)
(*                                                                         *)
(* The card has other users: the UEFI driver that parks cap9 for its whole *)
(* lifetime, a live user of the window, and a tool that runs commands of   *)
(* its own.  The dwords of a mailbox are one access here.                  *)
(***************************************************************************)
EXTENDS Naturals

CONSTANTS
    MaxPort,   \* card_fec asks for ports 1 .. 2
    Cases,     \* what is wanted, the card's NV and what may go wrong
    Retries,   \* VSC_RETRIES, 2048
    Patience,  \* connectx::PARKED_TRIES, 50
    Brief,     \* a live user of the window lets go within as many tries
    Turns,     \* how often one takes it
    Takes,     \* the tries of icmd_take, 256
    Tools      \* how often a tool runs a command

(***************************************************************************)
(* "mute"   the window stops completing accesses                           *)
(* "refuse" a command ends with a status                                   *)
(* "forget" a card takes a value and does not hold it                      *)
(* "slow"   a command may run for longer than anybody waits                *)
(***************************************************************************)
FaultKinds == {"mute", "refuse", "forget", "slow"}

Ports == 1 .. MaxPort

\* A LINK_PHY_CONF: its FEC override and its other fields.  One the card does
\* not have is taken for the device's default, and written anew as zeros.
Tlvs   == [fec : {"rs", "default"}, rest : {"kept", "zero"}]
Absent == [fec |-> "default", rest |-> "zero"]
PortNv == [cap : BOOLEAN, next : Tlvs, now : Tlvs]

ASSUME ConstantsAssumption ==
    /\ MaxPort \in Nat \ {0}
    /\ Retries \in Nat /\ Patience \in Nat /\ Brief \in Nat /\ Turns \in Nat
    /\ 0 < Brief /\ Brief + 1 < Patience /\ Patience <= Retries
    /\ Takes \in Nat \ {0} /\ Tools \in Nat
    /\ \A c \in Cases : /\ c[1] \in {"none", "rs"}
                        /\ DOMAIN c[2] \subseteq Ports
                        /\ \A p \in DOMAIN c[2] : c[2][p] \in PortNv
                        /\ c[3] \subseteq FaultKinds

\* The cap9 semaphore's values: no ticket, a live user's, ours, and two that
\* do not move.
Free   == 0
Ours   == Turns + 1
Parked == Turns + 2
Dead   == Turns + 3  \* all ones: the read never reached the card
Live   == 1 .. Turns

\* What card_fec runs, in order: "spaces" and "id" are accesses, the others
\* register commands.
Commands == {"cap", "next", "now", "get", "set", "back", "warm"}
\* The accesses of one command; those before one are "dword".
Early == {"dword", "room", "ready", "token", "mine"}
Steps == Early \cup {"ctrl", "op", "mail", "busy", "go", "poll", "fetch", "free"}

VARIABLES
    want,    \* "rs", or "none" in a report
    faults,  \* what may go wrong
    nv,      \* the card's NV configuration, for the ports it has
    spent,   \* the step's budget is spent
    sem,     \* cap9's semaphore
    inside,  \* a live user is in the window
    turn,    \* how often one was
    age,     \* tries since it last took it
    icmd,    \* who holds the ICMD semaphore
    mail,    \* the mailbox
    go,      \* the go bit
    status,  \* the status of the last command
    tools,   \* commands a tool has run
    lock,    \* vsc_lock: "try", "look", "retake", and "in" the window
    tries, moved, last,
    cmd, port, step,  \* the command and the access in hand
    takes,   \* tries of icmd_take
    err,     \* the command in hand has failed
    reply,   \* what it read from the mailbox
    got,     \* what card_fec has read of this port
    sum      \* the summary: ports reported, written, failed

VARIABLES    \* observers
    outlasted, \* a live user had the window at every try: it was cleared
    lost       \* why a semaphore may not have been given back

window  == <<sem, inside, turn, age>>
gateway == <<icmd, mail, go, status, tools>>
locking == <<lock, tries, moved, last>>
place   == <<cmd, port, step, takes, err>>
known   == <<reply, got, sum>>
vars == <<want, faults, nv, spent, window, gateway, locking, place, known, outlasted,
          lost>>

Message(by, c, p, t) ==
    [by |-> by, cmd |-> c, port |-> p, cap |-> FALSE, there |-> FALSE, tlv |-> t]
NoMail == Message("none", "cap", 1, Absent)
Nothing == [cap |-> FALSE, next |-> Absent]

Init ==
    /\ \E c \in Cases : want = c[1] /\ nv = c[2] /\ faults = c[3]
    /\ spent = FALSE
    /\ sem \in {Free, Parked, Dead}
    /\ inside = FALSE /\ turn = 0 /\ age = 0
    /\ icmd = "free" /\ mail = NoMail /\ go = FALSE /\ status = "ok" /\ tools = 0
    /\ lock = "try" /\ tries = 0 /\ moved = FALSE /\ last = Free
    /\ cmd = "spaces" /\ port = 1 /\ step = "dword" /\ takes = 0 /\ err = FALSE
    /\ reply = NoMail /\ got = Nothing
    /\ sum = [ports |-> {}, written |-> {}, failed |-> FALSE]
    /\ outlasted = FALSE /\ lost = {}

Running == cmd # "over"

\* Mutant of InTime: the tries alone bound the step.
InTimeUnasked == TRUE

\* in_time, asked first by every wait; `releasing` is set around the release.
InTime == step = "free" \/ ~spent

------------------------------------------------------------------------------
(* Where a command leads.                                                  *)

Begin(c, p) ==
    /\ cmd' = c /\ port' = p
    /\ step' = "room"
    /\ takes' = 0 /\ err' = FALSE
    /\ reply' = NoMail

Over ==
    /\ cmd' = "over"
    /\ UNCHANGED <<port, step, takes, err, reply>>

\* After the ports: the warm boot's request, once something was written.
AfterPorts(s) ==
    /\ IF s.written # {} THEN Begin("warm", port) ELSE Over
    /\ got' = Nothing
    /\ sum' = s

NextPort(s) ==
    IF port + 1 \in Ports
    THEN Begin("cap", port + 1) /\ got' = Nothing /\ sum' = s
    ELSE AfterPorts(s)

Failure == [sum EXCEPT !.failed = TRUE]

\* A read that fails gives up the card; a write that fails, this port.
CommandFails ==
    CASE cmd \in {"spaces", "id", "cap", "next", "now"} ->
             Over /\ sum' = Failure /\ UNCHANGED got
      [] cmd \in {"get", "set", "back"} -> NextPort(Failure)
      [] cmd = "warm" -> Over /\ UNCHANGED <<got, sum>>

\* The port has been read: what `want` makes of it.
PortRead ==
    LET s == [sum EXCEPT !.ports =
                 @ \cup {[port |-> port, next |-> got.next.fec, now |-> reply.tlv.fec]}]
    IN  IF want = "none" \/ ~got.cap \/ got.next.fec = want
        THEN NextPort(s)
        ELSE Begin("get", port) /\ sum' = s /\ UNCHANGED got

\* The firmware has no such port: card_fec asks for no more.
CommandDone ==
    CASE cmd = "cap" ->
             IF ~reply.there
             THEN AfterPorts(sum)
             ELSE Begin("next", port) /\ got' = [got EXCEPT !.cap = reply.cap]
                  /\ UNCHANGED sum
      [] cmd = "next" -> Begin("now", port) /\ got' = [got EXCEPT !.next = reply.tlv]
                         /\ UNCHANGED sum
      [] cmd = "now"  -> PortRead
      [] cmd = "get"  -> Begin("set", port) /\ got' = [got EXCEPT !.next = reply.tlv]
                         /\ UNCHANGED sum
      [] cmd = "set"  -> Begin("back", port) /\ UNCHANGED <<got, sum>>
      [] cmd = "back" -> NextPort(IF reply.tlv.fec = want
                                  THEN [sum EXCEPT !.written = @ \cup {port}]
                                  ELSE Failure)
      [] cmd = "warm" -> Over /\ UNCHANGED <<got, sum>>

Ended == IF err THEN CommandFails ELSE CommandDone

\* The access in hand fails.  Before the ICMD semaphore is taken nothing is
\* given back, after it it is, and a release that fails is not asked again.
AccessFails ==
    /\ lock' = "try" /\ tries' = 0 /\ moved' = FALSE /\ last' = Free
    /\ CASE step = "free" -> Ended /\ lost' = lost \cup {"release"}
         [] step \in Early -> /\ CommandFails
                              /\ lost' = IF step \in {"token", "mine"} /\ icmd' = "boot"
                                         THEN lost \cup {"taking"} ELSE lost
         [] OTHER -> /\ step' = "free" /\ err' = TRUE
                     /\ lost' = IF step \in {"go", "poll"} /\ go'
                                THEN lost \cup {"running"} ELSE lost
                     /\ UNCHANGED <<cmd, port, takes, known>>

------------------------------------------------------------------------------
(* vsc_lock.                                                               *)

Card == <<want, faults, nv, spent, inside, turn, gateway>>

\* A live user lets go within Brief tries.
Patient == sem \in Live => age < Brief
Aged    == age' = IF sem \in Live THEN age + 1 ELSE age

TryTake ==
    /\ Running /\ lock \in {"try", "retake"}
    /\ InTime
    /\ sem = Free
    /\ sem' = Ours
    /\ lock' = "in" /\ tries' = 0 /\ moved' = FALSE /\ last' = Free
    /\ UNCHANGED <<Card, age, place, known, outlasted, lost>>

TryFails ==
    /\ Running /\ lock = "try"
    /\ InTime
    /\ sem # Free /\ Patient
    /\ lock' = "look"
    /\ Aged
    /\ UNCHANGED <<Card, sem, tries, moved, last, place, known, outlasted, lost>>

\* Mutant of IsParked: one try is enough.
ParkedAtOnce(n, m, held) == ~m /\ held \notin {Free, Dead}

\* connectx::parked
IsParked(n, m, held) == n >= Patience /\ ~m /\ held \notin {Free, Dead}

\* The second look of a try: did the value move, is waiting longer any use?
Look ==
    /\ Running /\ lock = "look"
    /\ UNCHANGED <<Card, age>>
    /\ LET m == moved \/ (tries > 0 /\ sem # last)
           n == tries + 1
       IN IF ~IsParked(n, m, sem) /\ n < Retries
          THEN /\ lock' = "try" /\ tries' = n /\ moved' = m /\ last' = sem
               /\ UNCHANGED <<sem, place, known, outlasted, lost>>
          ELSE IF sem \in {Free, Dead}
          THEN AccessFails /\ UNCHANGED <<sem, outlasted>>
          ELSE /\ sem' = Free  \* cleared, to be taken
               /\ lock' = "retake" /\ tries' = 0 /\ moved' = FALSE /\ last' = Free
               /\ outlasted' = (outlasted \/ n = Retries)
               /\ UNCHANGED <<place, known, lost>>

Retake ==
    /\ Running /\ lock = "retake"
    /\ InTime
    /\ sem # Free /\ Patient
    /\ Aged
    /\ UNCHANGED <<Card, sem, outlasted>>
    /\ IF tries + 1 = Retries
       THEN AccessFails
       ELSE tries' = tries + 1 /\ UNCHANGED <<lock, moved, last, place, known, lost>>

\* in_time says the budget is spent.
OutOfTime ==
    /\ Running /\ lock \in {"try", "retake"}
    /\ ~InTime
    /\ UNCHANGED <<Card, sem, age, outlasted>>
    /\ AccessFails

------------------------------------------------------------------------------
(* The accesses: in the window, one dword, and out of it again.            *)

In(s) == Running /\ lock = "in" /\ step = s
To(s) == step' = s /\ UNCHANGED <<cmd, port, takes, err, known, lost>>

Stop == step' = "free" /\ err' = TRUE /\ UNCHANGED <<cmd, port, takes, known, lost>>

\* vsc_unlock writes 0 whatever is there.
Leave ==
    /\ sem' = Free
    /\ lock' = "try" /\ tries' = 0 /\ moved' = FALSE /\ last' = Free
    /\ UNCHANGED <<want, faults, spent, inside, turn, age, outlasted>>

\* The window does not complete the access; a write may have gone through.
Mute ==
    /\ "mute" \in faults
    /\ Running /\ lock = "in"
    /\ sem' = Free
    /\ icmd' \in {icmd} \cup (IF step = "free" THEN {"free"}
                            ELSE IF step = "token" /\ icmd = "free" THEN {"boot"} ELSE {})
    /\ go' \in {go, go \/ step = "go"}
    /\ AccessFails
    /\ UNCHANGED <<want, faults, nv, spent, inside, turn, age, mail, status, tools,
                   outlasted>>

\* The three address spaces, then the hardware id: a space the card does not
\* support, another generation or a card in recovery is left alone.
Identify ==
    /\ In("dword")
    /\ \/ cmd = "spaces" /\ cmd' = "id" /\ UNCHANGED <<port, step, takes, err, known>>
       \/ cmd = "id" /\ Begin("cap", 1) /\ UNCHANGED <<got, sum>>
       \/ CommandFails
    /\ Leave /\ UNCHANGED <<nv, gateway, lost>>

\* The mailbox's size and the firmware's ready bit, either of which may stop.
Room ==
    /\ \/ In("room") /\ To("ready")
       \/ In("ready") /\ To("token")
       \/ In("ready") /\ CommandFails /\ UNCHANGED lost
    /\ Leave /\ UNCHANGED <<nv, gateway>>

Token ==
    /\ In("token")
    /\ icmd' = IF icmd = "free" THEN "boot" ELSE icmd
    /\ To("mine")
    /\ Leave /\ UNCHANGED <<nv, mail, go, status, tools>>

\* Mutant of Mine: whoever's token it is.
MineAnyway ==
    /\ In("mine")
    /\ To("ctrl")
    /\ Leave /\ UNCHANGED <<nv, gateway>>

Mine ==
    /\ In("mine")
    /\ \/ icmd = "boot" /\ To("ctrl")
       \/ /\ icmd # "boot" /\ takes + 1 < Takes
          /\ step' = "token" /\ takes' = takes + 1
          /\ UNCHANGED <<cmd, port, err, known, lost>>
       \/ icmd # "boot" /\ takes + 1 = Takes /\ CommandFails /\ UNCHANGED lost
    /\ Leave /\ UNCHANGED <<nv, gateway>>

\* The opcode, with the extended mailbox off: read, then written.
Opcode ==
    /\ \/ In("ctrl") /\ To("op")
       \/ In("op") /\ To("mail")
    /\ Leave /\ UNCHANGED <<nv, gateway>>

\* set_port: the TLV as it was read, with another FEC.
NewTlv == [got.next EXCEPT !.fec = want]

Mail ==
    /\ In("mail")
    /\ mail' = Message("boot", cmd, port, IF cmd = "set" THEN NewTlv ELSE Absent)
    /\ To("busy")
    /\ Leave /\ UNCHANGED <<nv, icmd, go, status, tools>>

\* A command in flight: ours is not started.
Busy ==
    /\ In("busy")
    /\ IF go THEN Stop ELSE To("go")
    /\ Leave /\ UNCHANGED <<nv, gateway>>

Go ==
    /\ In("go")
    /\ go' = TRUE
    /\ To("poll")
    /\ Leave /\ UNCHANGED <<nv, icmd, mail, status, tools>>

Poll ==
    /\ In("poll")
    /\ IF go THEN To("poll") ELSE IF status = "bad" THEN Stop ELSE To("fetch")
    /\ Leave /\ UNCHANGED <<nv, gateway>>

\* ICMD_TIMEOUT_MS; only the budget of a write leaves room for it.
GiveUpPolling ==
    /\ In("poll") /\ go
    /\ "slow" \in faults /\ want = "rs"
    /\ step' = "free" /\ err' = TRUE
    /\ lost' = lost \cup {"running"}
    /\ Leave /\ UNCHANGED <<nv, gateway, cmd, port, takes, known>>

Fetch ==
    /\ In("fetch")
    /\ reply' = mail
    /\ step' = "free"
    /\ Leave /\ UNCHANGED <<nv, gateway, cmd, port, takes, err, got, sum, lost>>

Release ==
    /\ In("free")
    /\ icmd' = "free"
    /\ Ended
    /\ Leave /\ UNCHANGED <<nv, mail, go, status, tools, lost>>

------------------------------------------------------------------------------
(* The card and its other users.                                           *)

Boots == <<want, faults, locking, place, known, outlasted, lost>>

\* The firmware runs what the mailbox says.
Complete ==
    /\ go
    /\ go' = FALSE
    /\ LET p == mail.port
           there == p \in DOMAIN nv
           tlv == IF ~there THEN Absent
                  ELSE IF mail.cmd = "now" THEN nv[p].now ELSE nv[p].next
       IN \/ /\ status' = "ok"
             /\ IF mail.cmd = "set"
                THEN /\ \/ "forget" \in faults /\ UNCHANGED nv
                        \/ nv' = [q \in DOMAIN nv |->
                                    IF q = p THEN [nv[q] EXCEPT !.next = mail.tlv]
                                    ELSE nv[q]]
                     /\ UNCHANGED mail
                ELSE /\ mail' = [mail EXCEPT !.there = there, !.tlv = tlv,
                                             !.cap = there /\ nv[p].cap]
                     /\ UNCHANGED nv
          \/ "refuse" \in faults /\ status' = "bad" /\ UNCHANGED <<nv, mail>>
    /\ UNCHANGED <<spent, window, icmd, tools, Boots>>

\* A live user takes the window, with the next ticket, and leaves it.
UserEnters ==
    /\ sem = Free /\ turn < Turns
    /\ turn' = turn + 1
    /\ sem' = turn + 1
    /\ inside' = TRUE /\ age' = 0
    /\ UNCHANGED <<nv, spent, gateway, Boots>>

UserLeaves ==
    /\ inside
    /\ inside' = FALSE
    /\ sem' = Free /\ age' = 0
    /\ UNCHANGED <<nv, spent, turn, gateway, Boots>>

\* A tool's command: a read of another port.
ToolTakes ==
    /\ icmd = "free" /\ tools < Tools
    /\ icmd' = "tool"
    /\ tools' = tools + 1
    /\ UNCHANGED <<nv, spent, window, mail, go, status, Boots>>

ToolRuns ==
    /\ icmd = "tool" /\ ~go /\ mail.by # "tool"
    /\ \E p \in Ports : mail' = Message("tool", "now", p, Absent)
    /\ go' = TRUE
    /\ UNCHANGED <<nv, spent, window, icmd, status, tools, Boots>>

ToolReleases ==
    /\ icmd = "tool" /\ ~go
    /\ icmd' = "free"
    /\ UNCHANGED <<nv, spent, window, mail, go, status, tools, Boots>>

BudgetSpent ==
    /\ ~spent
    /\ spent' = TRUE
    /\ UNCHANGED <<nv, window, gateway, Boots>>

Locking == TryTake \/ TryFails \/ Look \/ Retake \/ OutOfTime
Access  == Mute \/ Identify \/ Room \/ Token \/ Mine \/ Opcode \/ Mail \/ Busy
           \/ Go \/ Poll \/ GiveUpPolling \/ Fetch \/ Release
Others  == Complete \/ UserEnters \/ UserLeaves \/ ToolTakes \/ ToolRuns
           \/ ToolReleases

Next == Locking \/ Access \/ Others \/ BudgetSpent
Spec == Init /\ [][Next]_vars

\* Time passes, the step runs, and a live user of the window lets go.
FairSpec ==
    /\ Spec
    /\ WF_vars(Locking \/ Access) /\ WF_vars(UserLeaves) /\ WF_vars(BudgetSpent)

------------------------------------------------------------------------------
(* Properties.                                                             *)

\* The state's shape.
TypeOK ==
    /\ want \in {"none", "rs"} /\ faults \subseteq FaultKinds
    /\ DOMAIN nv \subseteq Ports
    /\ \A p \in DOMAIN nv : nv[p] \in PortNv
    /\ spent \in BOOLEAN /\ inside \in BOOLEAN
    /\ sem \in 0 .. Dead /\ turn \in 0 .. Turns /\ age \in 0 .. Brief
    /\ icmd \in {"free", "boot", "tool"} /\ tools \in 0 .. Tools
    /\ lock \in {"try", "look", "retake", "in"}
    /\ tries \in 0 .. Retries - 1 /\ last \in 0 .. Dead
    /\ cmd \in {"spaces", "id", "over"} \cup Commands /\ port \in Ports
    /\ step \in Steps /\ takes \in 0 .. Takes - 1
    /\ got \in [cap : BOOLEAN, next : Tlvs]
    /\ sum.written \subseteq Ports

\* The boot and a live user are in the window together only after the boot has
\* found it held at every try of the cooperative wait (mlxfec.rs
\* vsc_lock_timed, connectx.rs parked).
Alone == lock = "in" /\ inside => outlasted

\* What is reported of a port is what its NV held: no reply is another's.
ReportsTrue ==
    "running" \notin lost =>
        \A r \in sum.ports : /\ r.port \in DOMAIN nv
                             /\ r.now = nv[r.port].now.fec
                             /\ want = "none" => r.next = nv[r.port].next.fec

\* A port counted as written, which is what makes the boot reset the machine,
\* holds the value (card_fec, set_port's read back).
WrittenHolds == \A p \in sum.written : p \in DOMAIN nv /\ nv[p].next.fec = want

\* What the step tells the boot of the card's ports, from which it decides the
\* reset, is so, whoever else used the card meanwhile.
SumIsTrue == TypeOK /\ ReportsTrue /\ WrittenHolds

\* Every other field of the TLV stays as it was ("preserving every other
\* field", set_port).
FieldsKept ==
    [][\A p \in DOMAIN nv : nv[p].next.rest = "kept" => nv'[p].next.rest = "kept"]_vars

\* A semaphore is not left behind unless the window stopped answering or the
\* budget ran out between the token's write and its read (icmd).
GivenBack ==
    cmd = "over" => /\ sem # Ours
                    /\ icmd = "boot" => lost \cap {"taking", "release"} # {}

\* A command in flight finds its mailbox as it was when it was started, unless
\* one was given up while it ran.
MailboxLeft == [][go /\ go' /\ "running" \notin lost => mail' = mail]_vars

\* The boot is one of several users of the card: it waits for the others, gives
\* back what it took, and leaves the fields it was not asked to set and a running command's mailbox.
GoodGuest == [](Alone /\ GivenBack) /\ FieldsKept /\ MailboxLeft

\* Whatever the card and its users do the step ends, and the boot goes on.
StepEnds == <>(cmd = "over")
==============================================================================
