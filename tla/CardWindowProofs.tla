--------------------------- MODULE CardWindowProofs ---------------------------
(***************************************************************************)
(* Theorems about CardWindow, for any cards, any number of ports, any      *)
(* patience with a parked semaphore and any number of other users.         *)
(***************************************************************************)
EXTENDS CardWindow, Integers, TLAPS

\* What the constants are: numbers in the order mlxvsec.rs has them in.
LEMMA Limits ==
    /\ MaxPort \in Nat \ {0} /\ 1 \in Ports
    /\ Retries \in Nat /\ Patience \in Nat /\ Brief \in Nat /\ Turns \in Nat
    /\ 0 < Brief /\ Brief + 1 < Patience /\ Patience <= Retries
    /\ Takes \in Nat \ {0} /\ Tools \in Nat
  BY ConstantsAssumption DEF Ports

------------------------------------------------------------------------------
(* What is true in every state.                                            *)

Mails == [by : {"none", "boot", "tool"}, cmd : Commands, port : Ports,
          cap : BOOLEAN, there : BOOLEAN, tlv : Tlvs]
Sums  == [ports : SUBSET [port : Ports, next : {"rs", "default"}, now : {"rs", "default"}],
          written : SUBSET Ports, failed : BOOLEAN]
Gots  == [cap : BOOLEAN, next : Tlvs]

\* The type invariant in the parts its proof goes by, and the types of what it
\* leaves out.
NvTypeOK == /\ want \in {"none", "rs"} /\ faults \subseteq FaultKinds
            /\ DOMAIN nv \subseteq Ports
            /\ \A p \in DOMAIN nv : nv[p] \in PortNv

WindowTypeOK ==
    /\ inside \in BOOLEAN /\ outlasted \in BOOLEAN
    /\ sem \in 0 .. Dead /\ turn \in 0 .. Turns /\ age \in 0 .. Brief
    /\ lock \in {"try", "look", "retake", "in"} /\ moved \in BOOLEAN
    /\ tries \in 0 .. Retries - 1 /\ last \in 0 .. Dead

GatewayTypeOK ==
    /\ spent \in BOOLEAN
    /\ icmd \in {"free", "boot", "tool"} /\ tools \in 0 .. Tools
    /\ mail \in Mails /\ go \in BOOLEAN

PlaceTypeOK ==
    /\ cmd \in {"spaces", "id", "over"} \cup Commands /\ port \in Ports
    /\ step \in Steps /\ takes \in 0 .. Takes - 1 /\ err \in BOOLEAN
    /\ reply \in Mails /\ got \in Gots /\ sum \in Sums

\* A live user's tickets differ; the semaphore is the boot's only in the window;
\* and a ticket that did not move while the boot tried is no older than the
\* tries.
Ticketed ==
    /\ sem \in Live => sem = turn
    /\ last \in Live => last <= turn
    /\ inside => sem \in Live \/ outlasted
    /\ lock = "in" => sem = Ours \/ outlasted
    /\ sem = Ours => lock = "in" /\ Running
    /\ lock \in {"try", "look"} /\ tries > 0 /\ ~moved /\ sem = last /\ sem \in Live
         => tries <= age + (IF lock = "try" THEN 1 ELSE 0)

\* The accesses that follow the taking of the ICMD semaphore.
Late == {"ctrl", "op", "mail", "busy", "go", "poll", "fetch", "free"}

\* The ICMD semaphore is the boot's from its token to its release, and a command in
\* flight is a tool's, the one the boot polls, or was given up.
Turned ==
    /\ Running /\ step \in Late => icmd = "boot"
    /\ icmd = "boot" => \/ Running /\ step \in Late \cup {"mine"}
                        \/ lost \cap {"taking", "release"} # {}
    /\ go => \/ icmd = "tool"
             \/ Running /\ step = "poll"
             \/ "running" \in lost
    /\ Running /\ step \in {"go", "fetch"} => ~go
    /\ Running /\ step = "free" /\ ~err => ~go
    /\ Running /\ step # "dword" => cmd \in Commands

\* m is the card's answer to the command in it.
Answered(m) ==
    /\ m.there = (m.port \in DOMAIN nv)
    /\ m.there => /\ m.cap = nv[m.port].cap
                  /\ m.tlv = IF m.cmd = "now" THEN nv[m.port].now ELSE nv[m.port].next

\* A SET says what the TLV held, with the FEC that is wanted.
SetRight ==
    mail.cmd = "set" => /\ want = "rs" /\ mail.tlv.fec = want
                        /\ mail.port \in DOMAIN nv
                             => mail.tlv.rest = nv[mail.port].next.rest

\* The mailbox holds the command in hand, then its answer, and what is read of
\* it is that.
MailRight ==
    /\ SetRight
    /\ Running /\ step \in {"busy", "go", "poll", "fetch"}
         => mail.cmd = cmd /\ mail.port = port
    /\ Running /\ cmd # "set"
         /\ (step = "fetch" \/ (step = "poll" /\ ~go /\ status # "bad"))
         => Answered(mail)
    /\ Running /\ cmd # "set" /\ step = "free" /\ ~err
         => reply.cmd = cmd /\ reply.port = port /\ Answered(reply)

\* What is known of the port in hand is so.
GotRight ==
    /\ cmd \in {"next", "now", "get", "set", "back"} => port \in DOMAIN nv
    /\ cmd \in {"get", "set", "back"} => want = "rs"
    /\ cmd = "now" /\ want = "none" => got.next = nv[port].next
    /\ cmd = "set" => got.next.rest = nv[port].next.rest

\* And so is the summary.
SumRight ==
    /\ \A r \in sum.ports : /\ r.port \in DOMAIN nv
                            /\ r.now = nv[r.port].now.fec
                            /\ want = "none" => r.next = nv[r.port].next.fec
    /\ WrittenHolds

\* The inductive invariant.
Orderly ==
    /\ NvTypeOK /\ WindowTypeOK /\ GatewayTypeOK /\ PlaceTypeOK
    /\ Ticketed /\ Turned /\ MailRight /\ GotRight /\ SumRight

\* TypeOK is the types of the four groups of variables together.
LEMMA Typed ==
    ASSUME NvTypeOK, WindowTypeOK, GatewayTypeOK, PlaceTypeOK
    PROVE  TypeOK
<1>1. sum.written \subseteq Ports
  BY DEF PlaceTypeOK, Sums
<1>2. QED
  BY <1>1, Zenon DEF TypeOK, NvTypeOK, WindowTypeOK, GatewayTypeOK, PlaceTypeOK, Gots

------------------------------------------------------------------------------
(* The window.                                                             *)

\* What a step does to the window: a failing access leaves vsc_lock, and every
\* access in the window gives the semaphore back.
Fallen == lock' = "try" /\ tries' = 0 /\ moved' = FALSE /\ last' = Free
Left == sem' = Free /\ Fallen /\ UNCHANGED <<inside, turn, age, outlasted>>

\* A failed access takes the command no further than its way out.
LEMMA FailingFalls == AccessFails => Fallen
  BY Zenon DEF AccessFails, Fallen

\* An access is made with the lock held, and goes to the next access or falls.
LEMMA AccessLeaves == Access => Running /\ lock = "in" /\ Left
<1> SUFFICES ASSUME Access
             PROVE  Running /\ lock = "in" /\ Left
  OBVIOUS
<1>1. CASE Mute
  BY <1>1, FailingFalls, Zenon DEF Mute, Left
<1>2. CASE Identify \/ Room \/ Token \/ Mine \/ Opcode
  BY <1>2, Zenon DEF Identify, Room, Token, Mine, Opcode, In, Leave, Left, Fallen
<1>3. CASE Mail \/ Busy \/ Go \/ Poll \/ GiveUpPolling \/ Fetch \/ Release
  BY <1>3, Zenon DEF Mail, Busy, Go, Poll, GiveUpPolling, Fetch, Release, In, Leave,
     Left, Fallen
<1>4. QED
  BY <1>1, <1>2, <1>3, Zenon DEF Access

\* Every other step, for the window.
LEMMA OthersOfWindow ==
    ASSUME Others \/ BudgetSpent \/ UNCHANGED vars
    PROVE  /\ UNCHANGED <<locking, outlasted, cmd>>
           /\ \/ UNCHANGED <<sem, inside, turn, age>>
              \/ UserEnters \/ UserLeaves
BY Zenon DEF Others, Complete, UserEnters, UserLeaves, ToolTakes, ToolRuns,
   ToolReleases, BudgetSpent, Boots, vars, window, place

\* Every step keeps the window and its semaphore in their types.
LEMMA WindowTyped ==
    ASSUME WindowTypeOK, [Next]_vars
    PROVE  WindowTypeOK'
<1>1. /\ inside \in BOOLEAN /\ outlasted \in BOOLEAN
      /\ sem \in 0 .. Dead /\ turn \in 0 .. Turns /\ age \in 0 .. Brief
      /\ lock \in {"try", "look", "retake", "in"} /\ moved \in BOOLEAN
      /\ tries \in 0 .. Retries - 1 /\ last \in 0 .. Dead
  BY Zenon DEF WindowTypeOK
<1>2. /\ 0 \in 0 .. Dead /\ 0 \in 0 .. Brief /\ 0 \in 0 .. Retries - 1
      /\ Ours \in 0 .. Dead /\ Free = 0
  BY Limits DEF Dead, Ours, Free
<1>3. CASE UNCHANGED <<inside, turn, outlasted, age, sem>> /\ Fallen
  BY <1>1, <1>2, <1>3, Zenon DEF Fallen, WindowTypeOK
<1>4. ASSUME Patient, Aged
      PROVE  age' \in 0 .. Brief
  BY <1>1, <1>4, Limits DEF Patient, Aged
<1>5. CASE TryTake
  BY <1>1, <1>2, <1>5, Zenon DEF TryTake, Card, WindowTypeOK
<1>6. CASE TryFails
  BY <1>1, <1>4, <1>6, Zenon DEF TryFails, Card, WindowTypeOK
<1>7. CASE Look
  <2>1. UNCHANGED <<inside, turn, age>> /\ lock = "look"
    BY <1>7, Zenon DEF Look, Card
  <2>2. \/ /\ lock' = "try" /\ tries' = tries + 1 /\ tries + 1 < Retries /\ last' = sem
           /\ moved' = (moved \/ (tries > 0 /\ sem # last))
           /\ UNCHANGED <<sem, outlasted>>
        \/ Fallen /\ UNCHANGED <<sem, outlasted>>
        \/ /\ sem' = Free /\ lock' = "retake" /\ tries' = 0 /\ moved' = FALSE
           /\ last' = Free /\ outlasted' = (outlasted \/ tries + 1 = Retries)
    BY <1>7, FailingFalls, Zenon DEF Look
  <2>3. CASE tries' = tries + 1 /\ tries + 1 < Retries /\ lock' = "try"
             /\ moved' = (moved \/ (tries > 0 /\ sem # last)) /\ last' = sem
             /\ UNCHANGED <<sem, outlasted>>
    <3>1. tries' \in 0 .. Retries - 1
      BY <1>1, <2>3, Limits
    <3>2. moved' \in BOOLEAN
      BY <2>3, Zenon
    <3>3. QED
      BY <1>1, <2>1, <2>3, <3>1, <3>2, Zenon DEF WindowTypeOK
  <2>4. CASE Fallen /\ UNCHANGED <<sem, outlasted>>
    BY <1>3, <2>1, <2>4, Zenon
  <2>5. CASE /\ sem' = Free /\ lock' = "retake" /\ tries' = 0 /\ moved' = FALSE
             /\ last' = Free /\ outlasted' = (outlasted \/ tries + 1 = Retries)
    <3>1. outlasted' \in BOOLEAN
      BY <2>5, Zenon
    <3>2. QED
      BY <1>1, <1>2, <2>1, <2>5, <3>1, Zenon DEF WindowTypeOK
  <2>6. QED
    BY <2>2, <2>3, <2>4, <2>5
<1>8. CASE Retake
  <2>1. /\ age' \in 0 .. Brief /\ UNCHANGED <<inside, turn, sem, outlasted>>
        /\ Fallen \/ (tries + 1 # Retries /\ tries' = tries + 1 /\ UNCHANGED <<lock, moved, last>>)
    BY <1>4, <1>8, FailingFalls, Zenon DEF Retake, Card
  <2>2. tries + 1 # Retries => tries + 1 \in 0 .. Retries - 1
    BY <1>1, Limits
  <2>3. QED
    BY <1>1, <1>2, <2>1, <2>2, Zenon DEF WindowTypeOK, Fallen
<1>9. CASE OutOfTime
  BY <1>3, <1>9, FailingFalls, Zenon DEF OutOfTime, Card
<1>10. CASE Access
  BY <1>1, <1>2, <1>10, AccessLeaves, Zenon DEF Left, Fallen, WindowTypeOK
<1>11. CASE Others \/ BudgetSpent \/ UNCHANGED vars
  <2>1. UNCHANGED <<lock, tries, moved, last, outlasted>>
    BY <1>11, OthersOfWindow, Zenon DEF locking
  <2>2. CASE UNCHANGED <<sem, inside, turn, age>>
    BY <1>1, <2>1, <2>2, Zenon DEF WindowTypeOK
  <2>3. CASE UserEnters
    <3>1. turn' \in 0 .. Turns /\ sem' \in 0 .. Dead
      BY <1>1, <2>3, Limits DEF UserEnters, Dead
    <3>2. QED
      BY <1>1, <1>2, <2>1, <2>3, <3>1, Zenon DEF UserEnters, WindowTypeOK
  <2>4. CASE UserLeaves
    BY <1>1, <1>2, <2>1, <2>4, Zenon DEF UserLeaves, WindowTypeOK
  <2>5. QED
    BY <1>11, <2>2, <2>3, <2>4, OthersOfWindow
<1>12. QED
  BY <1>5, <1>6, <1>7, <1>8, <1>9, <1>10, <1>11, Zenon DEF Next, Locking

\* The tickets of the window.
LEMMA TicketedStep ==
    ASSUME WindowTypeOK, Ticketed, [Next]_vars
    PROVE  Ticketed'
<1>1. /\ sem \in Int /\ turn \in 0 .. Turns /\ age \in Nat /\ last \in Int /\ tries \in Nat
      /\ tries <= Retries - 1 /\ age <= Brief /\ Turns \in Nat
      /\ inside \in BOOLEAN /\ outlasted \in BOOLEAN /\ moved \in BOOLEAN
  BY Limits DEF WindowTypeOK
<1>2. /\ Free \notin Live /\ Ours \notin Live /\ Free # Ours
      /\ \A x \in Live : x \in 1 .. Turns
  BY Limits DEF Free, Ours, Live
<1>3. ASSUME UNCHANGED <<sem, inside, turn, outlasted>>, Fallen, lock # "in"
      PROVE  Ticketed'
  <2>1. sem # Ours /\ ~(tries' > 0) /\ last' \notin Live /\ lock' # "in"
    BY <1>2, <1>3 DEF Ticketed, Fallen
  <2>2. QED
    BY <1>3, <2>1, Zenon DEF Ticketed
<1>4. CASE TryTake
  <2>1. /\ sem = Free /\ sem' = Ours /\ lock' = "in" /\ tries' = 0 /\ last' = Free
        /\ UNCHANGED <<inside, turn, age, outlasted, cmd>> /\ Running
    BY <1>4, Zenon DEF TryTake, Card, place
  <2>2. Running' /\ (inside => outlasted)
    BY <1>2, <2>1, Zenon DEF Ticketed, Running
  <2>3. QED
    BY <1>2, <2>1, <2>2, Zenon DEF Ticketed
<1>5. CASE TryFails
  <2>1. /\ UNCHANGED <<sem, inside, turn, outlasted, tries, moved, last>>
        /\ lock = "try" /\ lock' = "look" /\ (sem \in Live => age' = age + 1)
    BY <1>5 DEF TryFails, Card, Aged
  <2>2. sem # Ours
    BY <2>1 DEF Ticketed
  <2>3. tries > 0 /\ ~moved /\ sem = last /\ sem \in Live => tries <= age'
    <3>1. tries > 0 /\ ~moved /\ sem = last /\ sem \in Live => tries <= age + 1
      BY <2>1 DEF Ticketed
    <3>2. QED
      BY <2>1, <3>1
  <2>4. tries > 0 /\ ~moved /\ sem = last /\ sem \in Live => tries <= age' + 0
    <3>1. age' = age + 1 => age' + 0 = age'
      BY <1>1
    <3>2. QED
      BY <2>1, <2>3, <3>1
  <2>5. QED
    BY <2>1, <2>2, <2>4, Zenon DEF Ticketed
<1>6. CASE Look
  <2> DEFINE m == moved \/ (tries > 0 /\ sem # last)
             n == tries + 1
  <2>1. UNCHANGED <<inside, turn, age>> /\ lock = "look" /\ sem # Ours
    BY <1>6, Zenon DEF Look, Card, Ticketed
  <2>2. sem \in Live /\ ~m => tries = 0 \/ tries <= age
    <3>1. sem \in Live /\ ~m /\ tries > 0 => tries <= age + 0
      BY <2>1, Zenon DEF Ticketed
    <3>2. QED
      BY <1>1, <3>1
  <2>3. CASE /\ ~IsParked(n, m, sem) /\ n < Retries
             /\ lock' = "try" /\ tries' = n /\ moved' = m /\ last' = sem
             /\ UNCHANGED <<sem, outlasted>>
    <3>1. sem' \in Live /\ ~moved' => tries' <= age' + 1
      <4>1. sem' \in Live /\ ~moved' => tries = 0 \/ tries <= age
        BY <2>2, <2>3, Zenon
      <4>2. tries = 0 \/ tries <= age => tries + 1 <= age + 1
        BY <1>1
      <4>3. tries' = tries + 1 /\ age' = age
        BY <2>1, <2>3
      <4>4. QED
        BY <4>1, <4>2, <4>3, Zenon
    <3>2. last' \in Live => last' <= turn'
      <4>1. turn <= turn
        BY <1>1
      <4>2. QED
        BY <2>1, <2>3, <4>1 DEF Ticketed
    <3>3. QED
      BY <2>1, <2>3, <3>1, <3>2, Zenon DEF Ticketed
  <2>4. CASE Fallen /\ UNCHANGED <<sem, outlasted>>
    BY <1>3, <2>1, <2>4
  <2>5. CASE /\ ~(~IsParked(n, m, sem) /\ n < Retries)
             /\ sem' = Free /\ lock' = "retake" /\ last' = Free
             /\ outlasted' = (outlasted \/ n = Retries)
    <3>1. sem \in Live => n = Retries
      <4>1. ASSUME sem \in Live, n < Retries
            PROVE  FALSE
        <5>1. n >= Patience /\ ~m
          BY <2>5, <4>1, Zenon DEF IsParked
        <5>2. QED
          BY <1>1, <2>2, <4>1, <5>1, Limits
      <4>2. QED
        BY <1>1, <4>1, Limits
    <3>2. inside => outlasted'
      BY <2>5, <3>1, Zenon DEF Ticketed
    <3>3. QED
      BY <1>2, <2>1, <2>5, <3>2, Zenon DEF Ticketed
  <2>6. QED
    BY <1>6, <2>3, <2>4, <2>5, FailingFalls, Zenon DEF Look
<1>7. CASE Retake
  <2>1. /\ lock = "retake" /\ UNCHANGED <<inside, turn, sem, outlasted>>
        /\ Fallen \/ UNCHANGED <<lock, last>>
    BY <1>7, FailingFalls, Zenon DEF Retake, Card
  <2>2. sem # Ours
    BY <2>1 DEF Ticketed
  <2>3. QED
    BY <1>3, <2>1, <2>2, Zenon DEF Ticketed
<1>8. CASE OutOfTime
  <2>1. lock \in {"try", "retake"} /\ UNCHANGED <<sem, inside, turn, outlasted>> /\ Fallen
    BY <1>8, FailingFalls, Zenon DEF OutOfTime, Card
  <2>2. QED
    BY <1>3, <2>1
<1>9. CASE Access
  <2>1. /\ lock = "in" /\ sem' = Free /\ lock' = "try" /\ tries' = 0 /\ last' = Free
        /\ UNCHANGED <<inside, turn, age, outlasted>>
    BY <1>9, AccessLeaves, Zenon DEF Left, Fallen
  <2>2. inside => outlasted
    BY <1>2, <2>1, Zenon DEF Ticketed
  <2>3. ~(tries' > 0)
    BY <2>1
  <2>4. QED
    BY <1>2, <2>1, <2>2, <2>3, Zenon DEF Ticketed
<1>10. CASE Others \/ BudgetSpent \/ UNCHANGED vars
  <2>1. UNCHANGED <<lock, tries, moved, last, outlasted, cmd>>
    BY <1>10, OthersOfWindow, Zenon DEF locking
  <2>2. Running' = Running
    BY <2>1, Zenon DEF Running
  <2>3. CASE UNCHANGED <<sem, inside, turn, age>>
    BY <2>1, <2>2, <2>3, Zenon DEF Ticketed
  <2>4. CASE UserEnters
    <3>1. /\ sem = Free /\ turn' = turn + 1 /\ sem' = turn + 1 /\ turn < Turns
          /\ inside' = TRUE
      BY <2>4 DEF UserEnters
    <3>2. sem' \in Live /\ sem' # Ours /\ (last \in Live => sem' # last /\ last <= turn')
      BY <1>1, <3>1 DEF Ticketed, Live, Ours
    <3>3. lock = "in" => outlasted
      BY <1>2, <3>1 DEF Ticketed
    <3>4. QED
      BY <2>1, <2>2, <3>1, <3>2, <3>3, Zenon DEF Ticketed
  <2>5. CASE UserLeaves
    <3>1. inside /\ inside' = FALSE /\ sem' = Free /\ turn' = turn
      BY <2>5, Zenon DEF UserLeaves
    <3>2. lock = "in" => outlasted
      BY <1>2, <3>1, Zenon DEF Ticketed
    <3>3. QED
      BY <1>2, <2>1, <2>2, <3>1, <3>2, Zenon DEF Ticketed
  <2>6. QED
    BY <1>10, <2>3, <2>4, <2>5, OthersOfWindow
<1>11. QED
  BY <1>4, <1>5, <1>6, <1>7, <1>8, <1>9, <1>10, Zenon DEF Next, Locking

------------------------------------------------------------------------------
(* Where a command leads.                                                  *)

Finished == cmd' = "over" /\ UNCHANGED <<port, step, takes, err, reply>>
Begun == /\ step' = "room" /\ takes' = 0 /\ err' = FALSE /\ reply' = NoMail
         /\ cmd' \in Commands /\ port' \in Ports

\* Going on to the next port begins its first command, or ends the step.
LEMMA GoingOn ==
    ASSUME PlaceTypeOK, NEW s, NextPort(s) \/ AfterPorts(s)
    PROVE  /\ Finished \/ (Begun /\ cmd' \in {"cap", "warm"})
           /\ got' = Nothing /\ sum' = s
<1>1. port \in Ports /\ "cap" \in Commands /\ "warm" \in Commands
  BY DEF PlaceTypeOK, Commands
<1>2. QED
  BY <1>1, Zenon DEF NextPort, AfterPorts, Begin, Over, Begun, Finished

\* A command that fails ends the step on the card, or begins the next command.
LEMMA Failing ==
    ASSUME PlaceTypeOK, Running, CommandFails
    PROVE  /\ Finished \/ (Begun /\ cmd' \in {"cap", "warm"})
           /\ got' \in {got, Nothing} /\ sum' \in {sum, Failure}
<1>1. CASE cmd \in {"spaces", "id", "cap", "next", "now"}
  BY <1>1, Zenon DEF CommandFails, Over, Finished
<1>2. CASE cmd \in {"get", "set", "back"}
  <2>1. NextPort(Failure)
    BY <1>2, Zenon DEF CommandFails
  <2>2. QED
    BY <2>1, GoingOn
<1>3. CASE cmd = "warm"
  BY <1>3, Zenon DEF CommandFails, Over, Finished
<1>4. QED
  BY <1>1, <1>2, <1>3 DEF PlaceTypeOK, Running, Commands

\* A command that is done leads to the next, with what it told.
LEMMA Doing ==
    ASSUME PlaceTypeOK, cmd \in Commands, CommandDone
    PROVE  /\ Finished \/ Begun
           /\ got' \in {got, Nothing, [got EXCEPT !.cap = reply.cap],
                        [got EXCEPT !.next = reply.tlv]}
           /\ sum' \in {sum, Failure, [sum EXCEPT !.written = @ \cup {port}],
                        [sum EXCEPT !.ports = @ \cup
                            {[port |-> port, next |-> got.next.fec,
                              now |-> reply.tlv.fec]}]}
<1>1. port \in Ports /\ {"next", "now", "get", "set", "back"} \subseteq Commands
  BY DEF PlaceTypeOK, Commands
<1>2. CASE cmd \in {"next", "get", "set", "warm"}
  BY <1>1, <1>2, Zenon DEF CommandDone, Begin, Over, Begun, Finished
<1>3. CASE cmd = "cap"
  BY <1>1, <1>3, GoingOn, Zenon DEF CommandDone, Begin, Begun
<1>4. CASE cmd = "now"
  BY <1>1, <1>4, GoingOn, Zenon DEF CommandDone, PortRead, Begin, Begun
<1>5. CASE cmd = "back"
  BY <1>5, GoingOn, Zenon DEF CommandDone
<1>6. QED
  BY <1>2, <1>3, <1>4, <1>5 DEF Commands

\* An access that fails ends its command, or has the ICMD semaphore given back.
LEMMA Failed ==
    ASSUME Running, AccessFails
    PROVE  \/ step = "free" /\ Ended /\ lost' = lost \cup {"release"}
           \/ /\ step \in Early /\ CommandFails
              /\ lost' = IF step \in {"token", "mine"} /\ icmd' = "boot"
                         THEN lost \cup {"taking"} ELSE lost
           \/ /\ step \notin Early \cup {"free"} /\ step' = "free" /\ err' = TRUE
              /\ UNCHANGED <<cmd, port, takes, known>>
              /\ lost' = IF step \in {"go", "poll"} /\ go' THEN lost \cup {"running"} ELSE lost
  BY Zenon DEF AccessFails

\* Where the boot is in a command, after any step.
LEMMA WhereItGoes ==
    ASSUME [Next]_vars
    PROVE  \/ UNCHANGED <<place, known>>
           \/ Running /\ step = "free" /\ Ended
           \/ Running /\ step \in Early /\ CommandFails
           \/ Identify
           \/ /\ Running /\ UNCHANGED <<cmd, port, err, known>>
              /\ step # "dword" /\ step' \in Steps \ {"dword", "free", "fetch"}
              /\ takes' = takes \/ (takes' = takes + 1 /\ takes + 1 < Takes)
           \/ Poll /\ step' = "fetch" /\ UNCHANGED <<cmd, port, takes, err, known>>
           \/ /\ Running /\ step \notin Early \cup {"free"} /\ step' = "free"
              /\ err' = TRUE /\ UNCHANGED <<cmd, port, takes, known>>
           \/ Fetch
<1>1. {"room", "ready", "token", "mine", "ctrl", "op", "mail", "busy", "go", "poll"}
        \subseteq Steps \ {"dword", "free", "fetch"}
  BY DEF Steps, Early
<1>2. \A s \in {"busy", "poll"} : s \notin Early \cup {"free"}
  BY DEF Early
<1>3. {"ready", "mine"} \subseteq Early
  BY DEF Early
<1>4. CASE Locking
  <2>1. UNCHANGED <<place, known>> \/ (Running /\ AccessFails)
    BY <1>4, Zenon DEF Locking, TryTake, TryFails, Look, Retake, OutOfTime
  <2>2. QED
    BY <2>1, Failed, Zenon
<1>5. CASE Mute
  BY <1>5, Failed, Zenon DEF Mute
<1>6. CASE Room \/ Mine
  BY <1>1, <1>3, <1>6, Zenon DEF Room, Mine, In, To
<1>7. CASE Token \/ Opcode \/ Mail \/ Go
  BY <1>1, <1>7, Zenon DEF Token, Opcode, Mail, Go, In, To
<1>8. CASE Busy \/ Poll \/ GiveUpPolling
  BY <1>1, <1>2, <1>8, Zenon DEF Busy, Poll, GiveUpPolling, In, To, Stop, known
<1>9. CASE Release
  BY <1>9, Zenon DEF Release, In
<1>10. CASE Others \/ BudgetSpent \/ UNCHANGED vars
  BY <1>10, Zenon DEF Others, Complete, UserEnters, UserLeaves, ToolTakes, ToolRuns,
     ToolReleases, BudgetSpent, Boots, vars
<1>11. QED
  BY <1>4, <1>5, <1>6, <1>7, <1>8, <1>9, <1>10, Zenon DEF Next, Access

------------------------------------------------------------------------------
(* The ICMD semaphore and the command in flight.                           *)

\* A failed access leaves the mailbox taken or given back as its step has it.
LEMMA TurnedFailing ==
    ASSUME PlaceTypeOK, GatewayTypeOK, Turned, Running, AccessFails,
           \/ icmd' = icmd
           \/ step = "free" /\ icmd' = "free"
           \/ step = "token" /\ icmd = "free" /\ icmd' = "boot",
           go' = go \/ (step = "go" /\ go' = TRUE)
    PROVE  Turned'
<1>1. /\ {"free", "go", "poll"} \subseteq Late /\ "room" \notin Late \cup {"go", "fetch", "poll", "free"}
      /\ \A s \in Steps : s \in Early \/ s \in Late
      /\ \A s \in Early : s \notin Late \cup {"go", "poll", "free"}
  BY DEF Late, Early, Steps
<1>2. step \in Steps /\ (step # "dword" => cmd \in Commands) /\ "dword" \in Early
  BY DEF PlaceTypeOK, Turned, Early
<1>3. ASSUME Finished \/ Begun, lost \subseteq lost',
             icmd' = "boot" => lost' \cap {"taking", "release"} # {},
             go' => icmd' = "tool" \/ "running" \in lost'
      PROVE  Turned'
  <2>1. CASE Finished
    <3>1. ~Running'
      BY <2>1, Zenon DEF Finished, Running
    <3>2. QED
      BY <1>3, <3>1, Zenon DEF Turned
  <2>2. CASE Begun
    BY <1>1, <1>3, <2>2, Zenon DEF Turned, Begun
  <2>3. QED
    BY <1>3, <2>1, <2>2
<1>4. CASE step = "free" /\ Ended /\ lost' = lost \cup {"release"}
  <2>1. Finished \/ Begun
    <3>1. cmd \in Commands
      BY <1>2, <1>4
    <3>2. QED
      BY <1>4, <3>1, Failing, Doing, Zenon DEF Ended
  <2>2. go' => "running" \in lost'
    <3>1. icmd = "boot" /\ go' = go
      BY <1>1, <1>4, Zenon DEF Turned
    <3>2. go => "running" \in lost
      BY <1>4, <3>1 DEF Turned
    <3>3. QED
      BY <1>4, <3>1, <3>2
  <2>3. lost \subseteq lost' /\ lost' \cap {"taking", "release"} # {}
    BY <1>4
  <2>4. QED
    BY <1>3, <2>1, <2>2, <2>3, Zenon
<1>5. CASE /\ step \in Early /\ CommandFails
           /\ lost' = IF step \in {"token", "mine"} /\ icmd' = "boot"
                      THEN lost \cup {"taking"} ELSE lost
  <2>1. Finished \/ Begun
    BY <1>5, Failing, Zenon
  <2>2. lost \subseteq lost'
    BY <1>5
  <2>3. icmd' = "boot" => lost' \cap {"taking", "release"} # {}
    <3>1. CASE step \in {"token", "mine"}
      BY <1>5, <3>1
    <3>2. CASE step \notin {"token", "mine"}
      <4>1. icmd' = "boot" => icmd = "boot"
        BY <3>2, Zenon
      <4>2. step \notin Late \cup {"mine"}
        BY <1>1, <1>5, <3>2
      <4>3. icmd = "boot" => lost \cap {"taking", "release"} # {}
        BY <4>2 DEF Turned
      <4>4. QED
        BY <2>2, <4>1, <4>3
    <3>3. QED
      BY <3>1, <3>2
  <2>4. go' => icmd' = "tool" \/ "running" \in lost'
    <3>1. go' = go /\ step # "poll"
      BY <1>1, <1>5, Zenon
    <3>2. go => icmd = "tool" \/ "running" \in lost
      BY <3>1, Zenon DEF Turned
    <3>3. icmd = "tool" => icmd' = "tool"
      BY <1>1, <1>5, Zenon
    <3>4. QED
      BY <2>2, <3>1, <3>2, <3>3, Zenon
  <2>5. QED
    BY <1>3, <2>1, <2>2, <2>3, <2>4
<1>6. CASE /\ step \notin Early \cup {"free"} /\ step' = "free" /\ err' = TRUE
           /\ UNCHANGED <<cmd, port, takes, known>>
           /\ lost' = IF step \in {"go", "poll"} /\ go' THEN lost \cup {"running"} ELSE lost
  <2>1. step \in Late /\ icmd = "boot" /\ icmd' = "boot" /\ cmd \in Commands
    <3>1. step \in Late
      BY <1>1, <1>2, <1>6, Zenon
    <3>2. step # "free" /\ step # "token" /\ step # "dword"
      BY <1>6 DEF Early
    <3>3. QED
      BY <1>2, <3>1, <3>2, Zenon DEF Turned
  <2>2. go' => "running" \in lost'
    <3>1. CASE step \in {"go", "poll"}
      BY <1>6, <3>1
    <3>2. CASE step \notin {"go", "poll"}
      <4>1. go' = go /\ (go => "running" \in lost)
        BY <2>1, <3>2, Zenon DEF Turned
      <4>2. QED
        BY <1>6, <3>2, <4>1
    <3>3. QED
      BY <3>1, <3>2
  <2>3. Running'
    BY <1>6, Zenon DEF Running
  <2>4. QED
    BY <1>1, <1>6, <2>1, <2>2, <2>3, Zenon DEF Turned
<1>7. QED
  BY <1>4, <1>5, <1>6, Failed, Zenon

\* A step of the boot that goes on in the command in hand.
LEMMA TurnedGoingOn ==
    ASSUME Turned, Running, UNCHANGED <<cmd, lost>>, cmd' \in Commands,
           step' \in Late => icmd' = "boot",
           icmd' = "boot" /\ step' \notin Late \cup {"mine"}
             => lost \cap {"taking", "release"} # {},
           go' => icmd' = "tool" \/ step' = "poll" \/ "running" \in lost,
           step' \in {"go", "fetch"} => go' = FALSE,
           step' = "free" /\ ~err' => go' = FALSE
    PROVE  Turned'
<1>1. Running'
  BY Zenon DEF Running
<1>2. QED
  BY <1>1, Zenon DEF Turned

\* And one that leads to another command, or to none.
LEMMA TurnedLeading ==
    ASSUME Finished \/ Begun, UNCHANGED lost,
           icmd' = "boot" => lost \cap {"taking", "release"} # {},
           go' => icmd' = "tool" \/ "running" \in lost
    PROVE  Turned'
<1>1. "room" \notin Late \cup {"go", "fetch", "poll", "free"}
  BY DEF Late
<1>2. CASE Finished
  <2>1. ~Running'
    BY <1>2, Zenon DEF Finished, Running
  <2>2. QED
    BY <2>1, Zenon DEF Turned
<1>3. CASE Begun
  BY <1>1, <1>3, Zenon DEF Turned, Begun
<1>4. QED
  BY <1>2, <1>3

\* Every access of a command leaves the mailbox with the owner its step says.
LEMMA TurnedAccess ==
    ASSUME PlaceTypeOK, GatewayTypeOK, Turned, Access
    PROVE  Turned'
<1>1. /\ Running /\ (step # "dword" => cmd \in Commands)
      /\ icmd \in {"free", "boot", "tool"} /\ go \in BOOLEAN /\ err \in BOOLEAN
      /\ {"room", "ready", "token", "mine", "dword"} \cap
           (Late \cup {"go", "fetch", "poll", "free"}) = {}
      /\ {"ctrl", "op", "mail", "busy", "go", "poll", "fetch", "free"} \subseteq Late
  BY AccessLeaves DEF Turned, Late, GatewayTypeOK, PlaceTypeOK
<1>2. CASE Mute
  <2>1. go' = go \/ (step = "go" /\ go' = TRUE)
    BY <1>1, <1>2, Zenon DEF Mute
  <2>2. \/ icmd' = icmd
        \/ step = "free" /\ icmd' = "free"
        \/ step = "token" /\ icmd = "free" /\ icmd' = "boot"
    BY <1>2, Zenon DEF Mute
  <2>3. QED
    BY <1>2, <2>1, <2>2, TurnedFailing, Zenon DEF Mute
<1>3. CASE Identify
  <2>1. /\ step = "dword" /\ UNCHANGED <<icmd, go, lost>>
        /\ \/ cmd' = "id" /\ UNCHANGED <<step, err>>
           \/ Finished \/ Begun
    <3>1. "cap" \in Commands /\ 1 \in Ports
      BY Limits DEF Commands
    <3>2. QED
      BY <1>1, <1>3, <3>1, Failing, Zenon DEF Identify, In, gateway, Begin, Begun
  <2>2. /\ icmd = "boot" => lost \cap {"taking", "release"} # {}
        /\ go => icmd = "tool" \/ "running" \in lost
    BY <1>1, <2>1, Zenon DEF Turned
  <2>3. CASE cmd' = "id" /\ UNCHANGED <<step, err>>
    <3>1. Running'
      BY <2>3 DEF Running
    <3>2. QED
      BY <1>1, <2>1, <2>2, <2>3, <3>1, Zenon DEF Turned
  <2>4. QED
    BY <2>1, <2>2, <2>3, TurnedLeading, Zenon
<1>4. CASE Room
  <2>1. /\ step \in {"room", "ready"} /\ UNCHANGED <<icmd, go, lost>>
        /\ \/ step' \in {"ready", "token"} /\ UNCHANGED <<cmd, err>>
           \/ Finished \/ Begun
    BY <1>4, Failing, Zenon DEF Room, In, To, gateway
  <2>2. /\ icmd = "boot" => lost \cap {"taking", "release"} # {}
        /\ go => icmd = "tool" \/ "running" \in lost
    BY <1>1, <2>1, Zenon DEF Turned
  <2>3. QED
    BY <1>1, <2>1, <2>2, TurnedGoingOn, TurnedLeading, Zenon
<1>5. CASE Token
  <2>1. /\ step = "token" /\ step' = "mine" /\ UNCHANGED <<go, lost, cmd, err>>
        /\ icmd = "tool" => icmd' = "tool"
    BY <1>5, Zenon DEF Token, In, To
  <2>2. go => icmd = "tool" \/ "running" \in lost
    BY <1>1, <2>1, Zenon DEF Turned
  <2>3. QED
    BY <1>1, <2>1, <2>2, TurnedGoingOn, Zenon
<1>6. CASE Mine
  <2>1. /\ step = "mine" /\ UNCHANGED <<icmd, go, lost>>
        /\ \/ icmd = "boot" /\ step' = "ctrl" /\ UNCHANGED <<cmd, err>>
           \/ icmd # "boot" /\ step' = "token" /\ UNCHANGED <<cmd, err>>
           \/ icmd # "boot" /\ (Finished \/ Begun)
    BY <1>6, Failing, Zenon DEF Mine, In, To, gateway
  <2>2. go => icmd = "tool" \/ "running" \in lost
    BY <1>1, <2>1, Zenon DEF Turned
  <2>3. QED
    BY <1>1, <2>1, <2>2, TurnedGoingOn, TurnedLeading, Zenon
<1>7. CASE Opcode \/ Mail \/ Go
  <2>1. /\ step \in {"ctrl", "op", "mail", "go"} /\ UNCHANGED <<icmd, lost, cmd, err>>
        /\ (step = "go" /\ step' = "poll") \/ (step' \in {"op", "mail", "busy"} /\ go' = go)
    BY <1>7, Zenon DEF Opcode, Mail, Go, In, To, gateway
  <2>2. icmd = "boot" /\ (go => icmd = "tool" \/ step = "poll" \/ "running" \in lost)
    BY <1>1, <2>1, Zenon DEF Turned
  <2>3. go' => step' = "poll" \/ "running" \in lost
    BY <2>1, <2>2
  <2>4. QED
    BY <1>1, <2>1, <2>2, <2>3, TurnedGoingOn, Zenon
<1>8. CASE Busy \/ Poll \/ Fetch
  <2>1. /\ step \in {"busy", "poll", "fetch"} /\ UNCHANGED <<icmd, go, lost, cmd>>
        /\ \/ step' = "free" /\ err' = TRUE /\ (go => step = "busy")
           \/ step' = "poll"
           \/ step' \in {"go", "fetch"} /\ ~go
           \/ step = "fetch" /\ step' = "free"
    BY <1>8, Zenon DEF Busy, Poll, Fetch, In, To, Stop, gateway
  <2>2. /\ icmd = "boot" /\ (go => icmd = "tool" \/ step = "poll" \/ "running" \in lost)
        /\ step = "fetch" => ~go
    BY <1>1, <2>1, Zenon DEF Turned
  <2>3. step' \in Late /\ (step' \in {"go", "fetch"} => go' = FALSE)
    BY <1>1, <2>1
  <2>4. /\ step' = "free" /\ ~err' => go' = FALSE
        /\ go' => icmd' = "tool" \/ step' = "poll" \/ "running" \in lost
    BY <1>1, <2>1, <2>2
  <2>5. QED
    BY <1>1, <2>1, <2>2, <2>3, <2>4, TurnedGoingOn, Zenon
<1>9. CASE GiveUpPolling
  <2>1. /\ step = "poll" /\ UNCHANGED <<icmd, go, cmd>>
        /\ step' = "free" /\ err' = TRUE /\ lost' = lost \cup {"running"}
    BY <1>9, Zenon DEF GiveUpPolling, In, gateway
  <2>2. icmd = "boot" /\ Running'
    BY <1>1, <2>1, Zenon DEF Turned, Running
  <2>3. "running" \in lost'
    BY <2>1
  <2>4. QED
    BY <1>1, <2>1, <2>2, <2>3 DEF Turned
<1>10. CASE Release
  <2>1. /\ step = "free" /\ icmd' = "free" /\ UNCHANGED <<go, lost>>
        /\ Finished \/ Begun
    <3>1. step = "free" /\ cmd \in Commands
      BY <1>1, <1>10, Zenon DEF Release, In
    <3>2. QED
      BY <1>1, <1>10, <3>1, Failing, Doing, Zenon DEF Release, Ended
  <2>2. icmd = "boot" /\ (go => "running" \in lost)
    BY <1>1, <2>1 DEF Turned
  <2>3. QED
    BY <2>1, <2>2, TurnedLeading, Zenon
<1>11. QED
  BY <1>2, <1>3, <1>4, <1>5, <1>6, <1>7, <1>8, <1>9, <1>10, Zenon DEF Access

\* Every step, the tool's and the firmware's too, keeps who holds the mailbox.
LEMMA TurnedStep ==
    ASSUME PlaceTypeOK, GatewayTypeOK, Turned, [Next]_vars
    PROVE  Turned'
<1>1. "poll" \in Late
  BY DEF Late
<1>2. CASE Locking
  <2>1. /\ UNCHANGED <<icmd, go>>
        /\ UNCHANGED <<cmd, step, err, lost>> \/ (Running /\ AccessFails)
    BY <1>2, Zenon DEF Locking, TryTake, TryFails, Look, Retake, OutOfTime, Card,
       gateway, place
  <2>2. CASE UNCHANGED <<cmd, step, err, lost>>
    BY <2>1, <2>2, Zenon DEF Turned, Running
  <2>3. CASE Running /\ AccessFails
    BY <2>1, <2>3, TurnedFailing, Zenon
  <2>4. QED
    BY <2>1, <2>2, <2>3, Zenon
<1>3. CASE Access
  BY <1>3, TurnedAccess
<1>4. CASE Others \/ BudgetSpent \/ UNCHANGED vars
  <2>1. /\ UNCHANGED <<cmd, step, err, lost>>
        /\ \/ UNCHANGED <<icmd, go>>
           \/ go' = FALSE /\ icmd' = icmd
           \/ icmd = "free" /\ icmd' = "tool" /\ go' = go
           \/ icmd = "tool" /\ icmd' = "tool" /\ ~go
           \/ icmd = "tool" /\ ~go /\ icmd' = "free" /\ go' = go
    BY <1>4, Zenon DEF Others, Complete, UserEnters, UserLeaves, ToolTakes, ToolRuns,
       ToolReleases, BudgetSpent, Boots, vars, place, gateway
  <2>2. Running' = Running
    BY <2>1, Zenon DEF Running
  <2>3. /\ icmd' = "boot" => icmd = "boot"
        /\ go' => icmd' = "tool" \/ (go /\ icmd' = icmd)
    BY <2>1
  <2>4. icmd = "boot" => icmd' = "boot" /\ (go' => go)
    BY <2>1
  <2>5. go' => icmd' = "tool" \/ (Running /\ step = "poll") \/ "running" \in lost
    BY <2>3, Zenon DEF Turned
  <2>6. /\ Running /\ step \in {"go", "fetch"} => ~go'
        /\ Running /\ step = "free" /\ ~err => ~go'
    <3>1. {"go", "fetch", "free"} \subseteq Late
      BY DEF Late
    <3>2. QED
      BY <2>4, <3>1, Zenon DEF Turned
  <2>7. QED
    BY <2>1, <2>2, <2>3, <2>4, <2>5, <2>6, Zenon DEF Turned
<1>5. QED
  BY <1>2, <1>3, <1>4, Zenon DEF Next

------------------------------------------------------------------------------
(* Types.                                                                  *)

\* Every step keeps where the boot is in its types.
LEMMA PlaceTyped ==
    ASSUME PlaceTypeOK, GatewayTypeOK, Turned, [Next]_vars
    PROVE  PlaceTypeOK'
<1>1. /\ cmd \in {"spaces", "id", "over"} \cup Commands /\ port \in Ports
      /\ step \in Steps /\ takes \in 0 .. Takes - 1 /\ err \in BOOLEAN
      /\ reply \in Mails /\ got \in Gots /\ sum \in Sums
      /\ Running /\ step # "dword" => cmd \in Commands
      /\ mail \in Mails
  BY Zenon DEF PlaceTypeOK, Turned, GatewayTypeOK
<1>2. /\ "room" \in Steps /\ "free" \in Steps /\ "fetch" \in Steps
      /\ "free" # "dword"
      /\ 0 \in 0 .. Takes - 1 /\ 1 \in Ports /\ "cap" \in Commands
      /\ takes + 1 < Takes => takes + 1 \in 0 .. Takes - 1
  BY <1>1, Limits DEF Steps, Early, Commands
<1>3. NoMail \in Mails /\ Nothing \in Gots /\ Failure \in Sums
  BY <1>1, <1>2 DEF NoMail, Nothing, Message, Absent, Mails, Gots, Tlvs, Failure, Sums
<1>4. [got EXCEPT !.cap = reply.cap] \in Gots /\ [got EXCEPT !.next = reply.tlv] \in Gots
  BY <1>1 DEF Gots, Mails
<1>5. /\ [sum EXCEPT !.written = @ \cup {port}] \in Sums
      /\ [sum EXCEPT !.ports = @ \cup {[port |-> port, next |-> got.next.fec,
                                        now |-> reply.tlv.fec]}] \in Sums
  BY <1>1 DEF Sums, Gots, Mails, Tlvs
<1>6. ASSUME Finished \/ Begun, got' \in Gots, sum' \in Sums
      PROVE  PlaceTypeOK'
  BY <1>1, <1>2, <1>3, <1>6, Zenon DEF Finished, Begun, PlaceTypeOK
<1>7. CASE UNCHANGED <<place, known>>
  BY <1>1, <1>7, Zenon DEF place, known, PlaceTypeOK
<1>8. CASE Running /\ CommandFails
  <2>1. /\ Finished \/ Begun
        /\ got' \in {got, Nothing} /\ sum' \in {sum, Failure}
    BY <1>8, Failing, Zenon
  <2>2. QED
    BY <1>1, <1>3, <1>6, <2>1, Zenon
<1>9. CASE Running /\ step = "free" /\ Ended
  <2>1. CASE CommandFails
    BY <1>8, <1>9, <2>1
  <2>2. CASE CommandDone
    BY <1>1, <1>2, <1>3, <1>4, <1>5, <1>6, <1>9, <2>2, Doing, Zenon
  <2>3. QED
    BY <1>9, <2>1, <2>2 DEF Ended
<1>10. CASE Identify
  <2>1. /\ Running
        /\ \/ cmd' = "id" /\ UNCHANGED <<port, step, takes, err, known>>
           \/ Begin("cap", 1) /\ UNCHANGED <<got, sum>>
           \/ CommandFails
    BY <1>10, Zenon DEF Identify, In
  <2>2. CASE cmd' = "id" /\ UNCHANGED <<port, step, takes, err, known>>
    BY <1>1, <2>2, Zenon DEF PlaceTypeOK, known
  <2>3. CASE Begin("cap", 1) /\ UNCHANGED <<got, sum>>
    BY <1>1, <1>2, <1>6, <2>3, Zenon DEF Begin, Begun
  <2>4. QED
    BY <1>8, <2>1, <2>2, <2>3
<1>11. CASE /\ UNCHANGED <<cmd, port, known>> /\ step' \in Steps /\ err' \in BOOLEAN
            /\ takes' = takes \/ (takes' = takes + 1 /\ takes + 1 < Takes)
  BY <1>1, <1>2, <1>11, Zenon DEF PlaceTypeOK, known
<1>12. CASE Fetch
  BY <1>1, <1>2, <1>12, Zenon DEF Fetch, PlaceTypeOK
<1>13. QED
  <2>1. \/ UNCHANGED <<place, known>> \/ Identify \/ Fetch
        \/ Running /\ CommandFails
        \/ Running /\ step = "free" /\ Ended
        \/ /\ UNCHANGED <<cmd, port, known>> /\ step' \in Steps /\ err' \in BOOLEAN
           /\ takes' = takes \/ (takes' = takes + 1 /\ takes + 1 < Takes)
    BY <1>1, <1>2, WhereItGoes, Zenon
  <2>2. QED
    BY <1>7, <1>8, <1>9, <1>10, <1>11, <1>12, <2>1, Zenon

\* What a step does to the card's NV and to the mailbox: only a SET that
\* completes writes the one, and the other is the command's answer.
LEMMA NvStep ==
    ASSUME [Next]_vars
    PROVE  /\ UNCHANGED <<want, faults>>
           /\ \/ UNCHANGED nv
              \/ /\ Complete /\ go /\ mail.cmd = "set" /\ mail' = mail
                 /\ nv' = [q \in DOMAIN nv |->
                             IF q = mail.port THEN [nv[q] EXCEPT !.next = mail.tlv]
                             ELSE nv[q]]
<1>1. CASE Locking
  BY <1>1, Zenon DEF Locking, TryTake, TryFails, Look, Retake, OutOfTime, Card
<1>2. CASE Mute \/ Identify \/ Room \/ Token \/ Mine \/ Opcode
  BY <1>2, Zenon DEF Mute, Identify, Room, Token, Mine, Opcode, Leave
<1>3. CASE Mail \/ Busy \/ Go \/ Poll \/ GiveUpPolling \/ Fetch \/ Release
  BY <1>3, Zenon DEF Mail, Busy, Go, Poll, GiveUpPolling, Fetch, Release, Leave
<1>4. CASE Complete
  BY <1>4, Zenon DEF Complete, Boots
<1>5. CASE UserEnters \/ UserLeaves \/ ToolTakes \/ ToolRuns \/ ToolReleases
           \/ BudgetSpent \/ UNCHANGED vars
  BY <1>5, Zenon DEF UserEnters, UserLeaves, ToolTakes, ToolRuns, ToolReleases,
     BudgetSpent, Boots, vars
<1>6. QED
  BY <1>1, <1>2, <1>3, <1>4, <1>5, Zenon DEF Next, Access, Others

\* The mailbox changes by the boot's write, a tool's command, or the firmware's answer to it.
LEMMA MailStep ==
    ASSUME [Next]_vars
    PROVE  \/ UNCHANGED mail
           \/ Mail \/ ToolRuns
           \/ /\ Complete /\ go /\ mail.cmd # "set" /\ UNCHANGED nv
              /\ LET there == mail.port \in DOMAIN nv
                 IN  mail' = [mail EXCEPT
                       !.there = there,
                       !.tlv = IF ~there THEN Absent
                               ELSE IF mail.cmd = "now" THEN nv[mail.port].now
                               ELSE nv[mail.port].next,
                       !.cap = there /\ nv[mail.port].cap]
<1>1. CASE Locking
  BY <1>1, Zenon DEF Locking, TryTake, TryFails, Look, Retake, OutOfTime, Card, gateway
<1>2. CASE Mute \/ Identify \/ Room \/ Token \/ Mine \/ Opcode
  BY <1>2, Zenon DEF Mute, Identify, Room, Token, Mine, Opcode, gateway
<1>3. CASE Busy \/ Go \/ Poll \/ GiveUpPolling \/ Fetch \/ Release
  BY <1>3, Zenon DEF Busy, Go, Poll, GiveUpPolling, Fetch, Release, gateway
<1>4. CASE Complete
  BY <1>4, Zenon DEF Complete, Boots
<1>5. CASE UserEnters \/ UserLeaves \/ ToolTakes \/ ToolReleases
           \/ BudgetSpent \/ UNCHANGED vars
  BY <1>5, Zenon DEF UserEnters, UserLeaves, ToolTakes, ToolReleases,
     BudgetSpent, gateway, vars
<1>6. QED
  BY <1>1, <1>2, <1>3, <1>4, <1>5, Zenon DEF Next, Access, Others

\* Of a port's NV only the FEC changes, and only to the one that is wanted.
LEMMA NvKept ==
    ASSUME NvTypeOK, GatewayTypeOK, SetRight, [Next]_vars
    PROVE  /\ DOMAIN nv' = DOMAIN nv /\ want' = want /\ faults' = faults
           /\ \A p \in DOMAIN nv :
                /\ nv'[p] \in PortNv
                /\ nv'[p].cap = nv[p].cap /\ nv'[p].now = nv[p].now
                /\ nv'[p].next.rest = nv[p].next.rest
                /\ nv'[p].next.fec = nv[p].next.fec
                     \/ (want = "rs" /\ nv'[p].next.fec = want)
           /\ want = "none" => nv' = nv
<1>1. want' = want /\ faults' = faults
  BY NvStep
<1>2. CASE UNCHANGED nv
  <2>1. \A p \in DOMAIN nv : nv[p] \in PortNv
    BY DEF NvTypeOK
  <2>2. QED
    BY <1>1, <1>2, <2>1, Zenon
<1>3. CASE /\ mail.cmd = "set"
           /\ nv' = [q \in DOMAIN nv |->
                       IF q = mail.port THEN [nv[q] EXCEPT !.next = mail.tlv] ELSE nv[q]]
  <2>1. /\ want = "rs" /\ mail.tlv.fec = want /\ mail.tlv \in Tlvs
        /\ mail.port \in DOMAIN nv => mail.tlv.rest = nv[mail.port].next.rest
    BY <1>3 DEF SetRight, GatewayTypeOK, Mails
  <2>2. ASSUME NEW p \in DOMAIN nv
        PROVE  /\ nv'[p] \in PortNv
               /\ nv'[p].cap = nv[p].cap /\ nv'[p].now = nv[p].now
               /\ nv'[p].next.rest = nv[p].next.rest
               /\ nv'[p].next.fec = nv[p].next.fec \/ nv'[p].next.fec = want
    <3>1. nv[p] \in PortNv
      BY DEF NvTypeOK
    <3>2. nv'[p] = IF p = mail.port THEN [nv[p] EXCEPT !.next = mail.tlv] ELSE nv[p]
      BY <1>3
    <3>3. /\ [nv[p] EXCEPT !.next = mail.tlv] \in PortNv
          /\ [nv[p] EXCEPT !.next = mail.tlv].cap = nv[p].cap
          /\ [nv[p] EXCEPT !.next = mail.tlv].now = nv[p].now
          /\ [nv[p] EXCEPT !.next = mail.tlv].next = mail.tlv
      BY <2>1, <3>1 DEF PortNv
    <3>4. QED
      BY <2>1, <3>1, <3>2, <3>3, Zenon
  <2>3. DOMAIN nv' = DOMAIN nv
    BY <1>3
  <2>4. QED
    BY <1>1, <2>1, <2>2, <2>3, Zenon
<1>4. QED
  BY <1>2, <1>3, NvStep, Zenon

\* Every step keeps the NV in its types.
LEMMA NvTyped ==
    ASSUME NvTypeOK, GatewayTypeOK, SetRight, [Next]_vars
    PROVE  NvTypeOK'
  BY NvKept, Zenon DEF NvTypeOK

\* Every step keeps the gateway, its mailbox and what was read of it in their types.
LEMMA GatewayTyped ==
    ASSUME NvTypeOK, GatewayTypeOK, PlaceTypeOK, Turned, GotRight, [Next]_vars
    PROVE  GatewayTypeOK'
<1>1. /\ spent \in BOOLEAN /\ icmd \in {"free", "boot", "tool"} /\ tools \in 0 .. Tools
      /\ mail \in Mails /\ go \in BOOLEAN
  BY Zenon DEF GatewayTypeOK
<1>2. mail' \in Mails
  <2>1. CASE Mail
    <3>1. /\ Running /\ step = "mail"
          /\ mail' = Message("boot", cmd, port, IF cmd = "set" THEN NewTlv ELSE Absent)
      BY <2>1 DEF Mail, In
    <3>2. cmd \in Commands /\ port \in Ports
      BY <3>1 DEF Turned, PlaceTypeOK
    <3>3. cmd = "set" => NewTlv \in Tlvs
      BY DEF GotRight, NewTlv, Tlvs, PlaceTypeOK, Gots
    <3>4. (IF cmd = "set" THEN NewTlv ELSE Absent) \in Tlvs
      BY <3>3 DEF Absent, Tlvs
    <3>5. QED
      BY <3>1, <3>2, <3>4 DEF Message, Mails
  <2>2. CASE ToolRuns
    <3>1. PICK p \in Ports : mail' = Message("tool", "now", p, Absent)
      BY <2>2 DEF ToolRuns
    <3>2. QED
      BY <3>1 DEF Message, Mails, Absent, Tlvs, Commands
  <2>3. CASE /\ Complete /\ go /\ mail.cmd # "set" /\ UNCHANGED nv
             /\ LET there == mail.port \in DOMAIN nv
                IN  mail' = [mail EXCEPT
                      !.there = there,
                      !.tlv = IF ~there THEN Absent
                              ELSE IF mail.cmd = "now" THEN nv[mail.port].now
                              ELSE nv[mail.port].next,
                      !.cap = there /\ nv[mail.port].cap]
    <3> DEFINE there == mail.port \in DOMAIN nv
               t == IF ~there THEN Absent
                    ELSE IF mail.cmd = "now" THEN nv[mail.port].now
                    ELSE nv[mail.port].next
               c == there /\ nv[mail.port].cap
    <3>1. mail' = [mail EXCEPT !.there = there, !.tlv = t, !.cap = c]
      BY <2>3
    <3>2. there \in BOOLEAN /\ c \in BOOLEAN
      OBVIOUS
    <3>3. t \in Tlvs
      BY DEF NvTypeOK, PortNv, Absent, Tlvs
    <3> HIDE DEF there, t, c
    <3>4. QED
      BY <1>1, <3>1, <3>2, <3>3 DEF Mails
  <2>4. QED
    BY <1>1, <2>1, <2>2, <2>3, MailStep, Zenon
<1>3. spent' \in BOOLEAN /\ icmd' \in {"free", "boot", "tool"} /\ tools' \in 0 .. Tools
      /\ go' \in BOOLEAN
  <2>1. tools < Tools => tools + 1 \in 0 .. Tools
    BY <1>1, Limits
  <2>2. CASE Locking
    BY <1>1, <2>2, Zenon DEF Locking, TryTake, TryFails, Look, Retake, OutOfTime, Card,
       gateway
  <2>3. CASE Mute
    <3>1. /\ UNCHANGED <<spent, tools>> /\ icmd' \in {icmd, "free", "boot"}
          /\ go' \in {go, go \/ step = "go"}
      BY <2>3, Zenon DEF Mute
    <3>2. (go \/ step = "go") \in BOOLEAN
      OBVIOUS
    <3>3. QED
      BY <1>1, <3>1, <3>2, Zenon
  <2>4. CASE Identify \/ Room \/ Token \/ Mine \/ Opcode \/ Mail
    BY <1>1, <2>4, Zenon DEF Identify, Room, Token, Mine, Opcode, Mail, Leave, gateway
  <2>5. CASE Busy \/ Go \/ Poll \/ GiveUpPolling \/ Fetch \/ Release
    BY <1>1, <2>5, Zenon DEF Busy, Go, Poll, GiveUpPolling, Fetch, Release, Leave, gateway
  <2>6. CASE Others \/ BudgetSpent \/ UNCHANGED vars
    BY <1>1, <2>1, <2>6, Zenon DEF Others, Complete, UserEnters, UserLeaves, ToolTakes,
       ToolRuns, ToolReleases, BudgetSpent, gateway, vars
  <2>7. QED
    BY <2>2, <2>3, <2>4, <2>5, <2>6, Zenon DEF Next, Access
<1>4. QED
  BY <1>2, <1>3, Zenon DEF GatewayTypeOK

------------------------------------------------------------------------------
(* The mailbox, and what is read of it.                                    *)

\* The accesses before the mailbox is written.
Before == {"dword", "room", "ready", "token", "mine", "ctrl", "op", "mail"}

\* A failed access ends the step, frees what was taken, or stops the command.
LEMMA FailingLeads ==
    ASSUME PlaceTypeOK, Turned, Running, AccessFails
    PROVE  \/ cmd' = "over"
           \/ step' = "room"
           \/ step' = "free" /\ err' = TRUE
<1>1. CASE step = "free" /\ Ended
  <2>1. cmd \in Commands
    BY <1>1 DEF Turned
  <2>2. Finished \/ Begun
    BY <1>1, <2>1, Failing, Doing, Zenon DEF Ended
  <2>3. QED
    BY <2>2, Zenon DEF Finished, Begun
<1>2. CASE CommandFails
  BY <1>2, Failing, Zenon DEF Finished, Begun
<1>3. QED
  BY <1>1, <1>2, Failed, Zenon

\* How a step that leaves the mailbox alone moves the command on.
LEMMA MailShape ==
    ASSUME PlaceTypeOK, Turned, [Next]_vars
    PROVE  \/ Mail \/ ToolRuns \/ Complete \/ Fetch
           \/ /\ UNCHANGED <<nv, mail>>
              /\ \/ UNCHANGED <<cmd, port, step, err, reply, go, status>>
                 \/ UNCHANGED <<cmd, port>> /\ step = "busy" /\ step' = "go"
                 \/ UNCHANGED <<cmd, port>> /\ step = "go" /\ step' = "poll" /\ go' = TRUE
                 \/ UNCHANGED <<cmd, port, go>> /\ step = "poll" /\ step' = "poll" /\ go
                 \/ /\ UNCHANGED <<cmd, port>> /\ step = "poll" /\ step' = "fetch"
                    /\ ~go /\ status # "bad"
                 \/ cmd' = "over"
                 \/ step' = "free" /\ err' = TRUE
                 \/ step' \in Before
<1>1. {"dword", "room", "ready", "token", "mine", "ctrl", "op", "mail"} \subseteq Before
  BY DEF Before
<1>2. CASE Locking
  <2>1. /\ UNCHANGED <<nv, mail, go, status>>
        /\ UNCHANGED <<cmd, port, step, err, reply>> \/ (Running /\ AccessFails)
    BY <1>2, Zenon DEF Locking, TryTake, TryFails, Look, Retake, OutOfTime, Card,
       gateway, place, known
  <2>2. QED
    BY <1>1, <2>1, FailingLeads, Zenon
<1>3. CASE Mute
  BY <1>1, <1>3, FailingLeads, Zenon DEF Mute
<1>4. CASE Identify
  <2>1. /\ UNCHANGED <<nv, mail>> /\ Running /\ step = "dword"
        /\ (step' = step) \/ step' = "room" \/ CommandFails
    BY <1>4, Zenon DEF Identify, In, gateway, Begin
  <2>2. QED
    BY <1>1, <2>1, Failing, Zenon DEF Finished, Begun
<1>5. CASE Room \/ Mine
  <2>1. /\ UNCHANGED <<nv, mail>> /\ Running
        /\ step' \in {"ready", "token", "ctrl"} \/ CommandFails
    BY <1>5, Zenon DEF Room, Mine, In, To, gateway
  <2>2. QED
    BY <1>1, <2>1, Failing, Zenon DEF Finished, Begun
<1>6. CASE Token \/ Opcode
  BY <1>1, <1>6, Zenon DEF Token, Opcode, In, To, gateway
<1>7. CASE Busy \/ Go \/ Poll \/ GiveUpPolling
  BY <1>7, Zenon DEF Busy, Go, Poll, GiveUpPolling, In, To, Stop, gateway
<1>8. CASE Release
  <2>1. /\ UNCHANGED <<nv, mail>> /\ step = "free" /\ Running /\ Ended
    BY <1>8, Zenon DEF Release, In
  <2>2. cmd \in Commands
    BY <2>1 DEF Turned
  <2>3. Finished \/ Begun
    BY <2>1, <2>2, Failing, Doing, Zenon DEF Ended
  <2>4. QED
    BY <1>1, <2>1, <2>3, Zenon DEF Finished, Begun
<1>9. CASE UserEnters \/ UserLeaves \/ ToolTakes \/ ToolReleases \/ BudgetSpent
           \/ UNCHANGED vars
  BY <1>9, Zenon DEF UserEnters, UserLeaves, ToolTakes, ToolReleases, BudgetSpent,
     Boots, vars, gateway, place, known
<1>10. QED
  BY <1>2, <1>3, <1>4, <1>5, <1>6, <1>7, <1>8, <1>9, Zenon DEF Next, Access, Others

\* A set command in the mailbox keeps the fields it was read with.
LEMMA SetRightStep ==
    ASSUME NvTypeOK, GatewayTypeOK, PlaceTypeOK, SetRight, GotRight, [Next]_vars
    PROVE  SetRight'
<1>1. /\ DOMAIN nv' = DOMAIN nv /\ want' = want
      /\ \A p \in DOMAIN nv : nv'[p].next.rest = nv[p].next.rest
  BY NvKept
<1>2. CASE mail'.cmd = mail.cmd /\ mail'.port = mail.port
           /\ (mail.cmd = "set" => mail' = mail)
  BY <1>1, <1>2, Zenon DEF SetRight
<1>3. CASE Mail
  <2>1. /\ mail' = Message("boot", cmd, port, IF cmd = "set" THEN NewTlv ELSE Absent)
        /\ nv' = nv
    BY <1>3, Zenon DEF Mail
  <2>2. mail'.cmd = cmd /\ mail'.port = port /\ (cmd = "set" => mail'.tlv = NewTlv)
    BY <2>1 DEF Message
  <2>3. cmd = "set" => /\ want = "rs" /\ NewTlv.fec = want
                       /\ NewTlv.rest = nv[port].next.rest
    BY DEF GotRight, NewTlv, PlaceTypeOK, Gots, Tlvs
  <2>4. QED
    BY <1>1, <2>1, <2>2, <2>3, Zenon DEF SetRight
<1>4. CASE ToolRuns
  <2>1. PICK p \in Ports : mail' = Message("tool", "now", p, Absent)
    BY <1>4 DEF ToolRuns
  <2>2. mail'.cmd # "set"
    BY <2>1 DEF Message
  <2>3. QED
    BY <2>2, Zenon DEF SetRight
<1>5. CASE /\ mail.cmd # "set"
           /\ LET there == mail.port \in DOMAIN nv
              IN  mail' = [mail EXCEPT
                    !.there = there,
                    !.tlv = IF ~there THEN Absent
                            ELSE IF mail.cmd = "now" THEN nv[mail.port].now
                            ELSE nv[mail.port].next,
                    !.cap = there /\ nv[mail.port].cap]
  <2>1. mail'.cmd = mail.cmd /\ mail'.port = mail.port
    BY <1>5 DEF GatewayTypeOK, Mails
  <2>2. QED
    BY <1>2, <1>5, <2>1, Zenon
<1>6. QED
  BY <1>2, <1>3, <1>4, <1>5, MailStep, Zenon

\* The mailbox keeps holding the command the boot is at, answered once go falls.
LEMMA MailRightStep ==
    ASSUME NvTypeOK, GatewayTypeOK, PlaceTypeOK, Turned, GotRight, MailRight, [Next]_vars
    PROVE  MailRight'
<1> DEFINE InHand == Running /\ step \in {"busy", "go", "poll", "fetch"}
                      => mail.cmd = cmd /\ mail.port = port
           Ready == step = "fetch" \/ (step = "poll" /\ ~go /\ status # "bad")
           Waiting == Running /\ cmd # "set" /\ Ready => Answered(mail)
           Held == Running /\ cmd # "set" /\ step = "free" /\ ~err
                    => reply.cmd = cmd /\ reply.port = port /\ Answered(reply)
<1>1. SetRight'
  BY SetRightStep DEF MailRight
<1>2. InHand /\ Waiting /\ Held
  BY Zenon DEF MailRight
<1>3. /\ {"busy", "go", "poll", "fetch", "free"} \subseteq Late
      /\ {"busy", "go", "poll", "fetch", "free"} \cap Before = {}
  BY DEF Late, Before
<1>4. SUFFICES InHand' /\ Waiting' /\ Held'
  BY <1>1, Zenon DEF MailRight
<1>5. CASE Mail
  <2>1. mail'.cmd = cmd /\ mail'.port = port
    BY <1>5 DEF Mail, Message
  <2>2. step' = "busy" /\ UNCHANGED <<cmd, port>>
    BY <1>5, Zenon DEF Mail, To
  <2>3. QED
    BY <2>1, <2>2, Zenon
<1>6. CASE ToolRuns
  <2>1. icmd = "tool" /\ UNCHANGED <<cmd, step>>
    BY <1>6, Zenon DEF ToolRuns, Boots, place
  <2>2. ~(Running /\ step \in Late)
    BY <2>1, Zenon DEF Turned
  <2>3. Running' = Running
    BY <2>1, Zenon DEF Running
  <2>4. QED
    BY <1>3, <2>1, <2>2, <2>3, Zenon
<1>7. CASE Complete
  <2>1. go /\ UNCHANGED <<cmd, port, step, err, reply>>
    BY <1>7, Zenon DEF Complete, Boots, place, known
  <2>2. /\ Running' = Running
        /\ ~(Running /\ step = "fetch") /\ ~(Running /\ step = "free" /\ ~err)
    BY <2>1, Zenon DEF Turned, Running
  <2>3. CASE UNCHANGED mail /\ (mail.cmd = "set" \/ status' = "bad")
    BY <1>2, <2>1, <2>2, <2>3, Zenon
  <2>4. CASE /\ UNCHANGED nv
             /\ LET there == mail.port \in DOMAIN nv
                IN  mail' = [mail EXCEPT
                      !.there = there,
                      !.tlv = IF ~there THEN Absent
                              ELSE IF mail.cmd = "now" THEN nv[mail.port].now
                              ELSE nv[mail.port].next,
                      !.cap = there /\ nv[mail.port].cap]
    <3>1. /\ mail'.cmd = mail.cmd /\ mail'.port = mail.port
          /\ mail'.there = (mail.port \in DOMAIN nv)
          /\ mail.port \in DOMAIN nv =>
                /\ mail'.cap = nv[mail.port].cap
                /\ mail'.tlv = IF mail.cmd = "now" THEN nv[mail.port].now
                               ELSE nv[mail.port].next
      BY <2>4 DEF GatewayTypeOK, Mails, NvTypeOK, PortNv
    <3>2. Answered(mail)'
      BY <2>4, <3>1, Zenon DEF Answered
    <3>3. QED
      BY <1>2, <2>1, <2>2, <3>1, <3>2, Zenon
  <2>5. QED
    BY <1>7, <2>3, <2>4, Zenon DEF Complete
<1>8. CASE Fetch
  <2>1. /\ Running /\ step = "fetch" /\ step' = "free" /\ reply' = mail
        /\ UNCHANGED <<cmd, port, nv>>
    BY <1>8, Zenon DEF Fetch, In
  <2>2. Running' = Running
    BY <2>1, Zenon DEF Running
  <2>3. /\ mail.cmd = cmd /\ mail.port = port
        /\ cmd # "set" => Answered(mail)
    BY <1>2, <2>1, Zenon
  <2>4. cmd # "set" => Answered(reply)'
    BY <2>1, <2>3, Zenon DEF Answered
  <2>5. QED
    BY <2>1, <2>2, <2>3, <2>4, Zenon
<1>9. CASE UNCHANGED <<nv, mail>>
  <2>1. Answered(mail) => Answered(mail)'
    BY <1>9, Zenon DEF Answered
  <2>2. CASE UNCHANGED <<cmd, port, step, err, reply, go, status>>
    <3>1. Running' = Running /\ (Answered(reply) => Answered(reply)')
      BY <1>9, <2>2, Zenon DEF Running, Answered
    <3>2. QED
      BY <1>2, <1>9, <2>1, <2>2, <3>1, Zenon
  <2>3. CASE UNCHANGED <<cmd, port>> /\ step = "busy" /\ step' = "go"
    BY <1>2, <1>9, <2>3, Zenon DEF Running
  <2>4. CASE UNCHANGED <<cmd, port>> /\ step = "go" /\ step' = "poll" /\ go' = TRUE
    BY <1>2, <1>9, <2>4, Zenon DEF Running
  <2>5. CASE UNCHANGED <<cmd, port, go>> /\ step = "poll" /\ step' = "poll" /\ go
    BY <1>2, <1>9, <2>5, Zenon DEF Running
  <2>6. CASE /\ UNCHANGED <<cmd, port>> /\ step = "poll" /\ step' = "fetch"
             /\ ~go /\ status # "bad"
    BY <1>2, <1>9, <2>1, <2>6, Zenon DEF Running
  <2>7. CASE cmd' = "over"
    BY <2>7, Zenon DEF Running
  <2>8. CASE step' = "free" /\ err' = TRUE
    BY <2>8, Zenon
  <2>9. CASE step' \in Before
    BY <1>3, <2>9, Zenon
  <2>10. QED
    BY <1>5, <1>6, <1>7, <1>8, <2>2, <2>3, <2>4, <2>5, <2>6, <2>7, <2>8, <2>9, MailShape, Zenon
<1>10. QED
  BY <1>5, <1>6, <1>7, <1>8, <1>9, MailShape, Zenon

------------------------------------------------------------------------------
(* What card_fec knows, and what it reports.                               *)

\* The summary is as true after the step as it was before.
LEMMA SumStays ==
    ASSUME NvTypeOK, GatewayTypeOK, PlaceTypeOK, SetRight, SumRight, [Next]_vars,
           sum'.ports = sum.ports, sum'.written = sum.written
    PROVE  SumRight'
<1>1. /\ DOMAIN nv' = DOMAIN nv /\ want' = want
      /\ \A p \in DOMAIN nv : /\ nv'[p].now = nv[p].now
                              /\ \/ nv'[p].next.fec = nv[p].next.fec
                                 \/ nv'[p].next.fec = want
      /\ want = "none" => nv' = nv
  BY NvKept, Zenon
<1>2. ASSUME NEW r \in sum.ports
      PROVE  /\ r.port \in DOMAIN nv' /\ r.now = nv'[r.port].now.fec
             /\ want' = "none" => r.next = nv'[r.port].next.fec
  BY <1>1, <1>2, Zenon DEF SumRight
<1>3. ASSUME NEW p \in sum.written
      PROVE  p \in DOMAIN nv' /\ nv'[p].next.fec = want'
  BY <1>1, <1>3, Zenon DEF SumRight, WrittenHolds
<1>4. QED
  BY <1>2, <1>3, Zenon DEF SumRight, WrittenHolds

\* What is known is, while the command in hand stays the same.
LEMMA GotStays ==
    ASSUME NvTypeOK, GatewayTypeOK, PlaceTypeOK, SetRight, GotRight, [Next]_vars,
           UNCHANGED <<cmd, port, got>>
    PROVE  GotRight'
<1>1. /\ DOMAIN nv' = DOMAIN nv /\ want' = want
      /\ \A p \in DOMAIN nv : nv'[p].next.rest = nv[p].next.rest
      /\ want = "none" => nv' = nv
  BY NvKept, Zenon
<1>2. cmd = "set" => port \in DOMAIN nv
  BY DEF GotRight
<1>3. QED
  BY <1>1, <1>2, Zenon DEF GotRight

\* A command that is done, with its answer.
LEMMA DoneRight ==
    ASSUME PlaceTypeOK, NvTypeOK, GotRight, SumRight, cmd \in Commands,
           cmd # "set" => reply.cmd = cmd /\ reply.port = port /\ Answered(reply),
           CommandDone, UNCHANGED <<nv, want>>
    PROVE  GotRight' /\ SumRight'
<1>1. /\ got \in Gots /\ sum \in Sums /\ port \in Ports /\ want \in {"none", "rs"}
      /\ reply \in Mails
  BY DEF PlaceTypeOK, NvTypeOK
<1>2. ASSUME sum'.ports = sum.ports, sum'.written = sum.written
      PROVE  SumRight'
  BY <1>2, Zenon DEF SumRight, WrittenHolds
<1>3. Failure.ports = sum.ports /\ Failure.written = sum.written
  BY <1>1 DEF Failure, Sums
<1>4. ASSUME cmd' \in {"over", "cap", "warm"}
      PROVE  GotRight'
  BY <1>4, Zenon DEF GotRight
<1>5. ASSUME NEW s, NextPort(s) \/ AfterPorts(s)
      PROVE  GotRight' /\ sum' = s
  BY <1>4, <1>5, GoingOn, Zenon DEF Finished
<1>6. CASE cmd = "cap"
  <2>1. CASE ~reply.there
    <3>1. AfterPorts(sum)
      BY <1>6, <2>1, Zenon DEF CommandDone
    <3>2. QED
      BY <1>2, <1>5, <3>1, Zenon
  <2>2. CASE reply.there
    <3>1. cmd' = "next" /\ port' = port /\ sum' = sum
      BY <1>6, <2>2, Zenon DEF CommandDone, Begin
    <3>2. port \in DOMAIN nv
      BY <1>6, <2>2 DEF Answered
    <3>3. QED
      BY <1>2, <3>1, <3>2, Zenon DEF GotRight
  <2>3. QED
    BY <2>1, <2>2
<1>7. CASE cmd = "next"
  <2>1. /\ cmd' = "now" /\ port' = port /\ sum' = sum
        /\ got' = [got EXCEPT !.next = reply.tlv]
    BY <1>7, Zenon DEF CommandDone, Begin
  <2>2. port \in DOMAIN nv
    BY <1>7 DEF GotRight
  <2>3. reply.tlv = nv[port].next
    BY <1>7, <2>2 DEF Answered
  <2>4. got'.next = nv[port].next
    BY <1>1, <2>1, <2>3 DEF Gots
  <2>5. QED
    BY <1>2, <2>1, <2>2, <2>4, Zenon DEF GotRight
<1>8. CASE cmd = "now"
  <2> DEFINE s == [sum EXCEPT !.ports = @ \cup {[port |-> port, next |-> got.next.fec,
                                                 now |-> reply.tlv.fec]}]
  <2>1. /\ sum' = s
        /\ GotRight' \/ (cmd' = "get" /\ port' = port /\ want # "none")
    BY <1>5, <1>8, Zenon DEF CommandDone, PortRead, Begin
  <2>2. port \in DOMAIN nv /\ (want = "none" => got.next = nv[port].next)
    BY <1>8 DEF GotRight
  <2>3. reply.tlv = nv[port].now
    BY <1>8, <2>2 DEF Answered
  <2>4. GotRight'
    BY <1>1, <2>1, <2>2 DEF GotRight
  <2>5. /\ s.written = sum.written
        /\ s.ports = sum.ports \cup {[port |-> port, next |-> got.next.fec,
                                      now |-> reply.tlv.fec]}
    BY <1>1 DEF Sums
  <2>6. ASSUME NEW r \in s.ports
        PROVE  /\ r.port \in DOMAIN nv /\ r.now = nv[r.port].now.fec
               /\ want = "none" => r.next = nv[r.port].next.fec
    <3>1. CASE r \in sum.ports
      BY <3>1, Zenon DEF SumRight
    <3>2. CASE r = [port |-> port, next |-> got.next.fec, now |-> reply.tlv.fec]
      <4>1. r.port = port /\ r.next = got.next.fec /\ r.now = reply.tlv.fec
        BY <3>2
      <4>2. QED
        BY <2>2, <2>3, <4>1, Zenon
    <3>3. QED
      BY <2>5, <2>6, <3>1, <3>2
  <2>7. \A p \in s.written : p \in DOMAIN nv /\ nv[p].next.fec = want
    BY <2>5, Zenon DEF SumRight, WrittenHolds
  <2> HIDE DEF s
  <2>8. SumRight'
    BY <2>1, <2>6, <2>7, Zenon DEF SumRight, WrittenHolds
  <2>9. QED
    BY <2>4, <2>8
<1>9. CASE cmd = "get"
  <2>1. /\ cmd' = "set" /\ port' = port /\ sum' = sum
        /\ got' = [got EXCEPT !.next = reply.tlv]
    BY <1>9, Zenon DEF CommandDone, Begin
  <2>2. port \in DOMAIN nv /\ want = "rs"
    BY <1>9 DEF GotRight
  <2>3. reply.tlv = nv[port].next
    BY <1>9, <2>2 DEF Answered
  <2>4. got'.next = nv[port].next
    BY <1>1, <2>1, <2>3 DEF Gots
  <2>5. QED
    BY <1>2, <2>1, <2>2, <2>4, Zenon DEF GotRight
<1>10. CASE cmd = "set"
  <2>1. cmd' = "back" /\ port' = port /\ sum' = sum
    BY <1>10, Zenon DEF CommandDone, Begin
  <2>2. port \in DOMAIN nv /\ want = "rs"
    BY <1>10 DEF GotRight
  <2>3. QED
    BY <1>2, <2>1, <2>2, Zenon DEF GotRight
<1>11. CASE cmd = "back"
  <2>1. NextPort(IF reply.tlv.fec = want THEN [sum EXCEPT !.written = @ \cup {port}]
                 ELSE Failure)
    BY <1>11, Zenon DEF CommandDone
  <2>2. /\ GotRight'
        /\ sum' = IF reply.tlv.fec = want THEN [sum EXCEPT !.written = @ \cup {port}]
                  ELSE Failure
    BY <1>5, <2>1
  <2>3. CASE reply.tlv.fec = want
    <3>1. sum'.ports = sum.ports /\ sum'.written = sum.written \cup {port}
      BY <1>1, <2>2, <2>3 DEF Sums
    <3>2. port \in DOMAIN nv
      BY <1>11 DEF GotRight
    <3>3. nv[port].next.fec = want
      BY <1>11, <2>3, <3>2 DEF Answered
    <3>4. \A p \in sum'.written : p \in DOMAIN nv /\ nv[p].next.fec = want
      BY <3>1, <3>2, <3>3 DEF SumRight, WrittenHolds
    <3>5. QED
      BY <2>2, <3>1, <3>4, Zenon DEF SumRight, WrittenHolds
  <2>4. CASE reply.tlv.fec # want
    BY <1>2, <1>3, <2>2, <2>4, Zenon
  <2>5. QED
    BY <2>3, <2>4
<1>12. CASE cmd = "warm"
  BY <1>2, <1>4, <1>12, Zenon DEF CommandDone, Over
<1>13. QED
  BY <1>6, <1>7, <1>8, <1>9, <1>10, <1>11, <1>12 DEF Commands

\* What was read of a port, and what is said of it, stays what its NV held.
LEMMA KnownStep ==
    ASSUME NvTypeOK, GatewayTypeOK, PlaceTypeOK, Turned, MailRight, GotRight, SumRight,
           [Next]_vars
    PROVE  GotRight' /\ SumRight'
<1>1. SetRight /\ sum \in Sums
  BY DEF MailRight, PlaceTypeOK
<1>2. Failure.ports = sum.ports /\ Failure.written = sum.written
  BY <1>1 DEF Failure, Sums
<1>3. ASSUME sum' \in {sum, Failure}
      PROVE  SumRight'
  BY <1>1, <1>2, <1>3, SumStays, Zenon
<1>4. CASE UNCHANGED <<cmd, port, got, sum>>
  BY <1>1, <1>3, <1>4, GotStays, Zenon
<1>5. CASE Running /\ CommandFails
  <2>1. /\ cmd' \in {"over", "cap", "warm"}
        /\ sum' \in {sum, Failure}
    BY <1>5, Failing, Zenon DEF Finished
  <2>2. GotRight'
    BY <2>1, Zenon DEF GotRight
  <2>3. QED
    BY <1>3, <2>1, <2>2
<1>6. CASE Running /\ step = "free" /\ Ended
  <2>1. CASE UNCHANGED <<place, known>>
    BY <1>4, <2>1, Zenon DEF place, known
  <2>2. CASE UNCHANGED nv
    <3>1. CASE CommandFails
      BY <1>5, <1>6, <3>1
    <3>2. CASE ~err /\ CommandDone
      <4>1. cmd \in Commands
        BY <1>6 DEF Turned
      <4>2. cmd # "set" => reply.cmd = cmd /\ reply.port = port /\ Answered(reply)
        BY <1>6, <3>2, Zenon DEF MailRight
      <4>3. want' = want
        BY NvStep
      <4>4. QED
        BY <2>2, <3>2, <4>1, <4>2, <4>3, DoneRight
    <3>3. QED
      BY <1>6, <3>1, <3>2, Zenon DEF Ended
  <2>3. UNCHANGED <<place, known>> \/ UNCHANGED nv
    BY NvStep, Zenon DEF Complete, Boots
  <2>4. QED
    BY <2>1, <2>2, <2>3
<1>7. CASE Identify
  <2>1. /\ Running
        /\ \/ cmd' = "id" /\ UNCHANGED <<port, step, takes, err, known>>
           \/ Begin("cap", 1) /\ UNCHANGED <<got, sum>>
           \/ CommandFails
    BY <1>7, Zenon DEF Identify, In
  <2>2. CASE cmd' \in {"id", "cap"} /\ sum' = sum
    <3>1. GotRight'
      BY <2>2, Zenon DEF GotRight
    <3>2. QED
      BY <1>3, <2>2, <3>1
  <2>3. QED
    BY <1>5, <2>1, <2>2, Zenon DEF Begin, known
<1>8. QED
  <2>1. \/ UNCHANGED <<cmd, port, got, sum>>
        \/ Running /\ CommandFails
        \/ Running /\ step = "free" /\ Ended
        \/ Identify
    BY WhereItGoes, Zenon DEF place, known, Fetch, Poll
  <2>2. QED
    BY <1>4, <1>5, <1>6, <1>7, <2>1

------------------------------------------------------------------------------
(* The theorems.                                                           *)

\* The inductive invariant holds before the first card is opened.
LEMMA OrderlyInit == Init => Orderly
<1> SUFFICES ASSUME Init
             PROVE  Orderly
  OBVIOUS
<1>1. PICK c \in Cases : want = c[1] /\ nv = c[2] /\ faults = c[3]
  BY Zenon DEF Init
<1>2. NvTypeOK
  BY <1>1, ConstantsAssumption, Zenon DEF NvTypeOK
<1>3. WindowTypeOK
  <2>1. /\ {Free, Parked, Dead} \subseteq 0 .. Dead /\ 0 \in 0 .. Turns /\ 0 \in 0 .. Brief
        /\ 0 \in 0 .. Retries - 1
    BY Limits DEF Free, Parked, Dead
  <2>2. QED
    BY <2>1, Zenon DEF Init, WindowTypeOK
<1>4. NoMail \in Mails /\ Nothing \in Gots
  BY Limits DEF NoMail, Nothing, Message, Absent, Mails, Gots, Tlvs, Commands
<1>5. GatewayTypeOK
  <2>1. 0 \in 0 .. Tools
    BY Limits
  <2>2. QED
    BY <1>4, <2>1, Zenon DEF Init, GatewayTypeOK
<1>6. PlaceTypeOK
  <2>1. 0 \in 0 .. Takes - 1 /\ 1 \in Ports /\ "dword" \in Steps
    BY Limits DEF Steps, Early
  <2>2. sum \in Sums
    BY DEF Init, Sums
  <2>3. QED
    BY <1>4, <2>1, <2>2, Zenon DEF Init, PlaceTypeOK
<1>7. Ticketed
  <2>1. Free \notin Live /\ Parked \notin Live /\ Dead \notin Live
        /\ Free # Ours /\ Parked # Ours /\ Dead # Ours
    BY Limits DEF Free, Parked, Dead, Live, Ours
  <2>2. /\ sem \notin Live /\ sem # Ours /\ last \notin Live /\ inside = FALSE
        /\ lock = "try" /\ ~(tries > 0)
    BY <2>1 DEF Init
  <2>3. QED
    BY <2>2, Zenon DEF Ticketed
<1>8. Turned
  BY DEF Init, Turned, Late
<1>9. MailRight
  <2>1. mail.cmd = "cap" /\ step = "dword"
    BY DEF Init, NoMail, Message
  <2>2. QED
    BY <2>1, Zenon DEF MailRight, SetRight
<1>10. GotRight /\ SumRight
  BY DEF Init, GotRight, SumRight, WrittenHolds
<1>11. QED
  BY <1>2, <1>3, <1>5, <1>6, <1>7, <1>8, <1>9, <1>10, Zenon DEF Orderly

\* Every step keeps the inductive invariant.
LEMMA OrderlyStep == Orderly /\ [Next]_vars => Orderly'
<1> SUFFICES ASSUME Orderly, [Next]_vars
             PROVE  Orderly'
  OBVIOUS
<1>1. /\ NvTypeOK /\ WindowTypeOK /\ GatewayTypeOK /\ PlaceTypeOK
      /\ Ticketed /\ Turned /\ MailRight /\ GotRight /\ SumRight /\ SetRight
  BY Zenon DEF Orderly, MailRight
<1>2. NvTypeOK' /\ WindowTypeOK' /\ GatewayTypeOK' /\ PlaceTypeOK'
  BY <1>1, NvTyped, WindowTyped, GatewayTyped, PlaceTyped
<1>3. Ticketed' /\ Turned' /\ MailRight'
  BY <1>1, TicketedStep, TurnedStep, MailRightStep
<1>4. GotRight' /\ SumRight'
  BY <1>1, KnownStep
<1>5. QED
  BY <1>2, <1>3, <1>4, Zenon DEF Orderly

\* The inductive invariant of the FEC step on a card (mlxvsec.rs, mlxfec.rs): who
\* holds the semaphore, the lock and the mailbox at each access, whose command the
\* mailbox carries, and how what was read of a port relates to its NV. It holds for
\* any cards, ports, faults, tools and firmware.
THEOREM AlwaysOrderly == Spec => []Orderly
  BY OrderlyInit, OrderlyStep, PTL DEF Spec

\* What the FEC step tells the boot of the card's ports is so: what it reports of
\* a port is what its NV held, and a port it counts as written holds the value,
\* whichever of its accesses fail, whatever a tool runs meanwhile (mlxfec.rs
\* card_fec, set_port).
THEOREM SumAlwaysTrue == Spec => []SumIsTrue
<1>1. Orderly => SumIsTrue
  <2> SUFFICES ASSUME Orderly
               PROVE  SumIsTrue
    OBVIOUS
  <2>1. TypeOK
    BY Typed, Zenon DEF Orderly
  <2>2. ReportsTrue /\ WrittenHolds
    BY Zenon DEF Orderly, SumRight, ReportsTrue
  <2>3. QED
    BY <2>1, <2>2 DEF SumIsTrue
<1>2. QED
  BY <1>1, AlwaysOrderly, PTL

\* No step changes a field of a TLV the boot does not mean to change.
LEMMA FieldsKeptStep ==
    ASSUME Orderly, [Next]_vars
    PROVE  \A p \in DOMAIN nv : nv[p].next.rest = "kept" => nv'[p].next.rest = "kept"
  BY NvKept, Zenon DEF Orderly, MailRight

\* The mailbox is not written while the firmware works on it, unless go cannot be read.
LEMMA MailboxLeftStep ==
    ASSUME Orderly, [Next]_vars
    PROVE  go /\ go' /\ "running" \notin lost => mail' = mail
<1>1. CASE Mail
  <2>1. Running /\ step = "mail" /\ "mail" \in Late
    BY <1>1 DEF Mail, In, Late
  <2>2. icmd = "boot" /\ (go => "running" \in lost)
    BY <2>1 DEF Orderly, Turned
  <2>3. QED
    BY <2>2
<1>2. CASE ToolRuns \/ Complete
  BY <1>2, Zenon DEF ToolRuns, Complete
<1>3. QED
  BY <1>1, <1>2, MailStep, Zenon

\* The boot waits for the card's other users, gives back the semaphores it took,
\* leaves the fields it was not asked to set, and leaves a running command's
\* mailbox alone (mlxfec.rs vsc_lock_timed, icmd_run; connectx.rs parked).
THEOREM AlwaysGoodGuest == Spec => GoodGuest
<1>1. Orderly => Alone /\ GivenBack
  <2> SUFFICES ASSUME Orderly
               PROVE  Alone /\ GivenBack
    OBVIOUS
  <2>1. Ours \notin Live
    BY Limits DEF Ours, Live
  <2>2. Alone
    BY <2>1, Zenon DEF Orderly, Ticketed, Alone
  <2>3. GivenBack
    BY Zenon DEF Orderly, Ticketed, Turned, GivenBack, Running
  <2>4. QED
    BY <2>2, <2>3
<1>2. Orderly /\ [Next]_vars =>
        [\A p \in DOMAIN nv : nv[p].next.rest = "kept" => nv'[p].next.rest = "kept"]_vars
  BY FieldsKeptStep
<1>3. Orderly /\ [Next]_vars => [go /\ go' /\ "running" \notin lost => mail' = mail]_vars
  BY MailboxLeftStep
<1>4. Spec => [](Alone /\ GivenBack)
  BY <1>1, AlwaysOrderly, PTL
<1>5. Spec => FieldsKept
  BY <1>2, AlwaysOrderly, PTL DEF Spec, FieldsKept
<1>6. Spec => MailboxLeft
  BY <1>3, AlwaysOrderly, PTL DEF Spec, MailboxLeft
<1>7. QED
  BY <1>4, <1>5, <1>6, PTL DEF GoodGuest
==============================================================================
