--------------------------------- MODULE Nics ---------------------------------
(* The TCP/IP stack over the firmware's NICs (net.rs): up opens each SNP,  *)
(* every wait of the mainline polls every NIC, and a poll takes in DHCP's  *)
(* events and serves the API's connections.  connect_within tries the NICs *)
(* with a lease in turn; release gives them back.  Frames are the          *)
(* driver's from Transmit until GetStatus hands them back.                 *)
(*                                                                         *)
(* A NIC has a position in the stack, from 1, and the index of its SNP:    *)
(* they differ once an SNP would not start.  Time passes in ticks, and a   *)
(* loop polls and looks between any two.                                   *)
EXTENDS Integers, FiniteSets, Sequences, Functions

CONSTANTS
    Cases,     \* the SNPs, those on the target's wire, the program, the world
    Wait,      \* ticks up waits for an SNP (5 s)
    TryFor,    \* ticks of one try while another NIC is left (5 s)
    Answer,    \* ticks within which a reachable target answers
    Conns,     \* the API's sockets (2)
    ConnTime,  \* ticks an API connection is served (15 s)
    Secs,      \* ticks of a connect
    Room,      \* frames kept until the driver hands them back (1024)
    MaxFrames, MaxClients, MaxEvents   \* bounds of what happens

\* "lease" DHCP gives; "lost" and takes back; "mtu" and states an MTU; "link" a
\* link goes down or comes up; "late" no SNP at first; "frames" the driver keeps
\* frames and its queue fills; "api" clients; "port" nothing listens there;
\* "full" the variable store fills; "bad" a driver of the medium may not start.
Worlds == {"lease", "lost", "mtu", "link", "late", "frames", "api", "port", "full", "bad"}

\* What becomes of opening an SNP: exclusively, shared with a firmware that
\* keeps it, not started, or not Ethernet; and none, of a function no driver has.
Snps == {"ok", "shared", "fails", "other", "none"}

ASSUME NicsAssumption ==
    /\ {Wait, TryFor, Answer, Conns, ConnTime, Secs, Room, MaxFrames, MaxClients, MaxEvents}
           \subseteq Nat
    /\ Answer < TryFor   \* a target that can answer a try does
    /\ \A c \in Cases :
           /\ c.snps \in Seq(Snps) /\ c.wire \subseteq 1 .. Len(c.snps)
           /\ c.world \subseteq Worlds
           /\ c.prog \in Seq({"config", "drivers", "connect", "drop", "release", "hold", "clock"})

VARIABLES
    snps, wire, world, prog,     \* the case
    visible,  \* the SNPs are there
    held,     \* SNPs held open exclusively
    net,      \* "none", "up", "gone"
    opened,   \* the SNP at each position
    pref,     \* preferred, or 0
    lease, link, mtu, primed,    \* of each position
    tx,       \* its frames
    api       \* the API's sockets, of the NIC at position 1

VARIABLES
    step,     \* operations done
    pc,       \* "idle", "config", "drivers", "up", "look", "pick", "hold", "clock"
    age,      \* ticks of the operation, or of up's wait
    looked,   \* the loop has looked since the last tick
    tried,
    try,      \* the attempt: position, socket state, age; or NoTry
    mine,     \* connections the callers have, by position
    socks,    \* TCP sockets of connections and attempts at each position
    had,      \* ticks a position has had its lease in this operation, -1 once lost
    last,     \* how the last connect ended
    events, clients, answered    \* counted

case  == <<snps, wire, world, prog>>
stack == <<visible, held, net, opened, pref, lease, link, mtu, primed>>
main  == <<step, pc, age, looked, tried, try, mine, socks, had, last>>
counts == <<events, clients>>
nicVars == <<case, stack, tx, api, main, counts, answered>>

Index == 1 .. Len(snps)
Positions == 1 .. Len(opened)
DefaultMtu == 1500   \* Ethernet's
Jumbo == 9000        \* what an SNP here carries, and a NIC uses until it has a lease
NoTry == [p |-> 0, st |-> "none", age |-> 0]
NoFrames == [inflight |-> {}, own |-> {}, leaked |-> {}, sent |-> 0]
NoRequest == [st |-> "listen", id |-> 0, got |-> "none", out |-> 0, closing |-> FALSE,
              since |-> -1]

NicCase(c) == snps = c.snps /\ wire = c.wire /\ world = c.world /\ prog = c.prog

NicInit ==
    /\ visible = ("late" \notin world)
    /\ held = {} /\ net = "none" /\ opened = <<>> /\ pref = 0
    /\ lease = [i \in Index |-> FALSE] /\ link = [i \in Index |-> TRUE]
    /\ mtu = [i \in Index |-> Jumbo] /\ primed = [i \in Index |-> {}]
    /\ tx = [i \in Index |-> NoFrames]
    /\ api = [k \in 1 .. Conns |-> NoRequest]
    /\ step = 0 /\ pc = "idle" /\ age = 0 /\ looked = FALSE
    /\ tried = {} /\ try = NoTry
    /\ mine = [i \in Index |-> 0] /\ socks = [i \in Index |-> 0] /\ had = [i \in Index |-> 0] /\ last = "none"
    /\ events = 0 /\ clients = 0
    /\ answered = [i \in 1 .. MaxClients |-> 0]

------------------------------------------------------------------------------
(* TxQueue.  A frame is the address of its buffer.                         *)

Allocated(q) == q.inflight \cup q.leaked
Fresh(q) == CHOOSE a \in 1 .. MaxFrames + 1 :
                /\ a \notin Allocated(q)
                /\ \A b \in 1 .. a - 1 : b \in Allocated(q)

Excess(q) == IF Cardinality(q.inflight) > Room THEN Cardinality(q.inflight) - Room ELSE 0
Forgotten(q) == {S \in SUBSET q.inflight : Cardinality(S) = Excess(q)}

\* Mutant of Bounded: what is over is freed.
BoundedByFreeing(q) == {[q EXCEPT !.inflight = @ \ over] : over \in Forgotten(q)}

\* What is over the bound is forgotten, never freed: the frames at the front, which
\* may be any, since what comes back leaves its place to the last.
Bounded(q) ==
    {[q EXCEPT !.inflight = @ \ over, !.leaked = @ \cup over] : over \in Forgotten(q)}

\* reclaim: the driver hands back some of its frames, in any order.
Reclaim(q) ==
    UNION {Bounded([q EXCEPT !.own = @ \ back, !.inflight = @ \ back]) :
               back \in SUBSET q.own}

Taken(q) == [q EXCEPT !.own = @ \cup {Fresh(q)}, !.inflight = @ \cup {Fresh(q)},
                      !.sent = @ + 1]

\* send: the driver takes the frame, at once or after a queue that was full,
\* or the frame is dropped.
Sends(q) ==
    IF "frames" \notin world \/ q.sent = MaxFrames THEN {q}
    ELSE LET once == Reclaim(q)
             again == UNION {Reclaim(r) : r \in once}
         IN  {Taken(r) : r \in once \cup again} \cup again

------------------------------------------------------------------------------
(* The mainline's operations.                                              *)

Op == prog[step + 1]
More == step < Len(prog)

\* An operation ends, the connect's in an outcome.
Ended(how) ==
    /\ pc' = "idle" /\ step' = step + 1
    /\ age' = 0 /\ looked' = FALSE
    /\ tried' = {} /\ try' = NoTry
    /\ last' = how
    /\ had' = [i \in Index |-> 0]

Begin(how) ==
    /\ pc' = how /\ age' = 0 /\ looked' = FALSE
    /\ UNCHANGED <<step, tried, try, mine, socks, had, last>>

\* connect_within brings the stack up if nothing has.
StartConnect ==
    /\ pc = "idle" /\ More /\ Op = "connect"
    /\ Begin(IF net = "up" THEN "look" ELSE "up")
    /\ UNCHANGED <<case, stack, tx, api, counts, answered>>

StartHold ==
    /\ pc = "idle" /\ More /\ Op = "hold"
    /\ Begin(IF net = "up" THEN "hold" ELSE "up")
    /\ UNCHANGED <<case, stack, tx, api, counts, answered>>

\* TcpSocket's drop, of one of the connections.
Drop ==
    /\ pc = "idle" /\ More /\ Op = "drop"
    /\ \/ \E p \in Index : /\ mine[p] > 0
                           /\ mine' = [mine EXCEPT ![p] = @ - 1]
                           /\ socks' = [socks EXCEPT ![p] = @ - 1]
       \/ (\A p \in Index : mine[p] = 0) /\ UNCHANGED <<mine, socks>>
    /\ Ended(last)
    /\ UNCHANGED <<case, stack, tx, api, counts, answered>>

\* What up makes of the SNPs: open_nic opens each exclusively, or shared; a NIC's
\* position is its place among those that opened.
Usable == {i \in Index : snps[i] \in {"ok", "shared"}}
Opening == [p \in 1 .. Cardinality(Usable) |->
               CHOOSE i \in Usable : Cardinality({j \in Usable : j < i}) = p - 1]

Open ==
    /\ pc = "up" /\ visible
    /\ held' = held \cup {i \in Index : snps[i] \notin {"shared", "none"}}
    /\ IF Usable = {}
       THEN Ended("no network") /\ UNCHANGED <<net, opened, mine, socks>>
       ELSE /\ net' = "up" /\ opened' = Opening
            /\ Begin(IF Op = "hold" THEN "hold" ELSE "look")
    /\ pref' = 0
    /\ api' = [k \in 1 .. Conns |-> [NoRequest EXCEPT !.st = "closed"]]
    /\ UNCHANGED <<case, visible, lease, link, mtu, primed, tx, counts, answered>>

\* Nothing has bound a NIC: connect every handle, wait, look again.
NoSnp ==
    /\ pc = "up" /\ ~visible /\ age = Wait
    /\ Ended("no network")
    /\ UNCHANGED <<case, stack, tx, api, counts, answered, mine, socks>>

\* release: the exclusive opens of the stack's NICs are closed; frames stay.  What a
\* caller has of a connection is nothing from here on, its drop included.
Release ==
    /\ pc = "idle" /\ More /\ Op = "release"
    /\ net' = IF net = "up" THEN "gone" ELSE net
    /\ held' = IF net = "up" THEN held \ Range(opened) ELSE held
    /\ opened' = <<>> /\ pref' = 0
    /\ lease' = [i \in Index |-> FALSE] /\ primed' = [i \in Index |-> {}]
    /\ mtu' = [i \in Index |-> Jumbo]
    /\ tx' = [i \in Index |-> [tx[i] EXCEPT !.inflight = {}, !.leaked = Allocated(tx[i])]]
    /\ socks' = [i \in Index |-> 0] /\ mine' = [i \in Index |-> 0]
    /\ Ended(last)
    /\ UNCHANGED <<case, visible, link, api, counts, answered>>

------------------------------------------------------------------------------
(* connect_within's loop, after each poll.                                 *)

Leased == {p \in Positions : lease[p]}
Looking == pc = "look" /\ ~looked

\* The one that worked last, link up, the larger MTU, the order found.
Key(p) == (IF pref = p THEN 0 ELSE 8000) + (IF link[p] THEN 0 ELSE 4000)
          + (IF mtu[p] = Jumbo THEN 0 ELSE 2000) + p
First(S) == CHOOSE p \in S : \A q \in S : Key(p) <= Key(q)

Established ==
    /\ Looking /\ try.st = "est"
    /\ pref' = try.p /\ mine' = [mine EXCEPT ![try.p] = @ + 1]
    /\ Ended("connected")
    /\ UNCHANGED <<case, visible, held, net, opened, lease, link, mtu, primed, tx, api,
                   counts, answered, socks>>

\* A reset is an answer.
Refused ==
    /\ Looking /\ try.st = "reset"
    /\ socks' = [socks EXCEPT ![try.p] = @ - 1]
    /\ Ended("refused")
    /\ UNCHANGED <<case, stack, tx, api, counts, answered, mine>>

Others == \E q \in Leased : q # try.p /\ q \notin tried
Spent == age >= Secs

\* Mutant of Abandon: the NIC may be tried again at once.
AbandonUntried ==
    /\ socks' = [socks EXCEPT ![try.p] = @ - 1]
    /\ try' = NoTry
    /\ UNCHANGED tried

\* A try is given up: aborted, polled once, removed.
Abandon ==
    /\ socks' = [socks EXCEPT ![try.p] = @ - 1]
    /\ try' = NoTry
    /\ tried' = tried \cup {try.p}

GiveUp ==
    /\ Looking /\ try.st = "syn"
    /\ Spent \/ (Others /\ try.age >= TryFor)
    /\ Abandon
    /\ pc' = "pick"
    /\ UNCHANGED <<case, stack, tx, api, counts, answered, step, age, looked, mine, had,
                   last>>

\* Still waiting for the attempt's answer.
Patient ==
    /\ Looking /\ try.st = "syn"
    /\ ~Spent /\ ~(Others /\ try.age >= TryFor)
    /\ looked' = TRUE
    /\ UNCHANGED <<case, stack, tx, api, counts, answered, step, pc, age, tried, try, mine,
                   socks, had, last>>

ToPick ==
    /\ Looking /\ try = NoTry
    /\ pc' = "pick"
    /\ UNCHANGED <<case, stack, tx, api, counts, answered, step, age, looked, tried, try,
                   mine, socks, had, last>>

\* The deadline, with no attempt in hand.
Fails ==
    /\ pc = "pick" /\ Spent
    /\ Ended(IF Leased = {} THEN "no address" ELSE "no answer")
    /\ UNCHANGED <<case, stack, tx, api, counts, answered, mine, socks>>

\* Every NIC with a lease has had its turn: go round again.
Left == IF Leased \subseteq tried THEN {} ELSE tried

Try ==
    /\ pc = "pick" /\ ~Spent /\ Leased # {}
    /\ LET p == First(Leased \ Left)
       IN  /\ primed' = [primed EXCEPT ![p] = @ \cup {"target"}]
           /\ \E q \in (IF "target" \in primed[p] THEN {tx[p]} ELSE Sends(tx[p])) :
                  tx' = [tx EXCEPT ![p] = q]
           /\ try' = [p |-> p, st |-> "syn", age |-> 0]
           /\ socks' = [socks EXCEPT ![p] = @ + 1]
    /\ tried' = Left
    /\ pc' = "look" /\ looked' = TRUE
    /\ UNCHANGED <<case, visible, held, net, opened, pref, lease, link, mtu, api, counts,
                   answered, step, age, mine, had, last>>

NoneLeased ==
    /\ pc = "pick" /\ ~Spent /\ Leased = {}
    /\ pc' = "look" /\ looked' = TRUE
    /\ UNCHANGED <<case, stack, tx, api, counts, answered, step, age, tried, try, mine,
                   socks, had, last>>

------------------------------------------------------------------------------
(* A poll: DHCP's events, the target's answer, frames of smoltcp's own.    *)

Polling == pc \in {"look", "hold", "clock"}
Happens == events < MaxEvents /\ events' = events + 1 /\ UNCHANGED clients

\* What DHCP offered, or Ethernet's, never more than the SNP carries.
LinkMtu(snp, offered) == IF offered = 0 THEN (IF DefaultMtu < snp THEN DefaultMtu ELSE snp)
                         ELSE IF offered < snp THEN offered ELSE snp

\* A lease: its address, its MTU, and the hosts a boot talks to next asked for.
Configured ==
    /\ Polling /\ "lease" \in world /\ Happens
    /\ \E p \in Positions \ Leased, offered \in IF "mtu" \in world THEN {0, Jumbo} ELSE {0} :
           /\ lease' = [lease EXCEPT ![p] = TRUE]
           /\ mtu' = [mtu EXCEPT ![p] = LinkMtu(Jumbo, offered)]
           /\ primed' = [primed EXCEPT ![p] = {"router"}]
           /\ \E q \in Sends(tx[p]) : tx' = [tx EXCEPT ![p] = q]
    /\ UNCHANGED <<case, visible, held, net, opened, pref, link, api, answered, main>>

Deconfigured ==
    /\ Polling /\ "lost" \in world /\ Happens
    /\ \E p \in Leased : lease' = [lease EXCEPT ![p] = FALSE] /\ had' = [had EXCEPT ![p] = -1]
    /\ UNCHANGED <<case, visible, held, net, opened, pref, link, mtu, primed, tx, api, answered,
                   step, pc, age, looked, tried, try, mine, socks, last>>

LinkTurns ==
    /\ Polling /\ "link" \in world /\ Happens
    /\ \E p \in Positions : link' = [link EXCEPT ![p] = ~@]
    /\ UNCHANGED <<case, visible, held, net, opened, pref, lease, mtu, primed, tx, api, answered,
                   main>>

Reachable(p) == opened[p] \in wire /\ lease[p]

\* The target answers a SYN, or resets it.
Answers ==
    /\ pc = "look" /\ try.st = "syn" /\ Reachable(try.p)
    /\ try' = [try EXCEPT !.st = IF "port" \in world THEN "reset" ELSE "est"]
    /\ UNCHANGED <<case, stack, tx, api, counts, answered, step, pc, age, looked, tried, mine,
                   socks, had, last>>

\* smoltcp sends something on a NIC.
Transmits ==
    /\ Polling /\ "frames" \in world
    /\ \E p \in Positions : tx[p].sent < MaxFrames
                            /\ \E q \in Sends(tx[p]) : tx' = [tx EXCEPT ![p] = q]
    /\ UNCHANGED <<case, stack, api, main, counts, answered>>

SnpsAppear ==
    /\ pc = "up" /\ ~visible
    /\ visible' = TRUE
    /\ UNCHANGED <<case, held, net, opened, pref, lease, link, mtu, primed, tx, api, main,
                   counts, answered>>

------------------------------------------------------------------------------
(* serve: the API's connections, on every poll.                            *)

Served == Polling /\ net = "up"
Conn(k, c) == api' = [api EXCEPT ![k] = c]
Seen(c) == IF c.since = -1 THEN 0 ELSE c.since

\* Mutant of Reset: what came stays.
ResetOut(c) == [c EXCEPT !.out = 0, !.closing = FALSE, !.since = -1]

Reset(c) == [c EXCEPT !.got = "none", !.out = 0, !.closing = FALSE, !.since = -1]

Listens(k) ==
    /\ Served /\ api[k].st = "closed"
    /\ Conn(k, [Reset(api[k]) EXCEPT !.st = "listen", !.id = 0])
    /\ UNCHANGED answered

TooLong(c) == Seen(c) > ConnTime

Drops(k) ==
    /\ Served /\ api[k].st \notin {"closed", "listen"}
    /\ TooLong(api[k])
    /\ Conn(k, [Reset(api[k]) EXCEPT !.st = "closed"])
    /\ UNCHANGED answered

\* A request not whole yet, of a client that may send the rest.
MoreToCome(c) == c.got \in {"none", "part"} /\ c.st \in {"syn", "est"}

WaitsForMore(k) ==
    /\ Served /\ api[k].st \in {"syn", "est"} /\ ~TooLong(api[k])
    /\ api[k].out = 0 /\ MoreToCome(api[k]) /\ api[k].since = -1
    /\ Conn(k, [api[k] EXCEPT !.since = 0])
    /\ UNCHANGED answered

\* The answer to a request that is whole, malformed, or ended early; answer
\* acts on a whole one.
AnswersIt(k) ==
    /\ Served /\ api[k].st \in {"est", "half"} /\ ~TooLong(api[k])
    /\ api[k].out = 0 /\ ~MoreToCome(api[k])
    /\ Conn(k, [api[k] EXCEPT !.since = Seen(api[k]), !.out = api[k].id])
    /\ answered' = IF api[k].got = "whole" THEN [answered EXCEPT ![api[k].id] = @ + 1]
                   ELSE answered

\* All of it sent, the connection closes; some of it may wait for the client.
Closes(k) ==
    /\ Served /\ api[k].st \in {"est", "half"} /\ ~TooLong(api[k])
    /\ api[k].out # 0 /\ ~api[k].closing
    /\ Conn(k, [api[k] EXCEPT !.closing = TRUE,
                              !.st = IF @ = "half" THEN "lastack" ELSE "fin"])
    /\ UNCHANGED answered

Serves ==
    /\ \E k \in DOMAIN api : \/ Listens(k) \/ Drops(k) \/ WaitsForMore(k) \/ AnswersIt(k)
                             \/ Closes(k)
    /\ UNCHANGED <<case, stack, tx, main, counts>>

\* The client's side of a socket: smoltcp puts one that was reset before it
\* was established back to listening.
ClientOf(c) ==
    CASE c.st = "listen" /\ clients < MaxClients ->
            {[c EXCEPT !.st = "syn", !.id = clients + 1]}
      [] c.st = "syn" -> {[c EXCEPT !.st = "est"], [c EXCEPT !.st = "listen", !.id = 0]}
      [] c.st = "est" -> {[c EXCEPT !.got = g] : g \in IF c.got = "none" THEN {"part", "whole"}
                                                      ELSE IF c.got = "part" THEN {"whole", "bad"}
                                                      ELSE {}}
                         \cup {[c EXCEPT !.st = "half"], [c EXCEPT !.st = "closed"]}
      [] c.st = "fin" -> {[c EXCEPT !.st = "timewait"], [c EXCEPT !.st = "closed"]}
      [] c.st \in {"half", "lastack", "timewait"} -> {[c EXCEPT !.st = "closed"]}
      [] OTHER -> {}

ClientActs ==
    /\ Polling /\ "api" \in world
    /\ \E k \in DOMAIN api :
           /\ \E c \in ClientOf(api[k]) : Conn(k, c)
           /\ clients' = IF api[k].st = "listen" THEN clients + 1 ELSE clients
    /\ UNCHANGED <<case, stack, tx, main, events, answered>>

------------------------------------------------------------------------------
(* Time.                                                                   *)

Least(a, b) == IF a < b THEN a ELSE b
Older(n, bound) == IF n < 0 THEN n ELSE Least(n + 1, bound)

\* What must have been polled before time passes.
Urgent ==
    \/ pc = "look" /\ ~looked
    \/ pc = "look" /\ try.st = "syn" /\ Reachable(try.p) /\ try.age >= Answer
    \/ \E k \in DOMAIN api : api[k].st = "closed" \/ (api[k].st \notin {"closed", "listen"}
                                                      /\ TooLong(api[k]))

Tick ==
    /\ \/ pc = "up" /\ ~visible /\ age < Wait
       \/ pc \in {"look", "hold"} /\ ~Urgent
    /\ age' = IF pc = "hold" THEN age ELSE age + 1
    /\ looked' = FALSE
    /\ try' = IF try = NoTry THEN try ELSE [try EXCEPT !.age = @ + 1]
    /\ had' = [i \in Index |-> IF pc = "look" /\ lease[i] THEN Older(had[i], Secs) ELSE had[i]]
    /\ api' = [k \in DOMAIN api |-> [api[k] EXCEPT !.since = Older(@, ConnTime + 1)]]
    /\ UNCHANGED <<case, stack, tx, counts, answered, step, pc, tried, mine, socks, last>>

------------------------------------------------------------------------------
Loop == \/ StartConnect \/ StartHold \/ Drop \/ Open \/ NoSnp \/ Release
        \/ Established \/ Refused \/ GiveUp \/ Patient \/ ToPick \/ Fails \/ Try
        \/ NoneLeased
World == \/ Configured \/ Deconfigured \/ LinkTurns \/ Answers \/ Transmits \/ SnpsAppear
         \/ ClientActs

NicNext == Loop \/ Serves \/ World \/ Tick

------------------------------------------------------------------------------
(* Properties.                                                             *)

\* The state's shape.
NicTypeOK ==
    /\ pc \in {"idle", "config", "drivers", "up", "look", "pick", "hold", "clock"}
    /\ step \in 0 .. Len(prog) /\ age \in Nat
    /\ pref \in {0} \cup Positions
    /\ try.p \in {0} \cup Positions /\ try.st \in {"none", "syn", "est", "reset"}
    /\ tried \subseteq Positions
    /\ \A i \in Index : lease[i] \in BOOLEAN /\ mtu[i] \in {DefaultMtu, Jumbo}
    /\ held \subseteq Index
    /\ \A k \in DOMAIN api : api[k].out \in {0, api[k].id}

\* A frame the driver may still read is allocated: full queues, buffers handed
\* back late or never and more of them than the stack keeps free none of it.
FramesHeld == \A i \in Index : tx[i].own \subseteq Allocated(tx[i])

\* A connect that fails has been tried on every NIC that could reach the
\* target and had its lease, its first, for the others' turns and its own.
EachHadItsTurn ==
    pc = "pick" /\ Spent
        => \A p \in Positions :
               opened[p] \in wire /\ "port" \notin world
                   => had[p] < TryFor * (Len(opened) - 1) + Answer + 2

\* An attempt that is given up, refused or out of time leaves no socket behind: each
\* is a connection's, or the attempt's in hand.
NoSocketLeft ==
    \A i \in Index : socks[i] = mine[i] + (IF try.p = i THEN 1 ELSE 0)

\* A request is acted on once, and its answer goes to the client that made it.
AnsweredOnce ==
    /\ \A i \in 1 .. MaxClients : answered[i] <= 1
    /\ \A k \in DOMAIN api : api[k].st = "syn" => api[k].got = "none" /\ api[k].out = 0

\* A socket of the API listens again, whatever its client does.
ListensAgain == \A k \in 1 .. Conns :
    (pc = "hold" /\ api[k].st # "listen") ~> api[k].st = "listen"
==============================================================================
