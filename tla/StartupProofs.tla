----------------------------- MODULE StartupProofs -----------------------------
(***************************************************************************)
(* Theorems about Startup and the stack it extends, for any machine,       *)
(* medium, size of chunk and number of clients, over the whole             *)
(* specification: what the network stack and the clock do leaves the       *)
(* drivers and the hand-off alone; the API's sockets are served so that    *)
(* each client has the answer to its own request; the check of the clock   *)
(* believes a time as good as its round trip; no frame and no socket is    *)
(* lost, and each NIC has its turn in a connect.                           *)
(***************************************************************************)
EXTENDS Startup, SequenceTheorems, FiniteSetTheorems, FunctionTheorems,
        WellFoundedInduction, TLAPS

\* The case is a machine of NicsAssumption and StartupAssumption.
CaseOK == snps \in Seq(Snps) /\ files \in Seq(Nat)

\* What the stack and the clock do.
LEMMA StackApart ==
    ASSUME Next
    PROVE  /\ pc \notin {"config", "drivers"} /\ pc' \notin {"config", "drivers"}
           /\ snps' = snps
<1> USE DEF case, stack, main, counts, Ended, Begin
<1>1. CASE Loop
  BY <1>1 DEF Loop, StartConnect, StartHold, Drop, Open, NoSnp, Release, Established,
     Looking, Refused, GiveUp, Abandon, Patient, ToPick, Fails, Try, NoneLeased
<1>2. CASE Serves
  BY <1>2 DEF Serves, Listens, Drops, WaitsForMore, AnswersIt, Closes, Served, Polling
<1>3. CASE World
  BY <1>3 DEF World, Configured, Deconfigured, LinkTurns, Answers, Transmits, SnpsAppear,
     ClientActs, Polling
<1>4. CASE Tick
  BY <1>4 DEF Tick
<1>5. CASE Sync
  BY <1>5 DEF Sync, StartClock, NotChecked, Chosen, Request, NoNic, Unreachable, NoAnswer,
     Choosing, Asking, Leave, Moved
<1>6. CASE ServerAnswers \/ Arrives \/ Believed \/ ClockTick
  BY <1>6 DEF ServerAnswers, Arrives, Believed, ClockTick, Asking, Leave, Moved
<1> QED
  BY <1>1, <1>2, <1>3, <1>4, <1>5, <1>6 DEF Next, NicNext

\* A step keeps the case it was given.
LEMMA CaseStep ==
    ASSUME CaseOK, [StartNext]_allVars
    PROVE  CaseOK' /\ Index' = Index
<1> SUFFICES CaseOK' /\ Len(snps') = Len(snps)
  BY DEF Index
<1> USE DEF startVars, startCase, config, binding, vars, nicVars, case, CaseOK
<1>1. CASE Next /\ UNCHANGED startVars
  BY <1>1, StackApart
<1>2. CASE Handing
  BY <1>2 DEF Handing, Hand, SetChunk, ChunkRefused, SetHeader
<1>3. CASE Loaded
  <2>1. snps' = [i \in 1 .. Len(snps) |-> IF Bound(i) THEN snps[i] ELSE "none"]
    BY <1>3 DEF Loaded, Index
  <2>2. Len(snps) \in Nat /\ \A i \in 1 .. Len(snps) : snps[i] \in Snps
    BY LenProperties, ElementOfSeq
  <2>3. snps' \in [1 .. Len(snps) -> Snps]
    BY <2>1, <2>2 DEF Snps
  <2>4. snps' \in Seq(Snps) /\ Len(snps') = Len(snps)
    BY <2>2, <2>3
  <2> QED
    BY <1>3, <2>4 DEF Loaded, Loading
<1>4. CASE ListDrivers \/ PlatformFirst \/ LoadOne \/ BindThem
  BY <1>4 DEF ListDrivers, PlatformFirst, LoadOne, BindThem, Loading, StillLoading
<1>5. CASE \E i \in Index : NotHeld(i) \/ Disconnect(i) \/ WillNotLetGo(i) \/ GiveIt(i)
  BY <1>5 DEF NotHeld, Disconnect, WillNotLetGo, GiveIt, Loading, StillLoading, TakeFrame
<1>6. CASE UNCHANGED allVars
  BY <1>6 DEF allVars
<1> QED
  BY <1>1, <1>2, <1>3, <1>4, <1>5, <1>6 DEF StartNext, Drivers

------------------------------------------------------------------------------
(* The drivers.                                                            *)

\* The families the media names whose driver was started.
Wanted == Range(prefer) \cap started

(***************************************************************************)
(* A NIC of the firmware's is held by it unless the media named its family *)
(* and the driver was started; one that nothing holds, and whose driver    *)
(* would take it back, is the one being taken from it.                     *)
(***************************************************************************)
Kept ==
    \A i \in Index : machine[i].fw =>
        /\ machine[i].fam \notin Wanted => holder[i] = "fw"
        /\ machine[i].back /\ ~Bound(i)
               => i \in todo /\ passes > 0 /\ \A j \in todo : i <= j

Untaken == started = {} /\ \A i \in Index : ~Bound(i)

DriversOK ==
    /\ stage \in {"none", "platform", "load", "take", "done"}
    /\ stage \in {"platform", "load", "take"} => pc = "drivers"
    /\ holder \in [Index -> {"none", "fw", "ours"}] /\ passes \in Nat
    /\ todo \subseteq {i \in Index : machine[i].fam \in Wanted}
    /\ stage # "take" => todo = {}
    /\ stage = "none" => Untaken
    /\ stage = "platform" => Untaken \/ Kept
    /\ stage \in {"load", "take", "done"} => Kept

\* Taking one NIC, and no other.
LEMMA TakenInTurn ==
    ASSUME CaseOK, DriversOK, NEW i \in Index, CaseOK', Index' = Index,
           NotHeld(i) \/ Disconnect(i) \/ WillNotLetGo(i) \/ GiveIt(i)
    PROVE  DriversOK'
<1> USE DEF startCase, StillLoading, TakeFrame, Loading, Taking, Over, main
<1>1. /\ UNCHANGED <<stage, started, prefer, machine, pc>>
      /\ stage = "take" /\ i \in todo /\ \A j \in todo : i <= j
      /\ Wanted' = Wanted
  BY DEF NotHeld, Disconnect, WillNotLetGo, GiveIt, Wanted
<1>2. /\ holder' \in [Index -> {"none", "fw", "ours"}] /\ passes' \in Nat
      /\ todo' \subseteq todo
      /\ \A j \in Index \ {i} : holder'[j] = holder[j]
  BY DEF NotHeld, Disconnect, WillNotLetGo, GiveIt, DriversOK
<1>3. \A j, k \in Index : j <= k /\ k <= j => j = k
  BY LenProperties DEF Index, CaseOK
<1>4. Kept'
  <2> SUFFICES ASSUME NEW k \in Index, machine[k].fw
               PROVE  /\ machine[k].fam \notin Wanted => holder'[k] = "fw"
                      /\ machine[k].back /\ holder'[k] = "none"
                           => i = k /\ i \in todo' /\ passes' > 0
    BY <1>1, <1>2 DEF Kept, Bound
  <2>1. machine[i].fam \in Wanted
    BY <1>1 DEF DriversOK
  <2>2. CASE k # i
    BY <1>1, <1>2, <1>3, <2>2 DEF DriversOK, Kept, Bound
  <2>3. CASE k = i
    <3>1. CASE NotHeld(i)
      BY <1>1, <2>1, <2>3, <3>1 DEF NotHeld, DriversOK, Kept, Bound
    <3>2. CASE Disconnect(i)
      BY <1>1, <2>1, <2>3, <3>2 DEF Disconnect, DriversOK
    <3>3. CASE WillNotLetGo(i)
      BY <1>1, <2>1, <2>3, <3>3 DEF WillNotLetGo, DriversOK
    <3>4. CASE GiveIt(i)
      BY <1>1, <2>1, <2>3, <3>4 DEF GiveIt, DriversOK
    <3> QED
      BY <3>1, <3>2, <3>3, <3>4
  <2> QED
    BY <2>2, <2>3
<1> QED
  BY <1>1, <1>2, <1>4 DEF DriversOK

\* Every step keeps the drivers' part of the invariant.
LEMMA DriversStep ==
    ASSUME CaseOK, DriversOK, [StartNext]_allVars
    PROVE  DriversOK'
<1>0. CaseOK' /\ Index' = Index
  BY CaseStep
<1> USE DEF startVars, startCase, config, binding, main, vars, nicVars
<1>1. CASE Next /\ UNCHANGED startVars
  BY <1>0, <1>1, StackApart DEF DriversOK, Kept, Untaken, Wanted, Bound
<1>2. CASE Handing
  BY <1>0, <1>2 DEF Handing, Hand, SetChunk, ChunkRefused, SetHeader, Starting, EndedHere, Ended,
     Begin, DriversOK, Kept, Untaken, Wanted, Bound
<1>3. CASE ListDrivers
  BY <1>0, <1>3 DEF ListDrivers, Starting, EndedHere, Ended, Begin, Loading, DriversOK, Kept,
     Untaken, Wanted, Bound
<1>4. CASE PlatformFirst
  <2>1. /\ UNCHANGED <<started, passes, todo, pc, prefer, machine>>
        /\ stage = "platform" /\ stage' = "load" /\ ConnectAll /\ todo = {}
    BY <1>4 DEF PlatformFirst, NextStage, StillLoading, Loading, DriversOK
  <2>2. holder' \in [Index -> {"none", "fw", "ours"}]
    BY <2>1 DEF ConnectAll
  <2>3. CASE Untaken
    BY <1>0, <2>1, <2>2, <2>3 DEF Untaken, ConnectAll, DriversOK, Kept, Wanted, Bound
  <2>4. CASE Kept
    <3>1. \A k \in Index : Bound(k) => holder'[k] = holder[k]
      BY <2>1 DEF ConnectAll
    <3>2. Kept'
      BY <1>0, <2>1, <2>2, <2>4, <3>1 DEF Kept, Wanted, Bound
    <3> QED
      BY <1>0, <2>1, <2>2, <3>2 DEF DriversOK, Wanted
  <2> QED
    BY <2>1, <2>3, <2>4 DEF DriversOK
<1>5. CASE LoadOne
  <2>1. /\ UNCHANGED <<stage, holder, todo, passes, pc, prefer, machine>>
        /\ stage = "load" /\ started \subseteq started'
    BY <1>5 DEF LoadOne, StillLoading, Loading
  <2> QED
    BY <1>0, <2>1 DEF DriversOK, Kept, Wanted, Bound
<1>6. CASE BindThem
  <2>1. /\ UNCHANGED <<started, passes, pc, prefer, machine>>
        /\ stage = "load" /\ stage' = "take" /\ pc = "drivers" /\ todo = {} /\ Kept
    BY <1>6 DEF BindThem, NextStage, StillLoading, Loading, DriversOK
  <2>2. /\ holder' \in [Index -> {"none", "fw", "ours"}]
        /\ \A k \in Index : Bound(k) => holder'[k] = holder[k]
    BY <1>6 DEF BindThem, ConnectAll, DriversOK
  <2>3. todo' \subseteq {i \in Index : machine[i].fam \in Wanted}
    BY <1>6, <2>1 DEF BindThem, OfFamily, Wanted
  <2>4. Kept'
    BY <1>0, <2>1, <2>2 DEF Kept, Wanted, Bound
  <2> QED
    BY <1>0, <2>1, <2>2, <2>3, <2>4 DEF DriversOK, Wanted
<1>7. CASE Loaded
  BY <1>0, <1>7 DEF Loaded, EndedHere, Ended, Loading, DriversOK, Kept, Wanted, Bound
<1>8. CASE \E i \in Index : NotHeld(i) \/ Disconnect(i) \/ WillNotLetGo(i) \/ GiveIt(i)
  BY <1>0, <1>8, TakenInTurn
<1>9. CASE UNCHANGED allVars
  BY <1>0, <1>9 DEF allVars, DriversOK, Kept, Untaken, Wanted, Bound
<1> QED
  BY <1>1, <1>2, <1>3, <1>4, <1>5, <1>6, <1>7, <1>8, <1>9 DEF StartNext, Drivers

\* The case is one of those of the constants.
LEMMA CaseBegins == StartInit => CaseOK
BY NicsAssumption, StartupAssumption DEF StartInit, NicCase, StartupCase, CaseOK

\* A NIC the firmware drove keeps a driver, and its own unless the media named
\* its family and have a driver for it that started (drivers.rs take_over).
THEOREM NicsAreKept == StartSpec => []NicsKept
<1>1. StartInit => DriversOK
  BY DEF StartInit, NicInit, StartupInit, DriversOK, Untaken, Bound
<1>2. CaseOK /\ DriversOK /\ [StartNext]_allVars => CaseOK' /\ DriversOK'
  BY CaseStep, DriversStep
<1>3. DriversOK => NicsKept
  BY DEF DriversOK, Kept, NicsKept, NeverBare, PlatformKeeps, Wanted
<1> QED
  BY CaseBegins, <1>1, <1>2, <1>3, PTL DEF StartSpec

------------------------------------------------------------------------------
(* install-config.yaml.                                                    *)

\* What a division leaves over is less than the divisor.
LEMMA Division ==
    ASSUME NEW n \in Nat, NEW c \in Nat \ {0}
    PROVE  n \div c \in Nat /\ (n \div c) * c <= n /\ n < (n \div c) * c + c
OBVIOUS

\* The next multiple is a whole divisor away.
LEMMA AnotherMultiple ==
    ASSUME NEW p \in Nat, NEW q \in Nat, NEW c \in Nat \ {0}, p < q
    PROVE  p * c + c <= q * c
OBVIOUS

\* Rounded up, the pieces of a file hold it and do not exceed the largest's.
LEMMA PiecesHold ==
    ASSUME NEW len \in Nat, NEW max \in Nat, NEW c \in Nat \ {0}, 0 < len, len <= max
    PROVE  LET p == (len + c - 1) \div c
           IN  p \in Nat /\ p * c >= len /\ p <= max \div c + 1
<1> DEFINE p == (len + c - 1) \div c
           q == max \div c
<1>1. p \in Nat /\ p * c <= len + c - 1 /\ len + c - 1 < p * c + c
  BY Division
<1>2. q \in Nat /\ q * c <= max /\ max < q * c + c
  BY Division
<1>3. ASSUME q + 1 < p PROVE FALSE
  <2>1. (q + 1) * c + c <= p * c
    BY <1>1, <1>2, <1>3, AnotherMultiple
  <2>2. (q + 1) * c = q * c + c
    BY <1>2
  <2> QED
    BY <1>1, <1>2, <2>1, <2>2
<1> QED
  BY <1>1, <1>2, <1>3

\* While a start sets its chunks the first of them are its own, and what it
\* says it handed down is there.
HandOK ==
    /\ chunk = [i \in 0 .. MaxChunks |-> chunk[i]]
    /\ pc = "config" => /\ ~Refuses /\ handed = 0
                        /\ at \in 0 .. Pieces
                        /\ \A i \in 0 .. at - 1 : chunk[i] = This
    /\ handed # 0 => LinuxReads = handed

\* The pieces of a file that is not refused hold all of it.
LEMMA PiecesOfThis ==
    ASSUME CaseOK, ~Refuses
    PROVE  /\ Bytes \in Nat /\ Pieces \in Nat
           /\ Pieces * Chunk >= Bytes /\ Pieces <= MaxChunks + 1 /\ MaxChunks \in Nat
<1>1. Bytes \in Nat /\ 0 < Bytes /\ Bytes <= MaxFile
  BY StartupAssumption, LenProperties, ElementOfSeq DEF Bytes, Refuses, CaseOK
<1> QED
  BY <1>1, StartupAssumption, PiecesHold, Division DEF Pieces, MaxChunks

\* Every step keeps the hand-off's part of the invariant.
LEMMA HandStep ==
    ASSUME CaseOK, HandOK, [StartNext]_allVars
    PROVE  HandOK'
<1> USE DEF startVars, startCase, config, binding, main, vars, nicVars, case, netVars
<1>1. CASE Next /\ UNCHANGED startVars
  BY <1>1, StackApart DEF HandOK, LinuxReads
<1>2. CASE Hand
  <2>1. Refuses => pc' # "config"
    BY <1>2 DEF Hand, EndedHere, Ended
  <2>2. ~Refuses => pc' = "config" /\ step' = step
    BY <1>2 DEF Hand, Begin
  <2>3. UNCHANGED <<files, prog, chunk>> /\ handed' = 0 /\ at' = 0
    BY <1>2 DEF Hand
  <2>4. ~Refuses => This' = This /\ Bytes' = Bytes
    BY <2>2, <2>3 DEF Bytes, This
  <2>5. ~Refuses => Pieces' = Pieces /\ ~Refuses'
    BY <2>4 DEF Pieces, Refuses
  <2>6. ~Refuses => at' \in 0 .. Pieces'
    BY <2>3, <2>5, PiecesOfThis
  <2> QED
    BY <2>1, <2>2, <2>3, <2>5, <2>6 DEF HandOK
<1>3. CASE SetChunk
  <2>1. /\ pc = "config" /\ pc' = "config" /\ at < Pieces /\ at' = at + 1
        /\ chunk' = [chunk EXCEPT ![at] = This]
        /\ UNCHANGED <<files, prog, step, handed>>
    BY <1>3 DEF SetChunk
  <2>2. Pieces' = Pieces /\ This' = This /\ (Refuses' <=> Refuses)
    BY <2>1 DEF Pieces, Bytes, This, Refuses
  <2>3. MaxChunks \in Nat /\ at \in 0 .. MaxChunks /\ at' \in 0 .. Pieces
    BY <2>1, PiecesOfThis DEF HandOK
  <2>4. \A i \in 0 .. at' - 1 : chunk'[i] = This
    <3>1. \A i \in 0 .. MaxChunks : chunk'[i] = IF i = at THEN This ELSE chunk[i]
      BY <2>1 DEF HandOK
    <3>2. \A i \in 0 .. at' - 1 : i \in 0 .. MaxChunks /\ (i = at \/ i \in 0 .. at - 1)
      BY <2>1, <2>3
    <3>3. \A i \in 0 .. at - 1 : chunk[i] = This
      BY <2>1 DEF HandOK
    <3> QED
      BY <3>1, <3>2, <3>3
  <2>5. chunk' = [i \in 0 .. MaxChunks |-> chunk'[i]]
    BY <2>1 DEF HandOK
  <2> QED
    BY <2>1, <2>2, <2>3, <2>4, <2>5 DEF HandOK
<1>4. CASE ChunkRefused
  <2>1. handed = 0 /\ handed' = handed /\ pc' # "config"
    BY <1>4 DEF ChunkRefused, HandOK, EndedHere, Ended
  <2>2. chunk' = [i \in 0 .. MaxChunks |-> chunk'[i]]
    BY <1>4 DEF ChunkRefused, HandOK
  <2> QED
    BY <2>1, <2>2 DEF HandOK
<1>5. CASE SetHeader
  <2>1. pc = "config" /\ pc' # "config" /\ at = Pieces /\ chunk' = chunk
    BY <1>5 DEF SetHeader, EndedHere, Ended
  <2>2. CASE handed' = handed
    BY <2>1, <2>2 DEF HandOK
  <2>3. CASE header' = [of |-> This, len |-> Bytes, n |-> Chunks(Bytes)] /\ handed' = This
    <3>1. Chunks(Bytes) = Pieces
      BY DEF Chunks, Pieces
    <3>2. \A i \in 0 .. Pieces - 1 : chunk[i] = This
      BY <2>1 DEF HandOK
    <3>3. Bytes # 0 /\ Pieces * Chunk >= Bytes
      BY <2>1, PiecesOfThis DEF HandOK, Refuses
    <3>4. LinuxReads' = This
      BY <2>1, <2>3, <3>1, <3>2, <3>3 DEF LinuxReads, NoHeader, Chunks, Pieces
    <3> QED
      BY <2>1, <2>3, <3>4 DEF HandOK
  <2> QED
    BY <1>5, <2>2, <2>3 DEF SetHeader
<1>6. CASE Drivers
  <2>1. UNCHANGED config /\ pc' # "config"
    BY <1>6 DEF Drivers, ListDrivers, PlatformFirst, LoadOne, BindThem, Loaded, NotHeld,
       Disconnect, WillNotLetGo, GiveIt, Loading, StillLoading, TakeFrame, Taking, EndedHere,
       Ended, Begin
  <2> QED
    BY <2>1 DEF HandOK, LinuxReads
<1>7. CASE UNCHANGED allVars
  BY <1>7 DEF allVars, HandOK, LinuxReads, Refuses, Pieces, Bytes, This
<1> QED
  BY <1>1, <1>2, <1>3, <1>4, <1>5, <1>6, <1>7 DEF StartNext, Handing

\* What a start says it handed down is what Linux reads, for a file and chunks
\* of any length and any refusal of the variable store (handoff.rs, installconf.rs).
THEOREM ConfigHandedWhole == StartSpec => []HandedWhole
<1>1. StartInit => HandOK
  BY DEF StartInit, NicInit, StartupInit, HandOK
<1>2. CaseOK /\ HandOK /\ [StartNext]_allVars => CaseOK' /\ HandOK'
  BY CaseStep, HandStep
<1>3. HandOK => HandedWhole
  BY DEF HandOK, HandedWhole
<1> QED
  BY CaseBegins, <1>1, <1>2, <1>3, PTL DEF StartSpec

------------------------------------------------------------------------------
(* The API's sockets (Nics): whose each is.                                *)

\* A socket some client has, and what the API knows of a socket.
Live   == {"syn", "est", "half", "fin", "lastack", "timewait"}
Socket == [st : Live \cup {"closed", "listen"}, id : Nat,
           got : {"none", "part", "whole", "bad"}, out : Nat, closing : BOOLEAN, since : Int]

\* A socket in use is one client's; before its request has come there is none of
\* an earlier one's, and until it has an answer its client was given none.
InUse(c) ==
    /\ c \in Socket
    /\ c.st \in Live => c.id \in 1 .. clients
    /\ c.st \in {"listen", "syn"} => c.got = "none" /\ c.out = 0
    /\ c.st \in Live /\ c.out = 0 => answered[c.id] = 0

\* No two sockets are of the same client; one yet to come was given nothing.
Sockets ==
    /\ Conns \in Nat /\ MaxClients \in Nat /\ clients \in 0 .. MaxClients
    /\ DOMAIN api = 1 .. Conns /\ answered \in [1 .. MaxClients -> 0 .. 1]
    /\ \A k \in 1 .. Conns : InUse(api[k])
    /\ \A k, l \in 1 .. Conns :
          api[k].st \in Live /\ api[l].st \in Live /\ api[k].id = api[l].id => k = l
    /\ \A i \in clients + 1 .. MaxClients : answered[i] = 0

\* A socket in this state, of this client, with this request and this answer.
IsSocket(d, st, id, got, out) ==
    d \in Socket /\ d.st = st /\ d.id = id /\ d.got = got /\ d.out = out

\* A socket gets another state.
LEMMA StateSet ==
    ASSUME NEW c \in Socket, NEW s \in Live \cup {"closed", "listen"}
    PROVE  IsSocket([c EXCEPT !.st = s], s, c.id, c.got, c.out)
  BY DEF Socket, IsSocket

\* It gets another state and another client.
LEMMA ClientSet ==
    ASSUME NEW c \in Socket, NEW s \in Live \cup {"closed", "listen"}, NEW n \in Nat
    PROVE  IsSocket([c EXCEPT !.st = s, !.id = n], s, n, c.got, c.out)
  BY DEF Socket, IsSocket

\* Something of a request comes.
LEMMA RequestSet ==
    ASSUME NEW c \in Socket, NEW g \in {"none", "part", "whole", "bad"}
    PROVE  IsSocket([c EXCEPT !.got = g], c.st, c.id, g, c.out)
  BY DEF Socket, IsSocket

\* It has an answer to send.
LEMMA AnswerSet ==
    ASSUME NEW c \in Socket, NEW t \in Int, NEW n \in Nat
    PROVE  IsSocket([c EXCEPT !.since = t, !.out = n], c.st, c.id, c.got, n)
  BY DEF Socket, IsSocket

\* What came and what was to go are forgotten; the client is not.
LEMMA ResetSet ==
    ASSUME NEW c \in Socket
    PROVE  IsSocket(Reset(c), c.st, c.id, "none", 0)
<1>1. Reset(c) \in Socket
  <2>1. [c EXCEPT !.got = "none", !.out = 0, !.closing = FALSE] \in Socket
    BY DEF Socket
  <2>2. \A d \in Socket : [d EXCEPT !.since = -1] \in Socket
    BY DEF Socket
  <2> QED
    BY <2>1, <2>2, Zenon DEF Reset
<1>2. Reset(c).st = c.st /\ Reset(c).id = c.id /\ Reset(c).got = "none" /\ Reset(c).out = 0
  BY DEF Socket, Reset
<1> QED
  BY <1>1, <1>2 DEF IsSocket

\* A socket goes on with the client it has, or with none.
LEMMA GoesOnWithIt ==
    ASSUME Sockets, NEW k \in 1 .. Conns, NEW c, Conn(k, c), UNCHANGED <<clients, answered>>,
           InUse(c), c.st \in Live => api[k].st \in Live /\ c.id = api[k].id
    PROVE  Sockets'
<1>1. DOMAIN api' = 1 .. Conns /\ \A l \in 1 .. Conns : api'[l] = IF l = k THEN c ELSE api[l]
  BY DEF Sockets, Conn
<1>2. \A l \in 1 .. Conns : InUse(api[l])'
  BY <1>1, Zenon DEF Sockets, InUse
<1>3. \A l, m \in 1 .. Conns :
          api'[l].st \in Live /\ api'[m].st \in Live /\ api'[l].id = api'[m].id => l = m
  BY <1>1, Zenon DEF Sockets
<1> QED
  BY <1>1, <1>2, <1>3, Zenon DEF Sockets

\* The stack serves a socket.
LEMMA ServesStep ==
    ASSUME Sockets, Serves
    PROVE  Sockets'
<1>0. UNCHANGED clients
  BY DEF Serves, counts
<1>1. PICK k \in 1 .. Conns : \/ Listens(k) \/ Drops(k) \/ WaitsForMore(k) \/ AnswersIt(k)
                              \/ Closes(k)
  BY DEF Serves, Sockets
<1>2. InUse(api[k])
  BY DEF Sockets
<1>3. CASE Listens(k)
  <2> DEFINE c == [Reset(api[k]) EXCEPT !.st = "listen", !.id = 0]
  <2>1. InUse(c) /\ c.st \notin Live
    <3>1. IsSocket(Reset(api[k]), api[k].st, api[k].id, "none", 0)
      BY <1>2, ResetSet DEF InUse
    <3>2. IsSocket(c, "listen", 0, "none", 0)
      <4>1. /\ Reset(api[k]) \in Socket /\ 0 \in Nat
            /\ "listen" \in Live \cup {"closed", "listen"}
        BY <3>1 DEF IsSocket
      <4>2. IsSocket(c, "listen", 0, Reset(api[k]).got, Reset(api[k]).out)
        BY <4>1, ClientSet, Zenon
      <4> QED
        BY <3>1, <4>2, Zenon DEF IsSocket
    <3> HIDE DEF c
    <3> QED
      BY <3>2 DEF IsSocket, InUse, Live
  <2>2. Conn(k, c) /\ UNCHANGED answered
    BY <1>3 DEF Listens
  <2> HIDE DEF c
  <2> QED
    BY <1>0, <2>1, <2>2, GoesOnWithIt
<1>4. CASE Drops(k)
  <2> DEFINE c == [Reset(api[k]) EXCEPT !.st = "closed"]
  <2>1. InUse(c) /\ c.st \notin Live
    <3>1. IsSocket(Reset(api[k]), api[k].st, api[k].id, "none", 0)
      BY <1>2, ResetSet DEF InUse
    <3>2. IsSocket(c, "closed", api[k].id, "none", 0)
      BY <3>1, StateSet DEF IsSocket
    <3> HIDE DEF c
    <3> QED
      BY <3>2 DEF IsSocket, InUse, Live
  <2>2. Conn(k, c) /\ UNCHANGED answered
    BY <1>4 DEF Drops
  <2> HIDE DEF c
  <2> QED
    BY <1>0, <2>1, <2>2, GoesOnWithIt
<1>5. CASE WaitsForMore(k)
  <2> DEFINE c == [api[k] EXCEPT !.since = 0]
  <2>1. InUse(c) /\ (c.st \in Live => api[k].st \in Live /\ c.id = api[k].id)
    BY <1>2 DEF InUse, Socket
  <2>2. Conn(k, c) /\ UNCHANGED answered
    BY <1>5 DEF WaitsForMore
  <2> HIDE DEF c
  <2> QED
    BY <1>0, <2>1, <2>2, GoesOnWithIt
<1>6. CASE AnswersIt(k)
  <2> DEFINE c == [api[k] EXCEPT !.since = Seen(api[k]), !.out = api[k].id]
  <2>1. api[k].st \in {"est", "half"} /\ api[k].out = 0 /\ Conn(k, c)
        /\ answered' = IF api[k].got = "whole"
                       THEN [answered EXCEPT ![api[k].id] = @ + 1] ELSE answered
    BY <1>6 DEF AnswersIt
  <2>2. api[k].id \in 1 .. clients /\ answered[api[k].id] = 0 /\ api[k].st \in Live
    BY <1>2, <2>1 DEF InUse, Live
  <2>3. c \in Socket /\ c.st = api[k].st /\ c.id = api[k].id /\ c.out = c.id
    <3>1. api[k] \in Socket /\ api[k].id \in Nat
      BY <1>2 DEF InUse, Socket
    <3>2. Seen(api[k]) \in Int
      BY <3>1 DEF Socket, Seen
    <3>3. IsSocket(c, api[k].st, api[k].id, api[k].got, api[k].id)
      BY <3>1, <3>2, AnswerSet, Zenon
    <3> HIDE DEF c
    <3> QED
      BY <3>3, Zenon DEF IsSocket
  <2> HIDE DEF c
  <2>4. c.out # 0 /\ c.st \notin {"listen", "syn"}
    BY <2>1, <2>2, <2>3 DEF Sockets
  <2>5. /\ answered' \in [1 .. MaxClients -> 0 .. 1]
        /\ \A i \in 1 .. MaxClients : i # api[k].id => answered'[i] = answered[i]
    BY <2>1, <2>2 DEF Sockets
  <2>6. DOMAIN api' = 1 .. Conns /\ \A l \in 1 .. Conns : api'[l] = IF l = k THEN c ELSE api[l]
    BY <2>1 DEF Sockets, Conn
  <2>7. \A l \in 1 .. Conns : InUse(api[l])'
    <3> SUFFICES ASSUME NEW l \in 1 .. Conns PROVE InUse(api[l])'
      OBVIOUS
    <3>1. CASE l = k
      BY <1>0, <2>2, <2>3, <2>4, <2>6, <3>1 DEF InUse
    <3>2. CASE l # k
      <4>1. api'[l] = api[l] /\ InUse(api[l])
        BY <2>6, <3>2 DEF Sockets
      <4>2. api[l].st \in Live => /\ api[l].id # api[k].id
                                  /\ api[l].id \in 1 .. MaxClients
        BY <2>2, <3>2, <4>1 DEF Sockets, InUse
      <4> QED
        BY <1>0, <2>5, <4>1, <4>2 DEF InUse
    <3> QED
      BY <3>1, <3>2
  <2>8. \A l, m \in 1 .. Conns :
          api'[l].st \in Live /\ api'[m].st \in Live /\ api'[l].id = api'[m].id => l = m
    BY <2>3, <2>6, Zenon DEF Sockets
  <2>9. \A i \in clients + 1 .. MaxClients : answered'[i] = 0
    BY <2>2, <2>5 DEF Sockets
  <2> QED
    BY <1>0, <2>5, <2>6, <2>7, <2>8, <2>9 DEF Sockets
<1>7. CASE Closes(k)
  <2> DEFINE c == [api[k] EXCEPT !.closing = TRUE,
                                 !.st = IF @ = "half" THEN "lastack" ELSE "fin"]
  <2>1. api[k].st \in {"est", "half"} /\ api[k].out # 0
    BY <1>7 DEF Closes
  <2>2. InUse(c) /\ (c.st \in Live => api[k].st \in Live /\ c.id = api[k].id)
    BY <1>2, <2>1 DEF InUse, Socket, Live
  <2>3. Conn(k, c) /\ UNCHANGED answered
    BY <1>7 DEF Closes
  <2> HIDE DEF c
  <2> QED
    BY <1>0, <2>2, <2>3, GoesOnWithIt
<1> QED
  BY <1>1, <1>3, <1>4, <1>5, <1>6, <1>7

\* A client does something with its socket, or comes to one that listens.
LEMMA ClientStep ==
    ASSUME Sockets, ClientActs
    PROVE  Sockets'
<1>1. PICK k \in 1 .. Conns :
          /\ \E c \in ClientOf(api[k]) : Conn(k, c)
          /\ clients' = IF api[k].st = "listen" THEN clients + 1 ELSE clients
  BY DEF ClientActs, Sockets
<1>2. PICK c \in ClientOf(api[k]) : Conn(k, c)
  BY <1>1
<1>3. InUse(api[k]) /\ UNCHANGED answered
  BY DEF Sockets, ClientActs
<1>4. CASE api[k].st = "listen"
  <2>1. clients < MaxClients /\ c = [api[k] EXCEPT !.st = "syn", !.id = clients + 1]
    BY <1>2, <1>4 DEF ClientOf
  <2>2. clients' = clients + 1 /\ clients' \in 0 .. MaxClients
    BY <1>1, <1>4, <2>1 DEF Sockets
  <2>3. /\ c \in Socket /\ c.id = clients' /\ c.st = "syn" /\ c.got = "none" /\ c.out = 0
    <3>1. api[k] \in Socket /\ api[k].got = "none" /\ api[k].out = 0
      BY <1>3, <1>4 DEF InUse
    <3>2. clients + 1 \in Nat /\ "syn" \in Live \cup {"closed", "listen"}
      BY DEF Sockets, Live
    <3> QED
      <4>1. IsSocket(c, "syn", clients + 1, api[k].got, api[k].out)
        BY <2>1, <3>1, <3>2, ClientSet, Zenon
      <4> QED
        BY <2>2, <3>1, <4>1 DEF IsSocket
  <2>4. answered[clients'] = 0
    BY <2>2 DEF Sockets
  <2>5. DOMAIN api' = 1 .. Conns /\ \A l \in 1 .. Conns : api'[l] = IF l = k THEN c ELSE api[l]
    BY <1>2 DEF Sockets, Conn
  <2>6. \A l \in 1 .. Conns : api[l].st \in Live => api[l].id \in 1 .. clients
                                                    /\ api[l].id # clients'
    BY <2>2 DEF Sockets, InUse
  <2>7. \A l \in 1 .. Conns : InUse(api[l])'
    <3> SUFFICES ASSUME NEW l \in 1 .. Conns PROVE InUse(api[l])'
      OBVIOUS
    <3>1. CASE l = k
      <4>1. clients' \in 1 .. clients'
        BY <2>2 DEF Sockets
      <4> QED
        BY <1>3, <2>3, <2>4, <2>5, <3>1, <4>1 DEF InUse
    <3>2. CASE l # k
      <4>1. 1 .. clients \subseteq 1 .. clients'
        BY <2>2 DEF Sockets
      <4> QED
        BY <1>3, <2>5, <3>2, <4>1, Zenon DEF InUse, Sockets
    <3> QED
      BY <3>1, <3>2
  <2>8. \A l, m \in 1 .. Conns :
          api'[l].st \in Live /\ api'[m].st \in Live /\ api'[l].id = api'[m].id => l = m
    <3> SUFFICES ASSUME NEW l \in 1 .. Conns, NEW m \in 1 .. Conns, api'[l].st \in Live,
                        api'[m].st \in Live, api'[l].id = api'[m].id
                 PROVE  l = m
      OBVIOUS
    <3>1. CASE l = k \/ m = k
      BY <2>3, <2>5, <2>6, <3>1
    <3>2. CASE l # k /\ m # k
      <4>1. api[l].st \in Live /\ api[m].st \in Live /\ api[l].id = api[m].id
        BY <2>5, <3>2
      <4> QED
        BY <4>1, Zenon DEF Sockets
    <3> QED
      BY <3>1, <3>2
  <2>9. \A i \in clients' + 1 .. MaxClients : answered[i] = 0
    BY <2>2 DEF Sockets
  <2> QED
    BY <1>3, <2>2, <2>5, <2>7, <2>8, <2>9 DEF Sockets
<1>5. CASE api[k].st # "listen"
  <2>0. api[k] \in Socket /\ "est" \in Live /\ "half" \in Live /\ "timewait" \in Live
    BY <1>3 DEF InUse, Live
  <2> DEFINE goes == InUse(c) /\ (c.st \in Live => api[k].st \in Live /\ c.id = api[k].id)
  <2>1. ASSUME api[k].st = "syn" PROVE goes
    <3>1. \/ c = [api[k] EXCEPT !.st = "est"]
          \/ c = [api[k] EXCEPT !.st = "listen", !.id = 0]
      BY <1>2, <2>1 DEF ClientOf
    <3>2. /\ c \in Socket /\ c.got = api[k].got /\ c.out = api[k].out
          /\ (c.st = "est" /\ c.id = api[k].id) \/ c.st = "listen"
      <4>1. /\ IsSocket([api[k] EXCEPT !.st = "est"], "est", api[k].id, api[k].got, api[k].out)
            /\ IsSocket([api[k] EXCEPT !.st = "listen", !.id = 0], "listen", 0, api[k].got,
                        api[k].out)
        <5>1. 0 \in Nat /\ {"est", "listen"} \subseteq Live \cup {"closed", "listen"}
          BY DEF Live
        <5> QED
          BY <2>0, <5>1, StateSet, ClientSet, Zenon
      <4> QED
        BY <3>1, <4>1, Zenon DEF IsSocket
    <3> QED
      BY <1>3, <2>1, <3>2 DEF InUse, Live
  <2>2. ASSUME api[k].st \in {"est", "fin", "half", "lastack", "timewait"} PROVE goes
    <3>1. \/ api[k].st = "est" /\ \E g \in {"part", "whole", "bad"} :
                                     c = [api[k] EXCEPT !.got = g]
          \/ \E t \in {"half", "timewait", "closed"} : c = [api[k] EXCEPT !.st = t]
      BY <1>2, <2>2 DEF ClientOf
    <3>2. /\ c \in Socket /\ c.out = api[k].out /\ c.id = api[k].id
          /\ c.st \in {"est", "half", "timewait", "closed"}
      <4>1. CASE api[k].st = "est" /\ \E g \in {"part", "whole", "bad"} :
                                          c = [api[k] EXCEPT !.got = g]
        <5>1. PICK g \in {"part", "whole", "bad"} : c = [api[k] EXCEPT !.got = g]
          BY <4>1
        <5>2. IsSocket(c, api[k].st, api[k].id, g, api[k].out)
          BY <2>0, <5>1, RequestSet
        <5> QED
          BY <4>1, <5>2 DEF IsSocket
      <4>2. CASE \E t \in {"half", "timewait", "closed"} : c = [api[k] EXCEPT !.st = t]
        <5>1. PICK t \in {"half", "timewait", "closed"} : c = [api[k] EXCEPT !.st = t]
          BY <4>2
        <5>2. t \in Live \cup {"closed", "listen"}
          BY DEF Live
        <5> QED
          BY <2>0, <5>1, <5>2, StateSet DEF IsSocket
      <4> QED
        BY <3>1, <4>1, <4>2
    <3> QED
      BY <1>3, <2>2, <3>2 DEF InUse, Live
  <2>3. api[k].st = "syn" \/ api[k].st \in {"est", "fin", "half", "lastack", "timewait"}
    BY <1>2, <1>5, Zenon DEF ClientOf
  <2> QED
    BY <1>1, <1>2, <1>3, <1>5, <2>1, <2>2, <2>3, GoesOnWithIt
<1> QED
  BY <1>4, <1>5

\* What none of the other steps touches.
LEMMA SocketsMove ==
    ASSUME [StartNext]_allVars
    PROVE  \/ UNCHANGED <<api, clients, answered>>
           \/ Serves \/ ClientActs \/ Open \/ Tick
<1> USE DEF case, stack, main, counts, nicVars, vars, netVars, Ended, Begin, Moved
<1>1. CASE Loop
  BY <1>1 DEF Loop, StartConnect, StartHold, Drop, NoSnp, Release, Established,
     Refused, GiveUp, Patient, ToPick, Fails, Try, NoneLeased
<1>2. CASE World
  BY <1>2 DEF World, Configured, Deconfigured, LinkTurns, Answers, Transmits, SnpsAppear, Happens
<1>3. CASE Sync
  BY <1>3 DEF Sync, StartClock, NotChecked, Chosen, Request, NoNic, Unreachable, NoAnswer, Leave
<1>4. CASE ServerAnswers \/ Arrives \/ Believed \/ ClockTick
  BY <1>4 DEF ServerAnswers, Arrives, Believed, ClockTick, Leave
<1>5. CASE Handing
  BY <1>5 DEF Handing, Hand, SetChunk, ChunkRefused, SetHeader
<1>6. CASE Drivers
  BY <1>6 DEF Drivers, ListDrivers, PlatformFirst, LoadOne, BindThem, NotHeld, Disconnect,
     WillNotLetGo, GiveIt, TakeFrame, Loading, StillLoading, Loaded
<1>7. CASE UNCHANGED allVars
  BY <1>7 DEF allVars
<1> QED
  BY <1>1, <1>2, <1>3, <1>4, <1>5, <1>6, <1>7 DEF StartNext, Next, NicNext

\* Every step keeps each client's socket its own.
LEMMA SocketsStep ==
    ASSUME Sockets, [StartNext]_allVars
    PROVE  Sockets'
<1>1. CASE UNCHANGED <<api, clients, answered>>
  BY <1>1, Zenon DEF Sockets, InUse
<1>2. CASE Open
  <2>1. /\ api' = [k \in 1 .. Conns |-> [NoRequest EXCEPT !.st = "closed"]]
        /\ UNCHANGED <<clients, answered>>
    BY <1>2 DEF Open, counts
  <2>2. [NoRequest EXCEPT !.st = "closed"] \in Socket
    <3>1. NoRequest \in Socket
      BY DEF NoRequest, Socket
    <3> QED
      BY <3>1, StateSet DEF IsSocket
  <2>3. [NoRequest EXCEPT !.st = "closed"].st = "closed"
    BY DEF NoRequest
  <2> QED
    BY <2>1, <2>2, <2>3, Zenon DEF Sockets, InUse, Live
<1>3. CASE Tick
  <2>1. /\ api' = [k \in DOMAIN api |-> [api[k] EXCEPT !.since = Older(@, ConnTime + 1)]]
        /\ UNCHANGED <<clients, answered>>
    BY <1>3 DEF Tick, counts
  <2>2. ConnTime \in Nat
    BY NicsAssumption
  <2>3. DOMAIN api' = 1 .. Conns
        /\ \A k \in 1 .. Conns : /\ api'[k] = [api[k] EXCEPT !.since = Older(@, ConnTime + 1)]
                                 /\ InUse(api[k])
    BY <2>1 DEF Sockets
  <2>4. \A k \in 1 .. Conns : /\ api'[k] \in Socket /\ api'[k].st = api[k].st
                              /\ api'[k].id = api[k].id /\ api'[k].got = api[k].got
                              /\ api'[k].out = api[k].out
    BY <2>2, <2>3 DEF InUse, Socket, Older, Least
  <2>5. \A k \in 1 .. Conns : InUse(api[k])'
    BY <2>1, <2>3, <2>4, Zenon DEF InUse
  <2>6. ASSUME NEW k \in 1 .. Conns, NEW l \in 1 .. Conns, api'[k].st \in Live,
               api'[l].st \in Live, api'[k].id = api'[l].id
        PROVE  k = l
    <3>1. /\ api'[k].st = api[k].st /\ api'[k].id = api[k].id
          /\ api'[l].st = api[l].st /\ api'[l].id = api[l].id
      BY <2>4
    <3>2. api[k].st \in Live /\ api[l].st \in Live /\ api[k].id = api[l].id
      BY <2>6, <3>1
    <3> QED
      BY <3>2, Zenon DEF Sockets
  <2>7. DOMAIN api' = 1 .. Conns /\ clients' = clients /\ answered' = answered
    BY <2>1, <2>3
  <2> QED
    BY <2>5, <2>6, <2>7, Zenon DEF Sockets
<1> QED
  BY <1>1, <1>2, <1>3, ServesStep, ClientStep, SocketsMove

\* At first there is no client.
LEMMA SocketsBegin == StartInit => Sockets
<1> SUFFICES ASSUME StartInit PROVE Sockets
  OBVIOUS
<1>1. /\ api = [k \in 1 .. Conns |-> NoRequest] /\ clients = 0
      /\ answered = [i \in 1 .. MaxClients |-> 0] /\ Conns \in Nat /\ MaxClients \in Nat
  BY NicsAssumption DEF StartInit, NicInit
<1>2. NoRequest \in Socket /\ NoRequest.st = "listen" /\ NoRequest.got = "none"
      /\ NoRequest.out = 0
  BY DEF NoRequest, Socket
<1> QED
  BY <1>1, <1>2 DEF Sockets, InUse, Live

\* However the stack, the clients and the clock interleave, a request is acted on
\* once and its answer is sent to the client that made it (net.rs: serve, answer).
THEOREM AnsweredAlwaysOnce == StartSpec => []AnsweredOnce
<1>1. StartInit => Sockets
  BY SocketsBegin
<1>2. Sockets => AnsweredOnce
  BY DEF Sockets, InUse, AnsweredOnce
<1> QED
  BY <1>1, <1>2, SocketsStep, PTL DEF StartSpec

------------------------------------------------------------------------------
(* The calendar (Clock): sntp.rs's arithmetic and the counting it is held  *)
(* against agree about every second from 1970 to 2037.                     *)

\* The closed forms of what YearStart and MonthStart count.
YearDays(y) == 365 * (y - 1970) + (y - 1969) \div 4
MonthDays(leap, m) ==
    IF m <= 2 THEN 31 * (m - 1)
    ELSE 59 + (153 * (m - 3) + 2) \div 5 + (IF leap THEN 1 ELSE 0)

\* Between 1901 and 2099 every fourth year is a leap year.
LEMMA LeapYears ==
    ASSUME NEW y \in 1970 .. 2037
    PROVE  Leap(y) <=> y % 4 = 0
  BY DEF Leap

\* The leap years before y are counted by the multiples of four below it.
LEMMA YearsCounted ==
    ASSUME NEW y \in 1970 .. 2038
    PROVE  YearStart[y] = YearDays(y)
<1> DEFINE K == 493 .. (y - 1) \div 4
           f == [k \in K |-> 4 * k]
           L == {x \in 1970 .. y - 1 : Leap(x)}
<1>1. L = {x \in 1970 .. y - 1 : x % 4 = 0}
  BY LeapYears
<1>2. \A k \in K : 4 * k \in L
  BY <1>1
<1>3. \A x \in L : x \div 4 \in K /\ 4 * (x \div 4) = x
  BY <1>1
<1>4. f \in Bijection(K, L)
  <2>1. f \in [K -> L]
    BY <1>2
  <2>2. \A a, b \in K : f[a] = f[b] => a = b
    OBVIOUS
  <2>3. \A x \in L : \E k \in K : f[k] = x
    BY <1>3
  <2> HIDE DEF f, K, L
  <2> QED
    BY <2>1, <2>2, <2>3 DEF Bijection, Injection, IsInjective, Surjection
<1>5. IsFiniteSet(K) /\ Cardinality(K) = (y - 1969) \div 4
  <2>1. (y - 1) \div 4 \in Int /\ 492 <= (y - 1) \div 4 /\ (y - 1) \div 4 - 492 = (y - 1969) \div 4
    OBVIOUS
  <2> QED
    BY <2>1, FS_Interval
<1>6. Cardinality(L) = Cardinality(K)
  <2> HIDE DEF f, K, L
  <2>1. Bijection(K, L) # {}
    BY <1>4
  <2>2. ExistsBijection(K, L)
    BY <2>1 DEF ExistsBijection
  <2> QED
    BY <1>5, <2>2, FS_Bijection
<1>7. YearStart[y] = 365 * (y - 1970) + Cardinality(L)
  BY DEF YearStart
<1> HIDE DEF f, K, L
<1> QED
  BY <1>5, <1>6, <1>7 DEF YearDays

Long == {1, 3, 5, 7, 8, 10, 12}
LongBefore(m) == {x \in Long : x < m}

\* The long months before the next month.
LEMMA OneMore ==
    ASSUME NEW m \in 1 .. 12, IsFiniteSet(LongBefore(m))
    PROVE  /\ IsFiniteSet(LongBefore(m + 1))
           /\ Cardinality(LongBefore(m + 1)) =
                  Cardinality(LongBefore(m)) + (IF m \in Long THEN 1 ELSE 0)
<1>1. CASE m \in Long
  <2>1. LongBefore(m + 1) = LongBefore(m) \cup {m} /\ m \notin LongBefore(m)
    BY <1>1 DEF LongBefore, Long
  <2> QED
    BY <1>1, <2>1, FS_AddElement
<1>2. CASE m \notin Long
  <2>1. LongBefore(m + 1) = LongBefore(m)
    BY <1>2 DEF LongBefore, Long
  <2>2. Cardinality(LongBefore(m)) \in Nat
    BY FS_CardinalityType
  <2> QED
    BY <1>2, <2>1, <2>2
<1> QED
  BY <1>1, <1>2

\* And so before each month of the year.
LEMMA LongMonths ==
    ASSUME NEW m \in 1 .. 13
    PROVE  Cardinality(LongBefore(m)) =
               IF m = 1 THEN 0 ELSE IF m <= 3 THEN 1 ELSE IF m <= 5 THEN 2 ELSE IF m <= 7 THEN 3
               ELSE IF m = 8 THEN 4 ELSE IF m <= 10 THEN 5 ELSE IF m <= 12 THEN 6 ELSE 7
<1> DEFINE C(k, n) == IsFiniteSet(LongBefore(k)) /\ Cardinality(LongBefore(k)) = n
<1>1. C(1, 0)
  <2>1. LongBefore(1) = {}
    BY DEF LongBefore, Long
  <2> QED
    BY <2>1, FS_EmptySet
<1>a. ASSUME NEW k \in 1 .. 12, NEW n \in Nat, C(k, n)
      PROVE  C(k + 1, n + (IF k \in Long THEN 1 ELSE 0))
  BY <1>a, OneMore
<1> HIDE DEF C
<1>2. C(2, 1)
  BY <1>1, <1>a DEF Long
<1>3. C(3, 1)
  BY <1>2, <1>a DEF Long
<1>4. C(4, 2)
  BY <1>3, <1>a DEF Long
<1>5. C(5, 2)
  BY <1>4, <1>a DEF Long
<1>6. C(6, 3)
  BY <1>5, <1>a DEF Long
<1>7. C(7, 3)
  BY <1>6, <1>a DEF Long
<1>8. C(8, 4)
  BY <1>7, <1>a DEF Long
<1>9. C(9, 5)
  BY <1>8, <1>a DEF Long
<1>10. C(10, 5)
  BY <1>9, <1>a DEF Long
<1>11. C(11, 6)
  BY <1>10, <1>a DEF Long
<1>12. C(12, 6)
  BY <1>11, <1>a DEF Long
<1>13. C(13, 7)
  BY <1>12, <1>a DEF Long
<1>20. m \in {1, 2, 3, 4, 5, 6, 7, 8, 9, 10, 11, 12, 13}
  OBVIOUS
<1> QED
  BY <1>1, <1>2, <1>3, <1>4, <1>5, <1>6, <1>7, <1>8, <1>9, <1>10, <1>11, <1>12, <1>13, <1>20
     DEF C

\* The days before each month.
LEMMA MonthsCounted ==
    ASSUME NEW leap \in BOOLEAN, NEW m \in 1 .. 13
    PROVE  MonthStart[leap][m] = MonthDays(leap, m)
<1>1. MonthStart[leap][m] = 30 * (m - 1) + Cardinality({x \in {1, 3, 5, 7, 8, 10, 12} : x < m})
                            - (IF m < 3 THEN 0 ELSE IF leap THEN 1 ELSE 2)
  BY DEF MonthStart
<1>3. MonthStart[leap][m] = 30 * (m - 1) + Cardinality(LongBefore(m))
                            - (IF m < 3 THEN 0 ELSE IF leap THEN 1 ELSE 2)
  BY <1>1 DEF LongBefore, Long
<1> HIDE DEF MonthStart
<1>4. m \in {1, 2, 3, 4, 5, 6, 7, 8, 9, 10, 11, 12, 13}
  OBVIOUS
<1> QED
  BY <1>3, <1>4, LongMonths DEF MonthDays

\* A day of the calendar: its year and month, and the days before each.
Calendar == 0 .. 24836
Years    == 1970 .. 2037
IsYear(y, d) == y \in Years /\ YearDays(y) <= d /\ d < YearDays(y + 1)
IsMonth(leap, m, n) ==
    /\ leap \in BOOLEAN /\ m \in 1 .. 12 /\ n \in Int
    /\ MonthDays(leap, m) <= n /\ n < MonthDays(leap, m + 1)
IsDay(d, y, m) ==
    d \in Calendar /\ IsYear(y, d) /\ IsMonth(Leap(y), m, d - YearDays(y))

\* Every day is in a year and a month.
LEMMA EveryDay ==
    ASSUME NEW d \in Calendar
    PROVE  \E y, m : IsDay(d, y, m)
<1> DEFINE y == 1970 + (4 * d + 2) \div 1461
<1>1. y \in 1970 .. 2037 /\ YearDays(y) <= d /\ d < YearDays(y + 1)
  BY DEF YearDays, Calendar
<1> HIDE DEF y
<1>b. Leap(y) \in BOOLEAN
  BY <1>1 DEF Leap
<1>2. Leap(y) <=> y % 4 = 0
  BY <1>1, LeapYears
<1>3. YearDays(y + 1) - YearDays(y) = IF Leap(y) THEN 366 ELSE 365
  <2>1. (y - 1968) \div 4 - (y - 1969) \div 4 = IF y % 4 = 0 THEN 1 ELSE 0
    BY <1>1
  <2> QED
    BY <1>1, <1>2, <2>1 DEF YearDays
<1> DEFINE n == d - YearDays(y)
<1>4. n \in Int /\ 0 <= n /\ n < IF Leap(y) THEN 366 ELSE 365
  BY <1>1, <1>3 DEF YearDays, Calendar
<1>5. \E m \in 1 .. 12 : MonthDays(Leap(y), m) <= n /\ n < MonthDays(Leap(y), m + 1)
  <2> HIDE DEF n
  <2> SUFFICES ASSUME \A m \in 1 .. 12 :
                          MonthDays(Leap(y), m) <= n => MonthDays(Leap(y), m + 1) <= n
               PROVE  FALSE
    BY <1>4 DEF MonthDays
  <2>1. MonthDays(Leap(y), 1) <= n
    BY <1>4 DEF MonthDays
  <2>2. MonthDays(Leap(y), 5) <= n
    BY <2>1 DEF MonthDays
  <2>3. MonthDays(Leap(y), 9) <= n
    BY <2>2 DEF MonthDays
  <2>4. MonthDays(Leap(y), 13) <= n
    BY <2>3 DEF MonthDays
  <2> QED
    BY <1>4, <2>4 DEF MonthDays
<1> QED
  <2>1. PICK m \in 1 .. 12 : MonthDays(Leap(y), m) <= n /\ n < MonthDays(Leap(y), m + 1)
    BY <1>5
  <2>2. IsDay(d, y, m)
    BY <1>1, <1>4, <1>b, <2>1 DEF IsDay, IsYear, IsMonth, Years
  <2> QED
    BY <2>2

\* The year the calendar chooses for a day is the one the day is in.
LEMMA YearFound ==
    ASSUME NEW d \in Calendar, NEW a, IsYear(a, d)
    PROVE  YearOf(d) = a /\ YearStart[a] = YearDays(a)
<1> DEFINE InYear(x) == YearStart[x] <= d /\ d < YearStart[x + 1]
           y == YearOf(d)
<1>1. a \in 1970 .. 2037 /\ InYear(a)
  BY YearsCounted DEF IsYear, Years
<1>2. y \in 1970 .. 2037 /\ InYear(y)
  BY <1>1 DEF YearOf
<1> HIDE DEF y
<1>3. /\ YearStart[y] = YearDays(y) /\ YearStart[y + 1] = YearDays(y + 1)
      /\ YearStart[a] = YearDays(a)
  BY <1>1, <1>2, YearsCounted
<1>4. YearDays(y) <= d /\ d < YearDays(y + 1) /\ YearDays(a) <= d /\ d < YearDays(a + 1)
  BY <1>2, <1>3 DEF IsYear
<1>5. y = a
  BY <1>1, <1>2, <1>4 DEF YearDays, Calendar
<1> QED
  BY <1>3, <1>5 DEF y

\* And so is the month.
LEMMA MonthFound ==
    ASSUME NEW leap, NEW n, NEW b, IsMonth(leap, b, n)
    PROVE  /\ IsMonth(leap, MonthOf(leap, n), n)
           /\ MonthStart[leap][MonthOf(leap, n)] = MonthDays(leap, MonthOf(leap, n))
<1> DEFINE InMonth(x) == MonthStart[leap][x] <= n /\ n < MonthStart[leap][x + 1]
           m == MonthOf(leap, n)
<1>0. leap \in BOOLEAN /\ b \in 1 .. 12 /\ n \in Int
  BY DEF IsMonth
<1>1. \A k \in 1 .. 13 : MonthStart[leap][k] = MonthDays(leap, k)
  BY <1>0, MonthsCounted
<1>2. InMonth(b)
  BY <1>0, <1>1 DEF IsMonth
<1>3. m \in 1 .. 12 /\ InMonth(m)
  BY <1>0, <1>2 DEF MonthOf
<1> HIDE DEF m
<1>4. MonthStart[leap][m] = MonthDays(leap, m) /\ MonthStart[leap][m + 1] = MonthDays(leap, m + 1)
  BY <1>1, <1>3
<1>5. IsMonth(leap, m, n)
  BY <1>0, <1>3, <1>4 DEF IsMonth
<1> QED
  BY <1>4, <1>5, Zenon DEF m

\* The date of a day, and what the calendar reads on it.
DateOf(y, m, secs) ==
    [year |-> y, month |-> m,
     day |-> secs \div Day - YearDays(y) - MonthDays(Leap(y), m) + 1, second |-> secs % Day]

\* What the calendar reads is the date of the day.
LEMMA ReadsDay ==
    ASSUME NEW secs \in Int, secs \div Day \in Calendar
    PROVE  \E y, m : IsDay(secs \div Day, y, m) /\ Reads(secs) = DateOf(y, m, secs)
<1> DEFINE d == secs \div Day
           y == YearOf(d)
           n == d - YearStart[y]
           m == MonthOf(Leap(y), n)
<1>1. Reads(secs) = [year |-> y, month |-> m, day |-> n - MonthStart[Leap(y)][m] + 1,
                     second |-> secs % Day]
  BY DEF Reads
<1>2. d \in Calendar
  OBVIOUS
<1> HIDE DEF d, m, n, y
<1>3. PICK a, b : IsDay(d, a, b)
  BY <1>2, EveryDay, Zenon
<1>4. y = a /\ YearStart[y] = YearDays(y) /\ IsYear(y, d) /\ IsMonth(Leap(y), b, d - YearDays(y))
  BY <1>2, <1>3, YearFound, Zenon DEF y, IsDay
<1>5. n = d - YearDays(y)
  <2>1. n = d - YearStart[y]
    BY Zenon DEF n
  <2> QED
    BY <1>4, <2>1, Zenon
<1>6. IsMonth(Leap(y), m, n) /\ MonthStart[Leap(y)][m] = MonthDays(Leap(y), m)
  BY <1>4, <1>5, MonthFound, Zenon DEF m
<1>7. IsDay(d, y, m)
  BY <1>2, <1>4, <1>5, <1>6, Zenon DEF IsDay
<1>8. Reads(secs) = DateOf(y, m, secs)
  <2>1. n - MonthStart[Leap(y)][m] + 1 = d - YearDays(y) - MonthDays(Leap(y), m) + 1
    BY <1>5, <1>6, Zenon
  <2> QED
    BY <1>1, <2>1, Zenon DEF DateOf, d
<1> QED
  BY <1>7, <1>8, Zenon DEF d

------------------------------------------------------------------------------
(* The same, counted from March as civil and unix count.                   *)

\* Counted from March: the year and the day of the year; the day of an era of 400
\* years, and the year civil makes of it.
MarchYear(y, m) == IF m > 2 THEN y ELSE y - 1
MarchDay(leap, m, n) == IF m > 2 THEN n - MonthDays(leap, 3) ELSE n + 306
EraDay(yoe, doy) == 365 * yoe + yoe \div 4 - yoe \div 100 + doy
EraYear(doe) == (doe - doe \div 1460 + doe \div 36524 - doe \div 146096) \div 365

\* A year of an era that a day of the calendar is in.
InEra(yoe, doy) ==
    /\ yoe \in 0 .. 68 \cup 369 .. 399 /\ doy \in 0 .. 365
    /\ doy = 365 => yoe % 4 = 3

\* civil's division finds the year of an era again, whichever day of it this is.
LEMMA YearOfEra ==
    ASSUME NEW yoe, NEW doy, InEra(yoe, doy)
    PROVE  EraYear(EraDay(yoe, doy)) = yoe
  BY SMT DEF EraYear, EraDay, InEra

\* The months from March are found.
March(leap, m, n, doy) ==
    /\ doy \in 0 .. 365
    /\ doy = 365 => leap = TRUE /\ m = 2
    /\ (5 * doy + 2) \div 153 = IF m > 2 THEN m - 3 ELSE m + 9
    /\ doy - (153 * ((5 * doy + 2) \div 153) + 2) \div 5 = n - MonthDays(leap, m)

\* civil's fifths find the month again.
LEMMA MonthOfYear ==
    ASSUME NEW leap, NEW m, NEW n, IsMonth(leap, m, n)
    PROVE  March(leap, m, n, MarchDay(leap, m, n))
<1>1. m \in {1, 2, 3, 4, 5, 6, 7, 8, 9, 10, 11, 12} /\ leap \in BOOLEAN /\ n \in Int
  BY DEF IsMonth
<1>2. MonthDays(leap, m) <= n /\ n < MonthDays(leap, m + 1)
  BY DEF IsMonth
<1> QED
  BY SMT, <1>1, <1>2 DEF MonthDays, MarchDay, March

\* The day in civil's count, which begins in the year 0.
Since0(d, yy, doy) ==
    d + 719468 = 584388 + 365 * (yy - 1600) + (yy - 1600) \div 4 - 3 + doy

\* A day of the calendar, counted from March.
LEMMA FromMarch ==
    ASSUME NEW d, NEW y, NEW m, IsDay(d, y, m),
           NEW yy, yy = MarchYear(y, m),
           NEW n, n = d - YearDays(y),
           NEW doy, doy = MarchDay(Leap(y), m, n)
    PROVE  /\ yy \in 1969 .. 2037 /\ n \in Int /\ (doy = 365 => yy % 4 = 3)
           /\ March(Leap(y), m, n, doy) /\ Since0(d, yy, doy)
<1>1. d \in Calendar /\ IsYear(y, d) /\ IsMonth(Leap(y), m, n)
  BY Zenon DEF IsDay
<1>2. March(Leap(y), m, n, doy)
  BY <1>1, MonthOfYear, Zenon
<1>3. y \in 1970 .. 2037 /\ m \in 1 .. 12 /\ n \in Int /\ Leap(y) \in BOOLEAN
  BY <1>1 DEF IsYear, IsMonth, Years
<1>4. Leap(y) <=> y % 4 = 0
  BY SMT, <1>3, LeapYears
<1>5. doy \in 0 .. 365 /\ (doy = 365 => Leap(y) /\ m = 2)
  BY SMT, <1>2 DEF March
<1>6. yy \in 1969 .. 2037 /\ (doy = 365 => yy % 4 = 3)
  BY SMT, <1>3, <1>4, <1>5 DEF MarchYear
<1>7. (y - 1600) \div 4 - (y - 1601) \div 4 = IF Leap(y) THEN 1 ELSE 0
  BY SMT, <1>3, <1>4
<1>8. (y - 1969) \div 4 = (y - 1601) \div 4 - 92
  BY SMT, <1>3
<1>9. d \in Int /\ d = 365 * (y - 1970) + (y - 1969) \div 4 + n
  BY SMT, <1>1, <1>3 DEF YearDays, Calendar
<1>10. CASE m > 2
  <2>1. doy = n - 59 - (IF Leap(y) THEN 1 ELSE 0) /\ yy = y
    BY SMT, <1>3, <1>10 DEF MonthDays, MarchDay, MarchYear
  <2>2. Since0(d, yy, doy)
    BY SMT, <1>3, <1>5, <1>7, <1>8, <1>9, <2>1 DEF Since0
  <2> QED
    BY <1>2, <1>3, <1>6, <2>2, SMT
<1>11. CASE ~(m > 2)
  <2>1. doy = n + 306 /\ yy = y - 1
    BY SMT, <1>3, <1>11 DEF MarchDay, MarchYear
  <2>2. Since0(d, yy, doy)
    BY SMT, <1>3, <1>5, <1>8, <1>9, <2>1 DEF Since0
  <2> QED
    BY <1>2, <1>3, <1>6, <2>2, SMT
<1> QED
  BY <1>10, <1>11

\* civil finds the day.
LEMMA CivilDay ==
    ASSUME NEW secs \in Int, NEW y, NEW m, IsDay(secs \div Day, y, m)
    PROVE  Civil(secs) = DateOf(y, m, secs)
<1> DEFINE d == secs \div Day
           z   == d + 719468
           era == z \div 146097
           doe == z - era * 146097
           yoe == EraYear(doe)
           doy == doe - (365 * yoe + yoe \div 4 - yoe \div 100)
           mp  == (5 * doy + 2) \div 153
           mm  == IF mp < 10 THEN mp + 3 ELSE mp - 9
<1>1. Civil(secs) = [year |-> yoe + era * 400 + (IF mm <= 2 THEN 1 ELSE 0), month |-> mm,
                     day |-> doy - (153 * mp + 2) \div 5 + 1, second |-> secs % Day]
  BY SMT DEF Civil, EraYear
<1>2. IsDay(d, y, m)
  OBVIOUS
<1> HIDE DEF d, z, era, doe, yoe, doy, mp, mm
<1> DEFINE yy == MarchYear(y, m)
           n  == d - YearDays(y)
           of == MarchDay(Leap(y), m, n)
           e  == IF yy >= 2000 THEN 5 ELSE 4
           k  == yy - 400 * e
<1> HIDE DEF yy, n, of, e, k
<1>3. /\ yy \in 1969 .. 2037 /\ n \in Int /\ (of = 365 => yy % 4 = 3)
      /\ March(Leap(y), m, n, of) /\ Since0(d, yy, of)
  <2>1. yy = MarchYear(y, m) /\ n = d - YearDays(y) /\ of = MarchDay(Leap(y), m, n)
    BY Zenon DEF yy, n, of
  <2> QED
    BY SMT, <1>2, <2>1, FromMarch
<1>4. y \in 1970 .. 2037 /\ m \in 1 .. 12 /\ d \in Int
  <2>1. d \in Calendar /\ IsYear(y, d) /\ IsMonth(Leap(y), m, d - YearDays(y))
    BY <1>2, Zenon DEF IsDay
  <2> QED
    BY SMT, <2>1 DEF IsYear, IsMonth, Years, Calendar
<1>5. /\ of \in 0 .. 365
      /\ (5 * of + 2) \div 153 = IF m > 2 THEN m - 3 ELSE m + 9
      /\ of - (153 * ((5 * of + 2) \div 153) + 2) \div 5 = n - MonthDays(Leap(y), m)
  BY SMT, <1>3 DEF March
<1>6. y = yy + (IF m <= 2 THEN 1 ELSE 0)
  BY SMT, <1>4 DEF yy, MarchYear
<1>7. /\ e \in {4, 5} /\ k \in 0 .. 68 \cup 369 .. 399 /\ k = yy - 400 * e
      /\ (yy >= 2000 <=> e = 5)
  BY SMT, <1>3 DEF e, k
<1>8. k % 4 = yy % 4
  BY SMT, <1>3, <1>7
<1>9. z \in Int /\ z - 146097 * e = EraDay(k, of)
  <2>1. z = 584388 + 365 * (yy - 1600) + (yy - 1600) \div 4 - 3 + of
    BY SMT, <1>3 DEF Since0, z
  <2>2. CASE e = 5
    BY SMT, <1>3, <1>5, <1>7, <2>1, <2>2 DEF EraDay
  <2>3. CASE e = 4
    BY SMT, <1>3, <1>5, <1>7, <2>1, <2>3 DEF EraDay
  <2> QED
    BY SMT, <1>7, <2>2, <2>3
<1>10. 0 <= z - 146097 * e /\ z - 146097 * e < 146097
  BY SMT, <1>3, <1>5, <1>7, <1>8, <1>9 DEF EraDay
<1>11. era = e /\ doe = EraDay(k, of)
  <2>1. era = e
    BY SMT, <1>7, <1>9, <1>10 DEF era
  <2> QED
    BY SMT, <1>7, <1>9, <2>1 DEF doe
<1>12. yoe = k
  <2>1. InEra(k, of)
    BY SMT, <1>3, <1>5, <1>7, <1>8 DEF InEra
  <2>2. EraYear(EraDay(k, of)) = k
    BY <2>1, YearOfEra, Zenon
  <2> QED
    BY SMT, <1>11, <2>2 DEF yoe
<1>13. doy = of
  BY SMT, <1>5, <1>7, <1>11, <1>12 DEF doy, EraDay
<1>14. mm = m /\ yoe + era * 400 + (IF mm <= 2 THEN 1 ELSE 0) = y
  BY SMT, <1>3, <1>4, <1>5, <1>6, <1>7, <1>11, <1>12, <1>13 DEF mm, mp
<1>15. doy - (153 * mp + 2) \div 5 + 1 = d - YearDays(y) - MonthDays(Leap(y), m) + 1
  <2>1. of - (153 * mp + 2) \div 5 = n - MonthDays(Leap(y), m)
    BY SMT, <1>5, <1>13 DEF mp
  <2>2. n = d - YearDays(y)
    BY Zenon DEF n
  <2> QED
    BY SMT, <1>13, <2>1, <2>2
<1>16. Civil(secs) = [year |-> y, month |-> m,
                      day |-> d - YearDays(y) - MonthDays(Leap(y), m) + 1, second |-> secs % Day]
  BY SMT, <1>1, <1>14, <1>15
<1> QED
  BY SMT, <1>16 DEF d, DateOf

\* The seconds of the day.
LEMMA SecondsOf ==
    ASSUME NEW secs \in Int
    PROVE  secs \div Day \in Int /\ secs % Day \in Int
           /\ secs = (secs \div Day) * Day + (secs % Day)
<1>1. /\ secs \div 86400 \in Int /\ secs % 86400 \in Int
      /\ secs = (secs \div 86400) * 86400 + (secs % 86400)
  BY SMT
<1> QED
  BY SMT, <1>1 DEF Day

\* A date's seconds by counting.
LEMMA CountedDay ==
    ASSUME NEW secs \in Int, NEW y, NEW m, IsDay(secs \div Day, y, m)
    PROVE  Counted(DateOf(y, m, secs)) = secs
<1> DEFINE d == secs \div Day
           day == d - YearDays(y) - MonthDays(Leap(y), m) + 1
<1>1. d \in Calendar /\ IsYear(y, d) /\ IsMonth(Leap(y), m, d - YearDays(y))
  BY Zenon DEF IsDay
<1>2. YearStart[y] = YearDays(y) /\ YearDays(y) \in Int
  BY SMT, <1>1, YearsCounted DEF IsYear, Years, YearDays
<1>3. MonthStart[Leap(y)][m] = MonthDays(Leap(y), m) /\ MonthDays(Leap(y), m) \in Int
  <2>1. Leap(y) \in BOOLEAN /\ m \in 1 .. 12
    BY <1>1 DEF IsMonth
  <2>2. MonthDays(Leap(y), m) \in Int
    BY SMT, <2>1 DEF MonthDays
  <2> QED
    BY <2>1, <2>2, MonthsCounted
<1>4. d \in Int /\ secs % Day \in Int /\ secs = d * Day + (secs % Day)
  BY SecondsOf, Zenon
<1> HIDE DEF d
<1>5. Counted(DateOf(y, m, secs)) =
          (YearStart[y] + MonthStart[Leap(y)][m] + day - 1) * Day + (secs % Day)
  <2> HIDE DEF day
  <2>1. DateOf(y, m, secs) = [year |-> y, month |-> m, day |-> day, second |-> secs % Day]
    BY Zenon DEF DateOf, day, d
  <2> QED
    BY SMT, <2>1 DEF Counted
<1>6. YearStart[y] + MonthStart[Leap(y)][m] + day - 1 = d
  BY SMT, <1>2, <1>3, <1>4
<1> QED
  BY SMT, <1>4, <1>5, <1>6

\* unix is civil's inverse.
LEMMA UnixDay ==
    ASSUME NEW secs \in Int, NEW y, NEW m, IsDay(secs \div Day, y, m)
    PROVE  Unix(DateOf(y, m, secs)) = secs
<1> DEFINE d == secs \div Day
           n == d - YearDays(y)
           day == n - MonthDays(Leap(y), m) + 1
           yy == MarchYear(y, m)
           of == MarchDay(Leap(y), m, n)
           mp == IF m > 2 THEN m - 3 ELSE m + 9
           era == yy \div 400
           yoe == yy - era * 400
           doe == yoe * 365 + yoe \div 4 - yoe \div 100 + (153 * mp + 2) \div 5 + day - 1
<1>1. d \in Calendar /\ IsYear(y, d) /\ IsMonth(Leap(y), m, n)
  BY Zenon DEF IsDay
<1>2. d \in Int /\ secs % Day \in Int /\ secs = d * Day + (secs % Day)
  BY SecondsOf, Zenon
<1>3. y \in 1970 .. 2037 /\ m \in 1 .. 12 /\ n \in Int /\ Leap(y) \in BOOLEAN
      /\ MonthDays(Leap(y), m) <= n /\ n < MonthDays(Leap(y), m + 1)
  BY SMT, <1>1 DEF IsYear, IsMonth, Years
<1> HIDE DEF d, n
<1>4. day \in 1 .. DaysInMonth(y, m)
  <2>1. DaysInMonth(y, m) = MonthDays(Leap(y), m + 1) - MonthDays(Leap(y), m)
    <3>1. m \in {1, 2, 3, 4, 5, 6, 7, 8, 9, 10, 11, 12}
      BY SMT, <1>3
    <3> QED
      BY SMT, <1>3, <3>1 DEF DaysInMonth, MonthDays, Leap
  <2>2. MonthDays(Leap(y), m) \in Int /\ MonthDays(Leap(y), m + 1) \in Int
    BY SMT, <1>3 DEF MonthDays
  <2> QED
    BY SMT, <1>3, <2>1, <2>2
<1>5. Unix(DateOf(y, m, secs)) = (era * 146097 + doe - 719468) * Day + (secs % Day)
  <2> HIDE DEF day, era, yoe, mp
  <2>1. DateOf(y, m, secs) = [year |-> y, month |-> m, day |-> day, second |-> secs % Day]
    BY Zenon DEF DateOf, day, n, d
  <2> QED
    <3> DEFINE c == [year |-> y, month |-> m, day |-> day, second |-> secs % Day]
    <3>1. c.year = y /\ c.month = m /\ c.day = day /\ c.second = secs % Day
      OBVIOUS
    <3> HIDE DEF c
    <3>2. /\ (IF c.month <= 2 THEN c.year - 1 ELSE c.year) = yy
          /\ (IF c.month > 2 THEN c.month - 3 ELSE c.month + 9) = mp
          /\ c.month \in 1 .. 12 /\ c.day \in 1 .. DaysInMonth(c.year, c.month)
      BY SMT, <1>3, <1>4, <3>1 DEF MarchYear, mp
    <3> HIDE DEF yy
    <3>3. Unix(c) = (era * 146097 + doe - 719468) * Day + (secs % Day)
      BY SMT, <3>1, <3>2 DEF Unix, era, yoe
    <3> QED
      BY SMT, <2>1, <3>3 DEF c
<1> HIDE DEF yy, of
<1>6. /\ yy \in 1969 .. 2037 /\ March(Leap(y), m, n, of) /\ Since0(d, yy, of)
  <2>1. yy = MarchYear(y, m) /\ n = d - YearDays(y) /\ of = MarchDay(Leap(y), m, n)
        /\ IsDay(d, y, m)
    BY Zenon DEF yy, n, of, d
  <2> QED
    BY SMT, <2>1, FromMarch
<1>7. of \in 0 .. 365 /\ of = (153 * mp + 2) \div 5 + day - 1
  <2>1. MonthDays(Leap(y), m) \in Int
    BY SMT, <1>3 DEF MonthDays
  <2> QED
    BY SMT, <1>3, <1>6, <2>1 DEF March
<1>8. era * 146097 + doe - 719468 = d
  <2> HIDE DEF day, mp
  <2>0. day \in Int /\ mp \in Int
    BY SMT, <1>3, <1>4 DEF mp
  <2>1. CASE yy >= 2000
    BY SMT, <1>2, <1>6, <1>7, <2>0, <2>1 DEF Since0
  <2>2. CASE ~(yy >= 2000)
    BY SMT, <1>2, <1>6, <1>7, <2>0, <2>2 DEF Since0
  <2> QED
    BY SMT, <2>1, <2>2
<1> QED
  BY SMT, <1>2, <1>5, <1>8

\* sntp.rs's civil and unix agree with the calendar by counting about every second from
\* 1970 to 2037: unix undoes what the hardware clock reads, civil makes the date.
THEOREM CalendarRight ==
    ASSUME NEW secs \in Int, secs \div Day \in Calendar
    PROVE  Unix(Reads(secs)) = secs /\ Counted(Civil(secs)) = secs
<1>1. PICK y, m : IsDay(secs \div Day, y, m) /\ Reads(secs) = DateOf(y, m, secs)
  BY ReadsDay, Zenon
<1>2. Unix(Reads(secs)) = secs
  BY <1>1, UnixDay, Zenon
<1>3. Counted(Civil(secs)) = secs
  BY <1>1, CivilDay, CountedDay, Zenon
<1> QED
  BY <1>2, <1>3

------------------------------------------------------------------------------
(* The check of the clock.                                                 *)

\* The nonces before this phase's.
Base == IF phase = "ntp" THEN 2 ELSE 0

\* The case's dates are the calendar's.
ClockCaseOK == Dated(from, first)

Replies == [nonce : Nat, v : {"good", "refused"}, at : Nat]
Sent(r) == r = [nic |-> r.nic, nonce |-> r.nonce, age |-> r.age]
           /\ r.nonce \in Nat /\ r.age \in 0 .. Exchange

\* The types of a check of the clock; and that it is made once: until then, and while
\* it is made, nothing was told and the RTC is as it was.
Checking ==
    phase \in {"none", "dns", "ntp", "failed"} /\ turn \in 0 .. 2 /\ now \in 0 .. 16
Once ==
    /\ asked \in BOOLEAN
    /\ phase # "none" => pc = "clock"
    /\ pc = "clock" => asked
    /\ pc = "clock" \/ ~asked =>
           /\ est = NoTime /\ told = "" /\ skew = first
           /\ phase = "none" => now = 0

\* The request in hand is this turn's, and time goes by only while there is one.
InHand ==
    /\ Sent(sent)
    /\ sent # NoRequestSent => phase \in {"dns", "ntp"} /\ turn < 2 /\ sent.nonce = Base + turn + 1
    /\ phase \in {"dns", "ntp"} => now <= 4 * (Base + turn) + sent.age

\* A reply names a request made, and one to the request in hand was made since.
OnTheWay ==
    \A d \in flight :
        /\ d \in Replies /\ d.at <= now
        /\ phase \in {"dns", "ntp"} /\ d.nonce \in 1 .. Base + turn + 1
        /\ d.nonce = Base + turn + 1 => sent # NoRequestSent
        /\ d.nonce = sent.nonce => now - sent.age <= d.at

ClockOK == ClockCaseOK /\ Checking /\ Once /\ InHand /\ OnTheWay /\ ClockRight

\* The rest of the machine leaves the clock alone, and its check to itself.
LEMMA ClockApart ==
    ASSUME [StartNext]_allVars
    PROVE  \/ Sync \/ ServerAnswers \/ Arrives \/ Believed \/ ClockTick
           \/ UNCHANGED clockVars /\ (pc = "clock" <=> pc' = "clock")
<1> USE DEF main, Ended, Begin
<1>1. CASE Loop /\ UNCHANGED clockVars
  BY <1>1 DEF Loop, StartConnect, StartHold, Drop, Open, NoSnp, Release, Established, Looking,
     Refused, GiveUp, Patient, ToPick, Fails, Try, NoneLeased
<1>2. CASE World /\ UNCHANGED clockVars
  BY <1>2 DEF World, Configured, Deconfigured, LinkTurns, Answers, Transmits, SnpsAppear,
     ClientActs
<1>3. CASE (Serves \/ Tick) /\ UNCHANGED clockVars
  BY <1>3 DEF Serves, Tick
<1>4. CASE Handing
  BY <1>4 DEF Handing, Hand, SetChunk, ChunkRefused, SetHeader, vars, nicVars, EndedHere,
     netVars, Starting
<1>5. CASE Drivers
  BY <1>5 DEF Drivers, ListDrivers, PlatformFirst, LoadOne, BindThem, NotHeld, Disconnect,
     WillNotLetGo, GiveIt, TakeFrame, Taking, Loading, StillLoading, Loaded, EndedHere,
     netVars, Starting
<1>6. CASE UNCHANGED allVars
  BY <1>6 DEF allVars, vars, nicVars
<1> QED
  BY <1>1, <1>2, <1>3, <1>4, <1>5, <1>6 DEF StartNext, Next, NicNext

\* What the check needs none of the rest for.
LEMMA ClockStays ==
    ASSUME ClockOK, UNCHANGED clockVars, pc = "clock" <=> pc' = "clock"
    PROVE  ClockOK'
<1>1. ClockCaseOK' /\ ClockRight'
  BY SMT DEF ClockOK, ClockCaseOK, ClockRight, HalfTheRoundTrip, ToldTheTruth, clockVars, clockCase
<1>2. Checking' /\ Once'
  BY Zenon DEF ClockOK, Checking, Once, clockVars, clockCase
<1>3. InHand' /\ OnTheWay'
  BY Zenon DEF ClockOK, InHand, Sent, OnTheWay, Base, clockVars
<1> QED
  BY <1>1, <1>2, <1>3 DEF ClockOK

\* An exchange is short.
LEMMA ExchangeShort == Exchange \in 0 .. 4
  BY ClockAssumption

\* A check ends, and is not made again.
LEMMA Leaves ==
    ASSUME ClockOK, pc = "clock", NEW v \in {"synced", "unsynced"}, Leave(v),
           UNCHANGED <<clockCase, now, first, asked>>, ClockRight'
    PROVE  ClockOK'
<1>1. /\ phase' = "none" /\ turn' = 0 /\ sent' = NoRequestSent /\ flight' = {} /\ pc' = "idle"
      /\ asked' = asked /\ now' = now /\ from' = from /\ first' = first
  BY DEF Leave, Ended, clockCase
<1>2. ClockCaseOK'
  BY <1>1, Zenon DEF ClockOK, ClockCaseOK
<1>3. Checking' /\ Once'
  <2>1. Checking'
    BY <1>1 DEF ClockOK, Checking
  <2>2. asked
    BY Zenon DEF ClockOK, Once
  <2>3. Once'
    BY <1>1, <2>2, Zenon DEF Once, ClockOK
  <2> QED
    BY <2>1, <2>3
<1>4. InHand'
  <2>1. Sent(NoRequestSent)
    BY ExchangeShort DEF Sent, NoRequestSent
  <2>2. Sent(sent)'
    BY <1>1, <2>1, Zenon DEF Sent
  <2> QED
    BY <1>1, <2>2 DEF InHand
<1>5. OnTheWay'
  BY <1>1, Zenon DEF OnTheWay
<1> QED
  BY <1>2, <1>3, <1>4, <1>5 DEF ClockOK

\* Off by no more than the round trip, and less than two seconds.
LEMMA Off ==
    ASSUME NEW n \in 0 .. 16, NEW a \in 0 .. 4, NEW t \in Nat, n - a <= t, t <= n
    PROVE  LET e == (2 * t + a) \div 4
           IN  e \in 0 .. 9 /\ e - n \div 2 \in -1 .. 1 /\ n \div 2 \in 0 .. 8
  BY SMT

\* The steps of a check that leave the time believed and the RTC alone.
LEMMA SameClock ==
    ASSUME ClockOK, UNCHANGED <<est, told, skew, first>>, est = NoTime \/ now' = now
    PROVE  ClockRight'
  BY DEF ClockOK, ClockRight, HalfTheRoundTrip, ToldTheTruth

\* A turn ends with no time believed.
TurnDone ==
    /\ pc = "clock" /\ pc' = "clock" /\ phase \in {"dns", "ntp"} /\ turn < 2
    /\ turn' = turn + 1 /\ sent' = NoRequestSent
    /\ UNCHANGED <<clockCase, now, skew, first, asked, phase, flight, est, told>>

LEMMA TurnEnds ==
    ASSUME ClockOK, TurnDone
    PROVE  ClockOK'
<1> USE DEF TurnDone
<1>1. ClockCaseOK'
  BY Zenon DEF ClockOK, ClockCaseOK, clockCase
<1>2. Checking' /\ Once'
  <2>1. Checking'
    BY DEF ClockOK, Checking
  <2>2. Once'
    BY Zenon DEF ClockOK, Once
  <2> QED
    BY <2>1, <2>2
<1>3. /\ Base \in {0, 2} /\ Base' = Base /\ turn \in 0 .. 1 /\ now \in 0 .. 16
      /\ sent.age \in 0 .. 4 /\ now <= 4 * (Base + turn) + sent.age
  BY ExchangeShort DEF Base, ClockOK, Checking, InHand, Sent
<1>4. InHand'
  <2>1. Sent(sent)'
    BY ExchangeShort DEF Sent, NoRequestSent
  <2>2. sent'.age = 0
    BY DEF NoRequestSent
  <2> QED
    BY <1>3, <2>1, <2>2 DEF InHand
<1>5. OnTheWay'
  <2>1. ASSUME NEW d \in flight PROVE d \in Replies /\ d.at <= now /\ d.nonce <= Base + turn + 1
                                     /\ d.at <= now /\ d.nonce \in Nat /\ d.at \in Nat
    BY DEF ClockOK, OnTheWay, Replies
  <2>2. sent'.age = 0 /\ sent'.nonce = 0
    BY DEF NoRequestSent
  <2>3. ASSUME NEW d \in flight PROVE d.nonce > 0
    BY DEF ClockOK, OnTheWay
  <2> QED
    BY <1>3, <2>1, <2>2, <2>3 DEF OnTheWay
<1>6. ClockRight'
  BY SameClock
<1> QED
  BY <1>1, <1>2, <1>4, <1>5, <1>6 DEF ClockOK

\* A step of the check itself.
LEMMA SyncStep ==
    ASSUME ClockOK, Sync
    PROVE  ClockOK'
<1>1. CASE StartClock
  <2>1. /\ asked' = TRUE /\ told' = (IF ~asked /\ net # "up" THEN "unsynced" ELSE told)
        /\ UNCHANGED <<clockCase, now, skew, first, phase, turn, sent, flight, est>>
        /\ pc = "idle" /\ (pc' = "clock" => ~asked /\ net = "up")
    BY <1>1 DEF StartClock, Begin, Ended
  <2>2. ClockCaseOK'
    BY <2>1, Zenon DEF ClockOK, ClockCaseOK, clockCase
  <2>3. Checking' /\ Once'
    <3>1. Checking'
      BY <2>1 DEF ClockOK, Checking
    <3>2. Once'
      <4>1. pc' = "clock" => ~asked
        BY <2>1
      <4>2. phase = "none"
        BY <2>1, Zenon DEF ClockOK, Once
      <4> QED
        BY <2>1, <4>1, <4>2, Zenon DEF ClockOK, Once
    <3> QED
      BY <3>1, <3>2
  <2>4. InHand' /\ OnTheWay'
    BY <2>1, Zenon DEF ClockOK, InHand, OnTheWay, Sent, Base, Nonce
  <2>5. ClockRight'
    <3>1. told' = told \/ (told' = "unsynced" /\ skew' = first')
      BY <2>1, Zenon DEF ClockOK, Once
    <3> QED
      BY <2>1, <3>1 DEF ClockOK, ClockRight, HalfTheRoundTrip, ToldTheTruth
  <2> QED
    BY <2>2, <2>3, <2>4, <2>5 DEF ClockOK
<1>2. CASE NotChecked \/ Unreachable
  <2>1. pc = "clock" /\ Leave("unsynced") /\ UNCHANGED <<clockCase, now, skew, first, asked, est>>
    BY <1>2 DEF NotChecked, Unreachable, Choosing
  <2>2. skew = first /\ told' = "unsynced" /\ now' = now /\ est' = est /\ skew' = skew
        /\ first' = first /\ est = NoTime
    BY <2>1, Zenon DEF ClockOK, Once, Leave
  <2>3. ClockRight'
    BY <2>2 DEF ClockRight, HalfTheRoundTrip, ToldTheTruth
  <2> QED
    BY <2>1, <2>3, Leaves
<1>3. CASE Chosen
  <2>1. /\ pc = "clock" /\ pc' = "clock" /\ phase = "none" /\ phase' \in {"dns", "ntp"} /\ turn' = 0
        /\ UNCHANGED <<clockCase, now, skew, first, asked, sent, flight, est, told>>
    BY <1>3 DEF Chosen, Choosing, main
  <2>2. ClockCaseOK'
    BY <2>1, Zenon DEF ClockOK, ClockCaseOK, clockCase
  <2>3. Checking' /\ now = 0 /\ sent = NoRequestSent /\ flight = {}
    <3>1. now = 0
      BY <2>1, Zenon DEF ClockOK, Once
    <3>2. sent = NoRequestSent /\ flight = {}
      BY <2>1 DEF ClockOK, InHand, OnTheWay
    <3>3. Checking'
      BY <2>1 DEF ClockOK, Checking
    <3> QED
      BY <3>1, <3>2, <3>3
  <2>7. Once'
    BY <2>1, Zenon DEF ClockOK, Once
  <2>4. InHand'
    BY <2>1, <2>3 DEF ClockOK, InHand, Sent, Base, NoRequestSent
  <2>5. OnTheWay'
    BY <2>1, <2>3, Zenon DEF OnTheWay
  <2>6. ClockRight'
    BY <2>1, SameClock
  <2> QED
    BY <2>2, <2>3, <2>4, <2>5, <2>6, <2>7 DEF ClockOK
<1>4. CASE Request
  <2>1. /\ pc = "clock" /\ pc' = "clock" /\ phase \in {"dns", "ntp"} /\ turn < 2
        /\ sent = NoRequestSent /\ sent' = [nic |-> LeasedNic, nonce |-> Nonce, age |-> 0]
        /\ UNCHANGED <<clockCase, now, skew, first, asked, phase, turn, flight, est, told>>
    BY <1>4 DEF Request, Asking, Idle, main
  <2>2. Nonce = Base + turn + 1 /\ Base \in {0, 2} /\ turn \in 0 .. 2 /\ now \in 0 .. 16
    BY DEF Nonce, Base, ClockOK, Checking
  <2>3. ClockCaseOK' /\ Checking' /\ Once'
    <3>1. ClockCaseOK'
      BY <2>1, Zenon DEF ClockOK, ClockCaseOK, clockCase
    <3>2. Checking' /\ Once'
      BY <2>1, Zenon DEF ClockOK, Checking, Once
    <3> QED
      BY <3>1, <3>2
  <2>4. InHand'
    <3>1. sent'.nonce = Nonce /\ sent'.age = 0 /\ Base' = Base /\ Nonce \in Nat
      BY <2>1, <2>2 DEF Base
    <3>2. Sent(sent)'
      BY <2>1, <3>1, ExchangeShort DEF Sent
    <3>3. now <= 4 * (Base + turn)
      BY <2>1, <2>2 DEF ClockOK, InHand, NoRequestSent
    <3> QED
      BY <2>1, <2>2, <3>1, <3>2, <3>3 DEF InHand
  <2>5. OnTheWay'
    <3> SUFFICES ASSUME NEW d \in flight
                 PROVE  /\ d \in Replies /\ d.at <= now /\ d.nonce \in 1 .. Base + turn
      <4>1. \A d \in flight : d \in Replies /\ d.at <= now /\ d.nonce \in 1 .. Base + turn
        OBVIOUS
      <4>2. sent'.nonce = Base + turn + 1 /\ Base' = Base
        BY <2>1, <2>2 DEF Base
      <4> QED
        BY <2>1, <2>2, <4>1, <4>2 DEF OnTheWay, Replies
    <3>1. /\ d \in Replies /\ d.at <= now /\ d.nonce \in 1 .. Base + turn + 1
          /\ d.nonce # Base + turn + 1
      BY <2>1 DEF ClockOK, OnTheWay
    <3> QED
      BY <2>2, <3>1 DEF Replies
  <2>6. ClockRight'
    BY <2>1, SameClock
  <2> QED
    BY <2>3, <2>4, <2>5, <2>6 DEF ClockOK
<1>5. CASE NoNic
  <2>1. /\ pc = "clock" /\ pc' = "clock" /\ phase \in {"dns", "ntp"} /\ turn < 2
        /\ sent = NoRequestSent /\ turn' = turn + 1
        /\ UNCHANGED <<clockCase, now, skew, first, asked, phase, sent, flight, est, told>>
    BY <1>5 DEF NoNic, Asking, Idle, main
  <2>2. TurnDone
    BY <2>1 DEF TurnDone
  <2> QED
    BY <2>2, TurnEnds
<1>6. CASE NoAnswer
  <2>1. TurnDone
    BY <1>6 DEF NoAnswer, Asking, Idle, main, TurnDone, ClockOK, InHand
  <2> QED
    BY <2>1, TurnEnds
<1> QED
  BY <1>1, <1>2, <1>3, <1>4, <1>5, <1>6 DEF Sync

\* What is known while a request is in hand.
LEMMA Waiting ==
    ASSUME ClockOK, sent # NoRequestSent
    PROVE  /\ Base \in {0, 2} /\ turn \in 0 .. 1 /\ now \in 0 .. 16 /\ sent.nonce = Base + turn + 1
           /\ sent.age \in 0 .. 4 /\ sent.age <= Exchange
           /\ phase \in {"dns", "ntp"} /\ now <= 4 * (Base + turn) + sent.age
  BY ExchangeShort DEF Base, ClockOK, Checking, InHand, Sent

\* A server answers.
LEMMA ServerStep ==
    ASSUME ClockOK, ServerAnswers
    PROVE  ClockOK'
<1>1. /\ sent # NoRequestSent /\ pc' = pc
      /\ \A d \in flight : d.nonce # sent.nonce
      /\ UNCHANGED <<clockCase, now, skew, first, asked, phase, turn, sent, est, told>>
  BY DEF ServerAnswers, Idle, main
<1>2. PICK v \in {"good", "refused"} :
          flight' = flight \cup {[nonce |-> sent.nonce, v |-> v, at |-> now]}
  BY DEF ServerAnswers
<1>3. ClockCaseOK'
  BY <1>1, Zenon DEF ClockOK, ClockCaseOK, clockCase
<1>4. Checking' /\ Once' /\ InHand'
  BY <1>1, Zenon DEF ClockOK, Checking, Once, InHand, Sent, Base
<1>5. OnTheWay'
  <2> DEFINE r == [nonce |-> sent.nonce, v |-> v, at |-> now]
  <2>1. /\ r \in Replies /\ r.at <= now /\ r.nonce \in 1 .. Base + turn + 1
        /\ now - sent.age <= r.at
        /\ phase \in {"dns", "ntp"}
    BY <1>1, Waiting DEF Replies
  <2> HIDE DEF r
  <2>2. \A d \in flight' : d = r \/ d \in flight
    BY <1>2 DEF r
  <2>3. Base' = Base
    BY <1>1 DEF Base
  <2>4. \A d \in flight :
            /\ d \in Replies /\ d.at <= now
            /\ phase \in {"dns", "ntp"} /\ d.nonce \in 1 .. Base + turn + 1
            /\ d.nonce = sent.nonce => now - sent.age <= d.at
    BY DEF ClockOK, OnTheWay
  <2> QED
    BY <1>1, <2>1, <2>2, <2>3, <2>4, Zenon DEF OnTheWay
<1>6. ClockRight'
  BY <1>1, SameClock
<1> QED
  BY <1>3, <1>4, <1>5, <1>6 DEF ClockOK

\* A half second goes by: what was made since the request was sent still was.
LEMMA TickStep ==
    ASSUME ClockOK, ClockTick
    PROVE  ClockOK'
<1>1. /\ sent # NoRequestSent /\ pc = "clock" /\ pc' = pc /\ now' = now + 1 /\ sent.age < Exchange
      /\ sent' = [sent EXCEPT !.age = @ + 1]
      /\ UNCHANGED <<clockCase, skew, first, asked, phase, turn, flight, est, told>>
  BY DEF ClockTick, Asking, Idle, main
<1>2. /\ Sent(sent) /\ Sent(sent)' /\ sent'.age = sent.age + 1 /\ sent'.nonce = sent.nonce
      /\ sent' # NoRequestSent
  <2>1. Sent(sent)
    BY DEF ClockOK, InHand
  <2>2. sent.age \in Nat /\ sent.age + 1 \in 0 .. Exchange
    BY <1>1, <2>1, ExchangeShort DEF Sent
  <2>3. sent' = [nic |-> sent.nic, nonce |-> sent.nonce, age |-> sent.age + 1]
    BY <1>1, <2>1 DEF Sent
  <2>4. sent'.age # 0
    BY <2>2, <2>3
  <2> QED
    BY <2>1, <2>2, <2>3, <2>4 DEF Sent, NoRequestSent
<1>3. ClockCaseOK'
  BY <1>1, Zenon DEF ClockOK, ClockCaseOK, clockCase
<1>4. Checking' /\ Once'
  <2>1. Checking'
    BY <1>1, Waiting, ExchangeShort DEF ClockOK, Checking
  <2>2. phase # "none"
    BY <1>1, Waiting
  <2>3. Once'
    BY <1>1, <2>2, Zenon DEF ClockOK, Once
  <2> QED
    BY <2>1, <2>3
<1>5. Base' = Base
  BY <1>1 DEF Base
<1>6. InHand'
  BY <1>1, <1>2, <1>5, Waiting DEF InHand
<1>7. OnTheWay'
  <2> SUFFICES ASSUME NEW d \in flight
               PROVE  /\ d \in Replies /\ d.at <= now + 1
                      /\ phase \in {"dns", "ntp"} /\ d.nonce \in 1 .. Base + turn + 1
                      /\ d.nonce = sent.nonce => (now + 1) - (sent.age + 1) <= d.at
    BY <1>1, <1>2, <1>5, Zenon DEF OnTheWay
  <2>1. /\ d \in Replies /\ d.at <= now
        /\ phase \in {"dns", "ntp"} /\ d.nonce \in 1 .. Base + turn + 1
        /\ d.nonce = sent.nonce => now - sent.age <= d.at
    BY DEF ClockOK, OnTheWay
  <2>2. d.at \in Nat
    BY <2>1 DEF Replies
  <2> QED
    BY <1>1, <2>1, <2>2, Waiting
<1>8. ClockRight'
  <2>1. est = NoTime
    BY <1>1, Zenon DEF ClockOK, Once
  <2> QED
    BY <1>1, <2>1, SameClock
<1> QED
  BY <1>3, <1>4, <1>6, <1>7, <1>8 DEF ClockOK

\* A reply that is refused, or names the server.
LEMMA ArrivesStep ==
    ASSUME ClockOK, Arrives
    PROVE  ClockOK'
<1>1. /\ sent # NoRequestSent /\ pc = "clock" /\ pc' = pc /\ sent' = NoRequestSent
      /\ UNCHANGED <<clockCase, now, skew, first, asked, est, told>>
      /\ phase \in {"dns", "ntp"}
  BY DEF Arrives, Asking, Idle, main
<1>2. CASE phase = "ntp"
  <2>1. TurnDone
    BY <1>1, <1>2, Waiting DEF Arrives, TurnDone
  <2> QED
    BY <2>1, TurnEnds
<1>3. CASE phase = "dns"
  <2>1. phase' \in {"failed", "ntp"} /\ turn' = 0 /\ flight' = {}
    BY <1>3 DEF Arrives
  <2>2. ClockCaseOK'
    BY <1>1, Zenon DEF ClockOK, ClockCaseOK, clockCase
  <2>3. Checking' /\ Once'
    <3>1. Checking'
      BY <1>1, <2>1 DEF ClockOK, Checking
    <3>2. phase # "none" /\ phase' # "none"
      BY <1>1, <2>1
    <3>3. Once'
      BY <1>1, <3>2, Zenon DEF ClockOK, Once
    <3> QED
      BY <3>1, <3>3
  <2>4. InHand'
    <3>1. Sent(sent)' /\ sent'.age = 0
      BY <1>1, ExchangeShort DEF Sent, NoRequestSent
    <3>2. now <= 8
      BY <1>1, <1>3, Waiting DEF Base
    <3> QED
      BY <1>1, <2>1, <3>1, <3>2, Waiting DEF InHand, Base
  <2>5. OnTheWay'
    BY <2>1, Zenon DEF OnTheWay
  <2>6. ClockRight'
    BY <1>1, SameClock
  <2> QED
    BY <2>2, <2>3, <2>4, <2>5, <2>6 DEF ClockOK
<1> QED
  BY <1>1, <1>2, <1>3

\* A time of those years is on a day of the calendar.
LEMMA InCalendar ==
    ASSUME NEW t \in Int, 0 <= t, t < 24836 * 86400 + 86400
    PROVE  t \div Day \in Calendar
  BY SMT DEF Day, Calendar

\* A reply is believed: it was made since the request was sent, so the reading is right to
\* half the round trip; and the RTC is left as it is, or set by civil, to that reading.
LEMMA BelievedStep ==
    ASSUME ClockOK, Believed
    PROVE  ClockOK'
<1>1. /\ sent # NoRequestSent /\ pc = "clock" /\ phase = "ntp"
      /\ UNCHANGED <<clockCase, now, first, asked>>
  BY DEF Believed, Asking, Idle
<1>2. PICK d \in flight :
          /\ Ours(d) /\ d.v = "good" /\ est' = Estimate(d)
          /\ \E secs \in {from * Day + Estimate(d).at \div 4} :
                 IF ~Needed(secs) THEN Leave("synced") /\ UNCHANGED skew
                 ELSE \/ Leave("synced") /\ skew' = Counted(Civil(secs)) - Truth
                      \/ Leave("unsynced") /\ UNCHANGED skew
  BY DEF Believed
<1> DEFINE mid == 2 * d.at + sent.age
           e == mid \div 4
           secs == from * Day + e
<1>3. d.at \in Nat /\ now - sent.age <= d.at /\ d.at <= now
  <2>1. d.nonce = sent.nonce
    BY <1>2 DEF Ours
  <2> QED
    BY <2>1 DEF ClockOK, OnTheWay, Replies
<1>4. now \in 0 .. 16 /\ sent.age \in 0 .. 4
  BY <1>1, Waiting
<1>5. e \in 0 .. 9 /\ e - now \div 2 \in -1 .. 1 /\ now \div 2 \in 0 .. 8
  BY <1>3, <1>4, Off
<1>6. est' = [at |-> mid, rtt |-> sent.age] /\ Estimate(d).at = mid
  BY <1>2 DEF Estimate
<1>7. HalfTheRoundTrip'
  BY <1>1, <1>3, <1>4, <1>6 DEF HalfTheRoundTrip
<1>8. skew = first /\ told = ""
  BY <1>1, Zenon DEF ClockOK, Once
<1>9. /\ \/ Leave("synced") /\ skew' = skew /\ ~Needed(secs)
         \/ Leave("synced") /\ skew' = Counted(Civil(secs)) - Truth
         \/ Leave("unsynced") /\ skew' = skew
  BY <1>2, <1>6
<1> HIDE DEF mid, e, secs
<1> DEFINE base == from * Day
<1>10. /\ base \in Int /\ 86400 <= base /\ base <= 24835 * 86400 /\ skew \in Int
       /\ skew # Lost => 86400 <= base + skew /\ base + skew <= 24835 * 86400
  <2>1. Dated(from, skew)
    BY <1>8, Zenon DEF ClockOK, ClockCaseOK
  <2> QED
    BY SMT, <2>1 DEF Dated, Day
<1>a. Truth = base + now \div 2 /\ secs = base + e
  BY Zenon DEF Truth, secs
<1> HIDE DEF base
<1>b. now \div 2 \in 0 .. 8
  BY <1>5
<1>c. Truth \in Int /\ secs \in Int /\ secs - Truth \in -1 .. 1
  BY SMT, <1>5, <1>10, <1>a
<1>11. secs \div Day \in Calendar
  BY SMT, <1>5, <1>10, <1>a, InCalendar
<1>12. ASSUME ~Needed(secs) PROVE skew \in -2 .. 2
  <2>1. Unix(Rtc) # -1 /\ ~(Unix(Rtc) - secs > 1) /\ ~(secs - Unix(Rtc) > 1)
    BY <1>12, Zenon DEF Needed
  <2>2. skew # Lost
    <3>1. ASSUME skew = Lost PROVE Unix(Rtc) = -1
      <4>1. Rtc.month = 0
        BY <3>1 DEF Rtc
      <4> QED
        BY <4>1 DEF Unix
    <3> QED
      BY <2>1, <3>1
  <2>3. Rtc = Reads(Truth + skew)
    BY SMT, <2>2 DEF Rtc
  <2>4. Truth + skew \in Int
    BY SMT, <1>10, <1>c
  <2>5. (Truth + skew) \div Day \in Calendar
    <3>1. 0 <= Truth + skew /\ Truth + skew < 24836 * 86400 + 86400
      BY SMT, <1>10, <1>a, <1>b, <2>2
    <3> QED
      BY SMT, <2>4, <3>1, InCalendar
  <2>6. Unix(Rtc) = Truth + skew
    BY <2>3, <2>4, <2>5, CalendarRight, Zenon
  <2> QED
    BY SMT, <1>10, <1>c, <2>1, <2>6
<1>13. Counted(Civil(secs)) = secs
  BY <1>11, <1>c, CalendarRight, Zenon
<1>14. /\ told' = "synced" => skew' \in -2 .. 2
       /\ told' = "unsynced" => skew' = first'
  <2>1. CASE Leave("synced") /\ skew' = skew /\ ~Needed(secs)
    BY <1>12, <2>1 DEF Leave
  <2>2. CASE Leave("synced") /\ skew' = Counted(Civil(secs)) - Truth
    BY <1>c, <1>13, <2>2 DEF Leave
  <2>3. CASE Leave("unsynced") /\ skew' = skew
    BY <1>1, <1>8, <2>3 DEF Leave
  <2> QED
    BY <1>9, <2>1, <2>2, <2>3
<1>15. ClockRight'
  BY <1>7, <1>14 DEF ClockRight, ToldTheTruth
<1> QED
  BY <1>1, <1>9, <1>15, Leaves

\* Every step keeps what the check goes by.
LEMMA ClockStep ==
    ASSUME ClockOK, [StartNext]_allVars
    PROVE  ClockOK'
BY ClockApart, ClockStays, SyncStep, ServerStep, TickStep, ArrivesStep, BelievedStep, Zenon

\* At first nothing was asked, and the dates are those of the case.
LEMMA ClockBegins == StartInit => ClockOK
<1> SUFFICES ASSUME StartInit PROVE ClockOK
  OBVIOUS
<1>1. PICK c \in Cases : ClockCase(c)
  BY DEF StartInit
<1>2. /\ now = 0 /\ asked = FALSE /\ phase = "none" /\ turn = 0 /\ sent = NoRequestSent
      /\ flight = {} /\ est = NoTime /\ told = "" /\ pc = "idle" /\ skew = first
  BY <1>1 DEF StartInit, ClockInit, NicInit, ClockCase
<1>3. ClockCaseOK
  <2>1. from = c.from /\ first = c.skew
    BY <1>1 DEF ClockCase
  <2>2. Dated(c.from, c.skew)
    BY ClockAssumption, Zenon
  <2> QED
    BY <2>1, <2>2, Zenon DEF ClockCaseOK
<1>4. Checking /\ Once
  <2>1. Checking
    <3>1. now = 0 /\ phase = "none" /\ turn = 0
      BY <1>2
    <3> QED
      BY <3>1 DEF Checking
  <2>2. Once
    BY <1>2, Zenon DEF Once
  <2> QED
    BY <2>1, <2>2
<1>5. InHand /\ OnTheWay
  <2>1. Sent(sent)
    <3>1. sent = NoRequestSent
      BY <1>2
    <3> QED
      BY <3>1, ExchangeShort DEF Sent, NoRequestSent
  <2> QED
    BY <1>2, <2>1 DEF InHand, OnTheWay
<1>6. ClockRight
  BY <1>2 DEF ClockRight, HalfTheRoundTrip, ToldTheTruth
<1> QED
  BY <1>3, <1>4, <1>5, <1>6 DEF ClockOK

\* The clock's reading is as good as its round trip, whatever replies come late, twice
\* or to another request; and Linux is told it is right only of one that is, whatever
\* the RTC read before and the date, from 1970 to 2037 (clock.rs: sync; sntp.rs: civil).
THEOREM ClockAlwaysRight == StartSpec => []ClockRight
<1>1. StartInit => ClockOK
  BY ClockBegins
<1>2. ClockOK /\ [StartNext]_allVars => ClockOK'
  BY ClockStep
<1>3. ClockOK => ClockRight
  BY DEF ClockOK
<1> QED
  BY <1>1, <1>2, <1>3, PTL DEF StartSpec

------------------------------------------------------------------------------
(* The stack (Nics): frames, sockets and turns.                            *)

\* The first of some positions is one of them.
LEMMA FirstIsIn ==
    ASSUME NEW S, S \subseteq Positions, S # {}
    PROVE  First(S) \in S
<1> DEFINE T == {Key(p) : p \in S}
<1>1. \A p \in S : Key(p) \in Nat
  BY DEF Key, Positions
<1>2. PICK k \in T : \A l \in T : ~(<<l, k>> \in OpToRel(<, Nat))
  <2>1. T \subseteq Nat /\ T # {}
    BY <1>1
  <2> HIDE DEF T
  <2> QED
    BY <2>1, NatLessThanWellFounded, WFMin, Zenon
<1>3. PICK p \in S : k = Key(p)
  OBVIOUS
<1>4. \A q \in S : Key(p) <= Key(q)
  <2> SUFFICES ASSUME NEW q \in S PROVE ~(Key(q) < Key(p))
    BY <1>1
  <2>1. ~(<<Key(q), Key(p)>> \in OpToRel(<, Nat))
    BY <1>2, <1>3
  <2> HIDE DEF T
  <2>2. <<Key(q), Key(p)>> \in Nat \X Nat
    BY <1>1
  <2> QED
    BY <2>1, <2>2 DEF OpToRel
<1> HIDE DEF T
<1> QED
  BY <1>4, Zenon DEF First

\* What is known of the stack's state.
Programs == Seq({"config", "drivers", "connect", "drop", "release", "hold", "clock"})
Attempts == [p : Nat, st : {"none", "syn", "est", "reset"}, age : Nat]
Shaped ==
    /\ pc \in {"idle", "config", "drivers", "up", "look", "pick", "hold", "clock"}
    /\ prog \in Programs /\ step \in 0 .. Len(prog) /\ (pc # "idle" => step < Len(prog))
    /\ age \in Nat
    /\ lease \in [Index -> BOOLEAN] /\ mtu \in [Index -> {DefaultMtu, Jumbo}]
    /\ pref \in {0} \cup Positions /\ tried \subseteq Positions
    /\ held \subseteq Index
    /\ opened \in Seq(Range(opened)) /\ Len(opened) <= Len(snps)

\* There is an attempt only while a connect looks at it, at a position not tried yet.
Attempting ==
    /\ try \in Attempts
    /\ try # NoTry => try.p \in Positions /\ try.st # "none" /\ try.p \notin tried
    /\ pc # "look" => try = NoTry
    /\ pc \notin {"look", "pick"} => tried = {}

\* Each socket is a connection's, or the attempt's.
Owned ==
    socks \in [Index -> Int] /\ mine \in [Index -> Nat] /\ NoSocketLeft

\* A queue none of whose frames is freed while the driver may read it.
Holds(q) ==
    /\ q = [inflight |-> q.inflight, own |-> q.own, leaked |-> q.leaked, sent |-> q.sent]
    /\ q.own \subseteq q.inflight \cup q.leaked
Queued == DOMAIN tx = Index /\ \A i \in Index : Holds(tx[i])

StackOK == Shaped /\ Attempting /\ Owned /\ Queued

\* A position's ticks with its lease are counted while there is a connect.
Ticking ==
    /\ had \in [Index -> Nat \cup {-1}]
    /\ \A i \in Index : ~lease[i] \/ pc \notin {"look", "pick"} => had[i] \in {0, -1}

\* What of its ticks the attempt in hand is answerable for, and the others' turns.
Part(p) == IF p \in tried THEN Answer
           ELSE IF try.p = p THEN try.age ELSE Least(try.age, TryFor)
Turned(p) == TryFor * Cardinality(tried \ {p})

\* Of a position on the target's wire that kept its lease: its own try answers before
\* it is given up, and the others' turns and the attempt in hand are all it waits for.
TriedLate(p) == p \in tried => pc = "pick" /\ Spent
Soon(p) == try.p = p => lease[p] /\ try.age <= Answer
Waits(p) == pc = "look" /\ looked /\ try.p # p => had[p] = 0 \/ (try # NoTry /\ try.age < TryFor)
Due(p) == had[p] <= Turned(p) + Part(p) + 1

Turn(p) == TriedLate(p) /\ Soon(p) /\ Waits(p) /\ Due(p)
Turns ==
    "port" \notin world /\ try.st \in {"none", "syn"} =>
        \A p \in Positions : opened[p] \in wire /\ had[p] # -1 => Turn(p)

TurnsOK == Ticking /\ Turns

\* What an operation's beginning and its end leave of the stack, and most else does.
Beside ==
    UNCHANGED <<wire, world, prog, held, opened, pref, lease, mtu, tx>> /\ Len(snps') = Len(snps)
Begins ==
    /\ pc \in {"idle", "up"} /\ (pc = "idle" => step < Len(prog))
    /\ pc' \in {"config", "drivers", "up", "look", "hold", "clock"}
    /\ age' = 0 /\ looked' = FALSE
    /\ UNCHANGED <<step, tried, try, mine, socks, had>>
Ends ==
    /\ pc # "look" /\ (pc = "idle" => step < Len(prog))
    /\ pc' = "idle" /\ step' = step + 1 /\ age' = 0 /\ looked' = FALSE
    /\ tried' = {} /\ try' = NoTry /\ had' = [i \in Index |-> 0]
Rests == UNCHANGED <<pc, step, age, looked, tried, try, mine, socks, had>>

\* The steps that are the stack's own; all others begin or end something, or neither.
OwnSteps ==
    \/ Drop \/ Open \/ Release \/ Established \/ Refused \/ GiveUp \/ Patient \/ ToPick \/ Try
    \/ NoneLeased \/ Configured \/ Deconfigured \/ Answers \/ Transmits \/ Tick

\* Two sequences with the same domain are as long.
LEMMA SameLength ==
    ASSUME NEW m \in Nat, NEW n \in Nat, 1 .. m = 1 .. n
    PROVE  m = n
<1>1. m > n => m \in 1 .. m /\ m \notin 1 .. n
  OBVIOUS
<1>2. n > m => n \in 1 .. n /\ n \notin 1 .. m
  OBVIOUS
<1> QED
  BY <1>1, <1>2

\* A step is one of those, or leaves the stack as it is but for beginning or ending an
\* operation.
LEMMA StackSteps ==
    ASSUME CaseOK, [StartNext]_allVars
    PROVE  \/ Beside /\ (Begins \/ Rests \/ (Ends /\ UNCHANGED <<mine, socks>>))
           \/ OwnSteps
<1>0. Index' = Index /\ Len(snps') = Len(snps)
  <2>1. CaseOK' /\ Index' = Index
    BY CaseStep
  <2>2. Len(snps) \in Nat /\ Len(snps') \in Nat /\ 1 .. Len(snps) = 1 .. Len(snps')
    BY <2>1, LenProperties DEF CaseOK, Index
  <2>3. Len(snps) = Len(snps')
    BY <2>2, SameLength
  <2> QED
    BY <2>1, <2>3
<1> USE <1>0 DEF Beside, Begins, Ends, Rests, main, case, stack, counts, Ended, Begin, More
<1>1. CASE StartConnect \/ StartHold \/ NoSnp \/ Fails
  BY <1>1 DEF StartConnect, StartHold, NoSnp, Fails
<1>2. CASE Serves \/ LinkTurns \/ SnpsAppear \/ ClientActs
  BY <1>2 DEF Serves, LinkTurns, SnpsAppear, ClientActs
<1>3. CASE Sync
  BY <1>3 DEF Sync, StartClock, NotChecked, Chosen, Request, NoNic, Unreachable, NoAnswer,
     Choosing, Asking, Leave, Moved
<1>4. CASE ServerAnswers \/ Arrives \/ Believed \/ ClockTick
  BY <1>4 DEF ServerAnswers, Arrives, Believed, ClockTick, Asking, Leave, Moved
<1>5. CASE Handing
  BY <1>5 DEF Handing, Hand, SetChunk, ChunkRefused, SetHeader, Starting, EndedHere, netVars,
     vars, nicVars
<1>6. CASE Loaded
  BY <1>6 DEF Loaded, Loading, EndedHere, netVars
<1>7. CASE ListDrivers \/ PlatformFirst \/ LoadOne \/ BindThem
  BY <1>7 DEF ListDrivers, PlatformFirst, LoadOne, BindThem, Loading, StillLoading, Starting,
     EndedHere, netVars
<1>8. CASE \E i \in Index : NotHeld(i) \/ Disconnect(i) \/ WillNotLetGo(i) \/ GiveIt(i)
  BY <1>8 DEF NotHeld, Disconnect, WillNotLetGo, GiveIt, Loading, StillLoading, TakeFrame, netVars
<1>9. CASE UNCHANGED allVars
  BY <1>9 DEF allVars, vars, nicVars
<1>10. CASE Loop
  BY <1>1, <1>10 DEF OwnSteps, Loop
<1>11. CASE World
  BY <1>2, <1>11 DEF OwnSteps, World
<1> QED
  BY <1>2, <1>3, <1>4, <1>5, <1>6, <1>7, <1>8, <1>9, <1>10, <1>11
     DEF OwnSteps, StartNext, Next, NicNext, Drivers

\* What the driver hands back is its own no more before it is freed; what is over the
\* bound is not freed.
LEMMA ReclaimHolds ==
    ASSUME NEW q, Holds(q), NEW r \in Reclaim(q)
    PROVE  Holds(r)
<1>1. PICK back \in SUBSET q.own :
          r \in Bounded([q EXCEPT !.own = @ \ back, !.inflight = @ \ back])
  BY DEF Reclaim
<1> DEFINE s == [q EXCEPT !.own = @ \ back, !.inflight = @ \ back]
<1>2. /\ s = [inflight |-> q.inflight \ back, own |-> q.own \ back, leaked |-> q.leaked,
              sent |-> q.sent]
      /\ s.own \subseteq s.inflight \cup s.leaked
  <2>1. PICK f, o, l, n : q = [inflight |-> f, own |-> o, leaked |-> l, sent |-> n]
    BY Zenon DEF Holds
  <2>2. q.inflight = f /\ q.own = o /\ q.leaked = l /\ q.sent = n
    BY <2>1
  <2>3. ASSUME NEW a, NEW b
        PROVE  [q EXCEPT !.own = a, !.inflight = b]
                   = [inflight |-> b, own |-> a, leaked |-> l, sent |-> n]
    <3> DEFINE g == [q EXCEPT !.own = a]
    <3>1. g = [inflight |-> f, own |-> a, leaked |-> l, sent |-> n]
      BY <2>1
    <3> HIDE DEF g
    <3>2. [g EXCEPT !.inflight = b] = [inflight |-> b, own |-> a, leaked |-> l, sent |-> n]
      BY <3>1
    <3> QED
      BY <3>2, Zenon DEF g
  <2>4. s = [inflight |-> f \ back, own |-> o \ back, leaked |-> l, sent |-> n]
    BY <2>2, <2>3, Zenon
  <2> QED
    BY <2>2, <2>4 DEF Holds
<1> HIDE DEF s
<1>3. PICK over \in SUBSET s.inflight :
          r = [s EXCEPT !.inflight = @ \ over, !.leaked = @ \cup over]
  BY <1>1, Zenon DEF Bounded, Forgotten, s
<1>4. r = [inflight |-> s.inflight \ over, own |-> s.own, leaked |-> s.leaked \cup over,
           sent |-> s.sent]
  BY <1>2, <1>3
<1> QED
  BY <1>2, <1>4 DEF Holds

\* A frame sent is allocated, and nothing before it is freed.
LEMMA SendsHold ==
    ASSUME NEW q, Holds(q), NEW r \in Sends(q)
    PROVE  Holds(r)
<1>1. \A s : Holds(s) => Holds(Taken(s))
  <2> SUFFICES ASSUME NEW s, Holds(s) PROVE Holds(Taken(s))
    OBVIOUS
  <2> DEFINE a == Fresh(s)
  <2>1. Taken(s) = [inflight |-> s.inflight \cup {a}, own |-> s.own \cup {a}, leaked |-> s.leaked,
                    sent |-> s.sent + 1]
    <3>1. PICK f, o, l, n : s = [inflight |-> f, own |-> o, leaked |-> l, sent |-> n]
      BY Zenon DEF Holds
    <3> HIDE DEF a
    <3>2. Taken(s) = [s EXCEPT !.own = @ \cup {a}, !.inflight = @ \cup {a}, !.sent = @ + 1]
      BY Zenon DEF Taken, a
    <3> QED
      BY <3>1, <3>2
  <2> HIDE DEF a
  <2> QED
    BY <2>1 DEF Holds
<1>2. \A s \in Reclaim(q) : Holds(s) /\ \A t \in Reclaim(s) : Holds(t)
  BY ReclaimHolds
<1> DEFINE again == UNION {Reclaim(s) : s \in Reclaim(q)}
<1>3. r \in {q} \cup {Taken(s) : s \in Reclaim(q) \cup again} \cup again
  BY Zenon DEF Sends
<1>4. \A s \in again : Holds(s)
  BY <1>2
<1> HIDE DEF again
<1> QED
  BY <1>1, <1>2, <1>3, <1>4, Zenon

\* The frames are held whatever the step.
LEMMA QueuedStep ==
    ASSUME CaseOK, StackOK, [StartNext]_allVars
    PROVE  Queued'
<1>0. Index' = Index
  BY CaseStep
<1>1. CASE UNCHANGED tx
  BY <1>0, <1>1, Zenon DEF StackOK, Queued
<1>2. CASE \E p \in Index : \E q \in Sends(tx[p]) \cup {tx[p]} : tx' = [tx EXCEPT ![p] = q]
  BY <1>0, <1>2, SendsHold DEF StackOK, Queued
<1>3. CASE Release
  <2>1. tx' = [i \in Index |-> [tx[i] EXCEPT !.inflight = {}, !.leaked = Allocated(tx[i])]]
    BY <1>3 DEF Release
  <2>2. ASSUME NEW i \in Index
        PROVE  Holds(tx'[i])
    <3> DEFINE q == tx[i]
    <3>1. tx'[i] = [q EXCEPT !.inflight = {}, !.leaked = Allocated(q)] /\ Holds(q)
      BY <2>1 DEF StackOK, Queued
    <3> HIDE DEF q
    <3>2. tx'[i] = [inflight |-> {}, own |-> q.own, leaked |-> Allocated(q), sent |-> q.sent]
      BY <3>1 DEF Holds
    <3> QED
      BY <3>1, <3>2 DEF Holds, Allocated
  <2>3. DOMAIN tx' = Index
    BY <2>1
  <2> QED
    BY <1>0, <2>2, <2>3, Zenon DEF Queued
<1>4. Positions \subseteq Index
  BY DEF StackOK, Shaped, Positions, Index, CaseOK
<1>5. CASE Try
  <2>1. PICK p : /\ p = First(Leased \ Left)
                 /\ \E q \in (IF "target" \in primed[p] THEN {tx[p]} ELSE Sends(tx[p])) :
                        tx' = [tx EXCEPT ![p] = q]
    BY <1>5 DEF Try
  <2>2. p \in Positions
    <3>1. Leased \ Left \subseteq Positions /\ Leased \ Left # {}
      BY <1>5 DEF Try, Left, Leased
    <3> QED
      BY <2>1, <3>1, FirstIsIn
  <2> QED
    BY <1>2, <1>4, <2>1, <2>2
<1>6. CASE Configured
  <2>1. PICK p \in Positions \ Leased, offered \in IF "mtu" \in world THEN {0, Jumbo} ELSE {0} :
            \E q \in Sends(tx[p]) : tx' = [tx EXCEPT ![p] = q]
    BY <1>6 DEF Configured
  <2> QED
    BY <1>2, <1>4, <2>1
<1>7. CASE Transmits
  BY <1>2, <1>4, <1>7 DEF Transmits
<1>8. CASE Beside
  BY <1>1, <1>8 DEF Beside
<1>9. CASE Drop \/ Open \/ Established \/ Refused \/ GiveUp \/ Patient \/ ToPick
           \/ NoneLeased \/ Deconfigured \/ Answers \/ Tick
  BY <1>1, <1>9 DEF Drop, Open, Established, Refused, GiveUp, Patient, ToPick, NoneLeased,
     Deconfigured, Answers, Tick, stack
<1> QED
  BY <1>3, <1>5, <1>6, <1>7, <1>8, <1>9, StackSteps DEF OwnSteps

\* What opens is a sequence, no longer than the SNPs are.
LEMMA OpeningSize ==
    ASSUME CaseOK
    PROVE  Opening \in Seq(Range(Opening)) /\ Len(Opening) <= Len(snps)
<1> DEFINE n == Cardinality(Usable)
<1>1. Len(snps) \in Nat
  BY LenProperties DEF CaseOK
<1>2. n \in Nat /\ n <= Len(snps)
  <2>1. IsFiniteSet(Index) /\ Cardinality(Index) = Len(snps)
    <3>1. IsFiniteSet(1 .. Len(snps)) /\ Cardinality(1 .. Len(snps)) =
              IF 1 > Len(snps) THEN 0 ELSE Len(snps) - 1 + 1
      BY <1>1, FS_Interval, 1 \in Int, Len(snps) \in Int
    <3> QED
      BY <1>1, <3>1 DEF Index
  <2>2. Usable \subseteq Index
    BY DEF Usable
  <2> QED
    BY <2>1, <2>2, FS_Subset, FS_CardinalityType
<1> HIDE DEF n
<1>3. PICK e : Opening = [p \in 1 .. n |-> e[p]]
  <2>1. Opening = [p \in 1 .. n |-> Opening[p]]
    BY DEF Opening, n
  <2> QED
    BY <2>1
<1>4. Opening \in [1 .. n -> Range(Opening)]
  BY <1>3 DEF Range
<1>5. Opening \in Seq(Range(Opening))
  BY <1>2, <1>4, SeqDef
<1>6. Len(Opening) = n
  <2>1. Len(Opening) \in Nat /\ DOMAIN Opening = 1 .. Len(Opening) /\ DOMAIN Opening = 1 .. n
    BY <1>4, <1>5, LenProperties
  <2> QED
    BY <1>2, <2>1, SameLength
<1> QED
  BY <1>2, <1>5, <1>6

\* The shape of the state, and of the attempt.
LEMMA ShapedStep ==
    ASSUME CaseOK, StackOK, [StartNext]_allVars
    PROVE  Shaped' /\ Attempting'
<1>0. Index' = Index
  BY CaseStep
<1>1. Len(prog) \in Nat
  BY DEF StackOK, Shaped, Programs
<1>2. NoTry \in Attempts /\ NoTry.st = "none" /\ NoTry.p = 0
  BY DEF NoTry, Attempts
<1>3. CASE Beside /\ (Begins \/ Rests \/ (Ends /\ UNCHANGED <<mine, socks>>))
  <2>1. UNCHANGED <<prog, held, opened, pref, lease, mtu>> /\ Len(snps') = Len(snps)
    BY <1>3 DEF Beside
  <2>2. /\ pc' \in {"idle", "config", "drivers", "up", "look", "pick", "hold", "clock"}
        /\ step' \in 0 .. Len(prog) /\ (pc' # "idle" => step' < Len(prog)) /\ age' \in Nat
        /\ (UNCHANGED tried \/ tried' = {})
    BY <1>1, <1>3 DEF Begins, Rests, Ends, StackOK, Shaped
  <2>3. Shaped'
    BY <1>0, <2>1, <2>2 DEF StackOK, Shaped, Positions
  <2>4. Attempting'
    BY <1>2, <1>3, <2>1 DEF Begins, Rests, Ends, StackOK, Attempting, Positions
  <2> QED
    BY <2>3, <2>4
<1> USE DEF case, stack, main, counts, More, Ended, Begin
<1> USE <1>0, <1>1, <1>2 DEF StackOK, Shaped, Attempting, Positions
<1>4. CASE Drop \/ Refused
  BY <1>4 DEF Drop, Refused, Looking
<1>5. CASE Established
  BY <1>5 DEF Established, Looking
<1>6. CASE GiveUp
  BY <1>6 DEF GiveUp, Abandon, Looking
<1>7. CASE Patient \/ ToPick \/ NoneLeased
  BY <1>7 DEF Patient, ToPick, NoneLeased, Looking
<1>8. CASE Open
  <2>1. opened' \in Seq(Range(opened')) /\ Len(opened') <= Len(snps)
    BY <1>8, OpeningSize DEF Open
  <2>2. /\ UNCHANGED <<snps, prog, lease, mtu>> /\ held' \subseteq Index /\ pref' = 0
        /\ try' = NoTry /\ tried' = {} /\ age' = 0
        /\ \/ pc' = "idle" /\ step' = step + 1
           \/ pc' \in {"hold", "look"} /\ step' = step
    BY <1>8 DEF Open
  <2>3. pc = "up" /\ step' \in 0 .. Len(prog) /\ (pc' # "idle" => step' < Len(prog))
    <3>1. pc = "up"
      BY <1>8 DEF Open
    <3>2. step \in 0 .. Len(prog) /\ step < Len(prog)
      BY <3>1, "up" # "idle"
    <3> HIDE DEF StackOK
    <3> QED
      BY <2>2, <3>1, <3>2
  <2>4. Attempting'
    BY <2>2
  <2>5. Shaped'
    BY <2>1, <2>2, <2>3
  <2> QED
    BY <2>4, <2>5
<1>9. CASE Release
  <2>1. opened' = <<>> /\ opened' \in Seq(Range(opened')) /\ Len(opened') = 0 /\ Len(snps) \in Nat
    <3>1. opened' = <<>>
      BY <1>9 DEF Release
    <3>2. \A S : <<>> \in Seq(S) /\ Len(<<>>) = 0
      BY EmptySeq
    <3>3. Len(snps) \in Nat
      BY LenProperties DEF CaseOK
    <3> HIDE DEF StackOK
    <3> QED
      BY <3>1, <3>2, <3>3
  <2>2. /\ UNCHANGED <<snps, prog>> /\ held' \subseteq Index /\ pref' = 0
        /\ try' = NoTry /\ tried' = {} /\ age' = 0 /\ pc' = "idle" /\ step' = step + 1
    BY <1>9 DEF Release
  <2>3. lease' \in [Index -> BOOLEAN] /\ mtu' \in [Index -> {DefaultMtu, Jumbo}]
    BY <1>9 DEF Release
  <2>4. step' \in 0 .. Len(prog)
    <3>1. step < Len(prog)
      BY <1>9 DEF Release
    <3>2. step \in 0 .. Len(prog)
      OBVIOUS
    <3> HIDE DEF StackOK
    <3> QED
      BY <2>2, <3>1, <3>2
  <2>5. Attempting'
    BY <2>2
  <2>6. Shaped'
    BY <2>1, <2>2, <2>3, <2>4
  <2> QED
    BY <2>5, <2>6
<1>10. CASE Try
  <2> DEFINE p == First(Leased \ Left)
  <2>1. p \in Leased \ Left
    <3>1. Leased \ Left \subseteq Positions /\ Leased \ Left # {}
      BY <1>10 DEF Try, Left, Leased
    <3> QED
      BY <3>1, FirstIsIn
  <2>2. Left \in {{}, tried}
    BY DEF Left
  <2> HIDE DEF p
  <2>3. try' = [p |-> p, st |-> "syn", age |-> 0] /\ tried' = Left /\ pc' = "look" /\ pc = "pick"
    BY <1>10 DEF Try, p
  <2>4. UNCHANGED <<snps, prog, held, opened, pref, lease, mtu, step, age>>
    BY <1>10 DEF Try
  <2>5. p \in Positions /\ p \notin Left /\ p \in Nat
    BY <2>1 DEF Leased
  <2>6. Attempting'
    BY <2>2, <2>3, <2>4, <2>5 DEF Attempts
  <2>7. Shaped'
    BY <2>2, <2>3, <2>4
  <2> QED
    BY <2>6, <2>7
<1>11. CASE Configured
  <2>1. PICK p \in Positions \ Leased, offered \in IF "mtu" \in world THEN {0, Jumbo} ELSE {0} :
            /\ lease' = [lease EXCEPT ![p] = TRUE]
            /\ mtu' = [mtu EXCEPT ![p] = LinkMtu(Jumbo, offered)]
    BY <1>11, Zenon DEF Configured
  <2>2. LinkMtu(Jumbo, offered) \in {DefaultMtu, Jumbo}
    BY <2>1 DEF LinkMtu, DefaultMtu, Jumbo
  <2>3. lease' \in [Index -> BOOLEAN] /\ mtu' \in [Index -> {DefaultMtu, Jumbo}]
    BY <2>1, <2>2
  <2>4. UNCHANGED <<snps, prog, held, opened, pref, main>>
    BY <1>11 DEF Configured
  <2> QED
    BY <2>3, <2>4
<1>12. CASE Deconfigured
  BY <1>12 DEF Deconfigured
<1>13. CASE Answers
  <2>1. /\ try # NoTry
        /\ UNCHANGED <<snps, prog, held, opened, pref, lease, mtu, step, pc, age, tried>>
    BY <1>13 DEF Answers
  <2>2. PICK st \in {"est", "reset"} : try' = [try EXCEPT !.st = st]
    BY <1>13 DEF Answers
  <2>3. try' \in Attempts /\ try'.p = try.p /\ try'.st # "none"
    BY <2>2 DEF Attempts
  <2> QED
    BY <1>13, <2>1, <2>3 DEF Answers
<1>14. CASE Transmits
  BY <1>14 DEF Transmits
<1>15. CASE Tick
  <2>1. UNCHANGED <<snps, prog, held, opened, pref, lease, mtu, step, pc, tried>> /\ age' \in Nat
    BY <1>15 DEF Tick
  <2>2. try' \in Attempts /\ try'.p = try.p /\ try'.st = try.st /\ (try = NoTry => try' = NoTry)
    BY <1>15 DEF Tick, Attempts
  <2> QED
    BY <2>1, <2>2
<1> QED
  BY <1>3, <1>4, <1>5, <1>6, <1>7, <1>8, <1>9, <1>10, <1>11, <1>12, <1>13, <1>14, <1>15, StackSteps
     DEF OwnSteps

\* A socket goes with the attempt it was for, or is the caller's.
LEMMA OwnedStep ==
    ASSUME CaseOK, StackOK, [StartNext]_allVars
    PROVE  Owned'
<1>0. Index' = Index /\ Positions \subseteq Index /\ Index \subseteq Nat \ {0}
  BY CaseStep DEF StackOK, Shaped, Positions, Index, CaseOK
<1>1. NoTry.p = 0 /\ NoTry.st = "none"
  BY DEF NoTry
<1>2. Owned
  BY DEF StackOK
\* Nobody's sockets change.
<1>3. CASE UNCHANGED <<mine, socks>> /\ try'.p = try.p
  BY <1>0, <1>2, <1>3 DEF Owned, NoSocketLeft
<1>4. pc # "look" => try = NoTry
  BY DEF StackOK, Attempting
<1>5. CASE UNCHANGED <<mine, socks>> /\ pc # "look" /\ try' = NoTry
  BY <1>3, <1>4, <1>5
<1>6. try.st # "none" => try.p \in Index
  BY <1>0, <1>1 DEF StackOK, Attempting
<1> USE DEF case, stack, main, counts, Ended, Begin, Looking
<1>7. CASE Beside /\ (Begins \/ Rests \/ (Ends /\ UNCHANGED <<mine, socks>>))
  BY <1>3, <1>5, <1>7 DEF Begins, Rests, Ends
<1>8. CASE Drop
  <2>1. pc # "look" /\ try' = NoTry
    BY <1>8 DEF Drop
  <2>2. CASE UNCHANGED <<mine, socks>>
    BY <1>5, <2>1, <2>2
  <2>3. CASE \E p \in Index : /\ mine[p] > 0
                              /\ mine' = [mine EXCEPT ![p] = @ - 1]
                              /\ socks' = [socks EXCEPT ![p] = @ - 1]
    BY <1>0, <1>1, <1>2, <1>4, <2>1, <2>3 DEF Owned, NoSocketLeft
  <2> QED
    BY <1>8, <2>2, <2>3 DEF Drop
<1>9. CASE Open
  <2>1. UNCHANGED <<mine, socks>> /\ pc = "up" /\ (try' = try \/ try' = NoTry)
    BY <1>9 DEF Open
  <2> QED
    BY <1>3, <1>5, <2>1
<1>10. CASE Release
  <2>1. /\ socks' = [i \in Index |-> 0] /\ mine' = [i \in Index |-> 0] /\ try' = NoTry
    BY <1>10 DEF Release
  <2> QED
    BY <1>0, <1>1, <2>1 DEF Owned, NoSocketLeft
<1>11. CASE Established
  <2>1. /\ mine' = [mine EXCEPT ![try.p] = @ + 1] /\ socks' = socks /\ try' = NoTry
        /\ try.p \in Index
    BY <1>6, <1>11 DEF Established
  <2>2. /\ mine' \in [Index -> Nat] /\ socks' \in [Index -> Int]
        /\ \A i \in Index : mine'[i] = mine[i] + (IF try.p = i THEN 1 ELSE 0)
    BY <1>2, <2>1 DEF Owned
  <2>3. \A i \in Index : socks'[i] = mine'[i] + (IF try'.p = i THEN 1 ELSE 0)
    <3>1. ASSUME NEW i \in Index
          PROVE  /\ socks[i] = mine[i] + (IF try.p = i THEN 1 ELSE 0) /\ mine[i] \in Nat
                 /\ i # try'.p
      BY <1>0, <1>1, <1>2, <2>1 DEF Owned, NoSocketLeft
    <3> QED
      BY <2>1, <2>2, <3>1
  <2> QED
    BY <1>0, <2>2, <2>3, Zenon DEF Owned, NoSocketLeft
<1>12. CASE Refused \/ GiveUp
  <2>1. /\ socks' = [socks EXCEPT ![try.p] = @ - 1] /\ mine' = mine /\ try' = NoTry
        /\ try.p \in Index
    BY <1>6, <1>12 DEF Refused, GiveUp, Abandon
  <2>2. /\ mine' \in [Index -> Nat] /\ socks' \in [Index -> Int]
        /\ \A i \in Index : socks'[i] = socks[i] - (IF try.p = i THEN 1 ELSE 0)
    BY <1>2, <2>1 DEF Owned
  <2>3. \A i \in Index : socks'[i] = mine'[i] + (IF try'.p = i THEN 1 ELSE 0)
    <3>1. ASSUME NEW i \in Index
          PROVE  /\ socks[i] = mine[i] + (IF try.p = i THEN 1 ELSE 0) /\ mine[i] \in Nat
                 /\ i # try'.p
      BY <1>0, <1>1, <1>2, <2>1 DEF Owned, NoSocketLeft
    <3> QED
      BY <2>1, <2>2, <3>1
  <2> QED
    BY <1>0, <2>2, <2>3, Zenon DEF Owned, NoSocketLeft
<1>14. CASE Patient \/ ToPick \/ NoneLeased \/ Configured \/ Deconfigured \/ Transmits
  BY <1>3, <1>14 DEF Patient, ToPick, NoneLeased, Configured, Deconfigured, Transmits
<1>15. CASE Answers \/ Tick
  <2>1. UNCHANGED <<mine, socks>> /\ try'.p = try.p
    BY <1>15 DEF Answers, Tick, StackOK, Attempting, Attempts
  <2> QED
    BY <1>3, <2>1
<1>16. CASE Try
  <2> DEFINE p == First(Leased \ Left)
  <2>1. p \in Index
    <3>1. Leased \ Left \subseteq Positions /\ Leased \ Left # {}
      BY <1>16 DEF Try, Left, Leased
    <3> QED
      BY <1>0, <3>1, FirstIsIn
  <2> HIDE DEF p
  <2>2. /\ try' = [p |-> p, st |-> "syn", age |-> 0] /\ pc = "pick"
        /\ socks' = [socks EXCEPT ![p] = @ + 1] /\ mine' = mine
    BY <1>16 DEF Try, p
  <2> QED
    BY <1>0, <1>1, <1>2, <1>4, <2>1, <2>2 DEF Owned, NoSocketLeft
<1> QED
  BY <1>7, <1>8, <1>9, <1>10, <1>11, <1>12, <1>14, <1>15, <1>16, StackSteps DEF OwnSteps

\* Every step keeps what is known of the stack.
LEMMA StackStep ==
    ASSUME CaseOK, StackOK, [StartNext]_allVars
    PROVE  StackOK'
BY ShapedStep, OwnedStep, QueuedStep DEF StackOK

\* At first there is no stack.
LEMMA StackBegins == StartInit => StackOK
<1> SUFFICES ASSUME StartInit PROVE StackOK
  OBVIOUS
<1>1. prog \in Programs
  BY NicsAssumption DEF StartInit, NicCase, Programs
<1>2. Len(snps) \in Nat /\ Len(prog) \in Nat
  BY <1>1, CaseBegins, LenProperties DEF CaseOK, Programs
<1> USE DEF StartInit, NicInit
<1>3. NoTry \in Attempts /\ NoTry.p = 0
  BY DEF NoTry, Attempts
<1>4. opened = <<>> /\ opened \in Seq(Range(opened)) /\ Len(opened) = 0
  BY EmptySeq
<1>5. Shaped
  BY <1>1, <1>2, <1>4 DEF Shaped, Positions
<1>6. Attempting
  BY <1>3, <1>4 DEF Attempting
<1>7. Owned
  BY <1>3 DEF Owned, NoSocketLeft, Index
<1>8. Queued
  BY DEF Queued, Holds, NoFrames
<1> QED
  BY <1>5, <1>6, <1>7, <1>8 DEF StackOK

\* What Linux is told is one of the two, or nothing.
Tells == told \in {"", "synced", "unsynced"}

\* Only the check of the clock tells anything.
LEMMA TellsStep ==
    ASSUME Tells, [StartNext]_allVars
    PROVE  Tells'
<1>1. CASE UNCHANGED told
  BY <1>1 DEF Tells
<1>2. CASE UNCHANGED clockVars
  BY <1>1, <1>2 DEF clockVars
<1>3. CASE Sync
  BY <1>3 DEF Tells, Sync, StartClock, NotChecked, Chosen, Request, NoNic, Unreachable, NoAnswer,
     Leave
<1>4. CASE ServerAnswers \/ Arrives \/ Believed \/ ClockTick
  BY <1>4 DEF Tells, ServerAnswers, Arrives, Believed, ClockTick, Leave
<1> QED
  BY <1>2, <1>3, <1>4, ClockApart

\* An answer on its way out is the socket's client's.
Answering == \A k \in 1 .. Conns : api[k].out \in {0, api[k].id}

\* An answer stays with its client's socket, whoever comes next.
LEMMA AnsweringStep ==
    ASSUME Sockets, Answering, [StartNext]_allVars
    PROVE  Answering'
<1>0. DOMAIN api = 1 .. Conns /\ \A k \in 1 .. Conns : api[k] \in Socket
  BY DEF Sockets, InUse
<1>1. ASSUME NEW k \in 1 .. Conns, NEW c, Conn(k, c), c.out \in {0, c.id}
      PROVE  Answering'
  BY <1>0, <1>1 DEF Answering, Conn
<1>2. CASE UNCHANGED <<api, clients, answered>>
  BY <1>2, Zenon DEF Answering
<1>3. CASE Open
  BY <1>3 DEF Open, Answering, NoRequest
<1>4. CASE Tick
  <2>1. \A k \in 1 .. Conns : api'[k] = [api[k] EXCEPT !.since = Older(@, ConnTime + 1)]
    BY <1>0, <1>4 DEF Tick
  <2>2. \A k \in 1 .. Conns : api'[k].out = api[k].out /\ api'[k].id = api[k].id
    BY <1>0, <2>1 DEF Socket
  <2> QED
    BY <2>2 DEF Answering
<1>5. ASSUME NEW k \in 1 .. Conns,
             Listens(k) \/ Drops(k) \/ WaitsForMore(k) \/ AnswersIt(k) \/ Closes(k)
      PROVE  Answering'
  <2>1. api[k] \in Socket /\ api[k].out \in {0, api[k].id} /\ api[k].id \in Nat
    BY <1>0 DEF Answering, Socket
  <2>2. CASE Listens(k) \/ Drops(k)
    <3> DEFINE c == Reset(api[k])
    <3>1. c \in Socket /\ c.out = 0
      BY <2>1, ResetSet, Zenon DEF IsSocket
    <3> HIDE DEF c
    <3>2. [c EXCEPT !.st = "listen", !.id = 0].out = 0 /\ [c EXCEPT !.st = "closed"].out = 0
      BY <3>1 DEF Socket
    <3>3. Conn(k, [c EXCEPT !.st = "listen", !.id = 0]) \/ Conn(k, [c EXCEPT !.st = "closed"])
      BY <2>2, Zenon DEF Listens, Drops, c
    <3> QED
      BY <1>1, <3>2, <3>3, Zenon
  <2>3. CASE WaitsForMore(k)
    <3>1. Conn(k, [api[k] EXCEPT !.since = 0])
      BY <2>3 DEF WaitsForMore
    <3>2. /\ [api[k] EXCEPT !.since = 0].out = api[k].out
          /\ [api[k] EXCEPT !.since = 0].id = api[k].id
      BY <2>1 DEF Socket
    <3> QED
      BY <1>1, <2>1, <3>1, <3>2, Zenon
  <2>4. CASE AnswersIt(k)
    <3> DEFINE c == [api[k] EXCEPT !.since = Seen(api[k]), !.out = api[k].id]
    <3>1. Conn(k, c)
      BY <2>4 DEF AnswersIt
    <3>2. Seen(api[k]) \in Int
      BY <2>1 DEF Socket, Seen
    <3>3. c.out = c.id
      <4>1. IsSocket(c, api[k].st, api[k].id, api[k].got, api[k].id)
        BY <2>1, <3>2, AnswerSet, Zenon
      <4> HIDE DEF c
      <4> QED
        BY <4>1, Zenon DEF IsSocket
    <3> HIDE DEF c
    <3> QED
      BY <1>1, <3>1, <3>3, Zenon
  <2>5. CASE Closes(k)
    <3> DEFINE c == [api[k] EXCEPT !.closing = TRUE, !.st = IF @ = "half" THEN "lastack" ELSE "fin"]
    <3>1. Conn(k, c)
      BY <2>5 DEF Closes
    <3>2. c.out = api[k].out /\ c.id = api[k].id
      BY <2>1 DEF Socket
    <3> HIDE DEF c
    <3> QED
      BY <1>1, <2>1, <3>1, <3>2, Zenon
  <2> QED
    BY <1>5, <2>2, <2>3, <2>4, <2>5
<1>6. ASSUME NEW k \in 1 .. Conns, NEW c \in ClientOf(api[k]), Conn(k, c)
      PROVE  Answering'
  <2>1. /\ api[k] \in Socket /\ api[k].out \in {0, api[k].id}
        /\ api[k].st \in {"listen", "syn"} => api[k].out = 0
    BY DEF Answering, Sockets, InUse
  <2>2. \/ api[k].st \in {"listen", "syn"} /\ \E s, n : c = [api[k] EXCEPT !.st = s, !.id = n]
        \/ \E s : c = [api[k] EXCEPT !.st = s]
        \/ \E g : c = [api[k] EXCEPT !.got = g]
    BY <1>6, <2>1 DEF ClientOf
  <2>3. /\ \A s, n : [api[k] EXCEPT !.st = s, !.id = n].out = api[k].out
        /\ \A s : /\ [api[k] EXCEPT !.st = s].out = api[k].out
                   /\ [api[k] EXCEPT !.st = s].id = api[k].id
        /\ \A g : /\ [api[k] EXCEPT !.got = g].out = api[k].out
                   /\ [api[k] EXCEPT !.got = g].id = api[k].id
    BY <2>1 DEF Socket
  <2>4. c.out = 0 \/ (c.out = api[k].out /\ c.id = api[k].id)
    <3>1. CASE api[k].st \in {"listen", "syn"} /\ \E s, n : c = [api[k] EXCEPT !.st = s, !.id = n]
      <4>1. PICK s, n : c = [api[k] EXCEPT !.st = s, !.id = n]
        BY <3>1
      <4>2. c.out = api[k].out
        BY <2>3, <4>1, Zenon
      <4> QED
        BY <2>1, <3>1, <4>2
    <3>2. CASE \/ \E s : c = [api[k] EXCEPT !.st = s]
               \/ \E g : c = [api[k] EXCEPT !.got = g]
      BY <2>3, <3>2, Zenon
    <3> QED
      BY <2>2, <3>1, <3>2
  <2> QED
    BY <1>1, <1>6, <2>1, <2>4, Zenon
<1> QED
  BY <1>0, <1>2, <1>3, <1>4, <1>5, <1>6, SocketsMove DEF Serves, ClientActs

\* What the stack takes, it accounts for, whatever fails: no frame the driver may read is
\* freed, however late its queue hands them back, and no connect, given up, refused or
\* out of time, and no release leaves a socket behind (net.rs: TxQueue, connect_within).
THEOREM NothingEverLost == StartSpec => []NothingLost
<1>1. StartInit => Tells /\ Answering
  <2>1. NoRequest.out = 0
    BY DEF NoRequest
  <2> QED
    BY <2>1 DEF StartInit, NicInit, ClockInit, Tells, Answering
<1>2. CaseOK /\ StackOK /\ [StartNext]_allVars => CaseOK' /\ StackOK'
  BY CaseStep, StackStep
<1>3. Tells /\ Sockets /\ Answering /\ [StartNext]_allVars => Tells' /\ Answering'
  BY TellsStep, AnsweringStep
<1>4. StackOK /\ Sockets /\ Answering /\ ClockOK /\ Tells => NothingLost
  <2> SUFFICES ASSUME StackOK, Sockets, Answering, ClockOK, Tells PROVE NothingLost
    OBVIOUS
  <2>1. NicTypeOK
    <3>1. try.p \in {0} \cup Positions /\ try.st \in {"none", "syn", "est", "reset"}
      BY DEF StackOK, Attempting, Attempts, NoTry
    <3>2. \A k \in DOMAIN api : api[k].out \in {0, api[k].id}
      BY DEF Sockets, Answering
    <3>3. \A i \in Index : lease[i] \in BOOLEAN /\ mtu[i] \in {DefaultMtu, Jumbo}
      BY DEF StackOK, Shaped
    <3> QED
      BY <3>1, <3>2, <3>3, Zenon DEF StackOK, Shaped, NicTypeOK
  <2>2. ClockTypeOK
    BY <2>1, Zenon DEF ClockTypeOK, ClockOK, Checking, Once, InHand, Sent, Tells
  <2>3. FramesHeld
    BY DEF StackOK, Queued, Holds, FramesHeld, Allocated
  <2>4. NoSocketLeft
    BY DEF StackOK, Owned
  <2> QED
    BY <2>2, <2>3, <2>4 DEF NothingLost
<1> QED
  BY <1>1, <1>2, <1>3, <1>4, CaseBegins, StackBegins, SocketsBegin, SocketsStep, ClockBegins,
     ClockStep, PTL DEF StartSpec

\* The bounds of time.
LEMMA Bounds == /\ TryFor \in Nat /\ Answer \in Nat /\ Answer < TryFor /\ Secs \in Nat
BY NicsAssumption

\* The others are one less than the positions.
LEMMA TurnedBound ==
    ASSUME CaseOK, StackOK, NEW p
    PROVE  /\ IsFiniteSet(tried \ {p}) /\ Turned(p) \in Nat
           /\ p \in Positions => /\ Turned(p) <= TryFor * (Len(opened) - 1)
                                 /\ TryFor * (Len(opened) - 1) \in Nat
<1>1. Len(opened) \in Nat /\ tried \subseteq Positions
  BY LenProperties DEF StackOK, Shaped
<1>2. IsFiniteSet(Positions) /\ Cardinality(Positions) = Len(opened)
  <2>1. IsFiniteSet(1 .. Len(opened)) /\ Cardinality(1 .. Len(opened)) =
            IF 1 > Len(opened) THEN 0 ELSE Len(opened) - 1 + 1
    BY <1>1, FS_Interval, 1 \in Int, Len(opened) \in Int
  <2> QED
    BY <1>1, <2>1 DEF Positions
<1>3. IsFiniteSet(tried \ {p})
  <2>1. tried \ {p} \subseteq Positions
    BY <1>1
  <2> QED
    BY <1>2, <2>1, FS_Subset
<1>4. Cardinality(tried \ {p}) \in Nat
  BY <1>3, FS_CardinalityType
<1>5. Turned(p) \in Nat
  BY <1>4, Bounds DEF Turned
<1>6. ASSUME p \in Positions PROVE Cardinality(tried \ {p}) <= Len(opened) - 1
  <2>1. IsFiniteSet(Positions \ {p}) /\ Cardinality(Positions \ {p}) = Len(opened) - 1
    BY <1>2, <1>6, FS_RemoveElement
  <2>2. tried \ {p} \subseteq Positions \ {p}
    BY <1>1
  <2> QED
    BY <2>1, <2>2, FS_Subset
<1>7. ASSUME p \in Positions
      PROVE  Turned(p) <= TryFor * (Len(opened) - 1) /\ TryFor * (Len(opened) - 1) \in Nat
  <2>1. \A t, a, b \in Nat : a <= b => t * a <= t * b /\ t * b \in Nat
    OBVIOUS
  <2>2. Len(opened) - 1 \in Nat
    BY <1>1, <1>4, <1>6, <1>7
  <2> QED
    BY <1>4, <1>6, <1>7, <2>1, <2>2, Bounds DEF Turned
<1> QED
  BY <1>3, <1>5, <1>7

\* Another position's try is over.
LEMMA AnotherTurn ==
    ASSUME CaseOK, StackOK, NEW p, NEW q, q # p, q \notin tried, tried' = tried \cup {q}
    PROVE  Turned(p)' = Turned(p) + TryFor
<1>1. IsFiniteSet(tried \ {p}) /\ q \notin tried \ {p} /\ (tried \ {p}) \cup {q} = tried' \ {p}
  BY TurnedBound
<1>2. Cardinality(tried' \ {p}) = Cardinality(tried \ {p}) + 1 /\ Cardinality(tried \ {p}) \in Nat
  BY <1>1, FS_AddElement, FS_CardinalityType
<1> QED
  BY <1>2, Bounds DEF Turned

\* A position that lost its lease is counted no more in this operation.
LEMMA TickingStep ==
    ASSUME CaseOK, StackOK, Ticking, [StartNext]_allVars
    PROVE  Ticking'
<1>0. Index' = Index /\ Positions \subseteq Index
  BY CaseStep DEF StackOK, Shaped, Positions, Index, CaseOK
<1> USE DEF case, stack, main, counts, Ended, Begin
<1>1. CASE had' = [i \in Index |-> 0]
  BY <1>0, <1>1 DEF Ticking
<1>2. CASE UNCHANGED <<had, lease>> /\ (pc \in {"look", "pick"} => pc' \in {"look", "pick"})
  BY <1>0, <1>2 DEF Ticking
<1>3. CASE Beside /\ (Begins \/ Rests \/ (Ends /\ UNCHANGED <<mine, socks>>))
  BY <1>1, <1>2, <1>3 DEF Beside, Begins, Rests, Ends
<1>4. CASE Drop \/ Open \/ Release \/ Established \/ Refused
  <2>1. had' = [i \in Index |-> 0] \/ (UNCHANGED <<had, lease>> /\ pc = "up")
    BY <1>4 DEF Drop, Open, Release, Established, Refused
  <2> QED
    BY <1>1, <1>2, <2>1
<1>5. CASE GiveUp \/ Patient \/ ToPick \/ Try \/ NoneLeased \/ Answers \/ Transmits
  <2>1. UNCHANGED <<had, lease>> /\ (pc \in {"look", "pick"} => pc' \in {"look", "pick"})
    BY <1>5 DEF GiveUp, Patient, ToPick, Try, NoneLeased, Answers, Transmits
  <2> QED
    BY <1>2, <2>1
<1>6. CASE Configured
  <2>1. PICK p \in Positions \ Leased, offered \in IF "mtu" \in world THEN {0, Jumbo} ELSE {0} :
            lease' = [lease EXCEPT ![p] = TRUE]
    BY <1>6, Zenon DEF Configured
  <2>2. UNCHANGED <<had, pc>>
    BY <1>6 DEF Configured
  <2> QED
    BY <1>0, <2>1, <2>2 DEF Ticking, StackOK, Shaped
<1>7. CASE Deconfigured
  <2>1. PICK p \in Leased : lease' = [lease EXCEPT ![p] = FALSE] /\ had' = [had EXCEPT ![p] = -1]
    BY <1>7 DEF Deconfigured
  <2>2. p \in Index /\ pc' = pc
    BY <1>0, <1>7 DEF Deconfigured, Leased
  <2> QED
    BY <1>0, <2>1, <2>2 DEF Ticking, StackOK, Shaped
<1>8. CASE Tick
  <2>1. /\ had' = [i \in Index |-> IF pc = "look" /\ lease[i] THEN Older(had[i], Secs) ELSE had[i]]
        /\ pc' = pc /\ lease' = lease
    BY <1>8 DEF Tick
  <2>2. \A n \in Nat \cup {-1} : Older(n, Secs) \in Nat \cup {-1}
    BY Bounds DEF Older, Least
  <2> QED
    BY <1>0, <2>1, <2>2 DEF Ticking
<1> QED
  BY <1>3, <1>4, <1>5, <1>6, <1>7, <1>8, StackSteps DEF OwnSteps

\* A position whose turn is looked at: it has kept its lease, on the target's wire.
Counts(p) == p \in Positions /\ opened[p] \in wire /\ had[p] # -1

\* What is known of it.
LEMMA TurnBefore ==
    ASSUME CaseOK, StackOK, TurnsOK, "port" \notin world, try.st \in {"none", "syn"},
           NEW p, Counts(p)
    PROVE  /\ Turn(p) /\ p \in Index /\ p # 0 /\ had[p] \in Nat
           /\ had[p] # 0 => lease[p] /\ pc \in {"look", "pick"}
           /\ try.age \in Nat /\ Turned(p) \in Nat /\ Part(p) \in Nat
<1>1. p \in Index /\ p # 0
  BY DEF StackOK, Shaped, Positions, Index, CaseOK, Counts
<1>2. had[p] \in Nat /\ (had[p] # 0 => lease[p] /\ pc \in {"look", "pick"})
  BY <1>1 DEF TurnsOK, Ticking, Counts
<1>3. Turn(p)
  BY Zenon DEF TurnsOK, Turns, Counts
<1>4. try.age \in Nat
  BY DEF StackOK, Attempting, Attempts
<1>5. Part(p) \in Nat
  BY <1>4, Bounds DEF Part, Least
<1> QED
  BY <1>1, <1>2, <1>3, <1>4, <1>5, TurnedBound

\* No attempt.
LEMMA NoTryIs == NoTry.p = 0 /\ NoTry.st = "none" /\ NoTry.age = 0
BY DEF NoTry

\* Nothing counts yet.
LEMMA TurnAtFirst ==
    ASSUME NEW p, p \in Positions', had'[p] = 0, tried' = {}, try' = NoTry,
           ~(pc' = "look" /\ looked')
    PROVE  Turn(p)'
<1>1. p # 0
  BY DEF Positions
<1>2. TriedLate(p)' /\ Soon(p)' /\ Waits(p)'
  BY <1>1, NoTryIs DEF TriedLate, Soon, Waits
<1>3. Turned(p)' = 0 /\ Part(p)' = 0
  <2>1. tried' \ {p} = {}
    OBVIOUS
  <2>2. Turned(p)' = 0
    BY <2>1, FS_EmptySet, Bounds DEF Turned
  <2>3. Part(p)' = 0
    BY <1>1, NoTryIs, Bounds DEF Part, Least
  <2> QED
    BY <2>2, <2>3
<1> QED
  BY <1>2, <1>3 DEF Turn, Due

\* Time passes: for a position that waits, only while there is an attempt.
LEMMA TurnTicks ==
    ASSUME CaseOK, StackOK, TurnsOK, "port" \notin world, try.st \in {"none", "syn"}, Tick,
           NEW p, Counts(p)
    PROVE  Turn(p)'
<1>1. /\ Turn(p) /\ p \in Index /\ p # 0 /\ had[p] \in Nat
      /\ had[p] # 0 => lease[p] /\ pc \in {"look", "pick"}
      /\ try.age \in Nat /\ Turned(p) \in Nat /\ Part(p) \in Nat
  BY TurnBefore
<1>2. /\ pc' = pc /\ tried' = tried /\ lease' = lease /\ looked' = FALSE /\ opened' = opened
      /\ pc # "pick" /\ (pc = "look" => looked /\ ~Urgent)
  BY Zenon DEF Tick, stack, Urgent
<1>3. had'[p] = IF pc = "look" /\ lease[p] THEN Older(had[p], Secs) ELSE had[p]
  BY <1>1 DEF Tick
<1>4. had'[p] <= had[p] + 1 /\ had'[p] \in Nat
  BY <1>1, <1>3, Bounds DEF Older, Least
<1>5. p \notin tried
  BY <1>1, <1>2 DEF Turn, TriedLate
<1>6. Turned(p)' = Turned(p)
  BY <1>2 DEF Turned
<1>7. CASE try = NoTry
  <2>1. try' = NoTry
    BY <1>7 DEF Tick
  <2>2. Part(p)' = 0
    BY <1>1, <1>2, <1>5, <2>1, NoTryIs, Bounds DEF Part, Least
  <2>3. had'[p] <= 1
    BY <1>1, <1>2, <1>3, <1>4, <1>7, NoTryIs DEF Turn, Waits
  <2> QED
    <3>1. TriedLate(p)' /\ Soon(p)' /\ Waits(p)'
      BY <1>1, <1>2, <1>5, <2>1, NoTryIs DEF TriedLate, Soon, Waits
    <3>2. Due(p)'
      BY <1>1, <1>4, <1>6, <2>2, <2>3 DEF Due
    <3> QED
      BY <3>1, <3>2 DEF Turn
<1>8. CASE try # NoTry
  <2>1. try' = [try EXCEPT !.age = @ + 1]
    BY <1>8 DEF Tick
  <2>2. try'.p = try.p /\ try'.age = try.age + 1 /\ try.st = "syn" /\ pc = "look"
    BY <1>8, <2>1 DEF StackOK, Attempting, Attempts
  <2>3. CASE try.p = p
    <3>1. lease[p] /\ Reachable(try.p)
      BY <1>1, <2>3 DEF Turn, Soon, Reachable, Counts
    <3>2. try.age < Answer
      BY <1>1, <1>2, <2>2, <3>1, Bounds DEF Urgent
    <3> QED
      BY <1>1, <1>2, <1>4, <1>5, <1>6, <2>2, <2>3, <3>1, <3>2, Bounds
         DEF Turn, TriedLate, Soon, Waits, Due, Part
  <2>4. CASE try.p # p
    <3>1. Part(p) = Least(try.age, TryFor) /\ Part(p)' = Least(try.age + 1, TryFor)
      BY <1>2, <1>5, <2>2, <2>4 DEF Part
    <3>2. had[p] = 0 \/ try.age < TryFor
      BY <1>1, <1>2, <2>2, <2>4 DEF Turn, Waits
    <3>3. Due(p)'
      BY <1>1, <1>4, <1>6, <3>1, <3>2, Bounds DEF Turn, Due, Least
    <3> QED
      BY <1>2, <1>5, <2>2, <2>4, <3>3 DEF Turn, TriedLate, Soon, Waits
  <2> QED
    BY <2>3, <2>4
<1> QED
  BY <1>7, <1>8

\* An attempt is given up: the position's own at the deadline only, since it would have
\* answered before its time; another's took its time at the most.
LEMMA TurnGivenUp ==
    ASSUME CaseOK, StackOK, TurnsOK, "port" \notin world, GiveUp, NEW p, Counts(p)
    PROVE  Turn(p)'
<1>1. /\ pc = "look" /\ try.st = "syn" /\ (Spent \/ (Others /\ try.age >= TryFor))
      /\ pc' = "pick" /\ tried' = tried \cup {try.p} /\ try' = NoTry
      /\ age' = age /\ had' = had /\ lease' = lease
  BY DEF GiveUp, Abandon, Looking, stack
<1>2. /\ Turn(p) /\ p \in Index /\ p # 0 /\ had[p] \in Nat
      /\ try.age \in Nat /\ Turned(p) \in Nat /\ Part(p) \in Nat
  BY <1>1, TurnBefore
<1>3. p \notin tried
  BY <1>1, <1>2 DEF Turn, TriedLate
<1>4. Soon(p)' /\ Waits(p)'
  BY <1>1, <1>2, NoTryIs DEF Soon, Waits
<1>5. CASE try.p = p
  <2>1. try.age <= Answer
    BY <1>2, <1>5 DEF Turn, Soon
  <2>2. Spent /\ Spent'
    BY <1>1, <1>2, <2>1, Bounds DEF Spent
  <2>3. tried' \ {p} = tried \ {p}
    BY <1>1, <1>5
  <2>4. Turned(p)' = Turned(p) /\ Part(p) = try.age /\ Part(p)' = Answer
    BY <1>1, <1>3, <1>5, <2>3 DEF Turned, Part
  <2>5. Due(p)'
    BY <1>1, <1>2, <2>1, <2>4, Bounds DEF Turn, Due
  <2> QED
    BY <1>1, <1>4, <2>2, <2>5 DEF Turn, TriedLate
<1>6. CASE try.p # p
  <2>1. try.p \notin tried
    BY <1>1, NoTryIs DEF StackOK, Attempting
  <2>2. Turned(p)' = Turned(p) + TryFor
    BY <1>1, <1>6, <2>1, AnotherTurn
  <2>3. p \notin tried'
    BY <1>1, <1>3, <1>6
  <2>4. Part(p) <= TryFor /\ Part(p)' = 0
    BY <1>1, <1>2, <1>3, <1>6, <2>3, NoTryIs, Bounds DEF Part, Least
  <2>5. Due(p)'
    BY <1>1, <1>2, <2>2, <2>4, Bounds DEF Turn, Due
  <2> QED
    BY <1>1, <1>4, <2>3, <2>5 DEF Turn, TriedLate
<1> QED
  BY <1>5, <1>6

\* The loop is patient with another's attempt only until that one's time.
LEMMA TurnPatient ==
    ASSUME CaseOK, StackOK, TurnsOK, "port" \notin world, Patient, NEW p, Counts(p)
    PROVE  Turn(p)'
<1>1. /\ pc = "look" /\ try.st = "syn" /\ ~(Others /\ try.age >= TryFor)
      /\ UNCHANGED <<pc, tried, try, age, had, lease>>
  BY DEF Patient, Looking, stack
<1>2. /\ Turn(p) /\ had[p] \in Nat /\ (had[p] # 0 => lease[p]) /\ try.age \in Nat
  BY <1>1, TurnBefore
<1>3. TriedLate(p)' /\ Soon(p)' /\ Due(p)'
  BY <1>1, <1>2, Zenon DEF Turn, TriedLate, Soon, Due, Turned, Part, Spent
<1>4. p \notin tried /\ try # NoTry
  BY <1>1, <1>2, NoTryIs DEF Turn, TriedLate
<1>5. had[p] # 0 /\ try.p # p => try.age < TryFor
  BY <1>1, <1>2, <1>4, Bounds DEF Others, Leased, Counts
<1>6. Waits(p)'
  BY <1>1, <1>4, <1>5, Zenon DEF Waits
<1> QED
  BY <1>3, <1>6 DEF Turn

\* The next attempt: the round begins again only when none that waits is left.
LEMMA TurnTried ==
    ASSUME CaseOK, StackOK, TurnsOK, "port" \notin world, Try, NEW p, Counts(p)
    PROVE  Turn(p)'
<1> DEFINE q == First(Leased \ Left)
<1>1. q \in Leased \ Left
  <2>1. Leased \ Left \subseteq Positions /\ Leased \ Left # {}
    BY DEF Try, Left, Leased
  <2> QED
    BY <2>1, FirstIsIn
<1> HIDE DEF q
<1>2. /\ try' = [p |-> q, st |-> "syn", age |-> 0] /\ tried' = Left /\ pc = "pick"
      /\ pc' = "look" /\ ~Spent /\ had' = had /\ lease' = lease
  BY DEF Try, q
<1>3. try = NoTry
  BY <1>2 DEF StackOK, Attempting
<1>4. /\ Turn(p) /\ p # 0 /\ had[p] \in Nat /\ (had[p] # 0 => lease[p]) /\ Turned(p) \in Nat
  BY <1>3, NoTryIs, TurnBefore
<1>5. p \notin tried /\ p \notin tried' /\ Left \in {tried, {}}
  BY <1>2, <1>4 DEF Turn, TriedLate, Left
<1>6. try'.p = q /\ try'.age = 0 /\ try' # NoTry
  BY <1>2, NoTryIs
<1>7. TriedLate(p)' /\ Soon(p)' /\ Waits(p)'
  BY <1>1, <1>2, <1>5, <1>6, Bounds DEF TriedLate, Soon, Waits, Leased
<1>8. Part(p) = 0 /\ Part(p)' = 0
  BY <1>3, <1>4, <1>5, <1>6, NoTryIs, Bounds DEF Part, Least
<1>9. Turned(p)' \in Nat /\ (Turned(p)' < Turned(p) => had[p] = 0)
  <2>1. CASE Left = tried
    BY <1>2, <1>4, <2>1 DEF Turned
  <2>2. CASE Leased \subseteq tried
    <3>1. tried' \ {p} = {}
      BY <1>2, <2>2 DEF Left
    <3>2. Turned(p)' = 0
      BY <3>1, FS_EmptySet, Bounds DEF Turned
    <3> QED
      BY <1>4, <1>5, <2>2, <3>2 DEF Leased, Counts
  <2> QED
    BY <2>1, <2>2 DEF Left
<1>10. Due(p)'
  BY <1>2, <1>4, <1>8, <1>9 DEF Turn, Due
<1> QED
  BY <1>7, <1>10 DEF Turn

\* No position has a lease.
LEMMA TurnIdles ==
    ASSUME CaseOK, StackOK, TurnsOK, "port" \notin world, NoneLeased, NEW p, Counts(p)
    PROVE  Turn(p)'
<1>1. /\ pc = "pick" /\ ~Spent /\ Leased = {}
      /\ UNCHANGED <<age, tried, try, had, lease>>
  BY DEF NoneLeased, stack
<1>2. try = NoTry
  BY <1>1 DEF StackOK, Attempting
<1>3. Turn(p) /\ had[p] \in Nat /\ (had[p] # 0 => lease[p])
  BY <1>2, NoTryIs, TurnBefore
<1>4. had[p] = 0
  BY <1>1, <1>3 DEF Leased, Counts
<1>5. p \notin tried
  BY <1>1, <1>3 DEF Turn, TriedLate
<1>6. Soon(p)' /\ Due(p)'
  BY <1>1, <1>3, Zenon DEF Turn, Soon, Due, Turned, Part
<1> QED
  BY <1>1, <1>4, <1>5, <1>6 DEF Turn, TriedLate, Waits

\* The loop is where it was, and a position has kept what it had.
LEMMA TurnKept ==
    ASSUME NEW p, Turn(p), UNCHANGED <<pc, age, looked, tried, try>>, had'[p] = had[p],
           lease[p] => lease'[p]
    PROVE  Turn(p)'
<1>1. TriedLate(p)' /\ Soon(p)' /\ Waits(p)' /\ Due(p)'
  BY Zenon DEF Turn, TriedLate, Soon, Waits, Due, Turned, Part, Spent
<1> QED
  BY <1>1 DEF Turn

\* Every step keeps what each position's turn goes by.
LEMMA TurnsStep ==
    ASSUME CaseOK, StackOK, TurnsOK, [StartNext]_allVars
    PROVE  TurnsOK'
<1>0. CaseOK' /\ StackOK' /\ Ticking' /\ Index' = Index
  BY CaseStep, StackStep, TickingStep DEF TurnsOK
<1> SUFFICES ASSUME "port" \notin world', try'.st \in {"none", "syn"}, NEW p \in Positions',
                    opened'[p] \in wire', had'[p] # -1
             PROVE  Turn(p)'
  BY <1>0 DEF TurnsOK, Turns
<1>1. p \in Index /\ Positions \subseteq Index
  BY <1>0 DEF StackOK, Shaped, Positions, Index, CaseOK
<1> USE DEF case, stack, main, counts, Ended, Begin
<1>2. CASE had' = [i \in Index |-> 0] /\ tried' = {} /\ try' = NoTry /\ pc' = "idle"
  BY <1>0, <1>1, <1>2, TurnAtFirst
<1>3. CASE /\ pc \in {"idle", "up"} /\ looked' = FALSE /\ UNCHANGED <<had, tried, try>>
  <2>1. had'[p] = 0 /\ tried' = {} /\ try' = NoTry /\ ~(pc' = "look" /\ looked')
    BY <1>1, <1>3 DEF TurnsOK, Ticking, StackOK, Attempting
  <2> QED
    BY <1>0, <2>1, TurnAtFirst
<1>4. CASE Open \/ Drop \/ Release \/ Established \/ Refused
  <2>1. \/ had' = [i \in Index |-> 0] /\ tried' = {} /\ try' = NoTry /\ pc' = "idle"
        \/ pc \in {"idle", "up"} /\ looked' = FALSE /\ UNCHANGED <<had, tried, try>>
    BY <1>4 DEF Open, Drop, Release, Established, Refused
  <2> QED
    BY <1>2, <1>3, <2>1
<1>5. ASSUME UNCHANGED <<wire, world, opened>>, had'[p] = had[p], try.st \in {"none", "syn"}
      PROVE  "port" \notin world /\ Counts(p) /\ Turn(p)
  <2>1. "port" \notin world /\ Counts(p)
    BY <1>5 DEF Counts, Positions
  <2> QED
    BY <1>5, <2>1, TurnBefore
<1>6. CASE Beside /\ (Begins \/ Rests \/ (Ends /\ UNCHANGED <<mine, socks>>))
  <2>1. CASE Begins \/ Ends
    BY <1>2, <1>3, <2>1 DEF Begins, Ends
  <2>2. CASE Beside /\ Rests
    <3>1. /\ UNCHANGED <<wire, world, opened>> /\ had' = had /\ lease' = lease
          /\ UNCHANGED <<pc, age, looked, tried, try>>
      BY <2>2 DEF Beside, Rests
    <3> QED
      BY <1>5, <3>1, TurnKept
  <2> QED
    BY <1>6, <2>1, <2>2
<1>7. CASE Configured
  <2>1. PICK q \in Positions \ Leased, offered \in IF "mtu" \in world THEN {0, Jumbo} ELSE {0} :
            lease' = [lease EXCEPT ![q] = TRUE]
    BY <1>7, Zenon DEF Configured
  <2>2. /\ UNCHANGED <<wire, world, opened, had>> /\ UNCHANGED <<pc, age, looked, tried, try>>
    BY <1>7 DEF Configured
  <2>3. lease[p] => lease'[p]
    BY <1>1, <2>1 DEF StackOK, Shaped
  <2> QED
    BY <1>5, <2>2, <2>3, TurnKept
<1>8. CASE Deconfigured
  <2>1. PICK q \in Leased : lease' = [lease EXCEPT ![q] = FALSE] /\ had' = [had EXCEPT ![q] = -1]
    BY <1>8 DEF Deconfigured
  <2>2. /\ UNCHANGED <<wire, world, opened>> /\ UNCHANGED <<pc, age, looked, tried, try>>
    BY <1>8 DEF Deconfigured
  <2>3. had \in [Index -> Nat \cup {-1}] /\ lease \in [Index -> BOOLEAN]
    BY DEF TurnsOK, Ticking, StackOK, Shaped
  <2>4. p # q
    BY <1>1, <2>1, <2>3
  <2>5. lease'[p] = lease[p] /\ had'[p] = had[p]
    BY <1>1, <2>1, <2>3, <2>4
  <2> QED
    BY <1>5, <2>2, <2>5, TurnKept
<1>9. CASE Answers
  <2>1. world' = world /\ try' = [try EXCEPT !.st = "est"] /\ try \in Attempts
    BY <1>9 DEF Answers, StackOK, Attempting
  <2>2. try'.st = "est"
    BY <2>1 DEF Attempts
  <2> QED
    BY <2>2
<1>10. CASE Transmits
  <2>1. /\ UNCHANGED <<wire, world, opened>> /\ had' = had /\ lease' = lease
        /\ UNCHANGED <<pc, age, looked, tried, try>>
    BY <1>10 DEF Transmits
  <2> QED
    BY <1>5, <2>1, TurnKept
<1>11. CASE ToPick
  <2>1. /\ UNCHANGED <<wire, world, opened, had, lease, tried, try, age>>
        /\ pc = "look" /\ try = NoTry /\ pc' = "pick"
    BY <1>11 DEF ToPick, Looking
  <2>2. Turn(p)
    BY <1>5, <2>1, NoTryIs
  <2>3. Soon(p)' /\ Due(p)'
    BY <2>1, <2>2, Zenon DEF Turn, Soon, Due, Turned, Part
  <2> QED
    BY <2>1, <2>2, <2>3 DEF Turn, TriedLate, Waits
<1>12. CASE GiveUp \/ Patient \/ Try \/ NoneLeased \/ Tick
  <2>1. UNCHANGED <<wire, world, opened>>
    BY <1>12 DEF GiveUp, Patient, Try, NoneLeased, Tick
  <2>2. had[p] # -1 /\ try.st \in {"none", "syn"}
    <3>1. CASE GiveUp \/ Patient
      BY <3>1 DEF GiveUp, Patient
    <3>2. CASE Try \/ NoneLeased
      <4>1. pc = "pick" /\ had' = had
        BY <3>2 DEF Try, NoneLeased
      <4>2. try = NoTry
        BY <4>1 DEF StackOK, Attempting
      <4> QED
        BY <4>1, <4>2, NoTryIs
    <3>3. CASE Tick
      <4>1. /\ had'[p] = IF pc = "look" /\ lease[p] THEN Older(had[p], Secs) ELSE had[p]
            /\ try' = try \/ try' = [try EXCEPT !.age = @ + 1]
        BY <1>1, <3>3 DEF Tick
      <4>2. try'.st = try.st
        BY <4>1 DEF StackOK, Attempting, Attempts
      <4>3. had[p] = -1 => had'[p] = -1
        BY <4>1 DEF Older
      <4> QED
        BY <4>2, <4>3
    <3> QED
      BY <1>12, <3>1, <3>2, <3>3
  <2>3. "port" \notin world /\ Counts(p)
    BY <2>1, <2>2 DEF Counts, Positions
  <2> QED
    BY <1>12, <2>2, <2>3, TurnGivenUp, TurnPatient, TurnTried, TurnIdles, TurnTicks
<1> QED
  BY <1>4, <1>6, <1>7, <1>8, <1>9, <1>10, <1>11, <1>12, StackSteps DEF OwnSteps

\* A connect fails only when each NIC on the target's wire was tried, or had its lease
\* for less than the others' turns and its own: one NIC that never answers does not keep
\* the loop from one that would, however many there are (net.rs: connect_within).
THEOREM EachAlwaysHadItsTurn == StartSpec => []EachHadItsTurn
<1>1. StartInit => TurnsOK
  <2> SUFFICES ASSUME StartInit PROVE TurnsOK
    OBVIOUS
  <2>1. Positions = {}
    BY DEF StartInit, NicInit, Positions
  <2>2. Ticking
    BY DEF StartInit, NicInit, Ticking
  <2> QED
    BY <2>1, <2>2 DEF TurnsOK, Turns
<1>2. CaseOK /\ StackOK /\ TurnsOK /\ [StartNext]_allVars => CaseOK' /\ StackOK' /\ TurnsOK'
  BY CaseStep, StackStep, TurnsStep
<1>3. CaseOK /\ StackOK /\ TurnsOK => EachHadItsTurn
  <2> SUFFICES ASSUME CaseOK, StackOK, TurnsOK, pc = "pick", Spent, NEW p \in Positions,
                      opened[p] \in wire, "port" \notin world
               PROVE  had[p] < TryFor * (Len(opened) - 1) + Answer + 2
    BY DEF EachHadItsTurn
  <2>1. try = NoTry
    BY DEF StackOK, Attempting
  <2>2. Turned(p) <= TryFor * (Len(opened) - 1) /\ TryFor * (Len(opened) - 1) \in Nat
        /\ Turned(p) \in Nat
    BY TurnedBound
  <2>3. CASE had[p] = -1
    BY <2>2, <2>3, Bounds
  <2>4. CASE had[p] # -1
    <3>1. Turn(p) /\ p # 0 /\ had[p] \in Nat
      BY <2>1, <2>4, NoTryIs, TurnBefore DEF Counts
    <3>2. Part(p) <= Answer /\ Part(p) \in Nat
      BY <2>1, <3>1, NoTryIs, Bounds DEF Part, Least
    <3> DEFINE n == TryFor * (Len(opened) - 1)
    <3>3. n \in Nat /\ Turned(p) <= n
      BY <2>2
    <3> HIDE DEF n
    <3>4. had[p] < n + Answer + 2
      BY <2>2, <3>1, <3>2, <3>3, Bounds DEF Turn, Due
    <3> QED
      BY <3>4 DEF n
  <2> QED
    BY <2>3, <2>4
<1> QED
  BY <1>1, <1>2, <1>3, CaseBegins, StackBegins, PTL DEF StartSpec

==============================================================================
