-------------------------------- MODULE Startup --------------------------------
(* What the first pass of run() does with the medium before the network:   *)
(* install-config.yaml set as variables for Linux (handoff.rs,             *)
(* installconf.rs), and the NIC drivers it carries loaded, bound and given *)
(* the NICs the media says (drivers.rs).  What holds a NIC then decides    *)
(* the SNPs that the stack of Nics opens.                                  *)
(*                                                                         *)
(* A network function is the SNP it would have.  The tree of handles the   *)
(* firmware's network stack builds on one is known by the passes over it   *)
(* that a disconnect takes.                                                *)
EXTENDS Clock

CONSTANTS
    Chunk,    \* CHUNK: bytes of a chunk variable
    MaxFile   \* MAX: bytes of the largest file handed down

\* What a case says, beside what Clock's does: the length of the file on the
\* medium at each start of stormbootx since the last reset; the families of
\* the drivers on it, in name order; prefer_media_drivers; and each function.
Families  == {"virtio", "mlx5"}
Functions ==
    [fam  : Families \cup {"other"},
     fw   : BOOLEAN,   \* the firmware's own driver binds it
     grip : 1 .. 4,    \* the pass in which that one lets go
     fits : BOOLEAN,   \* the media's driver binds it
     back : BOOLEAN]   \* the firmware's binds it again

ASSUME StartupAssumption ==
    /\ Chunk \in Nat \ {0} /\ MaxFile \in Nat
    /\ \A c \in Cases :
           /\ c.files \in Seq(Nat) /\ c.media \in Seq(Families) /\ c.prefer \in Seq(STRING)
           /\ c.machine \in Seq(Functions)
           /\ "drivers" \in Range(c.prog) => Len(c.machine) = Len(c.snps)

VARIABLES
    files, media, prefer, machine,  \* the case
    chunk,    \* StormBootInstallConfig<i>: whose bytes, or 0
    header,   \* StormBootInstallConfig, or NoHeader
    at,       \* the chunk, or the driver, the loop has come to
    stage,    \* of the drivers
    started,  \* the families whose driver was started
    holder,   \* who holds each function's PCI I/O
    todo,     \* the functions still to take
    passes    \* over the one being taken

VARIABLES     \* observers
    handed    \* the file this start says it handed down, or 0

startCase == <<files, media, prefer, machine>>
config    == <<chunk, header, handed>>
binding   == <<stage, started, holder, todo, passes>>
startVars == <<startCase, config, at, binding>>
netVars   == <<wire, world, prog, held, net, opened, pref, lease, link, mtu, primed, tx, api,
               counts, answered, mine, socks, clockVars>>
allVars   == <<vars, startVars>>

NoHeader == [of |-> 0, len |-> 0, n |-> 0]
MaxChunks == MaxFile \div Chunk   \* the last chunk's number

StartupCase(c) ==
    files = c.files /\ media = c.media /\ prefer = c.prefer /\ machine = c.machine

StartupInit ==
    /\ chunk = [i \in 0 .. MaxChunks |-> 0] /\ header = NoHeader /\ handed = 0
    /\ at = 0 /\ stage = "none" /\ started = {}
    /\ holder = [i \in Index |-> "none"]
    /\ todo = {} /\ passes = 0

Starting(op) == pc = "idle" /\ More /\ Op = op

EndedHere == Ended(last) /\ UNCHANGED <<mine, socks>>

------------------------------------------------------------------------------
(* install-config.yaml.                                                    *)

\* The start this is: its file is known by that number.
This == Cardinality({i \in 1 .. step + 1 : prog[i] = "config"})
Bytes == IF This \in DOMAIN files THEN files[This] ELSE 0

\* Mutant of Chunks: rounded down.
ChunksDown(len) == len \div Chunk

Chunks(len) == (len + Chunk - 1) \div Chunk

\* body.chunks: how many the loop sets, whatever the header says of them.
Pieces == (Bytes + Chunk - 1) \div Chunk

Refuses == Bytes = 0 \/ Bytes > MaxFile   \* none, empty or too large

Hand ==
    /\ Starting("config")
    /\ handed' = 0 /\ at' = 0
    /\ IF Refuses THEN EndedHere ELSE Begin("config")
    /\ UNCHANGED <<netVars, visible, snps, startCase, chunk, header, binding>>

SetChunk ==
    /\ pc = "config" /\ at < Pieces
    /\ chunk' = [chunk EXCEPT ![at] = This]
    /\ at' = at + 1
    /\ UNCHANGED <<vars, startCase, header, handed, binding>>

\* The variable store is full: the chunks this start set go.
ChunkRefused ==
    /\ pc = "config" /\ at < Pieces /\ "full" \in world
    /\ chunk' = [i \in DOMAIN chunk |-> IF i < at THEN 0 ELSE chunk[i]]
    /\ EndedHere
    /\ UNCHANGED <<netVars, visible, snps, startCase, header, handed, at, binding>>

\* The header last; refused, it leaves the chunks.
SetHeader ==
    /\ pc = "config" /\ at = Pieces
    /\ \/ /\ header' = [of |-> This, len |-> Bytes, n |-> Chunks(Bytes)]
          /\ handed' = This
       \/ "full" \in world /\ UNCHANGED <<header, handed>>
    /\ EndedHere
    /\ UNCHANGED <<netVars, visible, snps, startCase, chunk, at, binding>>

\* The reader's side, as parse_header and the module comment state it: the
\* chunks the header counts, if their length and their digest are its own.
LinuxReads ==
    LET whole == /\ header # NoHeader
                 /\ header.n = Chunks(header.len)
                 /\ \A i \in 0 .. header.n - 1 : chunk[i] = header.of
                 /\ header.n * Chunk >= header.len
    IN  IF whole THEN header.of ELSE 0

------------------------------------------------------------------------------
(* The drivers on the medium.                                              *)

NextStage(s) ==
    /\ stage' = s
    /\ UNCHANGED <<started, passes>>

\* What every disjunct of the loading leaves alone.
Loading == UNCHANGED <<netVars, startCase, config>>
StillLoading == Loading /\ UNCHANGED <<main, visible, snps>>

ListDrivers ==
    /\ Starting("drivers")
    /\ IF media = <<>> THEN EndedHere /\ UNCHANGED stage
                       ELSE Begin("drivers") /\ stage' = "platform"
    /\ at' = 1
    /\ Loading /\ UNCHANGED <<visible, snps, started, holder, todo, passes>>

Bound(i) == holder[i] # "none"

\* connect_all: a driver that was started binds only what nothing holds, and
\* which of two that would is asked first is the firmware's to say.
ConnectAll ==
    holder' \in {h \in [Index -> {"none", "fw", "ours"}] :
        \A i \in Index :
            IF Bound(i) THEN h[i] = holder[i]
            ELSE LET could == (IF machine[i].fw THEN {"fw"} ELSE {})
                              \cup (IF machine[i].fam \in started /\ machine[i].fits
                                    THEN {"ours"} ELSE {})
                 IN  h[i] \in IF could = {} THEN {"none"} ELSE could}

\* The platform's own drivers take what they will.
PlatformFirst ==
    /\ pc = "drivers" /\ stage = "platform"
    /\ ConnectAll
    /\ NextStage("load")
    /\ StillLoading /\ UNCHANGED <<at, todo>>

\* load_one: started, or not there any more.
LoadOne ==
    /\ pc = "drivers" /\ stage = "load" /\ at <= Len(media)
    /\ started' \in {started \cup {media[at]}}
                    \cup IF "bad" \in world THEN {started} ELSE {}
    /\ at' = at + 1
    /\ StillLoading /\ UNCHANGED <<stage, holder, todo, passes>>

\* The functions of a family, once its driver was started.
OfFamily(w) == {i \in Index : w \in Families \cap started /\ machine[i].fam = w}

BindThem ==
    /\ pc = "drivers" /\ stage = "load" /\ at > Len(media)
    /\ IF started = {} THEN UNCHANGED <<holder, todo>>
       ELSE /\ ConnectAll
            /\ todo' = UNION {OfFamily(w) : w \in Range(prefer)}
    /\ NextStage("take")
    /\ StillLoading /\ UNCHANGED at

\* take_over goes by family, then by function: they are apart.
Taking(i) == pc = "drivers" /\ stage = "take" /\ i \in todo /\ \A j \in todo : i <= j
Over(i)   == todo' = todo \ {i} /\ passes' = 0
TakeFrame == StillLoading /\ UNCHANGED <<at, stage, started>>

\* Nothing of the firmware's holds it.
NotHeld(i) ==
    /\ Taking(i) /\ passes = 0 /\ holder[i] # "fw"
    /\ holder' = IF machine[i].fits THEN [holder EXCEPT ![i] = "ours"] ELSE holder
    /\ Over(i)
    /\ TakeFrame

\* One pass of disconnect_tree: what is left holding counts, not the status.
Disconnect(i) ==
    /\ Taking(i) /\ holder[i] = "fw" /\ passes < 3
    /\ passes' = passes + 1
    /\ holder' = IF passes + 1 >= machine[i].grip THEN [holder EXCEPT ![i] = "none"]
                 ELSE holder
    /\ UNCHANGED todo
    /\ TakeFrame

\* After three it is connected again, and left with it.
WillNotLetGo(i) ==
    /\ Taking(i) /\ holder[i] = "fw" /\ passes = 3
    /\ Over(i)
    /\ TakeFrame /\ UNCHANGED holder

\* Mutant of GiveIt: a driver that did not bind is reported, and no more.
GiveItOnly(i) ==
    /\ Taking(i) /\ holder[i] = "none" /\ passes > 0
    /\ holder' = IF machine[i].fits THEN [holder EXCEPT ![i] = "ours"] ELSE holder
    /\ Over(i)
    /\ TakeFrame

\* To the media's driver, and back to the firmware's when that does not bind.
GiveIt(i) ==
    /\ Taking(i) /\ holder[i] = "none" /\ passes > 0
    /\ holder' = CASE machine[i].fits -> [holder EXCEPT ![i] = "ours"]
                   [] ~machine[i].fits /\ machine[i].back -> [holder EXCEPT ![i] = "fw"]
                   [] OTHER -> holder
    /\ Over(i)
    /\ TakeFrame

\* A function nothing drives has no SNP.
Loaded ==
    /\ pc = "drivers" /\ stage = "take" /\ todo = {}
    /\ stage' = "done"
    /\ visible' = \E i \in Index : Bound(i)
    /\ snps' = [i \in Index |-> IF Bound(i) THEN snps[i] ELSE "none"]
    /\ EndedHere
    /\ Loading /\ UNCHANGED <<at, started, holder, todo, passes>>

------------------------------------------------------------------------------
Handing == Hand \/ SetChunk \/ ChunkRefused \/ SetHeader
Drivers == \/ ListDrivers \/ PlatformFirst \/ LoadOne \/ BindThem \/ Loaded
           \/ \E i \in Index : NotHeld(i) \/ Disconnect(i) \/ WillNotLetGo(i) \/ GiveIt(i)

StartInit ==
    /\ \E c \in Cases : NicCase(c) /\ ClockCase(c) /\ StartupCase(c)
    /\ NicInit /\ ClockInit /\ StartupInit
StartNext == \/ Next /\ UNCHANGED startVars
             \/ Handing \/ Drivers
StartSpec == StartInit /\ [][StartNext]_allVars

\* As Clock's: the mainline goes on.
StartGoesOn == (GoesOn /\ UNCHANGED startVars) \/ Handing \/ Drivers
FairStartSpec == StartSpec /\ WF_allVars(StartGoesOn)

------------------------------------------------------------------------------
(* Properties.                                                             *)

\* What a start says it handed down is what Linux reads, to its last byte,
\* whatever an earlier start left in the variables and whatever the store
\* refused (installconf.rs: "a header means every chunk is there").
HandedWhole ==
    pc = "idle" /\ handed # 0 => LinuxReads = handed

\* A NIC the firmware drove has a driver when the media's have been loaded,
\* unless its own will not take it back (drivers.rs: "a NIC is never left with
\* no driver").
NeverBare ==
    stage = "done" =>
        \A i \in Index : machine[i].fw /\ machine[i].back => Bound(i)

\* A native driver keeps every NIC it takes but those the media names, and of
\* these the ones whose driver was started (drivers.rs: "it never displaces a
\* native driver", "without the key nothing is taken from anyone").
PlatformKeeps ==
    stage = "done" =>
        \A i \in Index :
            machine[i].fw /\ (machine[i].fam \notin Range(prefer) \cap started)
                => holder[i] = "fw"

\* Taking NICs for the media's drivers takes no more than was asked and leaves
\* none without a driver.
NicsKept == NeverBare /\ PlatformKeeps
==============================================================================
