------------------------------ MODULE EspReader ------------------------------
(* The ESP read without the firmware's FAT: esp.rs finds it in the GPT,    *)
(* mounts it and follows its chains, espboot.rs reads the bootloader off   *)
(* it whole, and espfs.rs serves it to the bootloader as open files and    *)
(* listings, call by call.  A read of the disk may fail at any time.       *)
(*                                                                         *)
(* Places are in sectors from the partition's start.  A sector holds       *)
(* SectorFat bytes of FAT, SectorSlots directory slots, or one unit of a   *)
(* file; a cluster is spc sectors.                                         *)
EXTENDS Integers, Sequences, FiniteSets

CONSTANTS
    Disks,                   \* what the disk says
    SectorFat, SectorSlots,
    End,                     \* the least FAT entry that ends a chain
    Fat12, Fat16,            \* clusters from which a FAT is 16 and 32 bits wide
    Buffers,                 \* units a Read may ask for
    MaxFails, MaxCalls

\* A disk: gpt, its header ("good" or what is wrong), entries and whether these
\* pass their CRC; boot, the boot sector; fats, its FATs by number; slots, of the
\* fixed root (0) and of clusters; path, where the file is; does, the calls made.
Calls == {"load", "open", "read", "seek", "list", "rewind"}

\* A directory's entry, of a file or of a directory.
Entries == [first : Nat, size : Nat, dir : BOOLEAN]

\* A slot that is an entry's has one; one that is a long name's part has its number.
IsSlot(s) ==
    /\ s.is = "entry" => s.e \in Entries
    /\ s.is = "part" => s.seq \in Nat /\ s.begins \in BOOLEAN

ASSUME EspAssumption ==
    /\ {SectorFat, SectorSlots, End, Fat12, Fat16, MaxFails, MaxCalls} \subseteq Nat
    /\ SectorFat >= 8 /\ SectorSlots > 0
    /\ Buffers \subseteq Nat /\ Fat12 < Fat16
    /\ \A d \in Disks : d.does \subseteq Calls /\ d.path # <<>>

VARIABLES
    disk,
    stage,    \* "gpt", "mount", "up", "dead"
    part,     \* the partition found
    vol,      \* the mounted FAT
    fatCache, dirCache,   \* the sector each names, and the one its bytes are of
    doing,    \* "idle", "look", "seek", "run", "fetch", "whole", "give", "panic"
    look,     \* a lookup: what for, the path left, the directory, its listing
    walk,     \* a file being read
    file, list,           \* the open file, and the open directory's listing
    out,      \* how the last call ended
    listed,   \* what the listing has given since it began
    touched,  \* the sectors of the last read of the volume
    fails, calls

espVars == <<disk, stage, part, vol, fatCache, dirCache, doing, look, walk, file, list, out,
          listed, touched, fails, calls>>
caches == <<fatCache, dirCache, touched, fails>>
mounted == <<disk, stage, part, vol>>

NoPart == [first |-> 0, last |-> 0]
NoVol == [kind |-> 0, spc |-> 1, fatAt |-> 0, rootAt |-> 0, rootLen |-> 0, dataAt |-> 0,
          clusters |-> 0, root |-> 0, active |-> 0]
Nowhere == -1
Empty == [at |-> Nowhere, holds |-> Nowhere]
Root == [first |-> 0, size |-> 0, dir |-> TRUE]
NoLfn == [ok |-> FALSE, expect |-> 0, sum |-> 0, text |-> <<>>]
NoCursor == [c |-> Nowhere, at |-> 0, steps |-> 0, done |-> FALSE, lfn |-> NoLfn]
NoLook == [op |-> "", path |-> <<>>, dir |-> Root, cur |-> NoCursor]
NoWalk == [op |-> "", of |-> Root, pos |-> 0, want |-> 0, idx |-> 0, c |-> 0, start |-> 0,
           span |-> 0, data |-> <<>>, after |-> 0, steps |-> 0]
NoFile == [open |-> FALSE, of |-> Root, pos |-> 0, idx |-> 0, c |-> 0]
NoOut == [op |-> "", st |-> "", of |-> Root, pos |-> 0, data |-> <<>>]

EspInit ==
    /\ disk \in Disks
    /\ stage = "gpt" /\ part = NoPart /\ vol = NoVol
    /\ fatCache = Empty /\ dirCache = Empty
    /\ doing = "idle" /\ look = NoLook /\ walk = NoWalk
    /\ file = NoFile /\ list = NoCursor /\ out = NoOut /\ listed = <<>>
    /\ touched = <<0, 0>> /\ fails = 0 /\ calls = 0

Fails == fails < MaxFails /\ fails' = fails + 1

------------------------------------------------------------------------------
(* find_esp and mount.                                                     *)

Esps == {i \in DOMAIN disk.gpt.parts : disk.gpt.parts[i].esp}
FirstEsp == disk.gpt.parts[CHOOSE i \in Esps : \A j \in Esps : i <= j]

\* Mutant of GptGood: what was found before the array's CRC is kept.
GptGoodBeforeTheArray ==
    /\ disk.gpt.head = "good" /\ Esps # {}
    /\ FirstEsp.first # 0 /\ FirstEsp.last >= FirstEsp.first

\* A header of a fair size that passes its CRC; entries of a fair size, not too
\* many of them, that pass theirs; and an ESP among them, not an empty one.
GptGood ==
    /\ disk.gpt.head = "good" /\ disk.gpt.sum /\ Esps # {}
    /\ FirstEsp.first # 0 /\ FirstEsp.last >= FirstEsp.first

FindEsp ==
    /\ stage = "gpt"
    /\ \/ Fails /\ stage' = "dead" /\ UNCHANGED part
       \/ ~GptGood /\ stage' = "dead" /\ UNCHANGED <<part, fails>>
       \/ /\ GptGood /\ stage' = "mount" /\ UNCHANGED fails
          /\ part' = [first |-> FirstEsp.first, last |-> FirstEsp.last]
    /\ UNCHANGED <<disk, vol, fatCache, dirCache, doing, look, walk, file, list, out, listed,
                   touched, calls>>

Sectors == part.last - part.first + 1

Up(n, d) == (n + d - 1) \div d
FatSize(b) == IF b.fat16 # 0 THEN b.fat16 ELSE b.fat32
RootLen(b) == Up(b.roots, SectorSlots)
Meta(b) == b.reserved + b.nfats * FatSize(b) + RootLen(b)
Clusters(b) == (b.total - Meta(b)) \div b.spc

\* A boot sector with no 16-bit FAT size is FAT32 whatever its cluster count.
Kind(b) == IF b.fat16 = 0 THEN 32 ELSE IF Clusters(b) < Fat12 THEN 12
           ELSE IF Clusters(b) < Fat16 THEN 16 ELSE 32
\* Mirroring off: only the one active FAT is current.
Active(b) == IF Kind(b) = 32 /\ b.single THEN b.active ELSE 0

InVolume(c, clusters) == c >= 2 /\ c < clusters + 2

\* A boot sector that agrees with itself.
Agrees(b) ==
    /\ b.spc \in {1, 2, 4, 8, 16, 32, 64, 128} /\ b.reserved # 0 /\ b.nfats # 0
    /\ b.total # 0 /\ FatSize(b) # 0 /\ Meta(b) < b.total
    /\ IF Kind(b) = 32
       THEN b.roots = 0 /\ b.fat16 = 0 /\ Active(b) < b.nfats /\ InVolume(b.root, Clusters(b))
       ELSE b.roots # 0

Fits(b) == Agrees(b) /\ b.total <= Sectors

Volume(b) ==
    LET rootAt == b.reserved + b.nfats * FatSize(b)
    IN  [kind |-> Kind(b), spc |-> b.spc, fatAt |-> b.reserved + Active(b) * FatSize(b),
         rootAt |-> rootAt, rootLen |-> RootLen(b), dataAt |-> rootAt + RootLen(b),
         clusters |-> Clusters(b), root |-> IF Kind(b) = 32 THEN b.root ELSE 0,
         active |-> Active(b)]

\* The slots of the fixed root (0) or of a cluster.
SlotsIn(v, c) == (IF c = 0 THEN v.rootLen ELSE v.spc) * SectorSlots

\* What a disk says is numbers, entries and flags, whatever they say; a volume's
\* clusters each have an entry in its FAT, and slots.
ASSUME DisksAssumption ==
    \A d \in Disks :
        /\ DOMAIN d.gpt.parts \subseteq Nat
        /\ \A i \in DOMAIN d.gpt.parts :
               d.gpt.parts[i] \in [esp : BOOLEAN, first : Nat, last : Nat]
        /\ d.boot \in [spc : Nat, reserved : Nat, nfats : Nat, fat16 : Nat, fat32 : Nat,
                       roots : Nat, total : Nat, single : BOOLEAN, active : Nat, root : Nat]
        /\ Agrees(d.boot) =>
             LET v == Volume(d.boot)
                 clusters == 2 .. v.clusters + 1
             IN  /\ \A c \in clusters : d.fats[v.active][c] \in Nat
                 /\ \A c \in clusters \cup IF v.kind = 32 THEN {} ELSE {0} :
                        /\ DOMAIN d.slots[c] = 1 .. SlotsIn(v, c)
                        /\ \A i \in DOMAIN d.slots[c] :
                               IsSlot(d.slots[c][i])

Mount ==
    /\ stage = "mount"
    /\ \/ Fails /\ stage' = "dead" /\ UNCHANGED vol
       \/ ~Fits(disk.boot) /\ stage' = "dead" /\ UNCHANGED <<vol, fails>>
       \/ Fits(disk.boot) /\ stage' = "up" /\ vol' = Volume(disk.boot) /\ UNCHANGED fails
    /\ fatCache' = Empty /\ dirCache' = Empty
    /\ UNCHANGED <<disk, part, doing, look, walk, file, list, out, listed, touched, calls>>

------------------------------------------------------------------------------
(* cached and next.                                                        *)

Missed(k, sector) == [k EXCEPT !.at = Nowhere]

\* The bytes from sector lo to hi, which are one or two, through the cache k.
Cached(k, lo, hi) ==
    {[ok |-> TRUE, right |-> k.at # lo \/ k.holds = lo, at |-> lo,
      cache |-> IF k.at = lo /\ hi = lo THEN k ELSE [at |-> hi, holds |-> hi]]}
    \cup {[ok |-> FALSE, right |-> FALSE, at |-> sector, cache |-> Missed(k, sector)] :
              sector \in IF fails = MaxFails THEN {} ELSE {lo, hi} \ {k.at}}

Valid(c) == InVolume(c, vol.clusters)
ClusterAt(c) == vol.dataAt + (c - 2) * vol.spc

\* Where the FAT's entry of c begins, and how many bytes of it are read.
EntryAt(c) == IF vol.kind = 12 THEN c + c \div 2 ELSE IF vol.kind = 16 THEN 2 * c ELSE 4 * c
Width == IF vol.kind = 32 THEN 4 ELSE 2

Value(c, right) == IF right THEN {disk.fats[vol.active][c]} ELSE {End} \cup 2 .. vol.clusters + 1

\* The cluster after c, the chain's end, or what is wrong.
Next1(c) ==
    LET lo == vol.fatAt + EntryAt(c) \div SectorFat
        hi == vol.fatAt + (EntryAt(c) + Width - 1) \div SectorFat
    IN  UNION {IF ~r.ok THEN {[st |-> "io", c |-> 0, cache |-> r.cache, at |-> r.at]}
               ELSE {[st |-> IF v >= End THEN "end" ELSE IF Valid(v) THEN "ok" ELSE "corrupt",
                      c |-> v, cache |-> r.cache, at |-> hi] : v \in Value(c, r.right)} :
                  r \in Cached(fatCache, lo, hi)}

Followed(r) ==
    /\ fatCache' = r.cache /\ touched' = <<r.at, 1>>
    /\ fails' = IF r.st = "io" THEN fails + 1 ELSE fails
    /\ UNCHANGED dirCache

------------------------------------------------------------------------------
(* Listings: open_dir and next_entry, one slot or one link at a time.      *)

\* `..` of a first-level directory names the root as cluster 0.
DirStart(e) == IF e.first = 0 /\ vol.kind = 32 THEN vol.root ELSE e.first
Cursor(e) == [NoCursor EXCEPT !.c = DirStart(e)]
Opens(e) == e.dir /\ (DirStart(e) = 0 \/ Valid(DirStart(e)))

Length(cursor) == SlotsIn(vol, cursor.c)
SlotSector(cursor) ==
    (IF cursor.c = 0 THEN vol.rootAt ELSE ClusterAt(cursor.c)) + cursor.at \div SectorSlots

\* Lfn: a long name's parts come last first, each with its short name's checksum.
BeginsName(s) == [ok |-> s.seq \in 1 .. 20, expect |-> s.seq - 1, sum |-> s.sum,
              text |-> [i \in 1 .. s.seq |-> IF i = s.seq THEN s.part ELSE ""]]

\* Mutant of Pushed: a part is its name's by its number.
PushedByNumber(l, s) ==
    IF s.begins THEN BeginsName(s)
    ELSE IF ~(l.ok /\ s.seq = l.expect) THEN [l EXCEPT !.ok = FALSE]
    ELSE [l EXCEPT !.expect = s.seq - 1, !.text[s.seq] = s.part, !.sum = s.sum]

Pushed(l, s) ==
    IF s.begins THEN BeginsName(s)
    ELSE IF ~(l.ok /\ s.seq = l.expect /\ s.sum = l.sum) THEN [l EXCEPT !.ok = FALSE]
    ELSE [l EXCEPT !.expect = s.seq - 1, !.text[s.seq] = s.part]

\* Part 0 of a name that is whole: one less than none.
Wraps(l, s) == s.is = "part" /\ ~s.begins /\ l.ok /\ s.seq = 0 /\ l.expect = 0 /\ s.sum = l.sum

LongName(l, sum) == IF l.ok /\ l.expect = 0 /\ l.sum = sum THEN l.text ELSE <<>>
Listed(s, l) == [e |-> s.e, short |-> s.short, long |-> LongName(l, s.sum)]
Matches(item, name) == item.short = name.short \/ (item.long # <<>> /\ item.long = name.long)

Past(cursor) == [cursor EXCEPT !.at = @ + 1, !.lfn.ok = FALSE]
Skips(cursor, s) ==
    IF s.is = "part" THEN [Past(cursor) EXCEPT !.lfn = Pushed(cursor.lfn, s)] ELSE Past(cursor)

\* One step of next_entry from a cursor: more to look at, an entry, the end, or
\* what is wrong.
Step(st, cursor, item) == [st |-> st, cur |-> cursor, item |-> item]
Nothing == [e |-> Root, short |-> "", long |-> <<>>]
Ends(cursor) == Step("end", [cursor EXCEPT !.done = TRUE], Nothing)

TooManySteps(n) == n > vol.clusters

\* Mutant of Linked: the links are not counted.
LinkedUncounted(cursor, r) ==
    IF r.st = "end" THEN Ends(cursor)
    ELSE IF r.st # "ok" THEN Step(r.st, cursor, Nothing)
    ELSE Step("more", [cursor EXCEPT !.c = r.c, !.at = 0], Nothing)

Linked(cursor, r) ==
    IF r.st = "end" THEN Ends(cursor)
    ELSE IF r.st # "ok" THEN Step(r.st, cursor, Nothing)
    ELSE IF TooManySteps(cursor.steps + 1) THEN Step("corrupt", cursor, Nothing)
    ELSE Step("more", [cursor EXCEPT !.c = r.c, !.at = 0, !.steps = @ + 1], Nothing)

Slotted(cursor, s) ==
    IF s.is = "free" THEN Ends(cursor)
    ELSE IF Wraps(cursor.lfn, s) THEN Step("panic", cursor, Nothing)
    ELSE IF s.is # "entry" THEN Step("more", Skips(cursor, s), Nothing)
    ELSE Step("ok", Past(cursor), Listed(s, cursor.lfn))

FollowsLink(cursor) ==
    {[step |-> Linked(cursor, r), fat |-> r.cache, dir |-> dirCache, touched |-> <<r.at, 1>>,
      fails |-> IF r.st = "io" THEN fails + 1 ELSE fails] : r \in Next1(cursor.c)}

ReadsSlot(cursor) ==
    LET got == Cached(dirCache, SlotSector(cursor), SlotSector(cursor))
        slots(right) == IF right THEN {disk.slots[cursor.c][cursor.at + 1]} ELSE {[is |-> "free"]}
        steps(r) == IF r.ok THEN {Slotted(cursor, s) : s \in slots(r.right)}
                            ELSE {Step("io", cursor, Nothing)}
    IN  UNION {{[step |-> st, fat |-> fatCache, dir |-> r.cache,
                 touched |-> <<SlotSector(cursor), 1>>,
                 fails |-> IF r.ok THEN fails ELSE fails + 1] : st \in steps(r)} : r \in got}

\* The steps the listing `cursor` may take, with what each leaves in the caches.
Advance(cursor) ==
    IF cursor.done \/ (cursor.at >= Length(cursor) /\ cursor.c = 0)
    THEN {[step |-> Ends(cursor), fat |-> fatCache, dir |-> dirCache, touched |-> touched,
           fails |-> fails]}
    ELSE IF cursor.at >= Length(cursor) THEN FollowsLink(cursor) ELSE ReadsSlot(cursor)

Advanced(a) ==
    fatCache' = a.fat /\ dirCache' = a.dir /\ touched' = a.touched /\ fails' = a.fails

------------------------------------------------------------------------------
(* Calls.                                                                  *)

Idle == stage = "up" /\ doing = "idle"
MayCall(op) == Idle /\ op \in disk.does /\ calls < MaxCalls /\ calls' = calls + 1

Returns(op, st, of, pos, data) ==
    /\ out' = [op |-> op, st |-> st, of |-> of, pos |-> pos, data |-> data]
    /\ doing' = IF st = "panic" THEN "panic" ELSE "idle"
    /\ look' = NoLook /\ walk' = NoWalk

\* lookup's walk for espboot's read, or the bootloader's Open.
StartFind ==
    /\ \E op \in {"load", "open"} :
           MayCall(op) /\ look' = [op |-> op, path |-> disk.path, dir |-> Root, cur |-> Cursor(Root)]
    /\ doing' = "look" /\ out' = NoOut
    /\ UNCHANGED <<mounted, caches, walk, file, list, listed>>

Goes(e) == IF e.dir /\ e.first = 0 THEN Root ELSE e

\* read_file begins: the whole of the file into a buffer of its size.
Whole(e) ==
    IF e.dir THEN Returns("load", "not a file", e, 0, <<>>)
    ELSE IF e.size = 0 THEN Returns("load", "ok", e, 0, <<>>)
    ELSE IF ~Valid(e.first) THEN Returns("load", "corrupt", e, 0, <<>>)
    ELSE /\ walk' = [NoWalk EXCEPT !.op = "load", !.of = e, !.want = e.size, !.c = e.first,
                                   !.start = e.first, !.span = vol.spc]
         /\ doing' = "whole" /\ look' = NoLook /\ out' = NoOut

\* A component is found: the next is looked for in it, or the walk is over.
Found(e) ==
    IF Len(look.path) > 1
    THEN IF Opens(e)
         THEN /\ look' = [look EXCEPT !.path = Tail(@), !.dir = e, !.cur = Cursor(e)]
              /\ UNCHANGED <<doing, walk, out, file>>
         ELSE Returns(look.op, IF e.dir THEN "corrupt" ELSE "not found", e, 0, <<>>)
              /\ UNCHANGED file
    ELSE IF look.op = "load" THEN Whole(e) /\ UNCHANGED file
    ELSE /\ file' = [NoFile EXCEPT !.open = TRUE, !.of = e]
         /\ Returns("open", "ok", e, 0, <<>>)

Looks(r) ==
    CASE r.st = "more" -> look' = [look EXCEPT !.cur = r.cur] /\ UNCHANGED <<doing, walk, out, file>>
      [] r.st = "ok" /\ Matches(r.item, Head(look.path)) -> Found(Goes(r.item.e))
      [] r.st = "ok" /\ ~Matches(r.item, Head(look.path)) ->
             look' = [look EXCEPT !.cur = r.cur] /\ UNCHANGED <<doing, walk, out, file>>
      [] r.st = "end" -> Returns(look.op, "not found", look.dir, 0, <<>>) /\ UNCHANGED file
      [] OTHER -> Returns(look.op, r.st, look.dir, 0, <<>>) /\ UNCHANGED file

Look ==
    /\ doing = "look"
    /\ \E a \in Advance(look.cur) : Looks(a.step) /\ Advanced(a)
    /\ UNCHANGED <<mounted, list, listed, calls>>

\* A directory's Read: next_entry on a copy of the cursor, kept when the
\* caller's buffer takes the entry.
StartList ==
    /\ MayCall("list")
    /\ doing' = "give" /\ out' = NoOut
    /\ look' = [NoLook EXCEPT !.op = "list",
                              !.cur = IF list = NoCursor THEN Cursor(Root) ELSE list]
    /\ UNCHANGED <<mounted, caches, walk, file, list, listed>>

Kept(cursor, fits) == IF fits THEN cursor ELSE IF list = NoCursor THEN Cursor(Root) ELSE list

Gives(r) ==
    CASE r.st = "more" -> look' = [look EXCEPT !.cur = r.cur] /\ UNCHANGED <<doing, walk, out, list, listed>>
      [] r.st = "ok" ->
             \E fits \in BOOLEAN :
                 /\ list' = Kept(r.cur, fits)
                 /\ listed' = IF fits THEN Append(listed, r.item) ELSE listed
                 /\ Returns("list", IF fits THEN "ok" ELSE "too small", Root, 0, <<>>)
      [] OTHER -> Returns("list", r.st, Root, 0, <<>>) /\ UNCHANGED <<list, listed>>

Give ==
    /\ doing = "give"
    /\ \E a \in Advance(look.cur) : Gives(a.step) /\ Advanced(a)
    /\ UNCHANGED <<mounted, file, calls>>

Rewind ==
    /\ MayCall("rewind") /\ list # NoCursor
    /\ list' = NoCursor /\ listed' = <<>> /\ out' = NoOut
    /\ UNCHANGED <<mounted, caches, doing, look, walk, file>>

Seek ==
    /\ MayCall("seek") /\ file.open /\ ~file.of.dir
    /\ \E pos \in 0 .. file.of.size + 1 : pos # file.pos /\ file' = [file EXCEPT !.pos = pos]
    /\ UNCHANGED <<mounted, caches, doing, look, walk, list, out, listed>>

------------------------------------------------------------------------------
(* read_at and read_file.                                                  *)

Least(a, b) == IF a < b THEN a ELSE b

\* Mutant of FromHint: wherever the last read ended.
FromHintAnywhere(target) == file.c # 0

\* The last read's end serves one at or after it.
FromHint(target) == file.c # 0 /\ file.idx <= target

StartRead ==
    /\ MayCall("read") /\ file.open /\ ~file.of.dir
    /\ \E n \in Buffers :
           LET size == file.of.size
               target == file.pos \div vol.spc
               hinted == FromHint(target)
           IN  IF file.pos > size
               THEN Returns("read", "device error", file.of, file.pos, <<>>)
               ELSE IF n = 0 \/ file.pos = size
               THEN Returns("read", "ok", file.of, file.pos, <<>>)
               ELSE IF ~hinted /\ ~Valid(file.of.first)
               THEN Returns("read", "corrupt", file.of, file.pos, <<>>)
               ELSE /\ doing' = "seek" /\ out' = NoOut /\ UNCHANGED look
                    /\ walk' = [NoWalk EXCEPT
                           !.op = "read", !.of = file.of, !.pos = file.pos,
                           !.want = Least(n, size - file.pos),
                           !.idx = IF hinted THEN file.idx ELSE 0,
                           !.c = IF hinted THEN file.c ELSE file.of.first]
    /\ UNCHANGED <<mounted, caches, file, list, listed>>

Fail(st) == Returns(walk.op, st, walk.of, walk.pos, <<>>)

\* A link of the chain, or why there is none.
Link(r, w) ==
    IF r.st # "ok" THEN Fail(IF r.st = "end" THEN "corrupt" ELSE r.st)
    ELSE IF TooManySteps(walk.steps + 1) THEN Fail("corrupt")
    ELSE walk' = [w EXCEPT !.steps = @ + 1] /\ UNCHANGED <<doing, look, out>>

\* To the cluster the position is in.
SeekOn ==
    /\ doing = "seek"
    /\ IF walk.idx < walk.pos \div vol.spc
       THEN \E r \in Next1(walk.c) :
                Followed(r) /\ Link(r, [walk EXCEPT !.idx = @ + 1, !.c = r.c])
       ELSE /\ doing' = "run"
            /\ walk' = [walk EXCEPT !.start = walk.c, !.span = vol.spc - (walk.pos % vol.spc)]
            /\ UNCHANGED <<caches, look, out>>
    /\ UNCHANGED <<mounted, file, list, listed, calls>>

Left == walk.want - Len(walk.data)

\* A run grows over consecutive clusters until it holds what is wanted.
RunOn ==
    /\ doing = "run"
    /\ IF walk.span < Left /\ walk.after = 0
       THEN \E r \in Next1(walk.c) :
                /\ Followed(r)
                /\ IF r.st = "ok" /\ r.c # walk.c + 1
                   THEN walk' = [walk EXCEPT !.after = r.c] /\ UNCHANGED <<doing, look, out>>
                   ELSE Link(r, [walk EXCEPT !.idx = @ + 1, !.c = r.c, !.span = @ + vol.spc])
       ELSE doing' = "fetch" /\ UNCHANGED <<caches, walk, look, out>>
    /\ UNCHANGED <<mounted, file, list, listed, calls>>

\* The sectors of a run, those of them that are wanted, and what these hold.
RunAt == ClusterAt(walk.start)
         + (IF walk.data = <<>> THEN walk.pos % vol.spc ELSE 0)
Wanted == <<RunAt, Least(walk.span, Left)>>
Fetched == walk.data \o [i \in 1 .. Wanted[2] |-> RunAt + i - 1]

FetchFails ==
    /\ doing \in {"fetch", "whole"} /\ (doing = "whole" => walk.span >= Left \/ walk.after # 0)
    /\ Fails
    /\ Fail("io") /\ touched' = Wanted
    /\ UNCHANGED <<mounted, file, list, listed, calls, fatCache, dirCache>>

Fetch ==
    /\ doing = "fetch"
    /\ touched' = Wanted
    /\ IF walk.span >= Left
       THEN /\ Returns("read", "ok", walk.of, walk.pos, Fetched)
            /\ file' = [file EXCEPT !.pos = @ + walk.want, !.idx = walk.idx, !.c = walk.c]
       ELSE /\ IF TooManySteps(walk.steps + 1) THEN Fail("corrupt")
               ELSE /\ doing' = "run" /\ UNCHANGED <<look, out>>
                    /\ walk' = [walk EXCEPT !.data = Fetched, !.c = walk.after,
                           !.start = walk.after, !.idx = @ + 1, !.span = vol.spc, !.after = 0,
                           !.steps = @ + 1]
            /\ UNCHANGED file
    /\ UNCHANGED <<mounted, list, listed, calls, fatCache, dirCache, fails>>

\* The run does not reach the file's end.
Short(span, left) == span < left

\* read_file's own walk.
WholeOn ==
    /\ doing = "whole" /\ Short(walk.span, Left) /\ walk.after = 0
    /\ \E r \in Next1(walk.c) :
           /\ Followed(r)
           /\ Link(r, IF r.c = walk.c + 1 THEN [walk EXCEPT !.c = r.c, !.span = @ + vol.spc]
                      ELSE [walk EXCEPT !.after = r.c])
    /\ UNCHANGED <<mounted, file, list, listed, calls>>

WholeFetch ==
    /\ doing = "whole" /\ (~Short(walk.span, Left) \/ walk.after # 0)
    /\ touched' = Wanted
    /\ IF walk.after = 0 THEN Returns("load", "ok", walk.of, 0, Fetched)
       ELSE /\ walk' = [walk EXCEPT !.data = Fetched, !.c = walk.after, !.start = walk.after,
                                    !.span = vol.spc, !.after = 0]
            /\ UNCHANGED <<doing, look, out>>
    /\ UNCHANGED <<mounted, file, list, listed, calls, fatCache, dirCache, fails>>

------------------------------------------------------------------------------
EspNext == \/ FindEsp \/ Mount
        \/ StartFind \/ Look \/ StartList \/ Give \/ Rewind \/ Seek
        \/ StartRead \/ SeekOn \/ RunOn \/ FetchFails \/ Fetch \/ WholeOn \/ WholeFetch

EspSpec == EspInit /\ [][EspNext]_espVars

\* A call goes on to its end.
FairEsp == EspSpec /\ WF_espVars(Look \/ Give \/ SeekOn \/ RunOn \/ Fetch \/ WholeOn \/ WholeFetch)

------------------------------------------------------------------------------
(* What the disk says, read by its definition.                             *)

Current == disk.fats[IF disk.boot.fat16 = 0 /\ disk.boot.single THEN disk.boot.active ELSE 0]
\* The k-th cluster of a chain from c in a FAT of so many clusters, or 0 past
\* what is there: an entry at or above End ends the chain.
Nth(fat, clusters, c, k) ==
    LET chain[i \in 0 .. k] ==
            IF i = 0 THEN IF InVolume(c, clusters) THEN c ELSE 0
            ELSE LET n == fat[chain[i - 1]]
                 IN  IF chain[i - 1] = 0 \/ n >= End \/ ~InVolume(n, clusters) THEN 0 ELSE n
    IN  chain[k]

Kth(c, k) == Nth(Current, vol.clusters, c, k)

UnitAt(e, u) == ClusterAt(Kth(e.first, u \div vol.spc)) + (u % vol.spc)
Units(e, from, n) == [i \in 1 .. n |-> UnitAt(e, from + i - 1)]

\* A file's clusters, distinct and in the volume, as many as its size takes.
Sound(e) ==
    LET last == Up(e.size, vol.spc) - 1
    IN  /\ last < vol.clusters
        /\ \A k \in 0 .. last : Kth(e.first, k) # 0
        /\ \A j, k \in 0 .. last : j # k => Kth(e.first, j) # Kth(e.first, k)

\* A directory's chain that ends, without a cluster twice.
SoundDir(e) ==
    LET c == IF e.first = 0 THEN vol.root ELSE e.first
    IN  c = 0 \/ \E n \in 0 .. vol.clusters - 1 :
                     /\ \A k \in 0 .. n : Kth(c, k) # 0
                     /\ Current[Kth(c, n)] >= End
\* Its slots in order: the fixed root's, or its clusters', of as many of these as
\* the volume has, and of one more, where a chain that loops is known to.
SlotsOf(e) ==
    LET c == IF e.first = 0 THEN vol.root ELSE e.first
        n == SlotsIn(vol, c)
        places == {i \in 1 .. (vol.clusters + 1) * n :
                       \A k \in 0 .. (i - 1) \div n : Kth(c, k) # 0}
    IN  IF c = 0 THEN disk.slots[0]
        ELSE [i \in places |-> disk.slots[Kth(c, (i - 1) \div n)][((i - 1) % n) + 1]]

\* Parts n down to 1 of a long name, and of no other, are before the slot i.
IsNamed(s, i, n) ==
    \A j \in 1 .. n : LET t == s[i - j]
                      IN  /\ t.is = "part" /\ t.seq = j /\ t.sum = s[i].sum
                          /\ (t.begins <=> j = n)

\* A whole run of parts before a short name is its long name.
NameOf(s, i) ==
    LET runs == {n \in 1 .. 20 : n < i /\ IsNamed(s, i, n)}
    IN  IF runs = {} THEN <<>> ELSE LET n == CHOOSE n \in runs : TRUE
                                    IN  [j \in 1 .. n |-> s[i - j].part]

\* The entries in use: those before the first free slot.
UsedIn(s) == {i \in DOMAIN s : s[i].is = "entry" /\ \A j \in 1 .. i : s[j].is # "free"}
NthOf(S, k) == CHOOSE i \in S : Cardinality({j \in S : j < i}) + 1 = k
ItemAt(s, i) == [e |-> s[i].e, short |-> s[i].short, long |-> NameOf(s, i)]
Items(e) == LET s == SlotsOf(e)
            IN  [k \in 1 .. Cardinality(UsedIn(s)) |-> ItemAt(s, NthOf(UsedIn(s), k))]

------------------------------------------------------------------------------
(* Properties.                                                             *)

\* The state's shape.
EspTypeOK ==
    /\ stage \in {"gpt", "mount", "up", "dead"}
    /\ doing \in {"idle", "look", "seek", "run", "fetch", "whole", "give", "panic"}
    /\ doing # "idle" => stage = "up"
    /\ fails \in 0 .. MaxFails /\ calls \in 0 .. MaxCalls
    /\ walk.steps <= vol.clusters /\ look.cur.steps <= vol.clusters
    /\ Len(walk.data) <= walk.want
    /\ file.open => file.pos \in 0 .. file.of.size + 1

\* The partition read is the first ESP of a table that passes both its CRCs.
TheEsp ==
    part # NoPart => /\ disk.gpt.head = "good" /\ disk.gpt.sum
                     /\ part.first = FirstEsp.first /\ part.last = FirstEsp.last

\* No read of the volume leaves its partition, whatever the boot sector and the
\* FAT say.
ReadsInside == stage = "up" => touched[1] >= 0 /\ touched[1] + touched[2] <= Sectors

\* The bytes read are the image's ESP's: of the partition its table means, and
\* none outside it.
StaysInTheEsp == EspTypeOK /\ TheEsp /\ ReadsInside

\* What a read gives is what the file's chain holds there, in order, after seeks
\* either way, reads that failed and across runs; a load gives all of it.
ReadIsTheChain ==
    /\ out.op = "read" /\ out.st = "ok" => out.data = Units(out.of, out.pos, Len(out.data))
    /\ out.op = "load" /\ out.st = "ok" => out.data = Units(out.of, 0, out.of.size)

\* A filesystem is called corrupt only where it contradicts itself.
CorruptIsSo ==
    out.st = "corrupt" => IF out.of.dir THEN ~SoundDir(out.of) ELSE ~Sound(out.of)

\* What a call answers is so: the file's bytes, or that it is corrupt.
AnswersTrue == ReadIsTheChain /\ CorruptIsSo

\* A listing gives every entry once and in order, each under its own name,
\* whatever did not fit or failed in between; and it ends when it has given all.
ListsThemAll ==
    /\ listed # <<>> =>
          /\ Len(listed) <= Len(Items(Root))
          /\ \A k \in DOMAIN listed : listed[k] = Items(Root)[k]
    /\ out.op = "list" /\ out.st = "end" => Len(listed) = Len(Items(Root))

\* A call ends, though a chain loops.
CallsEnd == doing # "idle" ~> doing \in {"idle", "panic"}

\* A directory that contradicts itself is an error, never a panic.
NeverPanics == doing # "panic"
==============================================================================
