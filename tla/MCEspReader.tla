----------------------------- MODULE MCEspReader -----------------------------
(* Small disks: every chain of three of a FAT12's four clusters,           *)
(* directories with names of every kind, and boot sectors around each of   *)
(* mount's refusals.                                                       *)
EXTENDS EspReader, TLC

Good == [head |-> "good", sum |-> TRUE,
         parts |-> <<[esp |-> FALSE, first |-> 1, last |-> 3], [esp |-> TRUE, first |-> 4, last |-> 17],
                     [esp |-> TRUE, first |-> 20, last |-> 30]>>]

Part(n, b, p, s) == [is |-> "part", begins |-> b, seq |-> n, sum |-> s, part |-> p]
Item(short, s, first, size) ==
    [is |-> "entry", short |-> short, sum |-> s, e |-> [first |-> first, size |-> size, dir |-> FALSE]]
Sub(short, first) ==
    [is |-> "entry", short |-> short, sum |-> 0, e |-> [first |-> first, size |-> 0, dir |-> TRUE]]
Free == [is |-> "free"]
Gone == [is |-> "gone"]
F == [short |-> "F", long |-> <<"x", "y">>]

Ended == [c \in 2 .. 9 |-> End]

\* A FAT12 of four clusters of two sectors; the entry of the last one is on two
\* sectors of the FAT.
Boot12 == [spc |-> 2, reserved |-> 1, nfats |-> 1, fat16 |-> 2, fat32 |-> 0, roots |-> 2,
           total |-> 12, single |-> FALSE, active |-> 0, root |-> 0]
Chained(chain, first, size) ==
    [gpt |-> Good, boot |-> Boot12, fats |-> 0 :> (chain @@ Ended), does |-> {"load", "open", "read", "seek"},
     path |-> <<F>>,
     slots |-> 0 :> <<Item("F", 1, first, size), Free>> @@ [c \in 2 .. 5 |-> [i \in 1 .. 4 |-> Free]]]

\* A FAT32 of three clusters of one sector, its root in the first.
Boot32 == [spc |-> 1, reserved |-> 1, nfats |-> 2, fat16 |-> 0, fat32 |-> 5, roots |-> 0,
           total |-> 14, single |-> TRUE, active |-> 1, root |-> 2]
Rest == <<Free, Free>>
Rooted(boot, chain, s, path, does) ==
    [gpt |-> Good, boot |-> boot, does |-> does, path |-> path,
     fats |-> 0 :> Ended @@ 1 :> (chain @@ Ended),
     slots |-> 2 :> s[1] @@ 3 :> s[2] @@ 4 :> s[3] @@ [c \in 0 .. 9 |-> Rest]]
Two(a, b) == 2 :> a @@ 3 :> b @@ 4 :> End
Listing(chain, s) == Rooted(Boot32, chain, s, <<F>>, {"list", "rewind", "load"})

Roots ==
    {<<<<Part(2, TRUE, "y", 7), Part(1, FALSE, "x", 7)>>, <<Item("G", 7, 4, 1), Item("F", 1, 4, 1)>>>>,
     <<<<Part(2, TRUE, "y", 7), Gone>>, <<Part(1, FALSE, "x", 7), Item("G", 7, 4, 1)>>>>,
     <<<<Part(2, TRUE, "y", 7), Part(1, FALSE, "x", 8)>>, <<Item("G", 8, 4, 1), Free>>>>,
     <<<<Part(2, TRUE, "y", 7), Part(1, TRUE, "x", 7)>>, <<Item("G", 7, 4, 1), Item("H", 7, 4, 1)>>>>,
     <<<<Part(1, TRUE, "x", 7), Item("G", 6, 4, 1)>>, <<Item("F", 7, 4, 1), Free>>>>,
     <<<<Part(1, TRUE, "x", 7), Part(0, FALSE, "x", 7)>>, <<Item("G", 7, 4, 1), Item("F", 1, 4, 0)>>>>,
     <<<<Part(0, TRUE, "x", 7), [is |-> "label"]>>, <<Item("G", 7, 4, 1), Item("F", 1, 4, 0)>>>>}

\* A FAT32 whose one cluster ends the partition, and whose FAT runs on into it.
Tight ==
    [Rooted([Boot32 EXCEPT !.nfats = 1, !.fat32 = 1, !.total = 3, !.active = 0], 2 :> End,
            <<<<Item("F", 1, 2, 1), Gone>>, Rest, Rest>>, <<F>>, {"load", "open", "read", "list"})
     EXCEPT !.gpt.parts = <<[esp |-> TRUE, first |-> 4, last |-> 6]>>]

\* The chains from cluster 3: a cluster they do not come to ends.
Comes(f, c) == c \in {3, f[3]} \/ (f[3] \in 3 .. 5 /\ f[f[3]] = c)
Chains == {f \in [3 .. 5 -> {3, 4, 5, 0, End}] : \A c \in 3 .. 5 : Comes(f, c) \/ f[c] = End}

MCDisks ==
    {Chained(chain, 3, size) : chain \in Chains, size \in {3, 6}}
    \cup {Tight, [Chained(Ended, 6, 3) EXCEPT !.does = Calls], Chained([c \in 2 .. 5 |-> c + 1], 3, 9)}
    \cup {Listing(Two(3, End), s \o <<Rest>>) : s \in Roots}
    \cup {Listing(Two(a, b), <<<<Item("G", 1, 4, 1), Gone>>, <<Item("H", 1, 4, 1), Gone>>, Rest>>) :
              a \in {3, 0}, b \in {2, 3, 9}}
    \cup {Rooted(Boot32, Two(End, End),
                 <<<<Sub("D", 3), Free>>, <<Sub("U", 0), Item("F", 1, 4, 1)>>, Rest>>, p, {"load", "open"}) :
              p \in {<<[short |-> "D", long |-> <<>>], F>>,
                     <<[short |-> "D", long |-> <<>>], [short |-> "U", long |-> <<>>], F>>,
                     <<[short |-> "D", long |-> <<>>]>>}}
    \cup {Rooted(Boot32, Two(End, End), <<<<Item("D", 1, 3, 1), Sub("E", 9)>>, Rest, Rest>>,
                 <<[short |-> s, long |-> <<>>], F>>, {"load"}) : s \in {"D", "E"}}
    \cup {[Listing(Two(End, End), <<<<Item("F", 1, 5, 1), Free>>, Rest, Rest>>) EXCEPT !.boot = b] :
              b \in [spc : {1, 3}, reserved : {0, 1}, nfats : {0, 2}, fat16 : {0, 1}, fat32 : {0, 5},
                     roots : {0, 2}, total : {0, 11, 14, 15}, single : {TRUE}, active : {1, 2},
                     root : {2, 9}]}
    \cup {[Chained(Ended, 2, 1) EXCEPT !.gpt = g] :
              g \in [head : {"good", "none", "crc"}, sum : BOOLEAN,
                     parts : {Good.parts, <<>>, <<[esp |-> TRUE, first |-> 5, last |-> 4]>>,
                              <<[esp |-> TRUE, first |-> 0, last |-> 12]>>}]}
=============================================================================
