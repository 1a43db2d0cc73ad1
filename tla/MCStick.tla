------------------------------ MODULE MCStick -------------------------------
(***************************************************************************)
(* Instances of Stick for TLC: a medium written by hand (release 0)         *)
(* that names its machine, and four releases.  1 replaces the bootloader  *)
(* and the conf (which drops the name) and adds a driver; 2 retires that   *)
(* driver and cannot attach; 3 is the set of 1 promoted again; 4 is of an  *)
(* older version.                                                          *)
(***************************************************************************)
EXTENDS Stick, TLC

CONSTANTS boot, conf, drv, none, m1

MCPaths    == {boot, conf, drv}
MCContents == {"b0", "b1", "b2", "c0", "c1", "d1"}
MCVersion  == [c \in MCContents |-> IF c = "b0" THEN 1 ELSE 2]

MCSet(b, c, d) == [p \in MCPaths |-> CASE p = boot -> b
                                       [] p = conf -> c
                                       [] p = drv  -> d]

MCRelease == [n \in 0 .. 4 |->
                CASE n = 0 -> MCSet("b0", "c0", none)
                  [] n = 1 -> MCSet("b1", "c1", "d1")
                  [] n = 2 -> MCSet("b2", "c1", none)
                  [] n = 3 -> MCSet("b1", "c1", "d1")
                  [] n = 4 -> MCSet("b0", "c1", "d1")]

MCCanary   == [n \in 1 .. 4 |-> {m1}]
MCFaulty   == {"b2"}
MCNamed    == {"c0"}
MCConfVersion == [c \in MCContents |-> IF c = "c1" THEN 2 ELSE 0]

NoDisk == [usb |-> FALSE, virt |-> FALSE, mounted |-> FALSE, held |-> FALSE, shut |-> FALSE,
           slabs |-> {}, parts |-> {}, dark |-> {}, looks |-> "none"]

Disk(d) == [k \in DOMAIN NoDisk |-> IF k \in DOMAIN d THEN d[k] ELSE NoDisk[k]]
Ours == [usb |-> TRUE, parts |-> {1}, looks |-> "ours"]
Other == [usb |-> TRUE, parts |-> {1}, looks |-> "other"]
\* The stick alone, beside disks that are none, each thing that keeps it from
\* being touched, and each that would if it could be read.
MCBays ==
    {{Disk(Ours), Disk([usb |-> FALSE, looks |-> "other", slabs |-> {0}]),
      Disk([usb |-> TRUE, looks |-> "unread"])},
     {Disk(Ours), Disk(Other)}, {Disk(Other)}, {}}
    \cup {{Disk(Ours @@ d)} : d \in {[virt |-> TRUE], [mounted |-> TRUE], [held |-> TRUE],
                                      [shut |-> TRUE], [slabs |-> {0}], [slabs |-> {1}],
                                      [mounted |-> TRUE, dark |-> {"numbers"}],
                                      [held |-> TRUE, dark |-> {"holders"}],
                                      [slabs |-> {1}, dark |-> {"sectors"}]}}
=============================================================================
