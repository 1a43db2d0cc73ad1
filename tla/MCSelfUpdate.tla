---------------------------- MODULE MCSelfUpdate ----------------------------
(***************************************************************************)
(* An instance of SelfUpdate for TLC: a medium written by hand (release 0) *)
(* that names its machine and has a driver, and three releases.  1 is of a *)
(* newer version: it replaces the bootloader and the conf (which drops the *)
(* name) and retires the driver; 2 adds the driver again and cannot        *)
(* attach; 3 is the set the medium was written with, promoted: the medium  *)
(* carries it already, or 1 is in place and newer.                         *)
(***************************************************************************)
EXTENDS SelfUpdate

CONSTANTS boot, conf, drv, none, m1

MCPaths    == {boot, conf, drv}
MCContents == {"b0", "b1", "b2", "c0", "c1", "d1"}
MCVersion  == [c \in MCContents |-> IF c = "b0" THEN 1 ELSE 2]

MCSet(b, c, d) == [p \in MCPaths |-> CASE p = boot -> b
                                       [] p = conf -> c
                                       [] p = drv  -> d]

MCRelease == [n \in 0 .. 3 |->
                CASE n = 0 -> MCSet("b0", "c0", "d1")
                  [] n = 1 -> MCSet("b1", "c1", none)
                  [] n = 2 -> MCSet("b2", "c1", "d1")
                  [] n = 3 -> MCSet("b0", "c0", "d1")]

MCCanary   == [n \in 1 .. 3 |-> {m1}]
MCFaulty   == {"b2"}
MCNamed    == {"c0"}
=============================================================================
