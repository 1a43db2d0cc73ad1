------------------------------ MODULE MCConsole ------------------------------
(***************************************************************************)
(* Instances of Console for TLC: a machine whose log fills up, one whose   *)
(* driver hangs, and four with somebody at the keyboard.                   *)
(***************************************************************************)
EXTENDS Console

MCLogged == [screen |-> TRUE, off |-> FALSE, unicast |-> TRUE, keys |-> {},
             typing |-> "none", lines |-> 4, calls |-> FALSE]
MCSilent == [MCLogged EXCEPT !.screen = FALSE, !.off = TRUE]
MCStuck  == [MCLogged EXCEPT !.unicast = FALSE, !.lines = 1, !.calls = TRUE]
MCPlain  == [MCStuck EXCEPT !.screen = FALSE, !.off = TRUE]
MCKeys   == [MCLogged EXCEPT !.unicast = FALSE, !.lines = 2, !.typing = "some",
                             !.keys = {"c", "l", "f2"}]
MCSerial == [MCKeys EXCEPT !.screen = FALSE, !.keys = {"c", "x"}]
MCNoisy  == [MCSerial EXCEPT !.keys = {"x"}, !.typing = "endless"]

MCPaneled == [MCNoisy EXCEPT !.screen = TRUE, !.lines = 0, !.keys = {"x", "f2"}]

MCCases == {MCLogged, MCSilent, MCStuck, MCPlain, MCKeys, MCSerial, MCNoisy, MCPaneled}
=============================================================================
