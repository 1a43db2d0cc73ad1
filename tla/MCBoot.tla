------------------------------- MODULE MCBoot -------------------------------
(***************************************************************************)
(* Instances of Boot for TLC: a golden's media and variations of them.     *)
(***************************************************************************)
EXTENDS Boot

MCGolden == [claim |-> TRUE, fallback |-> FALSE, stated |-> FALSE, dns |-> TRUE,
             serial |-> TRUE, bootable |-> FALSE, hold |-> "secs",
             again |-> "never", api |-> TRUE, here |-> TRUE, disk |-> "boots"]

MCHolder == [MCGolden EXCEPT !.stated = TRUE, !.hold = "forever", !.again = "later"]
MCMirror == [MCGolden EXCEPT !.fallback = TRUE, !.again = "later", !.serial = FALSE]
MCBlade  == [MCGolden EXCEPT !.disk = "none", !.again = "sooner"]
MCPlain  == [MCGolden EXCEPT !.hold = "off", !.fallback = TRUE, !.dns = FALSE,
                             !.bootable = TRUE]
MCFixed  == [MCGolden EXCEPT !.claim = FALSE, !.fallback = TRUE, !.api = FALSE,
                             !.here = FALSE]

MCCases ==
    {<<MCGolden, <<"reboot", "maint">>, {"nv", "unread", "power"}>>,
     <<MCGolden, <<"maint", "install">>, {"path"}>>,
     <<MCHolder, <<"hold", "maint">>, {"keep", "power"}>>,
     <<MCMirror, <<"retry", "hold">>, {"path", "keep"}>>,
     <<MCBlade, <<"install", "local">>, {}>>,
     <<MCPlain, <<"inventory", "retry">>, {"unread"}>>,
     <<MCFixed, <<"maint", "reboot">>, {"path"}>>}
=============================================================================
