------------------------------- MODULE MCNics -------------------------------
(* Cases of the stack, of the clock over it and of the first pass before it. *)
EXTENDS Startup, TLC

NoClock == [ntp |-> "off", opt42 |-> FALSE, dns |-> FALSE, from |-> 1, skew |-> 0]
NoStart == [files |-> <<>>, media |-> <<>>, prefer |-> <<>>, machine |-> <<>>]
Case(s, w, p, e) ==
    [snps |-> s, wire |-> w, prog |-> p, world |-> e] @@ NoClock @@ NoStart
Timed(e, n, o, d, day, k) ==
    [snps |-> <<"ok">>, wire |-> {1}, prog |-> <<"connect", "clock", "clock">>,
     world |-> e, ntp |-> n, opt42 |-> o, dns |-> d, from |-> day, skew |-> k] @@ NoStart

\* 1971-01-01, 2000-02-29, 2023-12-31 and 2024-03-01.
Days == {365, 11016, 19722, 19783}

\* Starts of stormbootx since the last reset, the medium written in between.
Handed(e, lengths) ==
    [snps |-> <<>>, wire |-> {}, world |-> e, files |-> lengths,
     prog |-> [i \in DOMAIN lengths |-> "config"]] @@ NoClock @@ NoStart

\* The drivers of a medium on a machine.
With(m, named, functions) ==
    [snps |-> [i \in DOMAIN functions |-> "ok"], wire |-> {}, world |-> {"bad"},
     prog |-> <<"drivers">>, media |-> m, prefer |-> named, machine |-> functions]
    @@ NoClock @@ NoStart

Native   == [fam |-> "mlx5", fw |-> TRUE, grip |-> 2, fits |-> TRUE, back |-> TRUE]
Stuck    == [fam |-> "virtio", fw |-> TRUE, grip |-> 4, fits |-> TRUE, back |-> TRUE]
Declined == [fam |-> "virtio", fw |-> TRUE, grip |-> 1, fits |-> FALSE, back |-> TRUE]
Bare     == [fam |-> "mlx5", fw |-> FALSE, grip |-> 1, fits |-> TRUE, back |-> FALSE]
Both     == <<"mlx5", "virtio">>

StartCases ==
    {Handed({"full"}, <<a, b>>) : a, b \in 0 .. MaxFile + 1}
    \cup {With(Both, n, <<f>>) : n \in {<<>>, <<"virtio">>, <<"mlx5", "e1000">>}, f \in Functions}
    \cup {With(m, Both, <<f, g>>) : m \in {<<>>, <<"virtio">>, Both},
                                   f, g \in {Native, Stuck, Declined, Bare}}
    \cup {[With(Both, Both, <<Bare, Declined>>)
              EXCEPT !.prog = <<"config", "drivers", "connect">>, !.files = <<3>>,
                     !.wire = {w}, !.world = {"lease", "bad"}] : w \in {1, 2}}

MCCases == StartCases \cup
    {Case(<<"fails", "ok", "ok">>, {3}, <<"connect", "drop", "connect", "release">>, {"lease"}),
     Case(<<"ok", "shared">>, {2}, <<"connect", "drop", "release", "connect">>, {"lease", "late"}),
     Case(<<"ok", "ok">>, {2}, <<"connect", "drop", "connect">>, {"lease", "lost"}),
     Case(<<"ok", "ok">>, {2}, <<"connect", "drop", "connect">>, {"lease", "mtu"}),
     Case(<<"ok">>, {1}, <<"connect", "drop">>, {"lease", "lost", "mtu"}),
     Case(<<"ok", "ok">>, {2}, <<"connect", "drop", "connect">>, {"lease", "link"}),
     Case(<<"ok", "ok", "ok">>, {2}, <<"connect">>, {"lease"}),
     Case(<<"ok", "ok">>, {1}, <<"connect", "connect">>, {"lease", "port"}),
     Case(<<"ok", "ok">>, {1, 2}, <<"connect", "connect", "drop", "release", "drop">>,
          {"lease", "lost"}),
     Case(<<"fails", "other">>, {}, <<"connect", "release">>, {}),
     Case(<<"ok">>, {}, <<"hold">>, {"api"}),
     Case(<<"ok">>, {1}, <<"connect", "drop", "release">>, {"lease", "frames"})}
    \cup {Timed({"lease"}, "none", TRUE, TRUE, day, 3) : day \in Days}
    \cup {Timed({"lease"}, "host", FALSE, TRUE, 19781, k) : k \in {0, 1, Lost}}
    \cup {Timed({"lease", "lost"}, n, FALSE, d, 19781, 5) : n \in {"off", "address"}, d \in BOOLEAN}
=============================================================================
