------------------------------ MODULE MCStream ------------------------------
(* Stream's cases: each a controller, the firmware's calls and the faults. *)
EXTENDS Stream

Ctrl(m, p, l) == [mdts |-> m, mpsmin |-> p, lbads |-> l]

MCCases ==
    {<<Ctrl(5, 0, 9), c, {"stall"}>> :
        c \in {<<"read", "read", "read">>, <<"write", "read", "read">>,
               <<"read", "write", "read">>}}
    \cup {<<Ctrl(5, 0, 9), <<"write", "read">>, {"stall", "close", "refuse"}>>}
    \cup {<<Ctrl(m, p, l), <<"read">>, {}>> :
            m \in {0, 1, 5, 8, 255}, p \in {0, 3, 15}, l \in {9, 12, 16, 17, 41}}
=============================================================================
