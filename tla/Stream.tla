-------------------------------- MODULE Stream --------------------------------
(***************************************************************************)
(* The NVMe/TCP initiator over its byte streams: attach, which opens the   *)
(* admin and the I/O queue, and then one block read or written per call of *)
(* the firmware, each PDU sent and received through net.rs's send and      *)
(* read_into, either of which may time out in the middle of it.            *)
(*                                                                         *)
(* The stream is a sequence of units: the 8-byte common header of a PDU is *)
(* one, what follows it a few.  A call has one command (NvmeQueue has the  *)
(* many in flight) and a case at most one write (a late R2T is NvmeQueue's *)
(* too).  A unit that is no header, read as one, is malformed or of an     *)
(* unexpected type: 8 bytes of a block that name a command in flight, in a *)
(* PDU of a length that fits, are left out.                                *)
(***************************************************************************)
EXTENDS Integers, Sequences

CONSTANTS
    Cases,      \* what the controller says of itself, the calls, the faults
    MaxStalls,  \* transfers that stall, and losses of the connection
    MaxWaits    \* CAP.TO, in polls of CSTS

\* "stall" a transfer makes no progress until it is given up; "close" the
\* connection is lost; "refuse" a command fails.
FaultKinds == {"stall", "close", "refuse"}

\* MDTS and CAP.MPSMIN, and LBADS of the namespace's format.
Controllers == [mdts : 0 .. 255, mpsmin : 0 .. 15, lbads : 0 .. 255]

ASSUME ConstantsAssumption ==
    /\ MaxStalls \in Nat /\ MaxWaits \in Nat
    /\ \A c \in Cases : /\ c[1] \in Controllers
                        /\ c[2] \in Seq({"read", "write"})
                        /\ \A i, j \in DOMAIN c[2] :
                              c[2][i] = "write" /\ c[2][j] = "write" => i = j
                        /\ c[3] \subseteq FaultKinds

\* The exchanges of attach, in order; "ready" is the attached namespace.
Ops == <<"ic", "connect", "cap", "enable", "csts", "idns", "idctrl", "ic io",
         "connect io", "ready">>
After(o) == Ops[1 + CHOOSE i \in DOMAIN Ops : Ops[i] = o]
Dials == {"ic", "ic io"}

VARIABLES
    ctrl, calls, faults,  \* the case
    op,      \* the exchange in hand: one of Ops, "failed", or a call's kind
    cid,     \* the queue's last command id
    act,     \* what the client does: "send", "header", "rest", "idle"
    left,    \* units it still wants
    pdu,     \* the header it has read
    h2c,     \* it has been asked for a write's data
    waited,  \* polls of CSTS
    mdts,    \* MDTS as read, or 0
    max,     \* max_transfer
    buf,     \* the block, in two halves, as the call has it
    done,    \* calls that have returned: their kind, whether well, buf, the disk
    stalls

VARIABLES    \* the connection and the controller behind it
    open,    \* nobody has closed it
    down,    \* units on their way to the client
    skew,    \* the client has lost the units' boundaries
    need,    \* units the controller still wants of the PDU it receives
    cut,     \* that PDU
    todo,    \* commands it has and has not answered
    disk,    \* the block
    rdy      \* CSTS.RDY

case   == <<ctrl, calls, faults>>
client == <<op, cid, act, left, pdu, h2c, waited, mdts, max, buf, done>>
conn   == <<open, down, skew, need, cut, todo, disk, rdy>>
vars == <<case, client, stalls, conn>>

Old == "old"    \* the block before the write
New == "new"    \* what the write carries
Mixed == "mix"  \* its data with a later PDU's bytes in them
Other == "other" \* what a garbled command asks for
NoData == <<"none", "none">>

\* A unit on its way to the client: a header with n units to follow, or one of
\* those ("part"); v is what it says of the disk or of the command.
NoUnit == [t |-> "none", cid |-> 0, n |-> 0, v |-> ""]
NoCut  == [t |-> "none", cid |-> 0, op |-> "none"]

Init ==
    /\ \E c \in Cases : ctrl = c[1] /\ calls = c[2] /\ faults = c[3]
    /\ op = "ic" /\ cid = 0 /\ act = "send" /\ left = 0
    /\ pdu = NoUnit /\ h2c = FALSE
    /\ waited = 0 /\ mdts = 0 /\ max = 0
    /\ buf = NoData /\ done = <<>>
    /\ stalls = 0
    /\ open = TRUE /\ down = <<>> /\ skew = FALSE
    /\ need = 0 /\ cut = NoCut /\ todo = {}
    /\ disk = Old /\ rdy = FALSE

------------------------------------------------------------------------------
(* What a transfer may carry.                                              *)

Least(a, b) == IF a < b THEN a ELSE b

\* 1u32 << LBADS, a release build's shift.
BlockSize == 2 ^ (ctrl.lbads % 32)
Plausible == 512 <= BlockSize /\ BlockSize <= 65536

Ceiling  == 524288
Unstated == 65536

\* Mutant of TransferLimit: the limit alone, in whole blocks.
TransferLimitRounded(m, mpsmin, bs) ==
    LET exp   == 12 + Least(mpsmin, 12) + Least(m, 20)
        limit == IF m = 0 THEN Unstated ELSE IF exp < 19 THEN 2 ^ exp ELSE Ceiling
    IN  (limit \div bs) * bs

\* transfer_limit: pages of MDTS up to a ceiling, in whole blocks, at least one.
TransferLimit(m, mpsmin, bs) ==
    LET exp   == 12 + Least(mpsmin, 12) + Least(m, 20)
        limit == IF m = 0 THEN Unstated ELSE IF exp < 19 THEN 2 ^ exp ELSE Ceiling
        whole == (limit \div bs) * bs
    IN  IF whole < bs THEN bs ELSE whole

------------------------------------------------------------------------------
(* Where an exchange leads.                                                *)

Clear == left' = 0 /\ pdu' = NoUnit /\ h2c' = FALSE /\ buf' = NoData
Fresh == act' = "send" /\ Clear

Attaching == op \in {Ops[i] : i \in 1 .. 9}

\* A call returns to the firmware, whose next one is on the same queue.
Return(ok, b) ==
    /\ ~Attaching
    /\ done' = Append(done, [kind |-> op, ok |-> ok, buf |-> b, disk |-> disk])
    /\ op' = "ready" /\ act' = "idle" /\ Clear
    /\ UNCHANGED <<waited, mdts, max>>

\* attach returns an error and drops its queues.
Fail ==
    /\ Attaching /\ op # "idctrl"
    /\ op' = "failed" /\ act' = "idle" /\ Clear
    /\ UNCHANGED <<waited, mdts, max, done>>

\* The I/O queue's own connection, its numbering anew.
ToIo(m) ==
    /\ op = "idctrl"
    /\ op' = "ic io" /\ cid' = 0 /\ Fresh
    /\ mdts' = m
    /\ open' = TRUE /\ down' = <<>> /\ skew' = FALSE
    /\ need' = 0 /\ cut' = NoCut /\ todo' = {}
    /\ UNCHANGED <<waited, max, done, disk, rdy>>

\* An exchange fails.  Identify Controller may: MDTS is then unstated.
Errs == (Fail \/ Return(FALSE, buf)) /\ UNCHANGED cid

\* CSTS says the controller is ready, or is asked again until CAP.TO.
Polled(ready) ==
    /\ op = "csts"
    /\ IF ready THEN op' = "idns" /\ waited' = 0 /\ Fresh
       ELSE IF waited < MaxWaits THEN UNCHANGED op /\ waited' = waited + 1 /\ Fresh
       ELSE op' = "failed" /\ act' = "idle" /\ Clear /\ UNCHANGED waited
    /\ UNCHANGED <<mdts, max, done>>

\* The namespace is identified: attach goes on if its format is plausible.
Identified ==
    /\ op = "idns"
    /\ IF Plausible THEN op' = "idctrl" /\ Fresh
       ELSE op' = "failed" /\ act' = "idle" /\ Clear
    /\ UNCHANGED <<waited, mdts, max, done>>

Attached ==
    /\ op = "connect io"
    /\ op' = "ready" /\ act' = "idle" /\ Clear
    /\ max' = TransferLimit(mdts, ctrl.mpsmin, BlockSize)
    /\ UNCHANGED <<waited, mdts, done>>

Onward ==
    /\ op \in {"ic", "connect", "cap", "enable", "ic io"}
    /\ op' = After(op) /\ Fresh
    /\ UNCHANGED <<waited, mdts, max, done>>

Ends(b) ==
    /\ Polled(pdu.v = "ready") \/ Identified \/ Attached \/ Onward \/ Return(TRUE, b)
    /\ UNCHANGED cid

------------------------------------------------------------------------------
(* Sending: TcpSocket::send, and what the controller makes of the units.   *)

\* The PDU in hand: an ICReq, a command capsule, or a write's data.
Pdu == [t |-> IF h2c THEN "h2c" ELSE "cmd",
        cid |-> IF op \in Dials THEN 0 ELSE IF h2c THEN cid ELSE cid + 1, op |-> op]
Length(p) == IF p.t = "h2c" THEN 3 ELSE 2

Counted == cid' = IF h2c \/ op \in Dials THEN cid ELSE cid + 1

\* A PDU is whole: a command to serve, or a write's data.  One that ends in a
\* later PDU's bytes is a command garbled, or data that are neither block.
Take(p, mixed) ==
    IF p.t = "h2c"
    THEN /\ disk' = IF mixed THEN Mixed ELSE New
         /\ todo' = todo \cup {[cid |-> p.cid, op |-> "written"]}
    ELSE /\ todo' = todo \cup {[cid |-> p.cid, op |-> IF mixed THEN "garbled" ELSE p.op]}
         /\ UNCHANGED disk

\* n units of p arrive, and first complete what is left of the PDU before; a
\* unit after that which is no header ends the connection.
Feed(p, n) ==
    \/ /\ need = 0 /\ n = Length(p)
       /\ Take(p, FALSE)
       /\ UNCHANGED <<need, cut, open>>
    \/ /\ need = 0 /\ n \in 1 .. Length(p) - 1
       /\ need' = Length(p) - n /\ cut' = p
       /\ UNCHANGED <<todo, disk, open>>
    \/ /\ n = 0 \/ n < need
       /\ need' = need - n
       /\ UNCHANGED <<cut, todo, disk, open>>
    \/ /\ need > 0 /\ n = need
       /\ need' = 0 /\ cut' = NoCut
       /\ Take(cut, TRUE)
       /\ UNCHANGED open
    \/ /\ need > 0 /\ n > need
       /\ need' = 0 /\ cut' = NoCut /\ todo' = {}
       /\ disk' = IF cut.t = "h2c" THEN Mixed ELSE disk
       /\ open' = FALSE

Send ==
    /\ act = "send" /\ open
    /\ Feed(Pdu, Length(Pdu))
    /\ Counted
    /\ act' = "header" /\ left' = 1
    /\ UNCHANGED <<case, stalls, op, pdu, h2c, waited, mdts, max, buf, done, down, skew,
                   rdy>>

\* Some of it is with the stack when the rest is given up.
SendStalls ==
    /\ act = "send" /\ open
    /\ "stall" \in faults /\ stalls < MaxStalls
    /\ stalls' = stalls + 1
    /\ \/ /\ \E n \in 0 .. Length(Pdu) - 1 : Feed(Pdu, n)
          /\ Fail \/ Return(FALSE, buf)
          /\ Counted
          /\ UNCHANGED <<down, skew, rdy>>
       \/ ToIo(0)
    /\ UNCHANGED case

SendClosed ==
    /\ act = "send" /\ ~open
    /\ \/ (Fail \/ Return(FALSE, buf)) /\ Counted /\ UNCHANGED conn
       \/ ToIo(0)
    /\ UNCHANGED <<case, stalls>>

\* The firmware's next call.
Call ==
    /\ op = "ready" /\ Len(done) < Len(calls)
    /\ op' = calls[Len(done) + 1]
    /\ Fresh
    /\ UNCHANGED <<case, stalls, cid, waited, mdts, max, done, conn>>

------------------------------------------------------------------------------
(* Receiving: TcpSocket::read_into under ic_handshake, recv_pdu, complete  *)
(* and read.                                                               *)

Waiting == act \in {"header", "rest"}
Rest(n) == act' = "rest" /\ left' = n
Consumed == down' = Tail(down) /\ UNCHANGED <<open, skew, need, cut, todo, disk, rdy>>

\* The common header, of a PDU with more to come.
Header ==
    /\ act = "header" /\ down # <<>> /\ ~skew
    /\ Head(down).t \notin {"part", "term"}
    /\ pdu' = Head(down)
    /\ Rest(Head(down).n)
    /\ Consumed
    /\ UNCHANGED <<case, stalls, op, cid, h2c, waited, mdts, max, buf, done>>

\* The controller ends the connection.
Terminated ==
    /\ act = "header" /\ down # <<>> /\ ~skew
    /\ Head(down).t = "term"
    /\ (Errs /\ Consumed) \/ ToIo(0)
    /\ UNCHANGED <<case, stalls>>

\* What follows a PDU that was given up is read as a header: malformed, or of
\* a type nobody expects once the length it seems to state has been read.  Only
\* a call finds it: attach gives up the connection with the PDU.
Junk ==
    /\ act = "header" /\ down # <<>>
    /\ skew \/ Head(down).t = "part"
    /\ Consumed
    /\ \/ Return(FALSE, buf) /\ UNCHANGED cid
       \/ /\ \E n \in 1 .. 2 :
                 Rest(n) /\ pdu' = [t |-> "junk", cid |-> 0, n |-> n, v |-> ""]
          /\ UNCHANGED <<op, cid, h2c, waited, mdts, max, buf, done>>
    /\ UNCHANGED <<case, stalls>>

\* Mutant of Mine: whoever's it is.
MineAnyway == TRUE

\* complete and read go on past another command's PDU.
Mine == pdu.cid = cid \/ op \in Dials

\* Mutant of Filled: the data that came, whoever's they are.
FilledByAny ==
    IF pdu.t \in {"c2h", "c2h done"} THEN [buf EXCEPT ![left] = Head(down).v] ELSE buf

\* The block with the data of the unit in hand in their place.
Filled ==
    IF pdu.t \in {"c2h", "c2h done"} /\ Mine THEN [buf EXCEPT ![left] = Head(down).v]
    ELSE buf

\* One unit of what follows the header, with more of it to come.
MoreOfIt ==
    /\ act = "rest" /\ left > 1 /\ down # <<>>
    /\ left' = left - 1
    /\ buf' = Filled
    /\ Consumed
    /\ UNCHANGED <<case, stalls, op, cid, act, pdu, h2c, waited, mdts, max, done>>

LastOfIt == act = "rest" /\ left = 1 /\ down # <<>>

\* Another command's, or data with the completion to come.
GoesOn ==
    /\ LastOfIt
    /\ pdu.t \in {"resp", "c2h", "c2h done"} /\ (Mine => pdu.t = "c2h")
    /\ buf' = Filled
    /\ act' = "header" /\ left' = 1 /\ pdu' = NoUnit
    /\ Consumed
    /\ UNCHANGED <<case, stalls, op, cid, h2c, waited, mdts, max, done>>

\* The command's own completion, in a response or with the last of its data.
Completed ==
    /\ LastOfIt
    /\ pdu.t \in {"resp", "c2h done"} /\ Mine
    /\ UNCHANGED <<case, stalls>>
    /\ \/ pdu.v = "failed" /\ Errs /\ Consumed
       \/ pdu.v # "failed" /\ Ends(Filled) /\ Consumed
       \/ ToIo(IF pdu.v = "failed" THEN 0 ELSE ctrl.mdts)

\* The controller wants a write's data, whichever command it names.
Wanted ==
    /\ LastOfIt
    /\ pdu.t = "r2t" /\ op = "write"
    /\ h2c' = TRUE /\ act' = "send" /\ left' = 0 /\ pdu' = NoUnit
    /\ Consumed
    /\ UNCHANGED <<case, stalls, op, cid, waited, mdts, max, buf, done>>

\* Data asked of a read, or a PDU of no type that is expected.
Unexpected ==
    /\ LastOfIt
    /\ pdu.t = "junk" \/ (pdu.t = "r2t" /\ op # "write")
    /\ Errs /\ Consumed
    /\ UNCHANGED <<case, stalls>>

------------------------------------------------------------------------------
(* Time-outs and losses.                                                   *)

\* A header may be given up with some of its 8 bytes read.
MidHeader == act = "header"

\* Mutant of TimeOut: only what is on its way is waited for.
TimeOutOfAStall ==
    /\ Waiting /\ open
    /\ "stall" \in faults /\ stalls < MaxStalls /\ stalls' = stalls + 1
    /\ \/ /\ Errs
          /\ skew' \in {skew, MidHeader \/ skew}
          /\ UNCHANGED <<open, down, need, cut, todo, disk, rdy>>
       \/ ToIo(0)
    /\ UNCHANGED case

\* Nothing for 30 s, with more on its way (a stall) or not.
TimeOut ==
    /\ Waiting /\ open
    /\ \/ down = <<>> /\ todo = {} /\ UNCHANGED stalls
       \/ "stall" \in faults /\ stalls < MaxStalls /\ stalls' = stalls + 1
    /\ \/ /\ Errs
          /\ skew' \in {skew, MidHeader \/ skew}
          /\ UNCHANGED <<open, down, need, cut, todo, disk, rdy>>
       \/ ToIo(0)
    /\ UNCHANGED case

\* The connection has ended and what came before that has been read.
Closed ==
    /\ Waiting /\ ~open /\ down = <<>>
    /\ (Errs /\ UNCHANGED conn) \/ ToIo(0)
    /\ UNCHANGED <<case, stalls>>

Lost ==
    /\ open /\ "close" \in faults /\ stalls < MaxStalls /\ op \notin {"ready", "failed"}
    /\ stalls' = stalls + 1
    /\ open' = FALSE /\ todo' = {}
    /\ UNCHANGED <<case, client, down, skew, need, cut, disk, rdy>>

------------------------------------------------------------------------------
(* The controller, external: it serves what it has in any order.           *)

Response(c, v) == << [t |-> "resp", cid |-> c.cid, n |-> 1, v |-> v],
                     [t |-> "part", cid |-> 0, n |-> 0, v |-> v] >>
Data(c, kind, v) == << [t |-> kind, cid |-> c.cid, n |-> 2, v |-> "ok"],
                       [t |-> "part", cid |-> 0, n |-> 0, v |-> v],
                       [t |-> "part", cid |-> 0, n |-> 0, v |-> v] >>
Ask(c)         == << [t |-> "r2t", cid |-> c.cid, n |-> 1, v |-> "ok"],
                     [t |-> "part", cid |-> 0, n |-> 0, v |-> "ok"] >>

ByData == {"idns", "idctrl", "read"}

Answers(c) ==
       (IF c.op \in ByData THEN {Data(c, "c2h done", disk)}
        ELSE IF c.op = "write" THEN {Ask(c)}
        ELSE IF c.op = "csts" THEN {Response(c, IF rdy THEN "ready" ELSE "ok")}
        ELSE IF c.op = "garbled"
        THEN {Response(c, "failed"), Data(c, "c2h done", Other), Ask(c)}
        ELSE {Response(c, "ok")})
  \cup (IF "refuse" \in faults
        THEN {Response(c, "failed"), <<[t |-> "term", cid |-> 0, n |-> 0, v |-> ""]>>}
        ELSE {})

Serve ==
    /\ open
    /\ \E c \in todo :
           \/ \E a \in Answers(c) : todo' = todo \ {c} /\ down' = down \o a
           \/ /\ c.op \in ByData   \* the data first, the completion to come
              /\ todo' = (todo \ {c}) \cup {[c EXCEPT !.op = "sent"]}
              /\ down' = down \o Data(c, "c2h", disk)
    /\ UNCHANGED <<case, client, stalls, open, skew, need, cut, disk, rdy>>

ComesReady ==
    /\ op = "csts" /\ ~rdy
    /\ rdy' = TRUE
    /\ UNCHANGED <<case, client, stalls, open, down, skew, need, cut, todo, disk>>

------------------------------------------------------------------------------
Client == \/ Send \/ SendStalls \/ SendClosed \/ Call
          \/ Header \/ Terminated \/ Junk \/ MoreOfIt \/ GoesOn \/ Completed \/ Wanted
          \/ Unexpected \/ TimeOut \/ Closed

Next == Client \/ Lost \/ Serve \/ ComesReady

Spec == Init /\ [][Next]_vars
FairSpec == Spec /\ WF_vars(Client) /\ WF_vars(Serve)

------------------------------------------------------------------------------
(* Properties.                                                             *)

\* The state's shape.
TypeOK ==
    /\ op \in {Ops[i] : i \in DOMAIN Ops} \cup {"failed", "read", "write"}
    /\ act \in {"send", "header", "rest", "idle"}
    /\ cid \in Nat /\ left \in 0 .. 2 /\ waited \in 0 .. MaxWaits
    /\ mdts \in 0 .. 255 /\ max \in Nat
    /\ need \in 0 .. 2 /\ stalls \in 0 .. MaxStalls
    /\ disk \in {Old, New, Mixed}
    /\ Waiting <=> left > 0
    /\ (act = "idle") <=> (op \in {"ready", "failed"})
    /\ Len(done) <= Len(calls)

\* A read that reports success has both halves of the block, as the disk has
\* them, however many PDUs before it were cut short, given up in their middle,
\* read out of step, or answered late.
ReadIsWhole ==
    \A i \in DOMAIN done :
        done[i].kind = "read" /\ done[i].ok
            => done[i].buf = <<done[i].disk, done[i].disk>>

\* A write that reports success is on the disk, whole, and stays: no PDU that was
\* given up in its middle before or after has its place taken by those bytes.
AckedWriteHolds ==
    \A i \in DOMAIN done : done[i].kind = "write" /\ done[i].ok => disk = New

\* What a call reports done is done: the block read is the disk's and the one
\* written is on it, whatever became of the PDUs before.
SuccessIsReal == ReadIsWhole /\ AckedWriteHolds

\* What a command may carry is at least a block and whole blocks, within what
\* the controller takes unless that is less than one block, and its number of
\* blocks, less one, fits the command's 16 bits.
TransferFits ==
    /\ TypeOK
    /\ op \in {"ready", "read", "write"}
        => /\ max >= BlockSize /\ max % BlockSize = 0
           /\ max \div BlockSize <= 65536
           /\ \/ mdts = 0 /\ max <= Unstated
              \/ max = BlockSize
              \/ mdts > 0 /\ max <= 2 ^ Least(19, 12 + ctrl.mpsmin + mdts)

\* attach returns, attached or with its error, whatever the controller does, and
\* so does every call: out of step with its stream, it gives up.
CallsEnd == /\ <>(op \in {"ready", "failed"})
            /\ [](op \in {"read", "write"} => <>(op = "ready"))
==============================================================================
