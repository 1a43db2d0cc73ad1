---------------------------- MODULE StreamProofs ----------------------------
(***************************************************************************)
(* Theorems about Stream, for any controllers, any calls with at most one  *)
(* write among them, and any number of stalls and losses.                  *)
(***************************************************************************)
EXTENDS Stream, SequenceTheorems, TLAPS

------------------------------------------------------------------------------
(* What is true in every state.                                            *)

CallOps == {"read", "write"}
AttachOps == {"ic", "connect", "cap", "enable", "csts", "idns", "idctrl", "ic io",
              "connect io"}
Values == {Old, New, Mixed, Other, "none", "", "ok", "failed", "ready"}
PduTypes == {"none", "part", "term", "resp", "c2h", "c2h done", "r2t", "junk"}
Units == [t : PduTypes, cid : Nat, n : 0 .. 2, v : Values]
Cmds  == [cid : Nat, op : AttachOps \cup CallOps \cup {"garbled", "sent", "written"}]
Cuts  == [t : {"none", "cmd", "h2c"}, cid : Nat, op : AttachOps \cup CallOps \cup {"none"}]
Bufs  == [1 .. 2 -> Values]

CaseTypeOK ==
    /\ ctrl \in Controllers /\ calls \in Seq(CallOps) /\ faults \subseteq FaultKinds
    /\ \A i, j \in DOMAIN calls : calls[i] = "write" /\ calls[j] = "write" => i = j

ClientTypeOK ==
    /\ op \in AttachOps \cup CallOps \cup {"ready", "failed"}
    /\ act \in {"send", "header", "rest", "idle"}
    /\ cid \in Nat /\ left \in 0 .. 2 /\ waited \in 0 .. MaxWaits
    /\ Waiting <=> left > 0
    /\ (act = "idle") <=> (op \in {"ready", "failed"})
    /\ pdu \in Units /\ h2c \in BOOLEAN /\ buf \in Bufs
    /\ h2c => op = "write"

ConnTypeOK ==
    /\ open \in BOOLEAN /\ down \in Seq(Units) /\ skew \in BOOLEAN
    /\ need \in 0 .. 2 /\ cut \in Cuts /\ todo \subseteq Cmds
    /\ disk \in {Old, New, Mixed} /\ rdy \in BOOLEAN
    /\ stalls \in 0 .. MaxStalls

\* The calls are made in their order.
Calling ==
    /\ done \in Seq([kind : CallOps, ok : BOOLEAN, buf : Bufs, disk : Values])
    /\ Len(done) <= Len(calls)
    /\ \A i \in 1 .. Len(done) : done[i].kind = calls[i]
    /\ op \in CallOps => Len(done) < Len(calls) /\ calls[Len(done) + 1] = op

\* Every PDU on its way has all of its units behind it, and so has the one whose
\* header has been read.
Whole(s, i) ==
    /\ s[i].n \in 1 .. 2 /\ i + s[i].n <= Len(s)
    /\ s[i + 1].t = "part" /\ (s[i].n = 2 => s[i + 2].t = "part")

Formed ==
    /\ \A i \in 1 .. Len(down) : down[i].t \notin {"part", "term"} => Whole(down, i)
    /\ act = "rest" /\ pdu.t # "junk"
         => /\ left <= Len(down)
            /\ down[1].t = "part" /\ (left = 2 => down[2].t = "part")
    /\ act = "rest" => pdu.t \in {"resp", "c2h", "c2h done", "r2t", "junk"}
    /\ \A i \in 1 .. Len(down) : down[i].t \notin {"none", "junk"}

\* A command's id is its own, and what was left of a PDU is gone once the next
\* has been sent.
InFlight == Waiting \/ h2c
Numbered ==
    /\ \A c \in todo : c.cid <= cid
    /\ \A i \in 1 .. Len(down) : down[i].cid <= cid
    /\ cut.cid <= cid
    /\ InFlight => need = 0
    /\ InFlight /\ op \in CallOps => cid > 0

\* The unit is of the command in hand.
OfMine(u) == u.cid = cid
DataOfMine(u) == OfMine(u) /\ u.t \in {"c2h", "c2h done"}
Told(u) == OfMine(u) /\ u.t = "resp" /\ u.v # "failed"

\* The read's data are here, are being read, or are on their way before place i;
\* or the client has lost its place and the call will fail.
Full == buf[1] = disk /\ buf[2] = disk
Coming(i) ==
    \/ Full
    \/ act = "rest" /\ (pdu.t = "junk" \/ (OfMine(pdu) /\ pdu.t = "c2h"))
    \/ \E j \in 1 .. i - 1 : OfMine(down[j]) /\ down[j].t = "c2h"

Reading ==
    op = "read" /\ InFlight =>
        /\ \A c \in todo : c.cid = cid => c.op \in {"read", "sent"}
        /\ [cid |-> cid, op |-> "sent"] \in todo => Coming(Len(down) + 1)
        /\ \A i \in 1 .. Len(down) :
              /\ DataOfMine(down[i]) => /\ down[i].n = 2
                                        /\ down[i + 1].v = disk /\ down[i + 2].v = disk
              /\ Told(down[i]) => Coming(i)
        /\ act = "rest" /\ DataOfMine(pdu) => /\ down[1].v = disk
                                              /\ IF left = 2 THEN down[2].v = disk
                                                 ELSE buf[2] = disk
        /\ act = "rest" /\ Told(pdu) => Full

\* A write is told of as done only when it is on the disk, and only one that fails
\* leaves a PDU of its data unfinished.
Writing ==
    /\ op = "write" /\ InFlight =>
         /\ \A c \in todo : c.cid = cid =>
               c.op = "write" \/ (c.op = "written" /\ disk = New)
         /\ \A i \in 1 .. Len(down) :
               ~DataOfMine(down[i]) /\ (Told(down[i]) => disk = New)
         /\ act = "rest" => ~DataOfMine(pdu) /\ (Told(pdu) => disk = New)
    /\ need > 0 /\ cut.t = "h2c"
         => \E i \in 1 .. Len(done) : done[i].kind = "write" /\ ~done[i].ok

\* What a command may carry, once the namespace's format is known.
Limited ==
    /\ max \in Nat /\ mdts \in {0, ctrl.mdts}
    /\ op \in {"idctrl", "ic io", "connect io", "ready"} \cup CallOps => Plausible
    /\ op \in {"ready"} \cup CallOps => max = TransferLimit(mdts, ctrl.mpsmin, BlockSize)

\* The inductive invariant.
InOrder ==
    /\ CaseTypeOK /\ ClientTypeOK /\ ConnTypeOK /\ Calling /\ Formed /\ Numbered
    /\ Reading /\ Writing /\ SuccessIsReal /\ Limited

------------------------------------------------------------------------------
(* The exchanges, and where they lead.                                     *)

\* The steps of an attach, in the order lib.rs makes them.
LEMMA OpsOnce ==
    /\ DOMAIN Ops = 1 .. 10
    /\ Ops[1] = "ic" /\ Ops[2] = "connect" /\ Ops[3] = "cap" /\ Ops[4] = "enable"
    /\ Ops[5] = "csts" /\ Ops[6] = "idns" /\ Ops[7] = "idctrl" /\ Ops[8] = "ic io"
    /\ Ops[9] = "connect io" /\ Ops[10] = "ready"
  BY DEF Ops

\* The numbers of those steps.
LEMMA OneToTen ==
    /\ \A i \in 1 .. 9 : \/ i = 1 \/ i = 2 \/ i = 3 \/ i = 4 \/ i = 5 \/ i = 6 \/ i = 7
                         \/ i = 8 \/ i = 9
    /\ \A i \in 1 .. 10 : i \in 1 .. 9 \/ i = 10
    /\ {1, 2, 3, 4, 5, 6, 7, 8, 9} \subseteq 1 .. 9
  OBVIOUS

\* An attach is under way when the operation is one of its own.
LEMMA AttachingOps == Attaching <=> op \in AttachOps
<1>1. ASSUME NEW i \in 1 .. 9
      PROVE  Ops[i] \in AttachOps
  BY OneToTen, OpsOnce DEF AttachOps
<1>2. ASSUME NEW o \in AttachOps
      PROVE  \E i \in 1 .. 9 : Ops[i] = o
  <2>1. \/ o = Ops[1] \/ o = Ops[2] \/ o = Ops[3] \/ o = Ops[4] \/ o = Ops[5]
        \/ o = Ops[6] \/ o = Ops[7] \/ o = Ops[8] \/ o = Ops[9]
    BY OpsOnce DEF AttachOps
  <2>2. \A i \in {1, 2, 3, 4, 5, 6, 7, 8, 9} : i \in 1 .. 9
    OBVIOUS
  <2>3. QED
    BY <2>1, <2>2, ZenonT(30)
<1>3. QED
  BY <1>1, <1>2, Zenon DEF Attaching

\* After a step of an attach comes the next one.
LEMMA AfterOp ==
    ASSUME NEW i \in 1 .. 9
    PROVE  After(Ops[i]) = Ops[i + 1]
<1>1. ASSUME NEW j \in 1 .. 10, Ops[j] = Ops[i]
      PROVE  j = i
  BY <1>1, OneToTen, OpsOnce, ZenonT(60)
<1>2. \A j \in DOMAIN Ops : Ops[j] = Ops[i] <=> j = i
  BY <1>1, OpsOnce, Zenon
<1>3. i \in DOMAIN Ops
  <2>1. i \in 1 .. 10
    OBVIOUS
  <2>2. QED
    BY <2>1, OpsOnce
<1>4. (CHOOSE j \in DOMAIN Ops : Ops[j] = Ops[i]) = i
  BY <1>2, <1>3, Zenon
<1>5. 1 + i = i + 1
  OBVIOUS
<1>6. QED
  BY <1>4, <1>5, Zenon DEF After

\* Where an attach that goes on goes.
LEMMA OnwardGoes ==
    ASSUME Onward
    PROVE  /\ (op = "ic" /\ op' = "connect") \/ (op = "connect" /\ op' = "cap")
                \/ (op = "cap" /\ op' = "enable") \/ (op = "enable" /\ op' = "csts")
                \/ (op = "ic io" /\ op' = "connect io")
           /\ Fresh /\ UNCHANGED <<waited, mdts, max, done>>
<1>1. /\ After("ic") = "connect" /\ After("connect") = "cap" /\ After("cap") = "enable"
      /\ After("enable") = "csts" /\ After("ic io") = "connect io"
  <2>1. {1, 2, 3, 4, 8} \subseteq 1 .. 9
    OBVIOUS
  <2>2. 1 + 1 = 2 /\ 2 + 1 = 3 /\ 3 + 1 = 4 /\ 4 + 1 = 5 /\ 8 + 1 = 9
    OBVIOUS
  <2>3. QED
    BY <2>1, <2>2, AfterOp, OpsOnce
<1>2. QED
  BY <1>1, Zenon DEF Onward

\* The exchange in hand is over.
Gone == act' \in {"send", "idle"} /\ Clear

\* Where a PDU that ends its exchange leads, but for Identify Controller.
Leads ==
    /\ Gone
    /\ \/ /\ op \in AttachOps /\ op' = "failed" /\ act' = "idle"
          /\ UNCHANGED <<mdts, max, done>> /\ waited' \in {waited, 0}
       \/ /\ op \in {"ic", "connect", "cap", "enable", "csts"} /\ act' = "send"
          /\ op' \in {"connect", "cap", "enable", "csts", "idns"}
          /\ UNCHANGED <<mdts, max, done>>
          /\ waited' \in {waited, 0} \/ (waited' = waited + 1 /\ waited < MaxWaits)
       \/ /\ op = "idns" /\ op' = "idctrl" /\ act' = "send" /\ Plausible
          /\ UNCHANGED <<waited, mdts, max, done>>
       \/ /\ op = "ic io" /\ op' = "connect io" /\ act' = "send"
          /\ UNCHANGED <<waited, mdts, max, done>>
       \/ Attached
       \/ /\ op \notin AttachOps /\ op' = "ready" /\ act' = "idle"
          /\ \/ \E b \in {buf} : done' = Append(done, [kind |-> op, ok |-> FALSE, buf |-> b,
                                                       disk |-> disk])
             \/ /\ Completed /\ pdu.v # "failed"
                /\ done' = Append(done, [kind |-> op, ok |-> TRUE, buf |-> Filled,
                                         disk |-> disk])
          /\ UNCHANGED <<waited, mdts, max>>

\* A call that fails goes to the new attach or to its caller.
LEMMA Failing ==
    ASSUME Fail \/ Return(FALSE, buf)
    PROVE  Leads
  BY AttachingOps, Zenon DEF Fail, Return, Leads, Gone

\* A call whose PDU ends it goes on, or to its caller.
LEMMA Ending ==
    ASSUME Completed, pdu.v # "failed", Ends(Filled)
    PROVE  Leads
<1>1. CASE Polled(pdu.v = "ready")
  <2>1. op = "csts" /\ op \in AttachOps /\ UNCHANGED <<mdts, max, done>> /\ Clear
    BY <1>1, Zenon DEF Polled, Fresh, AttachOps
  <2>2. \/ op' = "idns" /\ waited' = 0 /\ act' = "send"
        \/ op' = op /\ waited < MaxWaits /\ waited' = waited + 1 /\ act' = "send"
        \/ op' = "failed" /\ act' = "idle" /\ waited' = waited
    BY <1>1, Zenon DEF Polled, Fresh
  <2>3. CASE op' = "idns" /\ waited' = 0 /\ act' = "send"
    BY <2>1, <2>3, Zenon DEF Leads, Gone
  <2>4. CASE op' = op /\ waited < MaxWaits /\ waited' = waited + 1 /\ act' = "send"
    BY <2>1, <2>4, Zenon DEF Leads, Gone
  <2>5. CASE op' = "failed" /\ act' = "idle" /\ waited' = waited
    BY <2>1, <2>5, Zenon DEF Leads, Gone
  <2>6. QED
    BY <2>2, <2>3, <2>4, <2>5
<1>2. CASE Identified
  BY <1>2, Zenon DEF Identified, Leads, Gone, Fresh, AttachOps
<1>3. CASE Attached
  <2>1. Gone
    BY <1>3, Zenon DEF Attached, Gone
  <2>2. QED
    BY <1>3, <2>1 DEF Leads
<1>4. CASE Onward
  BY <1>4, OnwardGoes, Zenon DEF Leads, Gone, Fresh
<1>5. CASE Return(TRUE, Filled)
  BY <1>5, AttachingOps, Zenon DEF Return, Leads, Gone
<1>6. QED
  BY <1>1, <1>2, <1>3, <1>4, <1>5, Zenon DEF Ends

------------------------------------------------------------------------------
(* What a step is.                                                         *)

Stalled == stalls' = stalls \/ (stalls < MaxStalls /\ stalls' = stalls + 1)

\* The PDU in hand is given up, or the connection stays as it is but for a unit
\* that is read.
CutShort ==
    /\ act = "send" /\ Counted
    /\ \E n \in 0 .. Length(Pdu) - 1 : Feed(Pdu, n)
    /\ UNCHANGED <<down, skew, rdy>>
Aside ==
    /\ UNCHANGED <<open, need, cut, todo, disk, rdy>>
    /\ UNCHANGED down \/ (down # <<>> /\ down' = Tail(down))
    /\ skew' \in {skew, MidHeader \/ skew}
    /\ UNCHANGED cid \/ Counted

\* An exchange ends.
Away == UNCHANGED case /\ Stalled /\ Leads /\ act # "idle" /\ (CutShort \/ Aside)

\* Identify Controller does.
Moves == UNCHANGED case /\ Stalled /\ (ToIo(0) \/ ToIo(ctrl.mdts))

\* The call goes on to its end, out of step with its stream.
Strays ==
    /\ act = "header" /\ down # <<>>
    /\ Consumed
    /\ \E n \in 1 .. 2 : Rest(n) /\ pdu' = [t |-> "junk", cid |-> 0, n |-> n, v |-> ""]
    /\ UNCHANGED <<case, stalls, op, cid, h2c, waited, mdts, max, buf, done>>

\* Every step is one of these, named by what it does to the stream.
LEMMA Steps ==
    ASSUME [Next]_vars
    PROVE  \/ Away \/ Moves \/ Call \/ Strays
           \/ Send \/ Header \/ MoreOfIt \/ GoesOn \/ Wanted
           \/ Lost \/ Serve \/ ComesReady \/ UNCHANGED vars
<1>1. CASE SendStalls
  <2>1. act = "send" /\ UNCHANGED case /\ Stalled
    BY <1>1, Zenon DEF SendStalls, Stalled
  <2>2. CASE ToIo(0)
    BY <2>1, <2>2, Zenon DEF Moves
  <2>3. CASE ~ToIo(0)
    <3>1. CutShort /\ (Fail \/ Return(FALSE, buf))
      BY <1>1, <2>1, <2>3, Zenon DEF SendStalls, CutShort
    <3>2. QED
      BY <2>1, <3>1, Failing, Zenon DEF Away
  <2>4. QED
    BY <2>2, <2>3
<1>2. ASSUME ToIo(0) \/ ToIo(ctrl.mdts), UNCHANGED case, Stalled
      PROVE  Moves
  BY <1>2, Zenon DEF Moves
<1>3. ASSUME Leads, UNCHANGED <<case, cid>>, Stalled, act # "idle",
             \/ UNCHANGED conn
             \/ down # <<>> /\ Consumed
             \/ skew' \in {skew, MidHeader \/ skew} /\ UNCHANGED <<open, down, need, cut, todo,
                                                               disk, rdy>>
      PROVE  Away
  BY <1>3, Zenon DEF Away, Aside, conn, Consumed
<1>4. ASSUME Errs
      PROVE  Leads /\ UNCHANGED cid
  BY <1>4, Failing, Zenon DEF Errs
<1>5. CASE SendClosed
  <2>1. act = "send" /\ UNCHANGED case /\ Stalled
    BY <1>5, Zenon DEF SendClosed, Stalled
  <2>2. \/ (Fail \/ Return(FALSE, buf)) /\ Counted /\ UNCHANGED conn
        \/ ToIo(0)
    BY <1>5, Zenon DEF SendClosed
  <2>3. CASE (Fail \/ Return(FALSE, buf)) /\ Counted /\ UNCHANGED conn
    BY <2>1, <2>3, Failing, Zenon DEF Away, Aside, conn
  <2>4. QED
    BY <1>2, <2>1, <2>2, <2>3
<1>6. CASE Terminated \/ Unexpected
  <2>1. act # "idle" /\ UNCHANGED case /\ Stalled /\ down # <<>>
    BY <1>6, Zenon DEF Terminated, Unexpected, LastOfIt, Stalled
  <2>2. (Errs /\ Consumed) \/ ToIo(0)
    BY <1>6, Zenon DEF Terminated, Unexpected
  <2>3. QED
    BY <1>2, <1>3, <1>4, <2>1, <2>2, Zenon
<1>7. CASE Junk
  <2>1. act = "header" /\ UNCHANGED case /\ Stalled /\ stalls' = stalls /\ down # <<>> /\ Consumed
    BY <1>7, Zenon DEF Junk, Stalled
  <2>2. CASE Return(FALSE, buf) /\ UNCHANGED cid
    BY <1>3, <2>1, <2>2, Failing, Zenon
  <2>3. CASE ~(Return(FALSE, buf) /\ UNCHANGED cid)
    BY <1>7, <2>1, <2>3, Zenon DEF Junk, Strays
  <2>4. QED
    BY <2>2, <2>3
<1>8. CASE Completed
  <2>1. act # "idle" /\ UNCHANGED case /\ Stalled /\ down # <<>>
    BY <1>8, Zenon DEF Completed, LastOfIt, Stalled
  <2>2. \/ Errs /\ Consumed
        \/ pdu.v # "failed" /\ Ends(Filled) /\ Consumed
        \/ ToIo(0) \/ ToIo(ctrl.mdts)
    BY <1>8, Zenon DEF Completed
  <2>3. CASE pdu.v # "failed" /\ Ends(Filled) /\ Consumed
    <3>1. Leads /\ UNCHANGED cid
      BY <1>8, <2>3, Ending, Zenon DEF Ends
    <3>2. QED
      BY <1>3, <2>1, <2>3, <3>1, Zenon
  <2>4. QED
    BY <1>2, <1>3, <1>4, <2>1, <2>2, <2>3, Zenon
<1>9. CASE TimeOut \/ Closed
  <2>1. act # "idle" /\ UNCHANGED case /\ Stalled
    BY <1>9, Zenon DEF TimeOut, Closed, Waiting, Stalled
  <2>2. \/ Errs /\ UNCHANGED conn
        \/ Errs /\ skew' \in {skew, MidHeader \/ skew}
           /\ UNCHANGED <<open, down, need, cut, todo, disk, rdy>>
        \/ ToIo(0)
    BY <1>9, Zenon DEF TimeOut, Closed
  <2>3. QED
    BY <1>2, <1>3, <1>4, <2>1, <2>2, Zenon
<1>10. QED
  BY <1>1, <1>5, <1>6, <1>7, <1>8, <1>9, Zenon DEF Next, Client

------------------------------------------------------------------------------
(* Types.                                                                  *)

\* The tail of a sequence.
LEMMA TailOf ==
    ASSUME NEW S, NEW s \in Seq(S), s # <<>>
    PROVE  /\ Tail(s) \in Seq(S) /\ Len(Tail(s)) = Len(s) - 1 /\ Len(s) \in Nat \ {0}
           /\ Head(s) \in S /\ Head(s) = s[1]
           /\ \A i \in 1 .. Len(s) - 1 : Tail(s)[i] = s[i + 1]
  OBVIOUS

\* A concatenation.
LEMMA CatOf ==
    ASSUME NEW S, NEW s \in Seq(S), NEW t \in Seq(S)
    PROVE  /\ s \o t \in Seq(S) /\ Len(s \o t) = Len(s) + Len(t)
           /\ \A i \in 1 .. Len(s) : (s \o t)[i] = s[i]
           /\ \A i \in 1 .. Len(t) : (s \o t)[Len(s) + i] = t[i]
  OBVIOUS

\* What the fixed values are, and which operations are of an attach.
LEMMA Constants ==
    /\ NoUnit \in Units /\ NoCut \in Cuts /\ NoData \in Bufs
    /\ NoUnit.t = "none" /\ NoUnit.cid = 0
    /\ <<>> \in Seq(Units) /\ Len(<<>>) = 0
    /\ "ready" \notin AttachOps \cup CallOps /\ "failed" \notin AttachOps \cup CallOps
    /\ AttachOps \cap CallOps = {} /\ "write" \in CallOps /\ "read" \in CallOps
<1>1. NoUnit \in Units /\ NoCut \in Cuts
  <2>1. "none" \in PduTypes /\ "" \in Values /\ 0 \in 0 .. 2
    BY DEF PduTypes, Values
  <2>2. QED
    BY <2>1 DEF NoUnit, NoCut, Units, Cuts
<1>2. NoData \in Bufs
  <2>1. "none" \in Values
    BY DEF Values
  <2>2. \A x \in Values : <<x, x>> \in [1 .. 2 -> Values]
    OBVIOUS
  <2>3. QED
    BY <2>1, <2>2, Zenon DEF NoData, Bufs
<1>3. NoUnit.t = "none" /\ NoUnit.cid = 0 /\ <<>> \in Seq(Units) /\ Len(<<>>) = 0
  BY DEF NoUnit
<1>4. QED
  BY <1>1, <1>2, <1>3 DEF AttachOps, CallOps

\* A buffer stays one when a unit is written into it.
LEMMA FilledTyped ==
    ASSUME buf \in Bufs, down \in Seq(Units), down # <<>>, left \in 1 .. 2
    PROVE  Filled \in Bufs
<1>1. Head(down).v \in Values
  <2>1. Head(down) \in Units
    BY TailOf
  <2>2. QED
    BY <2>1 DEF Units
<1>2. [buf EXCEPT ![left] = Head(down).v] \in Bufs
  BY <1>1 DEF Bufs
<1>3. QED
  BY <1>2, Zenon DEF Filled

\* A connection given up leaves the initiator in its types.
LEMMA GoneTyped ==
    ASSUME Gone, cid' \in Nat, waited' \in 0 .. MaxWaits,
           op' \in AttachOps \cup CallOps \cup {"ready", "failed"},
           (act' = "idle") <=> (op' \in {"ready", "failed"})
    PROVE  ClientTypeOK'
<1>1. /\ ~(left' > 0) /\ ~Waiting' /\ left' \in 0 .. 2 /\ h2c' \in BOOLEAN /\ ~h2c'
      /\ act' \in {"send", "header", "rest", "idle"}
  <2>1. left' = 0 /\ h2c' = FALSE /\ act' \in {"send", "idle"}
    BY Zenon DEF Gone, Clear
  <2>2. ~(left' > 0) /\ left' \in 0 .. 2
    BY <2>1
  <2>3. ~Waiting' /\ act' \in {"send", "header", "rest", "idle"}
    BY <2>1, Zenon DEF Waiting
  <2>4. QED
    BY <2>1, <2>2, <2>3, Zenon
<1>2. pdu' \in Units /\ buf' \in Bufs
  BY Constants, Zenon DEF Gone, Clear
<1>3. QED
  BY <1>1, <1>2, Zenon DEF ClientTypeOK

\* Where the end of a call leads is a step of an attach, or rest.
LEMMA LeadsTo ==
    ASSUME ClientTypeOK, Leads, act # "idle"
    PROVE  /\ op' \in AttachOps \cup {"ready", "failed"}
           /\ (act' = "idle") <=> (op' \in {"ready", "failed"})
           /\ waited' \in 0 .. MaxWaits
           /\ op \in AttachOps \cup CallOps
<1>1. /\ op \in AttachOps \cup CallOps
      /\ waited \in 0 .. MaxWaits /\ 0 \in 0 .. MaxWaits
      /\ waited < MaxWaits => waited + 1 \in 0 .. MaxWaits
  <2>1. MaxWaits \in Nat
    BY ConstantsAssumption
  <2>2. QED
    BY <2>1 DEF ClientTypeOK
<1>2. {"connect", "cap", "enable", "csts", "idns", "idctrl", "connect io"} \subseteq AttachOps
  BY DEF AttachOps
<1>3. QED
  BY <1>1, <1>2, Constants, Zenon DEF Leads, Attached

\* Every step keeps the initiator in its types.
LEMMA ClientTyped ==
    ASSUME CaseTypeOK, ClientTypeOK, ConnTypeOK, Formed, Calling, [Next]_vars
    PROVE  ClientTypeOK'
<1>1. /\ op \in AttachOps \cup CallOps \cup {"ready", "failed"}
      /\ cid \in Nat /\ left \in 0 .. 2 /\ waited \in 0 .. MaxWaits
      /\ pdu \in Units /\ h2c \in BOOLEAN /\ buf \in Bufs
      /\ Waiting <=> left > 0
      /\ (act = "idle") <=> (op \in {"ready", "failed"})
      /\ h2c => op = "write"
      /\ down \in Seq(Units)
  BY Zenon DEF ClientTypeOK, ConnTypeOK
<1>2. Counted => cid' \in Nat
  BY <1>1 DEF Counted
<1>3. CASE Away
  <2>1. cid' \in Nat
    BY <1>1, <1>2, <1>3, Zenon DEF Away, CutShort, Aside
  <2>2. QED
    BY <1>3, <2>1, LeadsTo, GoneTyped, Zenon DEF Away, Leads
<1>4. CASE Moves
  <2>1. cid' \in Nat
    <3>1. cid' = 0
      BY <1>4, Zenon DEF Moves, ToIo
    <3>2. QED
      BY <3>1
  <2>2. /\ op' = "ic io" /\ act' = "send" /\ Gone /\ waited' = waited
    BY <1>4, Zenon DEF Moves, ToIo, Fresh, Gone
  <2>3. "ic io" \in AttachOps
    BY DEF AttachOps
  <2>4. QED
    BY <1>1, <2>1, <2>2, <2>3, GoneTyped, Zenon
<1>5. CASE Call
  <2>1. op' \in CallOps
    <3>1. op' = calls[Len(done) + 1] /\ Len(done) < Len(calls)
      BY <1>5 DEF Call
    <3>2. Len(done) + 1 \in 1 .. Len(calls)
      BY <3>1 DEF Calling, CaseTypeOK
    <3>3. QED
      BY <3>1, <3>2, ElementOfSeq DEF CaseTypeOK
  <2>2. act' = "send" /\ Gone /\ waited' = waited /\ cid' = cid
    BY <1>5, Zenon DEF Call, Fresh, Gone
  <2>3. QED
    BY <1>1, <2>1, <2>2, Constants, GoneTyped, Zenon
<1>6. CASE Strays
  <2>1. PICK n \in 1 .. 2 : Rest(n) /\ pdu' = [t |-> "junk", cid |-> 0, n |-> n, v |-> ""]
    BY <1>6, Zenon DEF Strays
  <2>2. act' = "rest" /\ left' \in 0 .. 2 /\ left' > 0
    <3>1. act' = "rest" /\ left' = n
      BY <2>1, Zenon DEF Rest
    <3>2. QED
      BY <3>1
  <2>3. pdu' \in Units
    <3>1. "junk" \in PduTypes /\ "" \in Values /\ n \in 0 .. 2
      BY DEF PduTypes, Values
    <3>2. [t |-> "junk", cid |-> 0, n |-> n, v |-> ""] \in Units
      BY <3>1 DEF Units
    <3>3. QED
      BY <2>1, <3>2, Zenon
  <2>4. UNCHANGED <<op, cid, h2c, waited, buf>> /\ act = "header"
    BY <1>6, Zenon DEF Strays
  <2>5. Waiting' /\ act' # "idle" /\ op' \notin {"ready", "failed"}
    BY <1>1, <2>2, <2>4, Zenon DEF Waiting
  <2>6. QED
    BY <1>1, <2>2, <2>3, <2>4, <2>5, Zenon DEF ClientTypeOK
<1>7. CASE Send
  <2>1. /\ act = "send" /\ act' = "header" /\ left' = 1 /\ Counted
        /\ UNCHANGED <<op, pdu, h2c, waited, buf>>
    BY <1>7, Zenon DEF Send
  <2>2. left' > 0 /\ left' \in 0 .. 2 /\ Waiting'
    BY <2>1 DEF Waiting
  <2>3. QED
    BY <1>1, <1>2, <2>1, <2>2, Zenon DEF ClientTypeOK
<1>8. CASE Header
  <2>1. /\ act = "header" /\ down # <<>> /\ Head(down).t \notin {"part", "term"}
        /\ pdu' = Head(down) /\ act' = "rest" /\ left' = Head(down).n
        /\ UNCHANGED <<op, cid, h2c, waited, buf>>
    BY <1>8, Zenon DEF Header, Rest
  <2>2. Head(down) \in Units /\ Head(down) = down[1] /\ 1 \in 1 .. Len(down)
    BY <1>1, <2>1, TailOf
  <2>3. Head(down).n \in 1 .. 2
    BY <2>1, <2>2, Zenon DEF Formed, Whole
  <2>4. left' > 0 /\ left' \in 0 .. 2 /\ Waiting'
    BY <2>1, <2>3 DEF Waiting
  <2>5. QED
    BY <1>1, <2>1, <2>2, <2>4, Zenon DEF ClientTypeOK, Waiting
<1>9. CASE MoreOfIt
  <2>1. /\ act = "rest" /\ left > 1 /\ down # <<>> /\ left' = left - 1 /\ buf' = Filled
        /\ UNCHANGED <<op, cid, act, pdu, h2c, waited>>
    BY <1>9, Zenon DEF MoreOfIt
  <2>2. left' > 0 /\ left' \in 0 .. 2 /\ Waiting' /\ left \in 1 .. 2
    BY <1>1, <2>1 DEF Waiting
  <2>3. buf' \in Bufs
    BY <1>1, <2>1, <2>2, FilledTyped
  <2>4. QED
    BY <1>1, <2>1, <2>2, <2>3, Zenon DEF ClientTypeOK
<1>10. CASE GoesOn
  <2>1. /\ act = "rest" /\ left = 1 /\ down # <<>> /\ left' = 1 /\ buf' = Filled
        /\ act' = "header" /\ pdu' = NoUnit
        /\ UNCHANGED <<op, cid, h2c, waited>>
    BY <1>10, Zenon DEF GoesOn, LastOfIt
  <2>2. left' > 0 /\ left' \in 0 .. 2 /\ Waiting' /\ left \in 1 .. 2
    BY <1>1, <2>1 DEF Waiting
  <2>3. buf' \in Bufs
    BY <1>1, <2>1, <2>2, FilledTyped
  <2>4. QED
    BY <1>1, <2>1, <2>2, <2>3, Constants, Zenon DEF ClientTypeOK
<1>11. CASE Wanted
  <2>1. /\ act = "rest" /\ op = "write" /\ left' = 0 /\ act' = "send" /\ pdu' = NoUnit
        /\ h2c' = TRUE
        /\ UNCHANGED <<op, cid, waited, buf>>
    BY <1>11, Zenon DEF Wanted, LastOfIt
  <2>2. ~(left' > 0) /\ left' \in 0 .. 2 /\ ~Waiting' /\ act' # "idle"
    BY <2>1 DEF Waiting
  <2>3. QED
    BY <1>1, <2>1, <2>2, Constants, Zenon DEF ClientTypeOK
<1>12. CASE Lost \/ Serve \/ ComesReady \/ UNCHANGED vars
  <2>1. UNCHANGED <<op, cid, act, left, pdu, h2c, waited, buf>>
    BY <1>12, Zenon DEF Lost, Serve, ComesReady, vars, client
  <2>2. QED
    BY <1>1, <2>1, Zenon DEF ClientTypeOK, Waiting
<1>13. QED
  BY <1>3, <1>4, <1>5, <1>6, <1>7, <1>8, <1>9, <1>10, <1>11, <1>12, Steps, Zenon

------------------------------------------------------------------------------
(* The connection.                                                         *)

\* What the PDU being sent is, for the operation at hand.
LEMMA PduTyped ==
    ASSUME ClientTypeOK, act # "idle"
    PROVE  /\ Pdu \in Cuts /\ Length(Pdu) \in 2 .. 3
           /\ Pdu.t \in {"cmd", "h2c"} /\ (Pdu.t = "h2c" <=> h2c)
           /\ Pdu.op = op /\ op \in AttachOps \cup CallOps
           /\ Pdu.cid <= cid + 1 /\ (h2c => Pdu.cid = cid)
           /\ op \in CallOps /\ ~h2c => Pdu.cid = cid + 1
           /\ Counted => cid' \in Nat /\ cid <= cid' /\ Pdu.cid <= cid'
           /\ Counted /\ op \in CallOps => Pdu.cid = cid'
           /\ Counted /\ ~h2c /\ op \in CallOps => cid' = cid + 1
<1>1. /\ op \in AttachOps \cup CallOps /\ cid \in Nat /\ h2c \in BOOLEAN
      /\ h2c => op = "write"
  BY DEF ClientTypeOK
<1>2. CallOps \cap Dials = {}
  BY DEF CallOps, Dials
<1>3. /\ Pdu.t = (IF h2c THEN "h2c" ELSE "cmd") /\ Pdu.op = op
      /\ Pdu.cid = IF op \in Dials THEN 0 ELSE IF h2c THEN cid ELSE cid + 1
      /\ Pdu = [t |-> Pdu.t, cid |-> Pdu.cid, op |-> Pdu.op]
  BY DEF Pdu
<1>4. Pdu.cid \in Nat /\ Pdu.t \in {"cmd", "h2c"} /\ (Pdu.t = "h2c" <=> h2c)
  BY <1>1, <1>3
<1>5. Pdu \in Cuts
  <2>1. \A a \in {"none", "cmd", "h2c"}, b \in Nat, c \in AttachOps \cup CallOps \cup {"none"} :
           [t |-> a, cid |-> b, op |-> c] \in Cuts
    BY DEF Cuts
  <2>2. QED
    BY <1>1, <1>3, <1>4, <2>1, Zenon
<1>6. Length(Pdu) \in 2 .. 3
  BY DEF Length
<1>7. op \in CallOps => op \notin Dials
  BY <1>2
<1>8. h2c => op \in CallOps
  BY <1>1 DEF CallOps
<1>9. Pdu.cid <= cid + 1 /\ (h2c => Pdu.cid = cid) /\ (op \in CallOps /\ ~h2c => Pdu.cid = cid + 1)
  BY <1>1, <1>3, <1>7, <1>8
<1>10. /\ Counted => cid' \in Nat /\ cid <= cid' /\ Pdu.cid <= cid'
       /\ Counted /\ op \in CallOps => Pdu.cid = cid'
       /\ Counted /\ ~h2c /\ op \in CallOps => cid' = cid + 1
  BY <1>1, <1>3, <1>7, <1>8 DEF Counted
<1>11. QED
  BY <1>1, <1>3, <1>4, <1>5, <1>6, <1>9, <1>10, Zenon

\* What the controller makes of n units of the PDU in hand.
LEMMA Fed ==
    ASSUME ClientTypeOK, ConnTypeOK, act # "idle", NEW n \in 0 .. 3, Feed(Pdu, n)
    PROVE  /\ open' \in BOOLEAN /\ need' \in 0 .. 2 /\ cut' \in Cuts
           /\ todo' \subseteq Cmds /\ disk' \in {Old, New, Mixed}
           /\ cut' \in {cut, NoCut, Pdu}
           /\ need' > 0 => (need > 0 /\ cut' = cut) \/ (need = 0 /\ cut' = Pdu)
           /\ n = Length(Pdu) => need' = 0 /\ cut' \in {cut, NoCut}
           /\ \A c \in todo' :
                \/ c \in todo
                \/ /\ need = 0 /\ n = Length(Pdu) /\ c.cid = Pdu.cid
                   /\ c.op = IF h2c THEN "written" ELSE op
                   /\ h2c => disk' = New
                \/ need > 0 /\ c.cid = cut.cid
           /\ disk' # disk => \/ need = 0 /\ n = Length(Pdu) /\ h2c /\ disk' = New
                              \/ need > 0 /\ cut.t = "h2c"
<1>1. /\ open \in BOOLEAN /\ need \in 0 .. 2 /\ cut \in Cuts /\ todo \subseteq Cmds
      /\ disk \in {Old, New, Mixed}
  BY Zenon DEF ConnTypeOK
<1>2. /\ Pdu \in Cuts /\ Length(Pdu) \in 2 .. 3 /\ (Pdu.t = "h2c" <=> h2c) /\ Pdu.op = op
      /\ Pdu.op \in AttachOps \cup CallOps
  BY PduTyped
<1>3. ASSUME NEW q \in Cuts, NEW mixed \in BOOLEAN, mixed \/ q.op # "none", Take(q, mixed)
      PROVE  /\ todo' \subseteq Cmds /\ disk' \in {Old, New, Mixed}
             /\ \A c \in todo' : c \in todo \/ c.cid = q.cid
             /\ disk' # disk => q.t = "h2c"
             /\ ~mixed => /\ disk' # disk => disk' = New
                          /\ \A c \in todo' :
                                \/ c \in todo
                                \/ c.op = IF q.t = "h2c" THEN "written" ELSE q.op
                          /\ q.t = "h2c" => disk' = New
  <2>1. q.cid \in Nat /\ (mixed \/ q.op \in AttachOps \cup CallOps) /\ mixed \in BOOLEAN
    BY <1>3 DEF Cuts
  <2>2. CASE q.t = "h2c"
    <3>1. /\ disk' = (IF mixed THEN Mixed ELSE New)
          /\ todo' = todo \cup {[cid |-> q.cid, op |-> "written"]}
      BY <1>3, <2>2, Zenon DEF Take
    <3>2. [cid |-> q.cid, op |-> "written"] \in Cmds
      BY <2>1 DEF Cmds
    <3>3. QED
      BY <1>1, <2>2, <3>1, <3>2
  <2>3. CASE q.t # "h2c"
    <3>1. /\ disk' = disk
          /\ todo' = todo \cup {[cid |-> q.cid, op |-> IF mixed THEN "garbled" ELSE q.op]}
      BY <1>3, <2>3, Zenon DEF Take
    <3>2. [cid |-> q.cid, op |-> IF mixed THEN "garbled" ELSE q.op] \in Cmds
      BY <2>1 DEF Cmds
    <3>3. QED
      BY <1>1, <2>3, <3>1, <3>2
  <2>4. QED
    BY <2>2, <2>3
<1>4. CASE need = 0 /\ n = Length(Pdu) /\ Take(Pdu, FALSE) /\ UNCHANGED <<need, cut, open>>
  <2>1. Pdu.op # "none"
    BY <1>2 DEF AttachOps, CallOps
  <2>2. /\ todo' \subseteq Cmds /\ disk' \in {Old, New, Mixed}
        /\ \A c \in todo' : c \in todo \/ (c.cid = Pdu.cid /\ c.op = IF h2c THEN "written" ELSE op)
        /\ disk' # disk => h2c /\ disk' = New
        /\ h2c => disk' = New
    BY <1>2, <1>3, <1>4, <2>1
  <2>3. ~(need' > 0) /\ need' = 0 /\ need' \in 0 .. 2
    BY <1>4
  <2>4. \A c \in todo' :
           \/ c \in todo
           \/ /\ need = 0 /\ n = Length(Pdu) /\ c.cid = Pdu.cid
              /\ c.op = IF h2c THEN "written" ELSE op
              /\ h2c => disk' = New
    BY <1>4, <2>2, Zenon
  <2>5. QED
    BY <1>1, <1>4, <2>2, <2>3, <2>4, Zenon
<1>5. CASE /\ need = 0 /\ n \in 1 .. Length(Pdu) - 1 /\ need' = Length(Pdu) - n /\ cut' = Pdu
           /\ UNCHANGED <<todo, disk, open>>
  <2>1. need' \in 0 .. 2 /\ n # Length(Pdu)
    BY <1>2, <1>5
  <2>2. QED
    BY <1>1, <1>2, <1>5, <2>1, Zenon
<1>6. CASE /\ n = 0 \/ n < need
           /\ need' = need - n /\ UNCHANGED <<cut, todo, disk, open>>
  <2>1. need' \in 0 .. 2 /\ n # Length(Pdu) /\ (need' > 0 => need > 0)
    BY <1>1, <1>2, <1>6
  <2>2. QED
    BY <1>1, <1>2, <1>6, <2>1, Zenon
<1>7. CASE need > 0 /\ n = need /\ need' = 0 /\ cut' = NoCut /\ Take(cut, TRUE) /\ UNCHANGED open
  <2>1. /\ todo' \subseteq Cmds /\ disk' \in {Old, New, Mixed}
        /\ \A c \in todo' : c \in todo \/ c.cid = cut.cid
        /\ disk' # disk => cut.t = "h2c"
    BY <1>1, <1>3, <1>7
  <2>2. ~(need' > 0) /\ need' \in 0 .. 2
    BY <1>7
  <2>3. QED
    BY <1>1, <1>7, <2>1, <2>2, Constants, Zenon
<1>8. CASE /\ need > 0 /\ n > need /\ need' = 0 /\ cut' = NoCut /\ todo' = {}
           /\ disk' = (IF cut.t = "h2c" THEN Mixed ELSE disk)
           /\ open' = FALSE
  <2>1. ~(need' > 0) /\ need' \in 0 .. 2 /\ open' \in BOOLEAN
    <3>1. ~(need' > 0) /\ need' \in 0 .. 2
      BY <1>8
    <3>2. open' \in BOOLEAN
      BY <1>8, Zenon
    <3>3. QED
      BY <3>1, <3>2
  <2>2. disk' \in {Old, New, Mixed} /\ (disk' # disk => cut.t = "h2c")
    BY <1>1, <1>8, Zenon
  <2>3. QED
    BY <1>8, <2>1, <2>2, Constants, Zenon
<1>9. QED
  BY <1>4, <1>5, <1>6, <1>7, <1>8, Zenon DEF Feed

\* What the controller may answer to c: one PDU, of its command, a success only
\* of what needs no data, and data that are the disk's unless c was garbled.
OnePdu(c, a) ==
    \A i \in 1 .. Len(a) :
         /\ a[i].t \notin {"none", "junk"}
         /\ a[i].cid \in {0, c.cid}
         /\ a[i].t \notin {"part", "term"} => i = 1
AllThere(c, a) ==
    a[1].t \notin {"part", "term"}
         => /\ a[1].n \in 1 .. 2 /\ Len(a) = 1 + a[1].n /\ a[1].cid = c.cid
            /\ a[2].t = "part" /\ (a[1].n = 2 => a[3].t = "part")
OfTheDisk(c, a) ==
    a[1].t \in {"c2h", "c2h done"}
         => /\ c.op \in ByData \cup {"garbled"}
            /\ c.op # "garbled" => a[1].n = 2 /\ a[2].v = disk /\ a[3].v = disk
NoneBare(c, a) ==
    a[1].t = "resp" /\ a[1].v # "failed" => c.op \notin ByData \cup {"write", "garbled"}
Answer(c, a) ==
    /\ a \in Seq(Units) /\ Len(a) \in 1 .. 3
    /\ OnePdu(c, a) /\ AllThere(c, a) /\ OfTheDisk(c, a) /\ NoneBare(c, a)

\* A unit of the stream.
LEMMA UnitTyped ==
    \A t \in PduTypes, c \in Nat, n \in 0 .. 2, v \in Values :
        [t |-> t, cid |-> c, n |-> n, v |-> v] \in Units
  BY DEF Units

\* Sequences of one, two and three units.
LEMMA Tuples ==
    /\ \A x \in Units : /\ <<x>> \in Seq(Units) /\ Len(<<x>>) = 1 /\ <<x>>[1] = x
    /\ \A x, y \in Units :
          /\ <<x, y>> \in Seq(Units) /\ Len(<<x, y>>) = 2
          /\ <<x, y>>[1] = x /\ <<x, y>>[2] = y
    /\ \A x, y, z \in Units :
          /\ <<x, y, z>> \in Seq(Units) /\ Len(<<x, y, z>>) = 3
          /\ <<x, y, z>>[1] = x /\ <<x, y, z>>[2] = y /\ <<x, y, z>>[3] = z
    /\ \A i \in 1 .. 1 : i = 1
    /\ \A i \in 1 .. 2 : i = 1 \/ i = 2
    /\ \A i \in 1 .. 3 : i = 1 \/ i = 2 \/ i = 3
  OBVIOUS

\* The parts of an answer are of their types.
LEMMA AnswerTypes ==
    /\ {"part", "term", "resp", "c2h", "c2h done", "r2t"} \subseteq PduTypes
    /\ {Old, New, Mixed, Other, "ok", "failed", "ready", ""} \subseteq Values
    /\ \A c \in Cmds : c.cid \in Nat
    /\ {0, 1, 2} \subseteq 0 .. 2 /\ 0 \in Nat /\ {1, 2} \subseteq 1 .. 2
    /\ {1, 2, 3} \subseteq 1 .. 3 /\ 1 + 1 = 2 /\ 1 + 2 = 3
  BY DEF PduTypes, Values, Cmds

\* A response is an answer to its command.
LEMMA Responded ==
    ASSUME NEW c \in Cmds, NEW v \in {"ok", "failed", "ready"},
           v # "failed" => c.op \notin ByData \cup {"write", "garbled"}
    PROVE  Answer(c, Response(c, v))
<1> DEFINE h == [t |-> "resp", cid |-> c.cid, n |-> 1, v |-> v]
           p == [t |-> "part", cid |-> 0, n |-> 0, v |-> v]
           a == <<h, p>>
<1>1. h \in Units /\ p \in Units
  BY UnitTyped, AnswerTypes, Zenon
<1>2. /\ h.t = "resp" /\ h.cid = c.cid /\ h.n = 1 /\ h.v = v
      /\ p.t = "part" /\ p.cid = 0 /\ p.v = v
  OBVIOUS
<1>3. Response(c, v) = a
  BY Zenon DEF Response
<1> HIDE DEF h, p
<1>4. a \in Seq(Units) /\ Len(a) = 2 /\ a[1] = h /\ a[2] = p
  BY <1>1, Tuples, Zenon
<1> HIDE DEF a
<1>5. \A i \in 1 .. Len(a) : (a[i] = h /\ i = 1) \/ a[i] = p
  BY <1>4, Tuples
<1>6. OnePdu(c, a)
  BY <1>2, <1>5 DEF OnePdu
<1>7. AllThere(c, a)
  BY <1>2, <1>4, AnswerTypes, Zenon DEF AllThere
<1>8. OfTheDisk(c, a)
  BY <1>2, <1>4 DEF OfTheDisk
<1>9. NoneBare(c, a)
  BY <1>2, <1>4 DEF NoneBare
<1>10. Len(a) \in 1 .. 3
  BY <1>4, AnswerTypes, Zenon
<1>11. Answer(c, a)
  BY <1>4, <1>6, <1>7, <1>8, <1>9, <1>10, Zenon DEF Answer
<1>12. QED
  BY <1>3, <1>11

\* Data is an answer to a read, and carries what the disk holds.
LEMMA DataSent ==
    ASSUME NEW c \in Cmds, NEW kind \in {"c2h", "c2h done"}, NEW v \in {Old, New, Mixed, Other},
           c.op \in ByData \cup {"garbled"}, c.op # "garbled" => v = disk
    PROVE  Answer(c, Data(c, kind, v))
<1> DEFINE h == [t |-> kind, cid |-> c.cid, n |-> 2, v |-> "ok"]
           p == [t |-> "part", cid |-> 0, n |-> 0, v |-> v]
           a == <<h, p, p>>
<1>1. h \in Units /\ p \in Units
  BY UnitTyped, AnswerTypes, Zenon
<1>2. /\ h.t = kind /\ h.cid = c.cid /\ h.n = 2 /\ h.v = "ok"
      /\ p.t = "part" /\ p.cid = 0 /\ p.v = v
  OBVIOUS
<1>3. Data(c, kind, v) = a
  BY Zenon DEF Data
<1> HIDE DEF h, p
<1>4. a \in Seq(Units) /\ Len(a) = 3 /\ a[1] = h /\ a[2] = p /\ a[3] = p
  BY <1>1, Tuples, Zenon
<1> HIDE DEF a
<1>5. \A i \in 1 .. Len(a) : (a[i] = h /\ i = 1) \/ a[i] = p
  BY <1>4, Tuples
<1>6. OnePdu(c, a)
  BY <1>2, <1>5 DEF OnePdu
<1>7. AllThere(c, a)
  BY <1>2, <1>4, AnswerTypes, Zenon DEF AllThere
<1>8. OfTheDisk(c, a)
  BY <1>2, <1>4 DEF OfTheDisk
<1>9. NoneBare(c, a)
  BY <1>2, <1>4 DEF NoneBare
<1>10. Len(a) \in 1 .. 3
  BY <1>4, AnswerTypes, Zenon
<1>11. Answer(c, a)
  BY <1>4, <1>6, <1>7, <1>8, <1>9, <1>10, Zenon DEF Answer
<1>12. QED
  BY <1>3, <1>11

\* A request for data is an answer to its write.
LEMMA Asked ==
    ASSUME NEW c \in Cmds
    PROVE  Answer(c, Ask(c))
<1> DEFINE h == [t |-> "r2t", cid |-> c.cid, n |-> 1, v |-> "ok"]
           p == [t |-> "part", cid |-> 0, n |-> 0, v |-> "ok"]
           a == <<h, p>>
<1>1. h \in Units /\ p \in Units
  BY UnitTyped, AnswerTypes, Zenon
<1>2. /\ h.t = "r2t" /\ h.cid = c.cid /\ h.n = 1 /\ h.v = "ok"
      /\ p.t = "part" /\ p.cid = 0 /\ p.v = "ok"
  OBVIOUS
<1>3. Ask(c) = a
  BY Zenon DEF Ask
<1> HIDE DEF h, p
<1>4. a \in Seq(Units) /\ Len(a) = 2 /\ a[1] = h /\ a[2] = p
  BY <1>1, Tuples, Zenon
<1> HIDE DEF a
<1>5. \A i \in 1 .. Len(a) : (a[i] = h /\ i = 1) \/ a[i] = p
  BY <1>4, Tuples
<1>6. OnePdu(c, a)
  BY <1>2, <1>5 DEF OnePdu
<1>7. AllThere(c, a)
  BY <1>2, <1>4, AnswerTypes, Zenon DEF AllThere
<1>8. OfTheDisk(c, a)
  BY <1>2, <1>4 DEF OfTheDisk
<1>9. NoneBare(c, a)
  BY <1>2, <1>4 DEF NoneBare
<1>10. Len(a) \in 1 .. 3
  BY <1>4, AnswerTypes, Zenon
<1>11. Answer(c, a)
  BY <1>4, <1>6, <1>7, <1>8, <1>9, <1>10, Zenon DEF Answer
<1>12. QED
  BY <1>3, <1>11

\* A termination is an answer to any command.
LEMMA Ended ==
    ASSUME NEW c \in Cmds
    PROVE  Answer(c, <<[t |-> "term", cid |-> 0, n |-> 0, v |-> ""]>>)
<1> DEFINE h == [t |-> "term", cid |-> 0, n |-> 0, v |-> ""]
           a == <<h>>
<1>1. h \in Units
  BY UnitTyped, AnswerTypes, Zenon
<1>2. /\ h.t = "term" /\ h.cid = 0 /\ h.n = 0 /\ h.v = ""
  OBVIOUS
<1>3. <<[t |-> "term", cid |-> 0, n |-> 0, v |-> ""]>> = a
  OBVIOUS
<1> HIDE DEF h
<1>4. a \in Seq(Units) /\ Len(a) = 1 /\ a[1] = h
  BY <1>1, Tuples, Zenon
<1> HIDE DEF a
<1>5. \A i \in 1 .. Len(a) : a[i] = h /\ i = 1
  BY <1>4, Tuples
<1>6. OnePdu(c, a)
  BY <1>2, <1>5 DEF OnePdu
<1>7. AllThere(c, a)
  BY <1>2, <1>4, AnswerTypes, Zenon DEF AllThere
<1>8. OfTheDisk(c, a)
  BY <1>2, <1>4 DEF OfTheDisk
<1>9. NoneBare(c, a)
  BY <1>2, <1>4 DEF NoneBare
<1>10. Len(a) \in 1 .. 3
  BY <1>4, AnswerTypes, Zenon
<1>11. Answer(c, a)
  BY <1>4, <1>6, <1>7, <1>8, <1>9, <1>10, Zenon DEF Answer
<1>12. QED
  BY <1>3, <1>11

\* Every answer of the controller is an answer to a command it was sent.
LEMMA Served ==
    ASSUME ConnTypeOK, Serve
    PROVE  \E c \in todo, a \in Seq(Units) :
             /\ Answer(c, a)
             /\ down' = down \o a
             /\ \/ todo' = todo \ {c}
                \/ /\ c.op \in ByData /\ a[1].t = "c2h" /\ a[1].cid = c.cid
                   /\ todo' = (todo \ {c}) \cup {[cid |-> c.cid, op |-> "sent"]}
<1>1. PICK c \in todo :
          \/ \E a \in Answers(c) : todo' = todo \ {c} /\ down' = down \o a
          \/ /\ c.op \in ByData
             /\ todo' = (todo \ {c}) \cup {[c EXCEPT !.op = "sent"]}
             /\ down' = down \o Data(c, "c2h", disk)
  BY Zenon DEF Serve
<1>2. c \in Cmds /\ disk \in {Old, New, Mixed, Other}
  BY Zenon DEF ConnTypeOK
<1>3. "garbled" \notin ByData /\ "write" \notin ByData /\ "csts" \notin ByData
  BY DEF ByData
<1>4. CASE \E a \in Answers(c) : todo' = todo \ {c} /\ down' = down \o a
  <2>1. PICK a \in Answers(c) : todo' = todo \ {c} /\ down' = down \o a
    BY <1>4
  <2>2. \/ /\ c.op \in ByData /\ a = Data(c, "c2h done", disk)
        \/ a = Ask(c)
        \/ /\ c.op = "csts" /\ a = Response(c, IF rdy THEN "ready" ELSE "ok")
        \/ a = Response(c, "failed")
        \/ c.op = "garbled" /\ a = Data(c, "c2h done", Other)
        \/ c.op \notin ByData \cup {"write", "csts", "garbled"} /\ a = Response(c, "ok")
        \/ a = <<[t |-> "term", cid |-> 0, n |-> 0, v |-> ""]>>
    BY <2>1 DEF Answers
  <2>3. Answer(c, a)
    <3>1. CASE c.op \in ByData /\ a = Data(c, "c2h done", disk)
      BY <1>2, <1>3, <3>1, DataSent
    <3>2. CASE a = Ask(c)
      BY <1>2, <3>2, Asked
    <3>3. CASE c.op = "csts" /\ a = Response(c, IF rdy THEN "ready" ELSE "ok")
      <4>1. (IF rdy THEN "ready" ELSE "ok") \in {"ok", "failed", "ready"}
        BY Zenon
      <4>2. c.op \notin ByData \cup {"write", "garbled"}
        BY <1>3, <3>3
      <4>3. QED
        BY <1>2, <3>3, <4>1, <4>2, Responded
    <3>4. CASE a = Response(c, "failed")
      BY <1>2, <3>4, Responded
    <3>5. CASE c.op = "garbled" /\ a = Data(c, "c2h done", Other)
      BY <1>2, <3>5, DataSent DEF Other, Old, New, Mixed
    <3>6. CASE c.op \notin ByData \cup {"write", "csts", "garbled"} /\ a = Response(c, "ok")
      BY <1>2, <3>6, Responded
    <3>7. CASE a = <<[t |-> "term", cid |-> 0, n |-> 0, v |-> ""]>>
      BY <1>2, <3>7, Ended
    <3>8. QED
      BY <2>2, <3>1, <3>2, <3>3, <3>4, <3>5, <3>6, <3>7
  <2>4. a \in Seq(Units)
    BY <2>3, Zenon DEF Answer
  <2>5. QED
    BY <2>1, <2>3, <2>4, Zenon
<1>5. CASE /\ c.op \in ByData
           /\ todo' = (todo \ {c}) \cup {[c EXCEPT !.op = "sent"]}
           /\ down' = down \o Data(c, "c2h", disk)
  <2>1. Answer(c, Data(c, "c2h", disk))
    BY <1>2, <1>3, <1>5, DataSent
  <2>2. Data(c, "c2h", disk)[1].t = "c2h" /\ Data(c, "c2h", disk)[1].cid = c.cid
    BY DEF Data
  <2>3. [c EXCEPT !.op = "sent"] = [cid |-> c.cid, op |-> "sent"]
    BY <1>2 DEF Cmds
  <2>4. Data(c, "c2h", disk) \in Seq(Units)
    BY <2>1, Zenon DEF Answer
  <2>5. QED
    BY <1>5, <2>1, <2>2, <2>3, <2>4, Zenon
<1>6. QED
  BY <1>1, <1>4, <1>5

\* A step that reads a unit.
Reads == Strays \/ Header \/ MoreOfIt \/ GoesOn \/ Wanted

\* A receive takes one unit off the stream and leaves the rest alone.
LEMMA AReading ==
    ASSUME Reads
    PROVE  /\ act \in {"header", "rest"} /\ down # <<>> /\ down' = Tail(down)
           /\ UNCHANGED <<case, stalls, open, skew, need, cut, todo, disk, rdy>>
           /\ UNCHANGED <<op, cid, waited, mdts, max, done>>
  BY Zenon DEF Reads, Strays, Header, MoreOfIt, GoesOn, Wanted, LastOfIt, Consumed

\* Every step keeps the connection in its types.
LEMMA ConnTyped ==
    ASSUME CaseTypeOK, ClientTypeOK, ConnTypeOK, [Next]_vars
    PROVE  CaseTypeOK' /\ ConnTypeOK'
<1>1. /\ open \in BOOLEAN /\ down \in Seq(Units) /\ skew \in BOOLEAN
      /\ need \in 0 .. 2 /\ cut \in Cuts /\ todo \subseteq Cmds
      /\ disk \in {Old, New, Mixed} /\ rdy \in BOOLEAN
      /\ stalls \in 0 .. MaxStalls
  BY Zenon DEF ConnTypeOK
<1>2. Stalled => stalls' \in 0 .. MaxStalls
  <2>1. MaxStalls \in Nat
    BY ConstantsAssumption
  <2>2. QED
    BY <1>1, <2>1 DEF Stalled
<1>3. down # <<>> => Tail(down) \in Seq(Units)
  BY <1>1, TailOf
<1>4. (act = "idle") <=> (op \in {"ready", "failed"})
  BY Zenon DEF ClientTypeOK
<1>5. CASE Away
  <2>1. UNCHANGED case /\ stalls' \in 0 .. MaxStalls /\ act # "idle"
    BY <1>2, <1>5, Zenon DEF Away
  <2>2. CASE CutShort
    <3>1. PICK n \in 0 .. Length(Pdu) - 1 : Feed(Pdu, n)
      BY <2>2, Zenon DEF CutShort
    <3>2. n \in 0 .. 3
      <4>1. Length(Pdu) \in 2 .. 3
        BY <2>1, PduTyped
      <4>2. QED
        BY <3>1, <4>1
    <3>3. /\ open' \in BOOLEAN /\ need' \in 0 .. 2 /\ cut' \in Cuts
          /\ todo' \subseteq Cmds /\ disk' \in {Old, New, Mixed}
      BY <2>1, <3>1, <3>2, Fed
    <3>4. UNCHANGED <<down, skew, rdy>>
      BY <2>2, Zenon DEF CutShort
    <3>5. QED
      BY <1>1, <2>1, <3>3, <3>4, Zenon DEF CaseTypeOK, ConnTypeOK, case
  <2>3. CASE Aside
    <3>1. /\ UNCHANGED <<open, need, cut, todo, disk, rdy>>
          /\ down' \in Seq(Units)
          /\ skew' \in {skew, MidHeader \/ skew}
      BY <1>1, <1>3, <2>3, Zenon DEF Aside
    <3>2. skew' \in BOOLEAN
      BY <1>1, <3>1, Zenon
    <3>3. QED
      BY <1>1, <2>1, <3>1, <3>2, Zenon DEF CaseTypeOK, ConnTypeOK, case
  <2>4. QED
    BY <1>5, <2>2, <2>3, Zenon DEF Away
<1>6. CASE Moves
  <2>1. /\ UNCHANGED case /\ stalls' \in 0 .. MaxStalls
        /\ open' = TRUE /\ down' = <<>> /\ skew' = FALSE
        /\ need' = 0 /\ cut' = NoCut /\ todo' = {}
        /\ UNCHANGED <<disk, rdy>>
    BY <1>2, <1>6, Zenon DEF Moves, ToIo
  <2>2. need' \in 0 .. 2
    BY <2>1
  <2>3. QED
    BY <1>1, <2>1, <2>2, Constants, Zenon DEF CaseTypeOK, ConnTypeOK, case
<1>7. CASE Call
  BY <1>1, <1>7, Zenon DEF Call, CaseTypeOK, ConnTypeOK, case, conn
<1>8. CASE Reads
  <2>1. /\ down # <<>> /\ down' = Tail(down)
        /\ UNCHANGED <<case, stalls, open, skew, need, cut, todo, disk, rdy>>
    BY <1>8, AReading
  <2>2. QED
    BY <1>1, <1>3, <2>1, Zenon DEF CaseTypeOK, ConnTypeOK, case
<1>9. CASE Send
  <2>1. /\ Feed(Pdu, Length(Pdu)) /\ act # "idle"
        /\ UNCHANGED <<case, stalls, down, skew, rdy>>
    BY <1>9, Zenon DEF Send
  <2>2. Length(Pdu) \in 0 .. 3
    <3>1. Length(Pdu) \in 2 .. 3
      BY <2>1, PduTyped
    <3>2. QED
      BY <3>1
  <2>3. /\ open' \in BOOLEAN /\ need' \in 0 .. 2 /\ cut' \in Cuts
        /\ todo' \subseteq Cmds /\ disk' \in {Old, New, Mixed}
    BY <2>1, <2>2, Fed
  <2>4. QED
    BY <1>1, <2>1, <2>3, Zenon DEF CaseTypeOK, ConnTypeOK, case
<1>10. CASE Lost
  <2>1. /\ Stalled /\ open' = FALSE /\ todo' = {}
        /\ UNCHANGED <<case, down, skew, need, cut, disk, rdy>>
    BY <1>10, Zenon DEF Lost, Stalled
  <2>2. QED
    BY <1>1, <1>2, <2>1, Zenon DEF CaseTypeOK, ConnTypeOK, case
<1>11. CASE Serve
  <2>1. UNCHANGED <<case, stalls, open, skew, need, cut, disk, rdy>>
    BY <1>11, Zenon DEF Serve
  <2>2. PICK c \in todo, a \in Seq(Units) :
            /\ down' = down \o a
            /\ \/ todo' = todo \ {c}
               \/ todo' = (todo \ {c}) \cup {[cid |-> c.cid, op |-> "sent"]}
    BY <1>11, Served, Zenon
  <2>3. down' \in Seq(Units)
    BY <1>1, <2>2, CatOf
  <2>4. todo' \subseteq Cmds
    <3>1. [cid |-> c.cid, op |-> "sent"] \in Cmds
      BY <1>1, <2>2 DEF Cmds
    <3>2. QED
      BY <1>1, <2>2, <3>1, Zenon
  <2>5. QED
    BY <1>1, <2>1, <2>3, <2>4, Zenon DEF CaseTypeOK, ConnTypeOK, case
<1>12. CASE ComesReady
  <2>1. /\ rdy' = TRUE
        /\ UNCHANGED <<case, stalls, open, down, skew, need, cut, todo, disk>>
    BY <1>12, Zenon DEF ComesReady
  <2>2. QED
    BY <1>1, <2>1, Zenon DEF CaseTypeOK, ConnTypeOK, case
<1>13. CASE UNCHANGED vars
  BY <1>1, <1>13, Zenon DEF CaseTypeOK, ConnTypeOK, case, conn, vars
<1>14. QED
  BY <1>5, <1>6, <1>7, <1>8, <1>9, <1>10, <1>11, <1>12, <1>13, Steps, Zenon DEF Reads

\* Every step keeps what the calls left are and what was asked of them.
LEMMA CallingStep ==
    ASSUME CaseTypeOK, ClientTypeOK, ConnTypeOK, Calling, [Next]_vars
    PROVE  Calling'
<1> DEFINE Record == [kind : CallOps, ok : BOOLEAN, buf : Bufs, disk : Values]
<1>1. /\ calls \in Seq(CallOps) /\ done \in Seq(Record) /\ Len(done) <= Len(calls)
      /\ \A i \in 1 .. Len(done) : done[i].kind = calls[i]
      /\ op \in CallOps => Len(done) < Len(calls) /\ calls[Len(done) + 1] = op
  BY Zenon DEF CaseTypeOK, Calling
<1>2. UNCHANGED calls
  <2>1. UNCHANGED case
    BY Steps, AReading, Zenon DEF Away, Moves, Call, Send, Lost, Serve, ComesReady, vars, Reads
  <2>2. QED
    BY <2>1, Zenon DEF case
<1>3. ASSUME UNCHANGED done, op' = op \/ op' \notin CallOps
      PROVE  Calling'
  BY <1>1, <1>2, <1>3, Zenon DEF Calling
<1>4. ASSUME NEW r \in Record, op \in CallOps, r.kind = op, done' = Append(done, r),
             op' \notin CallOps
      PROVE  Calling'
  <2>1. /\ done' \in Seq(Record) /\ Len(done') = Len(done) + 1 /\ Len(done') <= Len(calls)
        /\ \A i \in 1 .. Len(done) : done'[i] = done[i]
        /\ done'[Len(done) + 1] = r
    BY <1>1, <1>4
  <2>2. ASSUME NEW i \in 1 .. Len(done')
        PROVE  done'[i].kind = calls[i]
    <3>1. CASE i = Len(done) + 1
      BY <1>1, <1>4, <2>1, <3>1
    <3>2. CASE i # Len(done) + 1
      <4>1. i \in 1 .. Len(done)
        BY <1>1, <2>1, <3>2
      <4>2. QED
        BY <1>1, <2>1, <4>1
    <3>3. QED
      BY <3>1, <3>2
  <2>3. QED
    BY <1>2, <1>4, <2>1, <2>2, Zenon DEF Calling
<1>5. CASE Away
  <2>1. Leads /\ act # "idle"
    BY <1>5, Zenon DEF Away
  <2>2. op' \notin CallOps /\ op \in AttachOps \cup CallOps
    BY <2>1, LeadsTo, Constants, Zenon
  <2>3. CASE done' = done
    BY <1>3, <2>2, <2>3
  <2>4. CASE done' # done
    <3>1. /\ op \notin AttachOps
          /\ \/ \E b \in {buf} : done' = Append(done, [kind |-> op, ok |-> FALSE, buf |-> b,
                                                       disk |-> disk])
             \/ /\ Completed
                /\ done' = Append(done, [kind |-> op, ok |-> TRUE, buf |-> Filled,
                                         disk |-> disk])
      BY <2>1, <2>4, Zenon DEF Leads, Attached
    <3>2. op \in CallOps /\ buf \in Bufs /\ disk \in Values
      <4>1. buf \in Bufs /\ disk \in {Old, New, Mixed}
        BY Zenon DEF ClientTypeOK, ConnTypeOK
      <4>2. QED
        BY <2>2, <3>1, <4>1, AnswerTypes, Zenon
    <3>3. \A b \in Bufs, k \in BOOLEAN :
             /\ [kind |-> op, ok |-> k, buf |-> b, disk |-> disk] \in Record
             /\ [kind |-> op, ok |-> k, buf |-> b, disk |-> disk].kind = op
      BY <3>2
    <3>4. CASE done' = Append(done, [kind |-> op, ok |-> FALSE, buf |-> buf, disk |-> disk])
      BY <1>4, <2>2, <3>2, <3>3, <3>4
    <3>5. CASE /\ Completed
               /\ done' = Append(done, [kind |-> op, ok |-> TRUE, buf |-> Filled, disk |-> disk])
      <4>1. Filled \in Bufs
        <5>1. left = 1 /\ down # <<>>
          BY <3>5, Zenon DEF Completed, LastOfIt
        <5>2. left \in 1 .. 2
          BY <5>1
        <5>3. buf \in Bufs /\ down \in Seq(Units)
          BY Zenon DEF ClientTypeOK, ConnTypeOK
        <5>4. QED
          BY <5>1, <5>2, <5>3, FilledTyped
      <4>2. QED
        BY <1>4, <2>2, <3>2, <3>3, <3>5, <4>1
    <3>6. QED
      BY <3>1, <3>4, <3>5, Zenon
  <2>5. QED
    BY <2>3, <2>4
<1>6. CASE Moves
  <2>1. UNCHANGED done /\ op' = "ic io"
    BY <1>6, Zenon DEF Moves, ToIo
  <2>2. op' \notin CallOps
    BY <2>1 DEF CallOps
  <2>3. QED
    BY <1>3, <2>1, <2>2
<1>7. CASE Call
  <2>1. UNCHANGED done /\ op' = calls[Len(done) + 1] /\ Len(done) < Len(calls)
    BY <1>7, Zenon DEF Call
  <2>2. QED
    BY <1>1, <1>2, <2>1, Zenon DEF Calling
<1>8. CASE Reads \/ Send \/ Lost \/ Serve \/ ComesReady \/ UNCHANGED vars
  <2>1. UNCHANGED <<op, done>>
    BY <1>8, AReading, Zenon DEF Send, Lost, Serve, ComesReady, vars, client
  <2>2. QED
    BY <1>3, <2>1
<1>9. QED
  BY <1>5, <1>6, <1>7, <1>8, Steps, Zenon DEF Reads

------------------------------------------------------------------------------
(* The PDUs on their way.                                                  *)

InOnes(s) ==
    /\ \A i \in 1 .. Len(s) : s[i].t \notin {"part", "term"} => Whole(s, i)
    /\ \A i \in 1 .. Len(s) : s[i].t \notin {"none", "junk"}

\* A stream of whole PDUs stays one as its units are taken.
LEMMA TailInOnes ==
    ASSUME NEW s \in Seq(Units), s # <<>>, InOnes(s)
    PROVE  InOnes(Tail(s))
<1> DEFINE r == Tail(s)
<1>1. Len(r) = Len(s) - 1 /\ Len(s) \in Nat /\ \A i \in 1 .. Len(r) : r[i] = s[i + 1]
  BY TailOf
<1> HIDE DEF r
<1>2. ASSUME NEW i \in 1 .. Len(r)
      PROVE  /\ r[i].t \notin {"none", "junk"}
             /\ r[i].t \notin {"part", "term"} => Whole(r, i)
  <2>1. i + 1 \in 1 .. Len(s) /\ r[i] = s[i + 1]
    BY <1>1
  <2>2. CASE r[i].t \in {"part", "term"}
    BY <2>1, <2>2 DEF InOnes
  <2>3. CASE r[i].t \notin {"part", "term"}
    <3>1. Whole(s, i + 1)
      BY <2>1, <2>3, Zenon DEF InOnes
    <3>2. r[i].n \in 1 .. 2 /\ i + 1 + r[i].n <= Len(s)
      BY <2>1, <3>1 DEF Whole
    <3>3. i + r[i].n <= Len(r)
      BY <1>1, <3>2
    <3>4. r[i + 1] = s[i + 1 + 1] /\ s[i + 1 + 1].t = "part"
      BY <1>1, <2>1, <3>1, <3>2 DEF Whole
    <3>5. r[i].n = 2 => r[i + 2] = s[i + 1 + 2] /\ s[i + 1 + 2].t = "part"
      BY <1>1, <2>1, <3>1, <3>2 DEF Whole
    <3>6. QED
      BY <2>1, <3>2, <3>3, <3>4, <3>5, Zenon DEF InOnes, Whole
  <2>4. QED
    BY <2>2, <2>3
<1>3. QED
  BY <1>2, Zenon DEF InOnes, r

\* A stream of whole PDUs stays one as an answer is added to it.
LEMMA CatInOnes ==
    ASSUME NEW s \in Seq(Units), InOnes(s), NEW c, NEW a \in Seq(Units), Answer(c, a)
    PROVE  InOnes(s \o a)
<1> DEFINE r == s \o a
<1>1. /\ Len(s) \in Nat /\ Len(a) \in 1 .. 3 /\ Len(r) = Len(s) + Len(a)
      /\ \A i \in 1 .. Len(s) : r[i] = s[i]
      /\ \A i \in 1 .. Len(a) : r[Len(s) + i] = a[i]
  BY CatOf DEF Answer
<1> HIDE DEF r
<1>2. ASSUME NEW i \in 1 .. Len(s)
      PROVE  /\ r[i].t \notin {"none", "junk"}
             /\ r[i].t \notin {"part", "term"} => Whole(r, i)
  <2>1. r[i] = s[i]
    BY <1>1
  <2>2. CASE r[i].t \in {"part", "term"}
    BY <2>1, <2>2 DEF InOnes
  <2>3. CASE r[i].t \notin {"part", "term"}
    <3>1. Whole(s, i)
      BY <2>1, <2>3, Zenon DEF InOnes
    <3>2. s[i].n \in 1 .. 2 /\ i + s[i].n <= Len(s) /\ s[i + 1].t = "part"
          /\ (s[i].n = 2 => s[i + 2].t = "part")
      BY <3>1, Zenon DEF Whole
    <3>3. i + 1 \in 1 .. Len(s) /\ (s[i].n = 2 => i + 2 \in 1 .. Len(s)) /\ i + s[i].n <= Len(r)
      BY <1>1, <3>2
    <3>4. Whole(r, i)
      BY <1>1, <2>1, <3>2, <3>3, Zenon DEF Whole
    <3>5. QED
      BY <2>1, <3>4, Zenon DEF InOnes
  <2>4. QED
    BY <2>2, <2>3
<1>3. ASSUME NEW k \in 1 .. Len(a)
      PROVE  /\ r[Len(s) + k].t \notin {"none", "junk"}
             /\ r[Len(s) + k].t \notin {"part", "term"} => Whole(r, Len(s) + k)
  <2>1. r[Len(s) + k] = a[k] /\ a[k].t \notin {"none", "junk"}
    BY <1>1, Zenon DEF Answer, OnePdu
  <2>2. CASE a[k].t \in {"part", "term"}
    BY <2>1, <2>2
  <2>3. CASE a[k].t \notin {"part", "term"}
    <3>1. k = 1
      BY <2>3, Zenon DEF Answer, OnePdu
    <3>2. /\ a[1].n \in 1 .. 2 /\ Len(a) = 1 + a[1].n
          /\ a[2].t = "part" /\ (a[1].n = 2 => a[3].t = "part")
      BY <2>3, <3>1, Zenon DEF Answer, AllThere
    <3>3. /\ 2 \in 1 .. Len(a) /\ (a[1].n = 2 => 3 \in 1 .. Len(a))
          /\ Len(s) + 1 + a[1].n <= Len(r)
          /\ Len(s) + 1 + 1 = Len(s) + 2 /\ Len(s) + 1 + 2 = Len(s) + 3
      BY <1>1, <3>2
    <3>4. r[Len(s) + 2] = a[2] /\ (a[1].n = 2 => r[Len(s) + 3] = a[3])
      BY <1>1, <3>3
    <3>5. Whole(r, Len(s) + 1)
      BY <2>1, <3>1, <3>2, <3>3, <3>4, Zenon DEF Whole
    <3>6. QED
      BY <2>1, <3>1, <3>5
  <2>4. QED
    BY <2>2, <2>3
<1>4. \A i \in 1 .. Len(r) : i \in 1 .. Len(s) \/ (i - Len(s) \in 1 .. Len(a) /\ i = Len(s) + (i - Len(s)))
  BY <1>1
<1>5. ASSUME NEW i \in 1 .. Len(r)
      PROVE  /\ r[i].t \notin {"none", "junk"}
             /\ r[i].t \notin {"part", "term"} => Whole(r, i)
  BY <1>2, <1>3, <1>4
<1>6. QED
  BY <1>5, Zenon DEF InOnes, r

\* What of it is the PDU's whose header has been read.
Behind ==
    act = "rest" /\ pdu.t # "junk"
      => /\ left <= Len(down)
         /\ down[1].t = "part" /\ (left = 2 => down[2].t = "part")

\* The stream is formed when it is whole PDUs behind the one being read.
LEMMA FormedIs ==
    Formed <=> /\ InOnes(down) /\ Behind
               /\ act = "rest" => pdu.t \in {"resp", "c2h", "c2h done", "r2t", "junk"}
  BY Zenon DEF Formed, InOnes, Behind

\* Every step keeps the stream formed.
LEMMA FormedStep ==
    ASSUME CaseTypeOK, ClientTypeOK, ConnTypeOK, Calling, Formed, [Next]_vars
    PROVE  Formed'
<1>1. /\ InOnes(down) /\ Behind /\ down \in Seq(Units) /\ left \in 0 .. 2
      /\ act = "rest" => pdu.t \in {"resp", "c2h", "c2h done", "r2t", "junk"}
  BY FormedIs, Zenon DEF ClientTypeOK, ConnTypeOK
<1>0. down \in Seq(Units) /\ Len(down) \in Nat /\ left \in 0 .. 2
  <2>1. down \in Seq(Units) /\ left \in 0 .. 2
    BY <1>1
  <2>2. QED
    BY <2>1
<1>2. ASSUME InOnes(down'), act' # "rest"
      PROVE  Formed'
  BY <1>2, Zenon DEF Formed, InOnes
<1>3. ASSUME InOnes(down'), act' = "rest", pdu'.t \in {"resp", "c2h", "c2h done", "r2t", "junk"},
             pdu'.t # "junk"
               => /\ left' <= Len(down')
                  /\ down'[1].t = "part" /\ (left' = 2 => down'[2].t = "part")
      PROVE  Formed'
  BY <1>3, Zenon DEF Formed, InOnes
<1>4. down # <<>> => InOnes(Tail(down))
  BY <1>1, TailInOnes
<1>5. CASE Away
  BY <1>1, <1>2, <1>4, <1>5, Zenon DEF Away, Leads, Gone, CutShort, Aside
<1>6. CASE Moves
  <2>1. down' = <<>> /\ act' # "rest"
    BY <1>6, Zenon DEF Moves, ToIo, Fresh
  <2>2. InOnes(<<>>)
    BY DEF InOnes
  <2>3. QED
    BY <1>2, <2>1, <2>2
<1>7. CASE Call
  BY <1>1, <1>2, <1>7, Zenon DEF Call, Fresh, conn
<1>8. CASE Strays
  <2>1. down # <<>> /\ down' = Tail(down)
    BY <1>8, AReading, Zenon DEF Reads
  <2>2. act' = "rest" /\ pdu'.t = "junk"
    <3>1. PICK n \in 1 .. 2 : Rest(n) /\ pdu' = [t |-> "junk", cid |-> 0, n |-> n, v |-> ""]
      BY <1>8, Zenon DEF Strays
    <3>2. pdu'.t = "junk"
      BY <3>1
    <3>3. QED
      BY <3>1, <3>2, Zenon DEF Rest
  <2>3. QED
    BY <1>3, <1>4, <2>1, <2>2
<1>9. CASE Header
  <2>1. /\ down # <<>> /\ down' = Tail(down) /\ act' = "rest"
        /\ pdu' = down[1] /\ left' = down[1].n
        /\ down[1].t \notin {"part", "term"} /\ down[1] \in Units
        /\ 1 \in 1 .. Len(down) /\ Len(down') = Len(down) - 1
        /\ \A i \in 1 .. Len(down) - 1 : down'[i] = down[i + 1]
    BY <1>1, <1>9, AReading, TailOf DEF Reads, Header, Rest
  <2>2. Whole(down, 1) /\ down[1].t \notin {"none", "junk"}
    BY <1>1, <2>1, Zenon DEF InOnes
  <2>3. pdu'.t \in {"resp", "c2h", "c2h done", "r2t"}
    BY <2>1, <2>2 DEF Units, PduTypes
  <2>4. left' \in 1 .. 2 /\ 1 + left' <= Len(down)
        /\ down[1 + 1].t = "part" /\ (left' = 2 => down[1 + 2].t = "part")
    BY <2>1, <2>2, Zenon DEF Whole
  <2>5. Len(down) \in Nat
    BY <1>0
  <2>6. left' <= Len(down') /\ down'[1].t = "part"
    BY <2>1, <2>4, <2>5
  <2>7. left' = 2 => down'[2].t = "part"
    BY <2>1, <2>4, <2>5
  <2>8. QED
    BY <1>3, <1>4, <2>1, <2>3, <2>6, <2>7
<1>10. CASE MoreOfIt
  <2>1. /\ down # <<>> /\ down' = Tail(down) /\ act = "rest" /\ act' = "rest" /\ left > 1
        /\ UNCHANGED pdu /\ left' = left - 1
    BY <1>10, AReading, Zenon DEF Reads, MoreOfIt
  <2>2. left = 2 /\ left' = 1
    BY <1>0, <2>1
  <2>3. ASSUME pdu.t # "junk"
        PROVE  left' <= Len(down') /\ down'[1].t = "part" /\ left' # 2
    <3>1. 2 <= Len(down) /\ down[2].t = "part"
      BY <1>1, <2>1, <2>2, <2>3, Zenon DEF Behind
    <3>2. /\ Len(down') = Len(down) - 1 /\ Len(down) \in Nat
          /\ \A i \in 1 .. Len(down) - 1 : down'[i] = down[i + 1]
      BY <1>1, <2>1, TailOf
    <3>3. QED
      BY <2>2, <3>1, <3>2
  <2>4. QED
    BY <1>1, <1>3, <1>4, <2>1, <2>3, Zenon
<1>11. CASE GoesOn \/ Wanted
  <2>1. down # <<>> /\ down' = Tail(down) /\ act' # "rest"
    BY <1>11, AReading, Zenon DEF Reads, GoesOn, Wanted
  <2>2. QED
    BY <1>2, <1>4, <2>1
<1>12. CASE Send
  BY <1>1, <1>2, <1>12, Zenon DEF Send
<1>13. CASE Serve
  <2>1. PICK c \in todo, a \in Seq(Units) : Answer(c, a) /\ down' = down \o a
    BY <1>13, Served, Zenon
  <2>2. InOnes(down')
    BY <1>1, <2>1, CatInOnes
  <2>3. UNCHANGED <<act, pdu, left>>
    BY <1>13, Zenon DEF Serve, client
  <2>4. CASE act # "rest"
    BY <1>2, <2>2, <2>3, <2>4, Zenon
  <2>5. CASE act = "rest"
    <3>1. /\ Len(down') = Len(down) + Len(a) /\ Len(a) \in Nat /\ Len(down) \in Nat
          /\ \A i \in 1 .. Len(down) : down'[i] = down[i]
      BY <1>0, <2>1, CatOf
    <3>2. ASSUME pdu.t # "junk"
          PROVE  /\ left <= Len(down')
                 /\ down'[1].t = "part" /\ (left = 2 => down'[2].t = "part")
      <4>1. left > 0
        BY <2>5, Zenon DEF ClientTypeOK, Waiting
      <4>2. /\ left <= Len(down)
            /\ down[1].t = "part" /\ (left = 2 => down[2].t = "part")
        BY <1>1, <2>5, <3>2, Zenon DEF Behind
      <4>3. QED
        BY <1>0, <3>1, <4>1, <4>2
    <3>3. QED
      BY <1>1, <1>3, <2>2, <2>3, <2>5, <3>2, Zenon
  <2>6. QED
    BY <2>4, <2>5
<1>14. CASE Lost \/ ComesReady \/ UNCHANGED vars
  <2>1. UNCHANGED <<act, pdu, left, down>>
    BY <1>14, Zenon DEF Lost, ComesReady, vars, client, conn
  <2>2. QED
    BY <2>1, Zenon DEF Formed, Whole
<1>15. QED
  BY <1>5, <1>6, <1>7, <1>8, <1>9, <1>10, <1>11, <1>12, <1>13, <1>14, Steps, Zenon

------------------------------------------------------------------------------
(* The numbers of the commands.                                            *)

\* What a send gives the controller: the command at hand, or the one left over.
LEMMA SendFeeds ==
    ASSUME ClientTypeOK, ConnTypeOK, Send
    PROVE  /\ act = "send" /\ act' = "header" /\ left' = 1 /\ need' = 0
           /\ op \in AttachOps \cup CallOps
           /\ UNCHANGED <<case, op, h2c, pdu, buf, done, down, mdts, max>>
           /\ cut' \in {cut, NoCut}
           /\ \A c \in todo' :
                \/ c \in todo
                \/ /\ need = 0 /\ c.cid = Pdu.cid
                   /\ c.op = IF h2c THEN "written" ELSE op
                   /\ h2c => disk' = New
                \/ need > 0 /\ c.cid = cut.cid
           /\ disk' # disk => \/ need = 0 /\ h2c /\ disk' = New
                              \/ need > 0 /\ cut.t = "h2c"
           /\ cid \in Nat /\ cid' \in Nat /\ cid <= cid' /\ Pdu.cid <= cid'
           /\ op \in CallOps => Pdu.cid = cid'
           /\ op \in CallOps /\ ~h2c => cid' = cid + 1
           /\ op \in CallOps /\ h2c => cid' = cid
<1>1. /\ act = "send" /\ act # "idle" /\ Counted /\ Feed(Pdu, Length(Pdu))
      /\ act' = "header" /\ left' = 1
      /\ UNCHANGED <<case, op, h2c, pdu, buf, done, down, mdts, max>>
  BY Zenon DEF Send
<1>2. Length(Pdu) \in 2 .. 3
  BY <1>1, PduTyped
<1>3. Length(Pdu) \in 0 .. 3
  BY <1>2
<1>4. /\ need' = 0 /\ cut' \in {cut, NoCut}
      /\ \A c \in todo' :
           \/ c \in todo
           \/ /\ need = 0 /\ c.cid = Pdu.cid
              /\ c.op = IF h2c THEN "written" ELSE op
              /\ h2c => disk' = New
           \/ need > 0 /\ c.cid = cut.cid
      /\ disk' # disk => \/ need = 0 /\ h2c /\ disk' = New
                         \/ need > 0 /\ cut.t = "h2c"
  BY <1>1, <1>3, Fed
<1>5. /\ op \in AttachOps \cup CallOps
      /\ cid' \in Nat /\ cid <= cid' /\ Pdu.cid <= cid'
      /\ op \in CallOps => Pdu.cid = cid'
      /\ op \in CallOps /\ ~h2c => cid' = cid + 1
  BY <1>1, PduTyped
<1>6. cid \in Nat /\ (h2c => cid' = cid)
  BY <1>1, Zenon DEF ClientTypeOK, Counted
<1>7. QED
  BY <1>1, <1>4, <1>5, <1>6, Zenon

\* What a PDU cut short leaves behind.
LEMMA CutFeeds ==
    ASSUME ClientTypeOK, ConnTypeOK, act # "idle", CutShort
    PROVE  /\ cut' \in {cut, NoCut, Pdu} /\ need' \in 0 .. 2
           /\ need' > 0 => (need > 0 /\ cut' = cut) \/ (need = 0 /\ cut' = Pdu)
           /\ \A c \in todo' : c \in todo \/ (need > 0 /\ c.cid = cut.cid)
           /\ disk' # disk => need > 0 /\ cut.t = "h2c"
           /\ act = "send" /\ UNCHANGED down
           /\ cid \in Nat /\ cid' \in Nat /\ cid <= cid' /\ Pdu.cid <= cid'
<1>1. /\ act = "send" /\ Counted /\ UNCHANGED down /\ cid \in Nat
  BY Zenon DEF CutShort, ClientTypeOK
<1>2. PICK n \in 0 .. Length(Pdu) - 1 : Feed(Pdu, n)
  BY Zenon DEF CutShort
<1>3. n \in 0 .. 3 /\ n # Length(Pdu)
  <2>1. Length(Pdu) \in 2 .. 3
    BY PduTyped
  <2>2. QED
    BY <1>2, <2>1
<1>4. /\ cut' \in {cut, NoCut, Pdu} /\ need' \in 0 .. 2
      /\ need' > 0 => (need > 0 /\ cut' = cut) \/ (need = 0 /\ cut' = Pdu)
      /\ \A c \in todo' : c \in todo \/ (need > 0 /\ c.cid = cut.cid)
      /\ disk' # disk => need > 0 /\ cut.t = "h2c"
  BY <1>2, <1>3, Fed
<1>5. /\ cid' \in Nat /\ cid <= cid' /\ Pdu.cid <= cid'
  BY <1>1, PduTyped
<1>6. QED
  BY <1>1, <1>4, <1>5, Zenon

\* Every step keeps the identifiers on the connection below the counter.
LEMMA NumberedStep ==
    ASSUME ClientTypeOK, ConnTypeOK, Numbered, [Next]_vars
    PROVE  Numbered'
<1>1. /\ \A c \in todo : c.cid <= cid
      /\ \A i \in 1 .. Len(down) : down[i].cid <= cid
      /\ cut.cid <= cid
      /\ InFlight => need = 0
      /\ InFlight /\ op \in CallOps => cid > 0
      /\ cid \in Nat /\ down \in Seq(Units) /\ cut \in Cuts /\ todo \subseteq Cmds
  BY Zenon DEF Numbered, ClientTypeOK, ConnTypeOK
<1>2. /\ \A c \in Cmds : c.cid \in Nat
      /\ \A u \in Units : u.cid \in Nat
      /\ \A p \in Cuts : p.cid \in Nat
      /\ NoCut.cid = 0 /\ 0 <= cid
  BY <1>1 DEF Cmds, Units, Cuts, NoCut
<1>3. \A i \in 1 .. Len(down) : down[i] \in Units
  BY <1>1
<1>4. ASSUME down # <<>>
      PROVE  \A i \in 1 .. Len(Tail(down)) : Tail(down)[i].cid <= cid
  <2>1. /\ Len(Tail(down)) = Len(down) - 1 /\ Len(down) \in Nat
        /\ \A i \in 1 .. Len(down) - 1 : Tail(down)[i] = down[i + 1] /\ i + 1 \in 1 .. Len(down)
    BY <1>1, <1>4, TailOf
  <2>2. QED
    BY <1>1, <2>1
<1>5. ASSUME cid' \in Nat, cid <= cid'
      PROVE  /\ \A n \in Nat : n <= cid => n <= cid'
             /\ 0 <= cid'
  BY <1>1, <1>5
<1>6. CASE Away
  <2>1. act # "idle" /\ ~InFlight'
    BY <1>6, Zenon DEF Away, Leads, Gone, Clear, InFlight, Waiting
  <2>2. CASE CutShort
    <3>1. /\ cut' \in {cut, NoCut, Pdu} /\ UNCHANGED down
          /\ \A c \in todo' : c \in todo \/ c.cid = cut.cid
          /\ cid' \in Nat /\ cid <= cid' /\ Pdu.cid <= cid'
      BY <2>1, <2>2, CutFeeds
    <3>2. QED
      BY <1>1, <1>2, <1>3, <1>5, <2>1, <3>1, Zenon DEF Numbered
  <2>3. CASE Aside
    <3>1. /\ UNCHANGED <<cut, todo>>
          /\ UNCHANGED down \/ (down # <<>> /\ down' = Tail(down))
          /\ UNCHANGED cid \/ Counted
      BY <2>3, Zenon DEF Aside
    <3>2. cid' \in Nat /\ cid <= cid'
      BY <1>1, <3>1 DEF Counted
    <3>3. \A i \in 1 .. Len(down') : down'[i].cid <= cid /\ down'[i] \in Units
      <4>1. CASE UNCHANGED down
        BY <1>1, <1>3, <4>1, Zenon
      <4>2. CASE down # <<>> /\ down' = Tail(down)
        <5>1. down' \in Seq(Units)
          BY <1>1, <4>2, TailOf
        <5>2. \A i \in 1 .. Len(down') : down'[i] \in Units
          BY <5>1
        <5>3. QED
          BY <1>4, <4>2, <5>2, Zenon
      <4>3. QED
        BY <3>1, <4>1, <4>2
    <3>4. QED
      BY <1>1, <1>2, <1>5, <2>1, <3>1, <3>2, <3>3, Zenon DEF Numbered
  <2>4. QED
    BY <1>6, <2>2, <2>3, Zenon DEF Away
<1>7. CASE Moves
  <2>1. /\ cid' = 0 /\ down' = <<>> /\ todo' = {} /\ cut' = NoCut /\ ~InFlight'
    BY <1>7, Zenon DEF Moves, ToIo, Fresh, Clear, InFlight, Waiting
  <2>2. cut'.cid <= cid' /\ \A i \in 1 .. Len(down') : FALSE
    BY <1>2, <2>1
  <2>3. QED
    BY <2>1, <2>2, Zenon DEF Numbered
<1>8. CASE Call
  BY <1>1, <1>8, Zenon DEF Call, Fresh, Clear, InFlight, Waiting, Numbered, conn
<1>9. CASE Reads
  <2>1. /\ act \in {"header", "rest"} /\ down # <<>> /\ down' = Tail(down)
        /\ UNCHANGED <<need, cut, todo, op, cid>>
    BY <1>9, AReading
  <2>2. InFlight
    BY <2>1, Zenon DEF InFlight, Waiting
  <2>3. QED
    BY <1>1, <1>4, <2>1, <2>2, Zenon DEF Numbered
<1>10. CASE Send
  <2>1. /\ act' = "header" /\ need' = 0
        /\ op \in AttachOps \cup CallOps
        /\ UNCHANGED <<op, h2c, down>>
        /\ cut' \in {cut, NoCut}
        /\ \A c \in todo' : c \in todo \/ c.cid = Pdu.cid \/ c.cid = cut.cid
        /\ cid' \in Nat /\ cid <= cid' /\ Pdu.cid <= cid'
        /\ op \in CallOps /\ ~h2c => cid' = cid + 1
        /\ op \in CallOps /\ h2c => cid' = cid
    BY <1>10, SendFeeds
  <2>2. op' \in CallOps => cid' > 0
    <3>1. cid + 1 > 0
      BY <1>1
    <3>2. QED
      BY <1>1, <2>1, <3>1, Zenon DEF InFlight
  <2>3. QED
    BY <1>1, <1>2, <1>3, <1>5, <2>1, <2>2, Zenon DEF Numbered
<1>11. CASE Serve
  <2>1. PICK c \in todo, a \in Seq(Units) :
            /\ Answer(c, a) /\ down' = down \o a
            /\ \/ todo' = todo \ {c}
               \/ todo' = (todo \ {c}) \cup {[cid |-> c.cid, op |-> "sent"]}
    BY <1>11, Served, Zenon
  <2>2. UNCHANGED <<op, cid, act, h2c, need, cut>>
    BY <1>11, Zenon DEF Serve, client
  <2>3. \A d \in todo' : d \in todo \/ d.cid = c.cid
    BY <2>1
  <2>4. ASSUME NEW i \in 1 .. Len(down')
        PROVE  down'[i].cid <= cid
    <3>1. /\ Len(down') = Len(down) + Len(a) /\ Len(down) \in Nat /\ Len(a) \in Nat
          /\ \A j \in 1 .. Len(down) : down'[j] = down[j]
          /\ \A j \in 1 .. Len(a) : down'[Len(down) + j] = a[j]
      BY <1>1, <2>1, CatOf
    <3>2. CASE i \in 1 .. Len(down)
      BY <1>1, <3>1, <3>2, Zenon
    <3>3. CASE i \notin 1 .. Len(down)
      <4>1. i - Len(down) \in 1 .. Len(a) /\ Len(down) + (i - Len(down)) = i
        BY <3>1, <3>3
      <4>2. a[i - Len(down)].cid \in {0, c.cid}
        BY <2>1, <4>1, Zenon DEF Answer, OnePdu
      <4>3. down'[i] = a[i - Len(down)]
        BY <3>1, <4>1
      <4>4. QED
        BY <1>1, <1>2, <2>1, <4>2, <4>3, Zenon
    <3>4. QED
      BY <3>2, <3>3
  <2>5. QED
    BY <1>1, <2>1, <2>2, <2>3, <2>4, Zenon DEF Numbered, InFlight, Waiting
<1>12. CASE Lost \/ ComesReady \/ UNCHANGED vars
  <2>1. UNCHANGED <<op, cid, act, h2c, need, cut, down>> /\ todo' \subseteq todo
    BY <1>12, Zenon DEF Lost, ComesReady, vars, client, conn
  <2>2. QED
    BY <1>1, <2>1, Zenon DEF Numbered, InFlight, Waiting
<1>13. QED
  BY <1>6, <1>7, <1>8, <1>9, <1>10, <1>11, <1>12, Steps, Zenon DEF Reads

------------------------------------------------------------------------------
(* A read in hand.                                                         *)

\* A unit that is read brings the others nearer.
LEMMA Nearer ==
    ASSUME NEW s \in Seq(Units), s # <<>>, NEW r, r = Tail(s)
    PROVE  /\ Len(s) \in Nat /\ Len(r) = Len(s) - 1
           /\ \A i \in 1 .. Len(r) : /\ i \in Nat /\ i + 1 \in 2 .. Len(s) /\ i + 1 \in 1 .. Len(s)
                                     /\ r[i] = s[i + 1] /\ (i + 1) - 1 = i
           /\ \A i \in 1 .. Len(s) : i # 1 => i - 1 \in 1 .. Len(r) /\ r[i - 1] = s[i]
           /\ Len(r) + 1 = Len(s) /\ Len(s) + 1 \in 2 .. Len(s) + 1
           /\ (Len(s) + 1) - 1 = Len(s)
           /\ 1 \in 1 .. Len(s)
<1>1. /\ Len(r) = Len(s) - 1 /\ Len(s) \in Nat \ {0}
      /\ \A i \in 1 .. Len(s) - 1 : r[i] = s[i + 1]
  BY TailOf
<1>2. QED
  BY <1>1

\* Coming, after a step.
Nears(i) ==
    \/ buf'[1] = disk' /\ buf'[2] = disk'
    \/ act' = "rest" /\ (pdu'.t = "junk" \/ (pdu'.cid = cid' /\ pdu'.t = "c2h"))
    \/ \E j \in 1 .. i - 1 : down'[j].cid = cid' /\ down'[j].t = "c2h"

\* A receive of a read keeps what is on its way to it true of the disk.
LEMMA ReadingOn ==
    ASSUME ClientTypeOK, ConnTypeOK, Formed, Reading, Reads, op = "read",
           \A i \in 2 .. Len(down) + 1 : Coming(i) => Nears(i - 1),
           act' = "rest" /\ DataOfMine(pdu)' => /\ down'[1].v = disk'
                                                /\ IF left' = 2 THEN down'[2].v = disk'
                                                   ELSE buf'[2] = disk',
           act' = "rest" /\ Told(pdu)' => Full'
    PROVE  Reading'
<1>1. /\ act \in {"header", "rest"} /\ down # <<>> /\ down' = Tail(down)
      /\ UNCHANGED <<disk, todo, op, cid>> /\ down \in Seq(Units)
  BY AReading, Zenon DEF ConnTypeOK
<1>2. InFlight
  BY <1>1, Zenon DEF InFlight, Waiting
<1>3. /\ \A c \in todo : c.cid = cid => c.op \in {"read", "sent"}
      /\ [cid |-> cid, op |-> "sent"] \in todo => Coming(Len(down) + 1)
      /\ \A i \in 1 .. Len(down) :
            /\ DataOfMine(down[i]) => /\ down[i].n = 2
                                      /\ down[i + 1].v = disk /\ down[i + 2].v = disk
            /\ Told(down[i]) => Coming(i)
  BY <1>2, Zenon DEF Reading
<1>4. /\ Len(down) \in Nat /\ Len(down') = Len(down) - 1
      /\ \A i \in 1 .. Len(down') : /\ i \in Nat /\ i + 1 \in 2 .. Len(down)
                                    /\ i + 1 \in 1 .. Len(down)
                                    /\ down'[i] = down[i + 1] /\ (i + 1) - 1 = i
      /\ Len(down') + 1 = Len(down) /\ Len(down) + 1 \in 2 .. Len(down) + 1
      /\ (Len(down) + 1) - 1 = Len(down)
      /\ 2 .. Len(down) \subseteq 2 .. Len(down) + 1
  <2>1. /\ Len(down) \in Nat /\ Len(down') = Len(down) - 1
        /\ \A i \in 1 .. Len(down') : /\ i \in Nat /\ i + 1 \in 2 .. Len(down)
                                      /\ i + 1 \in 1 .. Len(down)
                                      /\ down'[i] = down[i + 1] /\ (i + 1) - 1 = i
        /\ Len(down') + 1 = Len(down) /\ Len(down) + 1 \in 2 .. Len(down) + 1
        /\ (Len(down) + 1) - 1 = Len(down)
    BY <1>1, Nearer
  <2>2. QED
    BY <2>1
<1>5. [cid |-> cid, op |-> "sent"] \in todo => Nears(Len(down') + 1)
  <2>1. Coming(Len(down) + 1) => Nears((Len(down) + 1) - 1)
    BY <1>4, Zenon
  <2>2. QED
    BY <1>3, <1>4, <2>1, Zenon
<1>6. ASSUME NEW i \in 1 .. Len(down')
      PROVE  /\ DataOfMine(down[i + 1]) => /\ down'[i].n = 2
                                           /\ down'[i + 1].v = disk /\ down'[i + 2].v = disk
             /\ Told(down[i + 1]) => Nears(i)
  <2>1. i + 1 \in 1 .. Len(down) /\ down'[i] = down[i + 1]
    BY <1>4
  <2>2. ASSUME DataOfMine(down[i + 1])
        PROVE  /\ down'[i].n = 2
               /\ down'[i + 1].v = disk /\ down'[i + 2].v = disk
    <3>1. /\ down[i + 1].n = 2
          /\ down[i + 1 + 1].v = disk /\ down[i + 1 + 2].v = disk
      BY <1>3, <2>1, <2>2, Zenon
    <3>2. down[i + 1].t \notin {"part", "term"}
      BY <2>2 DEF DataOfMine
    <3>3. i + 1 + down[i + 1].n <= Len(down)
      BY <2>1, <3>2, Zenon DEF Formed, Whole
    <3>4. /\ i + 1 \in 1 .. Len(down') /\ i + 2 \in 1 .. Len(down')
          /\ i + 2 + 1 = i + 1 + 2
      BY <1>4, <3>1, <3>3
    <3>5. down'[i + 1] = down[i + 1 + 1] /\ down'[i + 2] = down[i + 1 + 2]
      <4>1. \A j \in 1 .. Len(down') : down'[j] = down[j + 1]
        BY <1>4, Zenon
      <4>2. down'[i + 1] = down[i + 1 + 1] /\ down'[i + 2] = down[i + 2 + 1]
        BY <3>4, <4>1, Zenon
      <4>3. QED
        BY <3>4, <4>2, Zenon
    <3>6. QED
      BY <2>1, <3>1, <3>5, Zenon
  <2>3. ASSUME Told(down[i + 1])
        PROVE  Nears(i)
    <3>1. Coming(i + 1)
      BY <1>3, <2>1, <2>3, Zenon
    <3>2. Nears((i + 1) - 1)
      BY <1>4, <3>1, Zenon
    <3>3. QED
      BY <1>4, <3>2, Zenon
  <2>4. QED
    BY <2>2, <2>3
<1>7. \A i \in 1 .. Len(down') : /\ DataOfMine(down[i])' <=> DataOfMine(down[i + 1])
                                 /\ Told(down[i])' <=> Told(down[i + 1])
  BY <1>1, <1>4, Zenon DEF DataOfMine, Told, OfMine
<1>8. QED
  BY <1>1, <1>3, <1>5, <1>6, <1>7, Zenon
     DEF Reading, Coming, Nears, Full, OfMine

\* Every receive of a read keeps what is on its way to it true of the disk.
LEMMA ReadingReads ==
    ASSUME ClientTypeOK, ConnTypeOK, Formed, Numbered, Reading, Reads, op = "read"
    PROVE  Reading'
<1>1. /\ act \in {"header", "rest"} /\ down # <<>> /\ down' = Tail(down)
      /\ UNCHANGED <<disk, todo, op, cid>> /\ down \in Seq(Units)
      /\ buf \in Bufs /\ left \in 0 .. 2 /\ down[1] = Head(down)
  <2>1. /\ act \in {"header", "rest"} /\ down # <<>> /\ down' = Tail(down)
        /\ UNCHANGED <<disk, todo, op, cid>> /\ down \in Seq(Units)
        /\ buf \in Bufs /\ left \in 0 .. 2
    BY AReading, Zenon DEF ConnTypeOK, ClientTypeOK
  <2>2. QED
    BY <2>1, TailOf
<1>2. InFlight
  BY <1>1, Zenon DEF InFlight, Waiting
<1>3. /\ \A i \in 1 .. Len(down) :
            /\ DataOfMine(down[i]) => /\ down[i].n = 2
                                      /\ down[i + 1].v = disk /\ down[i + 2].v = disk
            /\ Told(down[i]) => Coming(i)
      /\ act = "rest" /\ DataOfMine(pdu) => /\ down[1].v = disk
                                            /\ IF left = 2 THEN down[2].v = disk
                                               ELSE buf[2] = disk
      /\ act = "rest" /\ Told(pdu) => Full
  BY <1>2, Zenon DEF Reading
<1>4. /\ Len(down) \in Nat /\ 1 \in 1 .. Len(down)
      /\ \A i \in 1 .. Len(down) : i # 1 => i - 1 \in 1 .. Len(down') /\ down'[i - 1] = down[i]
  BY <1>1, Nearer
<1>5. "read" \notin Dials
  BY DEF Dials
<1>6. Mine <=> OfMine(pdu)
  BY <1>5, Zenon DEF Mine, OfMine
\* Where the unit that is read is no data's header of this command.
<1>7. ASSUME down[1].t # "c2h" \/ ~OfMine(down[1]), act = "header" \/ pdu.t # "junk",
             act = "header" \/ ~OfMine(pdu) \/ pdu.t # "c2h",
             Full => buf'[1] = disk /\ buf'[2] = disk,
             NEW i \in 2 .. Len(down) + 1, Coming(i)
      PROVE  Nears(i - 1)
  <2>1. CASE Full
    BY <1>1, <1>7, <2>1, Zenon DEF Nears
  <2>2. CASE ~Full
    <3>1. PICK j \in 1 .. i - 1 : OfMine(down[j]) /\ down[j].t = "c2h"
      BY <1>7, <2>2, <1>1, Zenon DEF Coming
    <3>2. j # 1
      BY <1>7, <3>1, Zenon
    <3>3. j - 1 \in 1 .. (i - 1) - 1 /\ j \in 1 .. Len(down)
      BY <1>4, <3>1, <3>2
    <3>4. down'[j - 1] = down[j]
      BY <1>4, <3>2, <3>3, Zenon
    <3>5. QED
      BY <1>1, <3>1, <3>3, <3>4, Zenon DEF Nears, OfMine
  <2>3. QED
    BY <2>1, <2>2
<1>8. CASE Header
  <2>1. /\ act = "header" /\ act' = "rest" /\ pdu' = down[1] /\ left' = down[1].n
        /\ UNCHANGED buf /\ down[1].t \notin {"part", "term"}
    BY <1>1, <1>8, Zenon DEF Header, Rest
  <2>2. ASSUME NEW i \in 2 .. Len(down) + 1, Coming(i)
        PROVE  Nears(i - 1)
    <3>1. CASE down[1].t = "c2h" /\ OfMine(down[1])
      BY <1>1, <2>1, <3>1, Zenon DEF Nears, OfMine
    <3>2. CASE down[1].t # "c2h" \/ ~OfMine(down[1])
      BY <1>1, <1>7, <2>1, <2>2, <3>2, Zenon DEF Full
    <3>3. QED
      BY <3>1, <3>2
  <2>3. ASSUME DataOfMine(down[1])
        PROVE  left' = 2 /\ down'[1].v = disk /\ down'[2].v = disk
    <3>1. down[1].n = 2 /\ down[1 + 1].v = disk /\ down[1 + 2].v = disk
      BY <1>3, <1>4, <2>3, Zenon
    <3>2. Whole(down, 1)
      BY <1>4, <2>1, Zenon DEF Formed
    <3>3. 2 \in 1 .. Len(down) /\ 3 \in 1 .. Len(down)
      BY <1>4, <3>1, <3>2 DEF Whole
    <3>4. down'[2 - 1] = down[2] /\ down'[3 - 1] = down[3]
      BY <1>4, <3>3
    <3>5. QED
      BY <2>1, <3>1, <3>4
  <2>4. ASSUME Told(down[1])
        PROVE  Full
    <3>1. Coming(1)
      BY <1>3, <1>4, <2>4, Zenon
    <3>2. 1 .. 1 - 1 = {}
      OBVIOUS
    <3>3. QED
      BY <2>1, <3>1, <3>2, Zenon DEF Coming
  <2>5. /\ DataOfMine(pdu)' <=> DataOfMine(down[1])
        /\ Told(pdu)' <=> Told(down[1])
        /\ Full' <=> Full
    BY <1>1, <2>1, Zenon DEF DataOfMine, Told, OfMine, Full
  <2>6. /\ act' = "rest" /\ DataOfMine(pdu)' => /\ down'[1].v = disk'
                                                /\ IF left' = 2 THEN down'[2].v = disk'
                                                   ELSE buf'[2] = disk'
        /\ act' = "rest" /\ Told(pdu)' => Full'
    BY <1>1, <2>3, <2>4, <2>5, Zenon
  <2>7. QED
    BY <2>2, <2>6, ReadingOn
<1>9. CASE MoreOfIt
  <2>1. /\ act = "rest" /\ act' = "rest" /\ UNCHANGED pdu /\ left > 1 /\ left' = left - 1
        /\ buf' = Filled
    BY <1>9, Zenon DEF MoreOfIt
  <2>2. left = 2 /\ left' = 1 /\ left' # 2
    BY <1>1, <2>1
  <2>3. pdu.t # "junk" => down[1].t = "part" /\ down[2].t = "part" /\ 2 <= Len(down)
    BY <2>1, <2>2, Zenon DEF Formed
  <2>4. CASE pdu.t = "junk"
    <3>1. \A i \in 2 .. Len(down) + 1 : Nears(i - 1)
      BY <2>1, <2>4, Zenon DEF Nears
    <3>2. ~DataOfMine(pdu)' /\ ~Told(pdu)'
      BY <2>1, <2>4 DEF DataOfMine, Told
    <3>3. QED
      BY <3>1, <3>2, ReadingOn, Zenon
  <2>5. CASE pdu.t # "junk" /\ DataOfMine(pdu)
    <3>1. down[1].v = disk /\ down[2].v = disk
      BY <1>3, <2>1, <2>2, <2>5, Zenon
    <3>2. buf' = [buf EXCEPT ![2] = disk]
      BY <1>1, <1>6, <2>1, <2>2, <2>5, <3>1, Zenon DEF Filled, DataOfMine
    <3>3. buf'[2] = disk /\ buf'[1] = buf[1]
      BY <1>1, <3>2 DEF Bufs
    <3>4. 2 \in 1 .. Len(down)
      BY <1>4, <2>3, <2>5
    <3>5. down'[1] = down[2]
      <4>1. down'[2 - 1] = down[2]
        BY <1>4, <3>4
      <4>2. QED
        BY <4>1
    <3>6. ASSUME NEW i \in 2 .. Len(down) + 1, Coming(i)
          PROVE  Nears(i - 1)
      <4>1. CASE pdu.t = "c2h"
        BY <1>1, <2>1, <2>5, <4>1, Zenon DEF Nears, DataOfMine, OfMine
      <4>2. CASE pdu.t # "c2h"
        <5>1. down[1].t # "c2h"
          BY <2>3, <2>5
        <5>2. Full => buf'[1] = disk /\ buf'[2] = disk
          BY <3>3, Zenon DEF Full
        <5>3. QED
          BY <1>7, <2>5, <3>6, <4>2, <5>1, <5>2, Zenon
      <4>3. QED
        BY <4>1, <4>2
    <3>7. ~Told(pdu)'
      BY <2>1, <2>5 DEF Told, DataOfMine
    <3>8. QED
      BY <1>1, <2>2, <3>1, <3>3, <3>5, <3>6, <3>7, ReadingOn, Zenon
  <2>6. CASE pdu.t # "junk" /\ ~DataOfMine(pdu)
    <3>1. buf' = buf
      BY <1>6, <2>1, <2>6, Zenon DEF Filled, DataOfMine
    <3>2. ASSUME NEW i \in 2 .. Len(down) + 1, Coming(i)
          PROVE  Nears(i - 1)
      <4>1. down[1].t # "c2h"
        BY <2>3, <2>6
      <4>2. ~OfMine(pdu) \/ pdu.t # "c2h"
        BY <2>6 DEF DataOfMine
      <4>3. Full => buf'[1] = disk /\ buf'[2] = disk
        BY <3>1, Zenon DEF Full
      <4>4. QED
        BY <1>7, <2>6, <3>2, <4>1, <4>2, <4>3, Zenon
    <3>3. /\ ~DataOfMine(pdu)'
          /\ Told(pdu)' => Full'
      BY <1>1, <1>3, <2>1, <2>6, <3>1, Zenon DEF DataOfMine, Told, OfMine, Full
    <3>4. QED
      BY <3>2, <3>3, ReadingOn, Zenon
  <2>7. QED
    BY <2>4, <2>5, <2>6
<1>10. CASE GoesOn
  <2>1. /\ act = "rest" /\ act' = "header" /\ left = 1 /\ buf' = Filled
        /\ pdu.t \in {"resp", "c2h", "c2h done"} /\ (Mine => pdu.t = "c2h")
    BY <1>10, Zenon DEF GoesOn, LastOfIt
  <2>2. pdu.t # "junk" /\ left # 2
    <3>1. pdu.t # "junk"
      BY <2>1, Zenon
    <3>2. left # 2
      <4>1. left = 1
        BY <2>1, Zenon
      <4>2. QED
        BY <4>1
    <3>3. QED
      BY <3>1, <3>2
  <2>3. down[1].t # "c2h"
    <3>1. down[1].t = "part"
      BY <2>1, <2>2, Zenon DEF Formed
    <3>2. QED
      BY <3>1
  <2>4. ASSUME NEW i \in 2 .. Len(down) + 1, Coming(i)
        PROVE  Nears(i - 1)
    <3>1. CASE Mine
      <4>1. DataOfMine(pdu) /\ pdu.t = "c2h"
        BY <1>6, <2>1, <3>1 DEF DataOfMine
      <4>2. down[1].v = disk /\ buf[2] = disk
        BY <1>3, <2>1, <2>2, <4>1, Zenon
      <4>3. buf' = [buf EXCEPT ![1] = disk]
        BY <1>1, <2>1, <3>1, <4>1, <4>2, Zenon DEF Filled
      <4>4. buf'[1] = disk /\ buf'[2] = disk
        BY <1>1, <4>2, <4>3 DEF Bufs
      <4>5. QED
        BY <1>1, <4>4, Zenon DEF Nears
    <3>2. CASE ~Mine
      <4>1. buf' = buf
        BY <2>1, <3>2, Zenon DEF Filled
      <4>2. Full => buf'[1] = disk /\ buf'[2] = disk
        BY <4>1, Zenon DEF Full
      <4>3. QED
        BY <1>6, <1>7, <2>2, <2>3, <2>4, <3>2, <4>2, Zenon
    <3>3. QED
      BY <3>1, <3>2
  <2>5. QED
    BY <2>1, <2>4, ReadingOn, Zenon
<1>11. CASE Strays
  <2>1. PICK n \in 1 .. 2 : Rest(n) /\ pdu' = [t |-> "junk", cid |-> 0, n |-> n, v |-> ""]
    BY <1>11, Zenon DEF Strays
  <2>2. pdu'.t = "junk" /\ act' = "rest"
    <3>1. pdu'.t = "junk"
      BY <2>1
    <3>2. QED
      BY <2>1, <3>1, Zenon DEF Rest
  <2>3. \A i \in 2 .. Len(down) + 1 : Nears(i - 1)
    BY <2>2, Zenon DEF Nears
  <2>4. ~DataOfMine(pdu)' /\ ~Told(pdu)'
    BY <2>2 DEF DataOfMine, Told
  <2>5. QED
    BY <2>3, <2>4, ReadingOn, Zenon
<1>12. CASE Wanted
  <2>1. op = "write"
    BY <1>12, Zenon DEF Wanted
  <2>2. QED
    BY <2>1
<1>13. QED
  BY <1>8, <1>9, <1>10, <1>11, <1>12, Zenon DEF Reads

\* Every step keeps what is on its way to a read true of the disk.
LEMMA ReadingStep ==
    ASSUME ClientTypeOK, ConnTypeOK, Formed, Numbered, Reading, [Next]_vars
    PROVE  Reading'
<1>1. /\ cid \in Nat /\ down \in Seq(Units) /\ todo \subseteq Cmds /\ left \in 0 .. 2
      /\ h2c => op = "write"
      /\ \A c \in todo : c.cid <= cid
      /\ \A i \in 1 .. Len(down) : down[i].cid <= cid
      /\ cut.cid <= cid
      /\ InFlight /\ op \in CallOps => cid > 0
  BY Zenon DEF ClientTypeOK, ConnTypeOK, Numbered
<1>2. op = "read" /\ InFlight =>
        /\ \A c \in todo : c.cid = cid => c.op \in {"read", "sent"}
        /\ [cid |-> cid, op |-> "sent"] \in todo => Coming(Len(down) + 1)
        /\ \A i \in 1 .. Len(down) :
              /\ DataOfMine(down[i]) => /\ down[i].n = 2
                                        /\ down[i + 1].v = disk /\ down[i + 2].v = disk
              /\ Told(down[i]) => Coming(i)
        /\ act = "rest" /\ DataOfMine(pdu) => /\ down[1].v = disk
                                              /\ IF left = 2 THEN down[2].v = disk
                                                 ELSE buf[2] = disk
        /\ act = "rest" /\ Told(pdu) => Full
  BY Zenon DEF Reading
<1>3. "read" \in CallOps
  BY DEF CallOps
<1>4. CASE ~InFlight' \/ op' # "read"
  BY <1>4, Zenon DEF Reading
<1>5. CASE Away \/ Moves \/ Call
  <2>1. ~InFlight'
    BY <1>5, Zenon DEF Away, Leads, Gone, Moves, ToIo, Call, Fresh, Clear, InFlight, Waiting
  <2>2. QED
    BY <1>4, <2>1
<1>6. CASE Reads
  <2>1. op' = op
    BY <1>6, AReading
  <2>2. CASE op = "read"
    BY <1>6, <2>2, ReadingReads
  <2>3. CASE op # "read"
    BY <1>4, <2>1, <2>3
  <2>4. QED
    BY <2>2, <2>3
<1>7. CASE Send /\ op = "read"
  <2>1. ~h2c
    BY <1>1, <1>7
  <2>2. /\ act' = "header" /\ UNCHANGED <<op, down>>
        /\ \A c \in todo' : \/ c \in todo \/ c.op = "read"
                            \/ c.cid = cut.cid
        /\ cid' = cid + 1
    BY <1>3, <1>7, <2>1, SendFeeds
  <2>3. \A n \in Nat : n <= cid => n # cid'
    BY <1>1, <2>2
  <2>4. /\ \A c \in todo : c.cid \in Nat
        /\ \A i \in 1 .. Len(down) : down[i].cid \in Nat
        /\ cut.cid \in Nat
    <3>1. cut \in Cuts
      BY Zenon DEF ConnTypeOK
    <3>2. \A i \in 1 .. Len(down) : down[i] \in Units
      BY <1>1
    <3>3. \A c \in Cmds : c.cid \in Nat
      BY DEF Cmds
    <3>4. \A u \in Units : u.cid \in Nat
      BY DEF Units
    <3>5. cut.cid \in Nat
      BY <3>1 DEF Cuts
    <3>6. QED
      BY <1>1, <3>2, <3>3, <3>4, <3>5, Zenon
  <2>5. \A c \in todo' : c.cid = cid' => c.op = "read"
    BY <1>1, <2>2, <2>3, <2>4, Zenon
  <2>6. \A i \in 1 .. Len(down') : down'[i].cid # cid'
    BY <1>1, <2>2, <2>3, <2>4, Zenon
  <2>7. [cid |-> cid', op |-> "sent"] \notin todo'
    <3>1. [cid |-> cid', op |-> "sent"].cid = cid' /\ [cid |-> cid', op |-> "sent"].op = "sent"
      OBVIOUS
    <3>2. "sent" # "read"
      OBVIOUS
    <3>3. QED
      BY <2>5, <3>1, <3>2, Zenon
  <2>8. act' # "rest"
    BY <2>2
  <2>9. QED
    BY <2>5, <2>6, <2>7, <2>8, Zenon DEF Reading, DataOfMine, Told, OfMine
<1>8. CASE (Lost \/ ComesReady \/ UNCHANGED vars) /\ op = "read"
  <2>1. /\ UNCHANGED <<op, cid, act, left, pdu, h2c, buf, down, disk>>
        /\ todo' \in {todo, {}}
    BY <1>8, Zenon DEF Lost, ComesReady, vars, client, conn
  <2>2. QED
    BY <1>2, <2>1, Zenon
       DEF Reading, Coming, Full, DataOfMine, Told, OfMine, InFlight, Waiting
<1>9. CASE Serve /\ op = "read" /\ InFlight
  <2>1. PICK c \in todo, a \in Seq(Units) :
            /\ Answer(c, a) /\ down' = down \o a
            /\ \/ todo' = todo \ {c}
               \/ /\ c.op \in ByData /\ a[1].t = "c2h" /\ a[1].cid = c.cid
                  /\ todo' = (todo \ {c}) \cup {[cid |-> c.cid, op |-> "sent"]}
    BY <1>9, Served, Zenon
  <2>2. UNCHANGED <<op, cid, act, left, pdu, h2c, buf, disk>>
    BY <1>9, Zenon DEF Serve, client
  <2>3. /\ Len(down') = Len(down) + Len(a) /\ Len(down) \in Nat /\ Len(a) \in 1 .. 3
        /\ \A i \in 1 .. Len(down) : down'[i] = down[i]
        /\ \A k \in 1 .. Len(a) : down'[Len(down) + k] = a[k]
    <3>1. Len(a) \in 1 .. 3
      BY <2>1, Zenon DEF Answer
    <3>2. QED
      BY <1>1, <2>1, <3>1, CatOf
  <2>4. cid > 0 /\ \A d \in todo : d.cid = cid => d.op \in {"read", "sent"}
    BY <1>1, <1>2, <1>3, <1>9, Zenon
  <2>5. \A d \in todo' : d.cid = cid => d.op \in {"read", "sent"}
    BY <2>1, <2>4
  <2>6. ASSUME NEW i \in Nat, NEW k \in Nat, i <= k, i - 1 <= Len(down), Coming(i)
        PROVE  Nears(k)
    <3>1. CASE \E j \in 1 .. i - 1 : OfMine(down[j]) /\ down[j].t = "c2h"
      <4>1. PICK j \in 1 .. i - 1 : OfMine(down[j]) /\ down[j].t = "c2h"
        BY <3>1
      <4>2. j \in 1 .. k - 1 /\ j \in 1 .. Len(down)
        BY <2>3, <2>6, <4>1
      <4>3. QED
        BY <2>2, <2>3, <4>1, <4>2, Zenon DEF Nears, OfMine
    <3>2. CASE ~ \E j \in 1 .. i - 1 : OfMine(down[j]) /\ down[j].t = "c2h"
      BY <2>2, <2>6, <3>2, Zenon DEF Coming, Nears, Full, OfMine
    <3>3. QED
      BY <3>1, <3>2
  <2>7. ASSUME [cid |-> cid, op |-> "sent"] \in todo'
        PROVE  Nears(Len(down') + 1)
    <3>1. CASE [cid |-> cid, op |-> "sent"] \in todo
      <4>1. Coming(Len(down) + 1)
        BY <1>2, <1>9, <3>1, Zenon
      <4>2. /\ Len(down) + 1 \in Nat /\ Len(down') + 1 \in Nat
            /\ Len(down) + 1 <= Len(down') + 1 /\ (Len(down) + 1) - 1 <= Len(down)
        BY <2>3
      <4>3. QED
        BY <2>6, <4>1, <4>2, Zenon
    <3>2. CASE [cid |-> cid, op |-> "sent"] \notin todo
      <4>1. /\ a[1].t = "c2h" /\ a[1].cid = c.cid
            /\ [cid |-> cid, op |-> "sent"] = [cid |-> c.cid, op |-> "sent"]
        BY <2>1, <2>7, <3>2, Zenon
      <4>2. c.cid = cid
        BY <4>1
      <4>3. /\ 1 \in 1 .. Len(a) /\ Len(down) + 1 \in 1 .. (Len(down') + 1) - 1
        <5>1. Len(down') = Len(down) + Len(a) /\ Len(down) \in Nat /\ Len(a) \in 1 .. 3
          BY <2>3, Zenon
        <5>2. \A x \in Nat, y \in 1 .. 3 : 1 \in 1 .. y /\ x + 1 \in 1 .. (x + y + 1) - 1
          OBVIOUS
        <5>3. QED
          BY <5>1, <5>2, Zenon
      <4>4. down'[Len(down) + 1] = a[1]
        BY <2>3, <4>3
      <4>5. QED
        BY <2>2, <4>1, <4>2, <4>3, <4>4, Zenon DEF Nears
    <3>3. QED
      BY <3>1, <3>2
  <2>8. ASSUME NEW i \in 1 .. Len(down)
        PROVE  /\ DataOfMine(down'[i]) => /\ down'[i].n = 2
                                          /\ down'[i + 1].v = disk /\ down'[i + 2].v = disk
               /\ Told(down'[i]) => Nears(i)
    <3>1. down'[i] = down[i]
      BY <2>3
    <3>2. ASSUME DataOfMine(down[i])
          PROVE  /\ down[i].n = 2
                 /\ down'[i + 1].v = disk /\ down'[i + 2].v = disk
      <4>1. /\ down[i].n = 2
            /\ down[i + 1].v = disk /\ down[i + 2].v = disk
        BY <1>2, <1>9, <3>2, Zenon
      <4>2. down[i].t \notin {"part", "term"}
        BY <3>2 DEF DataOfMine
      <4>3. i + down[i].n <= Len(down)
        BY <4>2, Zenon DEF Formed, Whole
      <4>4. i + 1 \in 1 .. Len(down) /\ i + 2 \in 1 .. Len(down)
        BY <2>3, <4>1, <4>3
      <4>5. down'[i + 1] = down[i + 1] /\ down'[i + 2] = down[i + 2]
        BY <2>3, <4>4, Zenon
      <4>6. QED
        BY <4>1, <4>5, Zenon
    <3>3. ASSUME Told(down[i])
          PROVE  Nears(i)
      <4>1. Coming(i)
        BY <1>2, <1>9, <3>3, Zenon
      <4>2. i \in Nat /\ i <= i /\ i - 1 <= Len(down)
        BY <2>3
      <4>3. QED
        BY <2>6, <4>1, <4>2, Zenon
    <3>4. QED
      BY <3>1, <3>2, <3>3, Zenon
  <2>9. ASSUME NEW k \in 1 .. Len(a)
        PROVE  /\ DataOfMine(a[k]) =>
                     /\ a[k].n = 2
                     /\ down'[Len(down) + k + 1].v = disk /\ down'[Len(down) + k + 2].v = disk
               /\ Told(a[k]) => Nears(Len(down) + k)
    <3>1. CASE a[k].t \in {"part", "term"}
      BY <3>1 DEF DataOfMine, Told
    <3>2. CASE a[k].t \notin {"part", "term"}
      <4>1. k = 1
        BY <2>1, <3>2, Zenon DEF Answer, OnePdu
      <4>2. a[1].n \in 1 .. 2 /\ Len(a) = 1 + a[1].n /\ a[1].cid = c.cid
        BY <2>1, <3>2, <4>1, Zenon DEF Answer, AllThere
      <4>3. ASSUME DataOfMine(a[1])
            PROVE  /\ a[1].n = 2
                   /\ down'[Len(down) + 2].v = disk /\ down'[Len(down) + 3].v = disk
        <5>1. c.cid = cid /\ a[1].t \in {"c2h", "c2h done"}
          BY <4>2, <4>3, Zenon DEF DataOfMine, OfMine
        <5>2. c.op # "garbled"
          <6>1. c.op \in {"read", "sent"}
            BY <2>1, <2>4, <5>1, Zenon
          <6>2. QED
            BY <6>1
        <5>3. a[1].n = 2 /\ a[2].v = disk /\ a[3].v = disk
          BY <2>1, <5>1, <5>2, Zenon DEF Answer, OfTheDisk
        <5>4. 2 \in 1 .. Len(a) /\ 3 \in 1 .. Len(a)
          BY <4>2, <5>3
        <5>5. QED
          BY <2>3, <5>3, <5>4, Zenon
      <4>4. ASSUME Told(a[1])
            PROVE  Nears(Len(down) + 1)
        <5>1. c.cid = cid /\ a[1].t = "resp" /\ a[1].v # "failed"
          BY <4>2, <4>4, Zenon DEF Told, OfMine
        <5>2. c.op \notin ByData \cup {"write", "garbled"}
          BY <2>1, <5>1, Zenon DEF Answer, NoneBare
        <5>3. c.op = "sent"
          <6>1. c.op \in {"read", "sent"}
            BY <2>1, <2>4, <5>1, Zenon
          <6>2. QED
            BY <5>2, <6>1 DEF ByData
        <5>4. c = [cid |-> cid, op |-> "sent"]
          BY <1>1, <2>1, <5>1, <5>3 DEF Cmds
        <5>5. Coming(Len(down) + 1)
          BY <1>2, <1>9, <2>1, <5>4, Zenon
        <5>6. /\ Len(down) + 1 \in Nat
              /\ Len(down) + 1 <= Len(down) + 1 /\ (Len(down) + 1) - 1 <= Len(down)
          BY <2>3
        <5>7. QED
          BY <2>6, <5>5, <5>6, Zenon
      <4>5. Len(down) + 1 + 1 = Len(down) + 2 /\ Len(down) + 1 + 2 = Len(down) + 3
        BY <2>3
      <4>6. QED
        BY <4>1, <4>3, <4>4, <4>5, Zenon
    <3>3. QED
      BY <3>1, <3>2
  <2>10. ASSUME NEW i \in 1 .. Len(down')
         PROVE  /\ DataOfMine(down'[i]) => /\ down'[i].n = 2
                                           /\ down'[i + 1].v = disk /\ down'[i + 2].v = disk
                /\ Told(down'[i]) => Nears(i)
    <3>1. CASE i \in 1 .. Len(down)
      BY <2>8, <3>1
    <3>2. CASE i \notin 1 .. Len(down)
      <4>1. i - Len(down) \in 1 .. Len(a) /\ Len(down) + (i - Len(down)) = i
        BY <2>3, <3>2
      <4>2. down'[Len(down) + (i - Len(down))] = a[i - Len(down)]
        BY <2>3, <4>1, Zenon
      <4>3. QED
        BY <2>9, <4>1, <4>2, Zenon
    <3>3. QED
      BY <3>1, <3>2
  <2>11. /\ act = "rest" /\ DataOfMine(pdu) => /\ down'[1].v = disk
                                               /\ IF left = 2 THEN down'[2].v = disk
                                                  ELSE buf[2] = disk
         /\ act = "rest" /\ Told(pdu) => Full
    <3>1. ASSUME act = "rest", DataOfMine(pdu)
          PROVE  /\ down'[1].v = disk
                 /\ IF left = 2 THEN down'[2].v = disk ELSE buf[2] = disk
      <4>1. pdu.t # "junk"
        BY <3>1 DEF DataOfMine
      <4>2. left <= Len(down) /\ left > 0
        BY <3>1, <4>1, Zenon DEF Formed, ClientTypeOK, Waiting
      <4>3. 1 \in 1 .. Len(down) /\ (left = 2 => 2 \in 1 .. Len(down))
        BY <1>1, <2>3, <4>2
      <4>4. down[1].v = disk /\ IF left = 2 THEN down[2].v = disk ELSE buf[2] = disk
        BY <1>2, <1>9, <3>1, Zenon
      <4>5. QED
        BY <2>3, <4>3, <4>4, Zenon
    <3>2. QED
      BY <1>2, <1>9, <3>1, Zenon
  <2>12. QED
    BY <2>2, <2>5, <2>7, <2>10, <2>11, Zenon
       DEF Reading, Coming, Nears, Full, DataOfMine, Told, OfMine
<1>10. CASE Serve /\ ~(op = "read" /\ InFlight)
  <2>1. UNCHANGED <<op, act, h2c>>
    BY <1>10, Zenon DEF Serve, client
  <2>2. QED
    BY <1>4, <1>10, <2>1, Zenon DEF InFlight, Waiting
<1>11. CASE (Send \/ Lost \/ ComesReady \/ UNCHANGED vars) /\ op # "read"
  <2>1. op' = op
    BY <1>11, Zenon DEF Send, Lost, ComesReady, vars, client
  <2>2. QED
    BY <1>4, <1>11, <2>1
<1>12. QED
  BY <1>5, <1>6, <1>7, <1>8, <1>9, <1>10, <1>11, Steps, Zenon DEF Reads

------------------------------------------------------------------------------
(* A write in hand, and what is left of one.                               *)

FailedWrite(d) == \E i \in 1 .. Len(d) : d[i].kind = "write" /\ ~d[i].ok

\* What has returned stays, and what returns is the call in hand.
LEMMA Returned ==
    ASSUME Calling, ClientTypeOK, Leads, act # "idle"
    PROVE  \/ UNCHANGED done
           \/ \E r \in [kind : {op}, ok : BOOLEAN, buf : {buf, Filled}, disk : {disk}] :
                /\ op \in CallOps
                /\ done' = Append(done, r)
                /\ Len(done') = Len(done) + 1 /\ Len(done) \in Nat
                /\ \A i \in 1 .. Len(done) : done'[i] = done[i]
                /\ done'[Len(done) + 1] = r
                /\ r.ok => Completed /\ r.buf = Filled /\ pdu.v # "failed"
<1>1. op \in AttachOps \cup CallOps
  BY LeadsTo
<1>2. SUFFICES ASSUME done' # done
      PROVE  \E r \in [kind : {op}, ok : BOOLEAN, buf : {buf, Filled}, disk : {disk}] :
                /\ op \in CallOps
                /\ done' = Append(done, r)
                /\ Len(done') = Len(done) + 1 /\ Len(done) \in Nat
                /\ \A i \in 1 .. Len(done) : done'[i] = done[i]
                /\ done'[Len(done) + 1] = r
                /\ r.ok => Completed /\ r.buf = Filled /\ pdu.v # "failed"
  OBVIOUS
<1> DEFINE f == [kind |-> op, ok |-> FALSE, buf |-> buf, disk |-> disk]
           s == [kind |-> op, ok |-> TRUE, buf |-> Filled, disk |-> disk]
<1>3. /\ op \notin AttachOps
      /\ \/ done' = Append(done, f)
         \/ Completed /\ pdu.v # "failed" /\ done' = Append(done, s)
  BY <1>2, Zenon DEF Leads, Attached
<1>4. /\ f \in [kind : {op}, ok : BOOLEAN, buf : {buf, Filled}, disk : {disk}] /\ ~f.ok
      /\ s \in [kind : {op}, ok : BOOLEAN, buf : {buf, Filled}, disk : {disk}]
      /\ s.buf = Filled
  OBVIOUS
<1>5. ASSUME NEW r, done' = Append(done, r)
      PROVE  /\ Len(done') = Len(done) + 1 /\ Len(done) \in Nat
             /\ \A i \in 1 .. Len(done) : done'[i] = done[i]
             /\ done'[Len(done) + 1] = r
  <2>1. done \in Seq([kind : CallOps, ok : BOOLEAN, buf : Bufs, disk : Values])
    BY Zenon DEF Calling
  <2>2. QED
    BY <1>5, <2>1
<1> HIDE DEF f, s
<1>6. QED
  BY <1>1, <1>3, <1>4, <1>5, Zenon

\* Every step keeps what is on its way to a write true of the disk.
LEMMA WritingStep ==
    ASSUME ClientTypeOK, ConnTypeOK, Calling, Formed, Numbered, Writing, [Next]_vars
    PROVE  Writing'
<1>1. /\ cid \in Nat /\ down \in Seq(Units) /\ todo \subseteq Cmds /\ left \in 0 .. 2
      /\ need \in 0 .. 2
      /\ h2c => op = "write"
      /\ \A c \in todo : c.cid <= cid
      /\ \A i \in 1 .. Len(down) : down[i].cid <= cid
      /\ cut.cid <= cid
      /\ InFlight => need = 0
      /\ InFlight /\ op \in CallOps => cid > 0
  BY Zenon DEF ClientTypeOK, ConnTypeOK, Numbered
<1>2. /\ op = "write" /\ InFlight =>
           /\ \A c \in todo : c.cid = cid =>
                 c.op = "write" \/ (c.op = "written" /\ disk = New)
           /\ \A i \in 1 .. Len(down) :
                 ~DataOfMine(down[i]) /\ (Told(down[i]) => disk = New)
           /\ act = "rest" => ~DataOfMine(pdu) /\ (Told(pdu) => disk = New)
      /\ need > 0 /\ cut.t = "h2c" => FailedWrite(done)
  BY Zenon DEF Writing, FailedWrite
<1>3. "write" \in CallOps /\ "write" \notin AttachOps
  BY Constants
<1>4. ASSUME op' = "write" /\ InFlight' =>
               /\ \A c \in todo' : c.cid = cid' =>
                     c.op = "write" \/ (c.op = "written" /\ disk' = New)
               /\ \A i \in 1 .. Len(down') :
                     /\ ~(down'[i].cid = cid' /\ down'[i].t \in {"c2h", "c2h done"})
                     /\ (down'[i].cid = cid' /\ down'[i].t = "resp" /\ down'[i].v # "failed"
                           => disk' = New)
               /\ act' = "rest" =>
                     /\ ~(pdu'.cid = cid' /\ pdu'.t \in {"c2h", "c2h done"})
                     /\ (pdu'.cid = cid' /\ pdu'.t = "resp" /\ pdu'.v # "failed"
                           => disk' = New),
             need' > 0 /\ cut'.t = "h2c" => FailedWrite(done')
      PROVE  Writing'
  BY <1>4, Zenon DEF Writing, FailedWrite, DataOfMine, Told, OfMine
<1>5. CASE Away
  <2>1. Leads /\ act # "idle" /\ ~InFlight'
    BY <1>5, Zenon DEF Away, Leads, Gone, Clear, InFlight, Waiting
  <2>2. FailedWrite(done) => FailedWrite(done')
    <3>1. CASE UNCHANGED done
      BY <3>1, Zenon
    <3>2. CASE done' # done
      <4>1. /\ Len(done') = Len(done) + 1 /\ Len(done) \in Nat
            /\ \A i \in 1 .. Len(done) : done'[i] = done[i]
        BY <2>1, <3>2, Returned, Zenon
      <4>2. \A i \in 1 .. Len(done) : i \in 1 .. Len(done')
        BY <4>1
      <4>3. QED
        BY <4>1, <4>2, Zenon DEF FailedWrite
    <3>3. QED
      BY <3>1, <3>2
  <2>3. CASE CutShort
    <3>1. /\ need' > 0 => (need > 0 /\ cut' = cut) \/ (need = 0 /\ cut' = Pdu)
          /\ act = "send" /\ (Pdu.t = "h2c" <=> h2c)
      BY <2>1, <2>3, CutFeeds, PduTyped
    <3>2. ASSUME need' > 0, need = 0, cut' = Pdu, cut'.t = "h2c"
          PROVE  FailedWrite(done')
      <4>1. op = "write" /\ op \notin AttachOps /\ ~Completed
        <5>1. op = "write"
          BY <1>1, <3>1, <3>2, Zenon
        <5>2. ~Completed
          <6>1. ~(act = "rest")
            BY <3>1
          <6>2. QED
            BY <6>1, Zenon DEF Completed, LastOfIt
        <5>3. QED
          BY <1>3, <5>1, <5>2, Zenon
      <4>2. op # "connect io" /\ op # "ic" /\ op # "idns" /\ op # "ic io"
            /\ op \notin {"ic", "connect", "cap", "enable", "csts"}
        BY <4>1
      <4>3. done' # done
        <5>1. done' = Append(done, [kind |-> op, ok |-> FALSE, buf |-> buf, disk |-> disk])
          BY <2>1, <4>1, <4>2, Zenon DEF Leads, Attached
        <5>2. done \in Seq([kind : CallOps, ok : BOOLEAN, buf : Bufs, disk : Values])
          BY Zenon DEF Calling
        <5>3. Len(done') = Len(done) + 1 /\ Len(done) \in Nat
          BY <5>1, <5>2
        <5>4. \A n \in Nat : n # n + 1
          OBVIOUS
        <5>5. QED
          BY <5>3, <5>4, Zenon
      <4>4. PICK r \in [kind : {op}, ok : BOOLEAN, buf : {buf, Filled}, disk : {disk}] :
                /\ Len(done') = Len(done) + 1 /\ Len(done) \in Nat
                /\ done'[Len(done) + 1] = r
                /\ r.ok => Completed
        BY <2>1, <4>3, Returned, Zenon
      <4>5. r.kind = "write" /\ ~r.ok /\ Len(done) + 1 \in 1 .. Len(done')
        <5>1. r.kind = op
          BY <4>4
        <5>2. Len(done) + 1 \in 1 .. Len(done')
          BY <4>4
        <5>3. QED
          BY <4>1, <4>4, <5>1, <5>2, Zenon
      <4>6. QED
        BY <4>4, <4>5, Zenon DEF FailedWrite
    <3>3. need' > 0 /\ cut'.t = "h2c" => FailedWrite(done')
      BY <1>2, <2>2, <3>1, <3>2, Zenon
    <3>4. QED
      BY <1>4, <2>1, <3>3, Zenon
  <2>4. CASE Aside
    <3>1. UNCHANGED <<need, cut>>
      BY <2>4, Zenon DEF Aside
    <3>2. QED
      BY <1>2, <1>4, <2>1, <2>2, <3>1, Zenon
  <2>5. QED
    BY <1>5, <2>3, <2>4, Zenon DEF Away
<1>6. CASE Moves
  <2>1. need' = 0 /\ ~InFlight'
    BY <1>6, Zenon DEF Moves, ToIo, Fresh, Clear, InFlight, Waiting
  <2>2. ~(need' > 0)
    BY <2>1
  <2>3. QED
    BY <1>4, <2>1, <2>2, Zenon
<1>7. CASE Call
  <2>1. ~InFlight' /\ UNCHANGED <<done, need, cut>>
    BY <1>7, Zenon DEF Call, Fresh, Clear, InFlight, Waiting, conn
  <2>2. QED
    BY <1>2, <1>4, <2>1, Zenon
<1>8. CASE Reads
  <2>1. /\ act \in {"header", "rest"} /\ down # <<>> /\ down' = Tail(down)
        /\ UNCHANGED <<need, cut, todo, disk, op, cid, done>>
    BY <1>8, AReading
  <2>2. InFlight /\ down[1] = Head(down)
    <3>1. down[1] = Head(down)
      BY <1>1, <2>1, TailOf
    <3>2. QED
      BY <2>1, <3>1, Zenon DEF InFlight, Waiting
  <2>3. /\ 1 \in 1 .. Len(down)
        /\ \A i \in 1 .. Len(down') : i + 1 \in 1 .. Len(down) /\ down'[i] = down[i + 1]
    BY <1>1, <2>1, Nearer
  <2>4. \A u \in {pdu'} : act' = "rest" => \/ u = pdu /\ act = "rest"
                                           \/ u = down[1]
                                           \/ u.t = "junk"
    <3>1. CASE Strays
      <4>1. PICK n \in 1 .. 2 : pdu' = [t |-> "junk", cid |-> 0, n |-> n, v |-> ""]
        BY <3>1, Zenon DEF Strays
      <4>2. pdu'.t = "junk"
        BY <4>1
      <4>3. QED
        BY <4>2, Zenon
    <3>2. CASE Header
      BY <2>2, <3>2, Zenon DEF Header
    <3>3. CASE MoreOfIt
      BY <3>3, Zenon DEF MoreOfIt
    <3>4. CASE GoesOn
      BY <3>4, Zenon DEF GoesOn
    <3>5. CASE Wanted
      BY <3>5, Zenon DEF Wanted
    <3>6. QED
      BY <1>8, <3>1, <3>2, <3>3, <3>4, <3>5, Zenon DEF Reads
  <2>5. "junk" \notin {"c2h", "c2h done"} /\ "junk" # "resp"
    OBVIOUS
  <2>6. ASSUME op = "write", act' = "rest"
        PROVE  /\ ~(pdu'.cid = cid' /\ pdu'.t \in {"c2h", "c2h done"})
               /\ (pdu'.cid = cid' /\ pdu'.t = "resp" /\ pdu'.v # "failed" => disk' = New)
    BY <1>2, <2>1, <2>2, <2>3, <2>4, <2>5, <2>6, Zenon DEF DataOfMine, Told, OfMine
  <2>7. ASSUME op = "write", NEW i \in 1 .. Len(down')
        PROVE  /\ ~(down'[i].cid = cid' /\ down'[i].t \in {"c2h", "c2h done"})
               /\ (down'[i].cid = cid' /\ down'[i].t = "resp" /\ down'[i].v # "failed"
                     => disk' = New)
    BY <1>2, <2>1, <2>2, <2>3, <2>7, Zenon DEF DataOfMine, Told, OfMine
  <2>8. op = "write" => \A c \in todo' : c.cid = cid' =>
                           c.op = "write" \/ (c.op = "written" /\ disk' = New)
    BY <1>2, <2>1, <2>2, Zenon
  <2>9. need' > 0 /\ cut'.t = "h2c" => FailedWrite(done')
    BY <1>2, <2>1, Zenon
  <2>10. QED
    BY <1>4, <2>1, <2>6, <2>7, <2>8, <2>9, Zenon
<1>9. CASE Send
  <2>1. /\ act' = "header" /\ need' = 0 /\ UNCHANGED <<op, h2c, down>>
        /\ \A c \in todo' :
             \/ c \in todo
             \/ need = 0 /\ c.op = (IF h2c THEN "written" ELSE op) /\ (h2c => disk' = New)
             \/ need > 0 /\ c.cid = cut.cid
        /\ disk' # disk => (need = 0 /\ disk' = New) \/ need > 0
        /\ op \in CallOps /\ ~h2c => cid' = cid + 1
        /\ op \in CallOps /\ h2c => cid' = cid
    BY <1>9, SendFeeds
  <2>2. ~(need' > 0) /\ act' # "rest"
    BY <2>1
  <2>3. CASE op # "write"
    BY <1>4, <2>1, <2>2, <2>3, Zenon
  <2>4. CASE op = "write" /\ ~h2c
    <3>1. cid' = cid + 1
      BY <1>3, <2>1, <2>4
    <3>2. \A n \in Nat : n <= cid => n # cid'
      BY <1>1, <3>1
    <3>3. /\ \A c \in todo : c.cid \in Nat
          /\ \A i \in 1 .. Len(down) : down[i].cid \in Nat
          /\ cut.cid \in Nat
      <4>1. cut \in Cuts
        BY Zenon DEF ConnTypeOK
      <4>2. \A i \in 1 .. Len(down) : down[i] \in Units
        BY <1>1
      <4>3. \A c \in Cmds : c.cid \in Nat
        BY DEF Cmds
      <4>4. \A u \in Units : u.cid \in Nat
        BY DEF Units
      <4>5. cut.cid \in Nat
        BY <4>1 DEF Cuts
      <4>6. QED
        BY <1>1, <4>2, <4>3, <4>4, <4>5, Zenon
    <3>4. \A c \in todo' : c.cid = cid' => c.op = "write"
      BY <1>1, <2>1, <2>4, <3>2, <3>3, Zenon
    <3>5. \A i \in 1 .. Len(down') : down'[i].cid # cid'
      BY <1>1, <2>1, <3>2, <3>3, Zenon
    <3>6. QED
      BY <1>4, <2>2, <3>4, <3>5, Zenon
  <2>5. CASE op = "write" /\ h2c
    <3>1. InFlight /\ need = 0 /\ ~(need > 0) /\ cid' = cid
      <4>1. InFlight /\ need = 0 /\ cid' = cid
        BY <1>1, <1>3, <2>1, <2>5, Zenon DEF InFlight
      <4>2. ~(need > 0)
        BY <4>1
      <4>3. QED
        BY <4>1, <4>2
    <3>2. disk = New => disk' = New
      BY <2>1, <3>1, Zenon
    <3>3. \A c \in todo' : c.cid = cid' => c.op = "write" \/ (c.op = "written" /\ disk' = New)
      BY <1>2, <2>1, <2>5, <3>1, <3>2, Zenon
    <3>4. \A i \in 1 .. Len(down') :
             /\ ~(down'[i].cid = cid' /\ down'[i].t \in {"c2h", "c2h done"})
             /\ (down'[i].cid = cid' /\ down'[i].t = "resp" /\ down'[i].v # "failed"
                   => disk' = New)
      BY <1>2, <2>1, <2>5, <3>1, <3>2, Zenon DEF DataOfMine, Told, OfMine
    <3>5. QED
      BY <1>4, <2>2, <3>3, <3>4, Zenon
  <2>6. QED
    BY <2>3, <2>4, <2>5
<1>10. CASE Lost \/ ComesReady \/ UNCHANGED vars
  <2>1. /\ UNCHANGED <<op, cid, act, pdu, h2c, down, disk, need, cut, done>>
        /\ todo' \in {todo, {}}
    BY <1>10, Zenon DEF Lost, ComesReady, vars, client, conn
  <2>2. QED
    BY <1>2, <2>1, Zenon DEF Writing, FailedWrite, DataOfMine, Told, OfMine, InFlight, Waiting
<1>11. CASE Serve
  <2>1. PICK c \in todo, a \in Seq(Units) :
            /\ Answer(c, a) /\ down' = down \o a
            /\ \/ todo' = todo \ {c}
               \/ /\ c.op \in ByData
                  /\ todo' = (todo \ {c}) \cup {[cid |-> c.cid, op |-> "sent"]}
    BY <1>11, Served, Zenon
  <2>2. /\ UNCHANGED <<op, cid, act, pdu, h2c, done, disk, need, cut>>
        /\ InFlight' <=> InFlight
    BY <1>11, Zenon DEF Serve, client, InFlight, Waiting
  <2>3. need' > 0 /\ cut'.t = "h2c" => FailedWrite(done')
    BY <1>2, <2>2, Zenon
  <2>4. ASSUME op = "write", InFlight
        PROVE  /\ \A d \in todo' : d.cid = cid =>
                     d.op = "write" \/ (d.op = "written" /\ disk = New)
               /\ \A i \in 1 .. Len(down') :
                     /\ ~DataOfMine(down'[i])
                     /\ Told(down'[i]) => disk = New
    <3>1. c.cid = cid => /\ c.op = "write" \/ (c.op = "written" /\ disk = New)
                         /\ c.op \notin ByData \cup {"garbled"}
      <4>1. c.cid = cid => c.op = "write" \/ (c.op = "written" /\ disk = New)
        BY <1>2, <2>1, <2>4, Zenon
      <4>2. "write" \notin ByData \cup {"garbled"} /\ "written" \notin ByData \cup {"garbled"}
        BY DEF ByData
      <4>3. QED
        BY <4>1, <4>2, Zenon
    <3>2. \A d \in todo' : d.cid = cid => d.op = "write" \/ (d.op = "written" /\ disk = New)
      <4>1. \A d \in todo' : d \in todo \/ (d.cid = c.cid /\ c.op \in ByData)
        BY <2>1
      <4>2. QED
        BY <1>2, <2>4, <3>1, <4>1, Zenon
    <3>3. /\ Len(down') = Len(down) + Len(a) /\ Len(down) \in Nat /\ Len(a) \in 1 .. 3
          /\ \A i \in 1 .. Len(down) : down'[i] = down[i]
          /\ \A k \in 1 .. Len(a) : down'[Len(down) + k] = a[k]
      <4>1. Len(a) \in 1 .. 3
        BY <2>1, Zenon DEF Answer
      <4>2. QED
        BY <1>1, <2>1, <4>1, CatOf
    <3>4. ASSUME NEW k \in 1 .. Len(a)
          PROVE  ~DataOfMine(a[k]) /\ (Told(a[k]) => disk = New)
      <4>1. CASE a[k].t \in {"part", "term"}
        BY <4>1 DEF DataOfMine, Told
      <4>2. CASE a[k].t \notin {"part", "term"}
        <5>1. k = 1
          BY <2>1, <4>2, Zenon DEF Answer, OnePdu
        <5>2. a[1].cid = c.cid
          BY <2>1, <4>2, <5>1, Zenon DEF Answer, AllThere
        <5>3. ~DataOfMine(a[1])
          BY <2>1, <3>1, <5>2, Zenon DEF DataOfMine, OfMine, Answer, OfTheDisk
        <5>4. Told(a[1]) => c.op \notin {"write"} /\ c.cid = cid
          BY <2>1, <5>2, Zenon DEF Told, OfMine, Answer, NoneBare
        <5>5. Told(a[1]) => disk = New
          BY <3>1, <5>4, Zenon
        <5>6. QED
          BY <5>1, <5>3, <5>5, Zenon
      <4>3. QED
        BY <4>1, <4>2
    <3>5. ASSUME NEW i \in 1 .. Len(down')
          PROVE  ~DataOfMine(down'[i]) /\ (Told(down'[i]) => disk = New)
      <4>1. CASE i \in 1 .. Len(down)
        BY <1>2, <2>4, <3>3, <4>1, Zenon
      <4>2. CASE i \notin 1 .. Len(down)
        <5>1. i - Len(down) \in 1 .. Len(a) /\ Len(down) + (i - Len(down)) = i
          BY <3>3, <4>2
        <5>2. down'[Len(down) + (i - Len(down))] = a[i - Len(down)]
          BY <3>3, <5>1, Zenon
        <5>3. QED
          BY <3>4, <5>1, <5>2, Zenon
      <4>3. QED
        BY <4>1, <4>2
    <3>6. QED
      BY <3>2, <3>5, Zenon
  <2>5. QED
    BY <1>2, <1>4, <2>2, <2>3, <2>4, Zenon DEF DataOfMine, Told, OfMine
<1>12. QED
  BY <1>5, <1>6, <1>7, <1>8, <1>9, <1>10, <1>11, Steps, Zenon DEF Reads

------------------------------------------------------------------------------
(* What has been reported as done.                                         *)

\* The disk changes only where data arrive: those of the call in hand, or, out of
\* place, those of a write that failed.
LEMMA DiskChanges ==
    ASSUME ClientTypeOK, ConnTypeOK, [Next]_vars, disk' # disk
    PROVE  disk' = New \/ (need > 0 /\ cut.t = "h2c")
<1>1. CASE Away
  <2>1. act # "idle"
    BY <1>1, Zenon DEF Away
  <2>2. CASE CutShort
    BY <2>1, <2>2, CutFeeds
  <2>3. CASE Aside
    BY <2>3, Zenon DEF Aside
  <2>4. QED
    BY <1>1, <2>2, <2>3, Zenon DEF Away
<1>2. CASE Send
  BY <1>2, SendFeeds
<1>3. CASE Moves \/ Call \/ Reads \/ Lost \/ Serve \/ ComesReady \/ UNCHANGED vars
  BY <1>3, AReading, Zenon
     DEF Moves, ToIo, Call, Lost, Serve, ComesReady, vars, conn
<1>4. QED
  BY <1>1, <1>2, <1>3, Steps, Zenon DEF Reads

\* A buffer of two equal parts.
LEMMA PairOf ==
    ASSUME NEW S, NEW f \in [1 .. 2 -> S], NEW v, f[1] = v, f[2] = v
    PROVE  f = <<v, v>>
  OBVIOUS

\* The completion that ends a call as done finds it so.
LEMMA ReportIsTrue ==
    ASSUME ClientTypeOK, ConnTypeOK, Formed, Reading, Writing, Completed, pdu.v # "failed",
           op \in CallOps
    PROVE  /\ op = "read" => Filled = <<disk, disk>>
           /\ op = "write" => disk = New
<1>1. /\ act = "rest" /\ left = 1 /\ down # <<>> /\ buf \in Bufs
      /\ pdu.t \in {"resp", "c2h done"} /\ Mine
  BY Zenon DEF Completed, LastOfIt, ClientTypeOK
<1>2. op \notin Dials /\ (op = "read" \/ op = "write")
  BY DEF CallOps, Dials
<1>3. InFlight /\ OfMine(pdu)
  BY <1>1, <1>2, Zenon DEF InFlight, Waiting, Mine, OfMine
<1>4. CASE pdu.t = "resp"
  <2>1. Told(pdu)
    BY <1>3, <1>4, Zenon DEF Told
  <2>2. Filled = buf
    <3>1. pdu.t \notin {"c2h", "c2h done"}
      BY <1>4
    <3>2. QED
      BY <3>1, Zenon DEF Filled
  <2>3. op = "read" => buf[1] = disk /\ buf[2] = disk
    BY <1>1, <1>3, <2>1, Zenon DEF Reading, Full
  <2>4. op = "read" => buf = <<disk, disk>>
    BY <1>1, <2>3, PairOf DEF Bufs
  <2>5. op = "write" => disk = New
    BY <1>1, <1>3, <2>1, Zenon DEF Writing
  <2>6. QED
    BY <2>2, <2>4, <2>5, Zenon
<1>5. CASE pdu.t = "c2h done"
  <2>1. DataOfMine(pdu)
    BY <1>3, <1>5, Zenon DEF DataOfMine
  <2>2. op # "write"
    BY <1>1, <1>3, <2>1, Zenon DEF Writing
  <2>3. ASSUME op = "read"
        PROVE  Filled = <<disk, disk>>
    <3>1. left # 2
      <4>1. left = 1
        BY <1>1, Zenon
      <4>2. QED
        BY <4>1
    <3>2. down[1].v = disk /\ buf[2] = disk
      BY <1>1, <1>3, <2>1, <2>3, <3>1, Zenon DEF Reading
    <3>3. down[1] = Head(down)
      <4>1. down \in Seq(Units)
        BY Zenon DEF ConnTypeOK
      <4>2. QED
        BY <1>1, <4>1, TailOf
    <3>4. Filled = [buf EXCEPT ![1] = disk]
      BY <1>1, <1>5, <3>2, <3>3, Zenon DEF Filled
    <3>5. disk \in Values /\ buf \in [1 .. 2 -> Values]
      <4>1. buf \in [1 .. 2 -> Values]
        BY <1>1, Zenon DEF Bufs
      <4>2. buf[2] \in Values
        BY <4>1
      <4>3. QED
        BY <3>2, <4>1, <4>2, Zenon
    <3>6. /\ [buf EXCEPT ![1] = disk] \in [1 .. 2 -> Values]
          /\ [buf EXCEPT ![1] = disk][1] = disk /\ [buf EXCEPT ![1] = disk][2] = buf[2]
      BY <3>5
    <3>7. QED
      BY <3>2, <3>4, <3>6, PairOf, Zenon
  <2>4. QED
    BY <2>2, <2>3
<1>6. QED
  BY <1>1, <1>4, <1>5, Zenon

\* Every step keeps what was reported of the calls real.
LEMMA SuccessStep ==
    ASSUME CaseTypeOK, ClientTypeOK, ConnTypeOK, Calling, Formed, Reading, Writing,
           SuccessIsReal, [Next]_vars
    PROVE  SuccessIsReal'
<1>1. /\ Len(done) \in Nat /\ DOMAIN done = 1 .. Len(done)
      /\ done \in Seq([kind : CallOps, ok : BOOLEAN, buf : Bufs, disk : Values])
  <2>1. done \in Seq([kind : CallOps, ok : BOOLEAN, buf : Bufs, disk : Values])
    BY Zenon DEF Calling
  <2>2. QED
    BY <2>1
<1>2. /\ \A i \in 1 .. Len(done) : done[i].kind = "read" /\ done[i].ok
            => done[i].buf = <<done[i].disk, done[i].disk>>
      /\ \A i \in 1 .. Len(done) : done[i].kind = "write" /\ done[i].ok => disk = New
  BY <1>1, Zenon DEF SuccessIsReal, ReadIsWhole, AckedWriteHolds
\* What was on the disk when a write was reported is there still.
<1>3. ASSUME NEW i \in 1 .. Len(done), done[i].kind = "write", done[i].ok
      PROVE  disk' = New
  <2>1. disk = New
    BY <1>2, <1>3, Zenon
  <2>2. SUFFICES ASSUME disk' # disk, need > 0, cut.t = "h2c"
        PROVE  FALSE
    BY <2>1, DiskChanges, Zenon
  <2>3. PICK j \in 1 .. Len(done) : done[j].kind = "write" /\ ~done[j].ok
    BY <2>2, Zenon DEF Writing
  <2>4. i \in DOMAIN calls /\ j \in DOMAIN calls
    <3>1. calls \in Seq(CallOps) /\ Len(done) <= Len(calls)
      BY Zenon DEF CaseTypeOK, Calling
    <3>2. QED
      BY <1>1, <3>1
  <2>5. calls[i] = "write" /\ calls[j] = "write"
    BY <1>3, <2>3, Zenon DEF Calling
  <2>6. i = j
    BY <2>4, <2>5, Zenon DEF CaseTypeOK
  <2>7. QED
    BY <1>3, <2>3, <2>6, Zenon
<1>4. CASE UNCHANGED done
  BY <1>1, <1>2, <1>3, <1>4, Zenon DEF SuccessIsReal, ReadIsWhole, AckedWriteHolds
<1>5. CASE done' # done
  <2>1. Away /\ Leads /\ act # "idle"
    BY <1>5, Steps, AReading, Zenon
       DEF Away, Moves, ToIo, Call, Send, Lost, Serve, ComesReady, vars, client, Reads
  <2>2. PICK r \in [kind : {op}, ok : BOOLEAN, buf : {buf, Filled}, disk : {disk}] :
                /\ op \in CallOps
                /\ done' = Append(done, r)
                /\ Len(done') = Len(done) + 1 /\ Len(done) \in Nat
                /\ \A i \in 1 .. Len(done) : done'[i] = done[i]
                /\ done'[Len(done) + 1] = r
                /\ r.ok => Completed /\ r.buf = Filled /\ pdu.v # "failed"
    BY <1>5, <2>1, Returned, Zenon
  <2>3. r.kind = op /\ r.disk = disk
    BY <2>2
  <2>4. r.kind = "read" /\ r.ok => r.buf = <<r.disk, r.disk>>
    BY <2>2, <2>3, ReportIsTrue, Zenon
  <2>5. ASSUME r.kind = "write", r.ok
        PROVE  disk' = New
    <3>1. disk = New /\ act = "rest"
      BY <2>2, <2>3, <2>5, ReportIsTrue, Zenon DEF Completed, LastOfIt
    <3>2. act # "send"
      BY <3>1
    <3>3. disk' = disk
      BY <2>1, <3>2, Zenon DEF Away, CutShort, Aside
    <3>4. QED
      BY <3>1, <3>3
  <2>6. /\ DOMAIN done' = 1 .. Len(done')
        /\ \A i \in 1 .. Len(done') : i \in 1 .. Len(done) \/ i = Len(done) + 1
    BY <1>1, <2>2
  <2>7. ASSUME NEW i \in 1 .. Len(done')
        PROVE  /\ done'[i].kind = "read" /\ done'[i].ok
                    => done'[i].buf = <<done'[i].disk, done'[i].disk>>
               /\ done'[i].kind = "write" /\ done'[i].ok => disk' = New
    <3>1. CASE i \in 1 .. Len(done)
      BY <1>2, <1>3, <2>2, <3>1, Zenon
    <3>2. CASE i = Len(done) + 1
      BY <2>2, <2>4, <2>5, <3>2, Zenon
    <3>3. QED
      BY <2>6, <3>1, <3>2
  <2>8. QED
    BY <2>6, <2>7, Zenon DEF SuccessIsReal, ReadIsWhole, AckedWriteHolds
<1>6. QED
  BY <1>4, <1>5

------------------------------------------------------------------------------
(* What a command may carry.                                               *)

\* The formats attach takes.
SmallSizes == {2 ^ 0, 2 ^ 1, 2 ^ 2, 2 ^ 3, 2 ^ 4, 2 ^ 5, 2 ^ 6, 2 ^ 7, 2 ^ 8}
BlockSizes == {2 ^ 9, 2 ^ 10, 2 ^ 11, 2 ^ 12, 2 ^ 13, 2 ^ 14, 2 ^ 15, 2 ^ 16}
LargeSizes == {2 ^ 17, 2 ^ 18, 2 ^ 19, 2 ^ 20, 2 ^ 21, 2 ^ 22, 2 ^ 23, 2 ^ 24, 2 ^ 25, 2 ^ 26,
               2 ^ 27, 2 ^ 28, 2 ^ 29, 2 ^ 30, 2 ^ 31}

\* Two to a power below 32 is a block size the model has a place for.
LEMMA Shifts ==
    \A k \in 0 .. 31 : 2 ^ k \in SmallSizes \cup BlockSizes \cup LargeSizes
<1>1. \A k \in 0 .. 31 :
         \/ k \in {0, 1, 2, 3, 4, 5, 6, 7, 8}
         \/ k \in {9, 10, 11, 12, 13, 14, 15, 16}
         \/ k \in {17, 18, 19, 20, 21, 22, 23, 24, 25, 26, 27, 28, 29, 30, 31}
  OBVIOUS
<1>2. ASSUME NEW k \in {0, 1, 2, 3, 4, 5, 6, 7, 8}
      PROVE  2 ^ k \in SmallSizes
  BY Zenon DEF SmallSizes
<1>3. ASSUME NEW k \in {9, 10, 11, 12, 13, 14, 15, 16}
      PROVE  2 ^ k \in BlockSizes
  BY Zenon DEF BlockSizes
<1>4. ASSUME NEW k \in {17, 18, 19, 20, 21, 22, 23, 24, 25, 26, 27, 28, 29, 30, 31}
      PROVE  2 ^ k \in LargeSizes
  BY Zenon DEF LargeSizes
<1>5. QED
  BY <1>1, <1>2, <1>3, <1>4, Zenon

\* A block size the initiator accepts is one of BlockSizes.
LEMMA PlausibleSize ==
    ASSUME ctrl \in Controllers, Plausible
    PROVE  BlockSize \in BlockSizes
<1>1. ctrl.lbads % 32 \in 0 .. 31
  BY DEF Controllers
<1>2. BlockSize \in SmallSizes \cup BlockSizes \cup LargeSizes
  BY <1>1, Shifts, Zenon DEF BlockSize
<1>3. 512 <= BlockSize /\ BlockSize <= 65536
  BY DEF Plausible
<1>4. \A b \in SmallSizes : ~(512 <= b)
  BY DEF SmallSizes
<1>5. \A b \in LargeSizes : ~(b <= 65536)
  BY DEF LargeSizes
<1>6. QED
  BY <1>2, <1>3, <1>4, <1>5

\* The limit MDTS states, or its ceiling.
Stated(limit, m, mpsmin) ==
    limit \in 1 .. 2 ^ 19 /\ limit = 2 ^ Least(19, 12 + mpsmin + m)

\* The limit that MDTS and MPSMIN state, with the shifts lib.rs bounds.
LEMMA LimitOf ==
    ASSUME NEW m \in 0 .. 255, NEW mpsmin \in 0 .. 15, m > 0,
           NEW exp, exp = 12 + Least(mpsmin, 12) + Least(m, 20),
           NEW limit, limit = IF exp < 19 THEN 2 ^ exp ELSE Ceiling
    PROVE  Stated(limit, m, mpsmin)
<1>1. exp \in Nat /\ 12 <= exp
  BY DEF Least
<1>2. CASE exp < 19
  <2>1. exp \in {12, 13, 14, 15, 16, 17, 18}
    BY <1>1, <1>2
  <2>2. 2 ^ exp \in {2 ^ 12, 2 ^ 13, 2 ^ 14, 2 ^ 15, 2 ^ 16, 2 ^ 17, 2 ^ 18}
    BY <2>1, Zenon
  <2>3. limit \in {2 ^ 12, 2 ^ 13, 2 ^ 14, 2 ^ 15, 2 ^ 16, 2 ^ 17, 2 ^ 18} /\ limit = 2 ^ exp
    BY <1>2, <2>2, Zenon
  <2>4. Least(19, 12 + mpsmin + m) = exp
    BY <1>2 DEF Least
  <2>5. limit \in 1 .. 2 ^ 19
    BY <2>3
  <2>6. QED
    BY <2>3, <2>4, <2>5, Zenon DEF Stated
<1>3. CASE ~(exp < 19)
  <2>1. limit = 2 ^ 19
    BY <1>3 DEF Ceiling
  <2>2. Least(19, 12 + mpsmin + m) = 19
    BY <1>1, <1>3 DEF Least
  <2>3. limit \in 1 .. 2 ^ 19
    BY <2>1
  <2>4. QED
    BY <2>1, <2>2, <2>3, Zenon DEF Stated
<1>4. QED
  BY <1>2, <1>3

\* Whole blocks, as many as the limit has room for.
LEMMA WholeBlocks ==
    ASSUME NEW bs \in BlockSizes, NEW limit \in 1 .. 2 ^ 19
    PROVE  /\ (limit \div bs) * bs \in Nat /\ (limit \div bs) * bs <= limit
           /\ ((limit \div bs) * bs) % bs = 0
           /\ ((limit \div bs) * bs) \div bs <= 2 ^ 16
           /\ bs \in Nat \ {0} /\ bs % bs = 0 /\ bs \div bs <= 2 ^ 16
<1>1. CASE bs = 512
  BY <1>1
<1>2. CASE bs = 1024
  BY <1>2
<1>3. CASE bs = 2048
  BY <1>3
<1>4. CASE bs = 4096
  BY <1>4
<1>5. CASE bs = 8192
  BY <1>5
<1>6. CASE bs = 16384
  BY <1>6
<1>7. CASE bs = 32768
  BY <1>7
<1>8. CASE bs = 65536
  BY <1>8
<1>9. QED
  BY <1>1, <1>2, <1>3, <1>4, <1>5, <1>6, <1>7, <1>8 DEF BlockSizes

\* What transfer_limit gives fits the controller and the command, or is the one
\* block that no command can do with less than.
Carried(t, m, mpsmin, bs) ==
    /\ t >= bs /\ t % bs = 0 /\ t \div bs <= 2 ^ 16
    /\ \/ m = 0 /\ t <= Unstated
       \/ t = bs
       \/ m > 0 /\ t <= 2 ^ Least(19, 12 + mpsmin + m)

\* A transfer of transfer_limit blocks fits the controller and the 16 bits.
LEMMA TransferLimitFits ==
    ASSUME NEW m \in 0 .. 255, NEW mpsmin \in 0 .. 15, NEW bs \in BlockSizes,
           NEW t, t = TransferLimit(m, mpsmin, bs)
    PROVE  t \in Nat /\ Carried(t, m, mpsmin, bs)
<1> DEFINE exp   == 12 + Least(mpsmin, 12) + Least(m, 20)
           limit == IF m = 0 THEN Unstated ELSE IF exp < 19 THEN 2 ^ exp ELSE Ceiling
           whole == (limit \div bs) * bs
<1>1. t = IF whole < bs THEN bs ELSE whole
  BY Zenon DEF TransferLimit
<1>2. /\ limit \in 1 .. 2 ^ 19
      /\ m = 0 => limit = Unstated
      /\ m > 0 => limit = 2 ^ Least(19, 12 + mpsmin + m)
  <2>1. CASE m = 0
    BY <2>1 DEF Unstated
  <2>2. CASE m # 0
    <3>1. m > 0
      BY <2>2
    <3>2. /\ limit = IF exp < 19 THEN 2 ^ exp ELSE Ceiling
          /\ exp = 12 + Least(mpsmin, 12) + Least(m, 20)
      BY <2>2, Zenon
    <3> HIDE DEF exp, limit
    <3>3. Stated(limit, m, mpsmin)
      BY <3>1, <3>2, LimitOf, Zenon
    <3>4. QED
      BY <2>2, <3>3, Zenon DEF Stated
  <2>3. QED
    BY <2>1, <2>2
<1> HIDE DEF limit
<1>3. /\ whole \in Nat /\ whole <= limit /\ whole % bs = 0 /\ whole \div bs <= 2 ^ 16
      /\ bs \in Nat \ {0} /\ bs % bs = 0 /\ bs \div bs <= 2 ^ 16
  BY <1>2, WholeBlocks
<1> HIDE DEF whole
<1>4. CASE whole < bs
  <2>1. t = bs /\ bs >= bs
    BY <1>1, <1>3, <1>4
  <2>2. QED
    BY <1>3, <2>1, Zenon DEF Carried
<1>5. CASE ~(whole < bs)
  <2>1. t = whole /\ whole >= bs
    BY <1>1, <1>3, <1>5
  <2>2. m = 0 \/ m > 0
    OBVIOUS
  <2>3. QED
    BY <1>2, <1>3, <2>1, <2>2, Zenon DEF Carried
<1>6. QED
  BY <1>4, <1>5

\* Every step keeps the limit of an attached disk the one computed for it.
LEMMA LimitedStep ==
    ASSUME CaseTypeOK, ClientTypeOK, Limited, [Next]_vars
    PROVE  Limited'
<1>1. /\ ctrl \in Controllers /\ max \in Nat /\ mdts \in {0, ctrl.mdts}
      /\ op \in {"idctrl", "ic io", "connect io", "ready"} \cup CallOps => Plausible
      /\ op \in {"ready"} \cup CallOps => max = TransferLimit(mdts, ctrl.mpsmin, BlockSize)
      /\ op \in AttachOps \cup CallOps \cup {"ready", "failed"}
  BY Zenon DEF CaseTypeOK, ClientTypeOK, Limited
<1>2. ctrl.mpsmin \in 0 .. 15 /\ mdts \in 0 .. 255
  <2>1. ctrl.mpsmin \in 0 .. 15 /\ ctrl.mdts \in 0 .. 255 /\ 0 \in 0 .. 255
    <3>1. ctrl \in Controllers
      BY <1>1, Zenon
    <3>2. QED
      BY <3>1 DEF Controllers
  <2>2. mdts \in {0, ctrl.mdts}
    BY <1>1, Zenon
  <2>3. QED
    BY <2>1, <2>2
<1>3. UNCHANGED case
  BY Steps, AReading, Zenon DEF Away, Moves, Call, Send, Lost, Serve, ComesReady, vars, Reads
<1>4. /\ ctrl' = ctrl /\ BlockSize' = BlockSize
      /\ Plausible' <=> Plausible
  <2>1. ctrl' = ctrl
    BY <1>3, Zenon DEF case
  <2>2. BlockSize' = BlockSize
    BY <2>1, Zenon DEF BlockSize
  <2>3. Plausible' <=> Plausible
    BY <2>2 DEF Plausible
  <2>4. QED
    BY <2>1, <2>2, <2>3, Zenon
<1>5. ASSUME UNCHANGED <<mdts, max>>,
             op' \in {"idctrl", "ic io", "connect io", "ready"} \cup CallOps => Plausible,
             op' \in {"ready"} \cup CallOps => op \in {"ready"} \cup CallOps
      PROVE  Limited'
  BY <1>1, <1>4, <1>5, Zenon DEF Limited, TransferLimit
<1>6. CASE Away
  <2>1. Leads /\ act # "idle"
    BY <1>6, Zenon DEF Away
  <2>2. CASE Attached
    <3>1. /\ op = "connect io" /\ UNCHANGED mdts
          /\ max' = TransferLimit(mdts, ctrl.mpsmin, BlockSize)
      BY <2>2, Zenon DEF Attached
    <3>2. Plausible
      <4>1. op \in {"idctrl", "ic io", "connect io", "ready"} \cup CallOps
        BY <3>1
      <4>2. QED
        BY <1>1, <4>1
    <3>3. BlockSize \in BlockSizes
      BY <1>1, <3>2, PlausibleSize
    <3>4. max' \in Nat
      BY <1>2, <3>1, <3>3, TransferLimitFits
    <3>5. QED
      BY <1>1, <1>4, <3>1, <3>2, <3>4, Zenon DEF Limited, TransferLimit
  <2>3. CASE ~Attached
    <3>1. /\ UNCHANGED <<mdts, max>>
          /\ \/ op' = "failed"
             \/ op' \in {"connect", "cap", "enable", "csts", "idns"}
             \/ op' = "idctrl" /\ Plausible
             \/ op = "ic io" /\ op' = "connect io"
             \/ op \notin AttachOps /\ op' = "ready"
      BY <2>1, <2>3, Zenon DEF Leads
    <3>2. op \in AttachOps \cup CallOps
      BY <2>1, LeadsTo
    <3>3. CASE op' = "failed" \/ op' \in {"connect", "cap", "enable", "csts", "idns"}
      <4>1. op' \notin {"idctrl", "ic io", "connect io", "ready"} \cup CallOps
        BY <3>3 DEF CallOps
      <4>2. QED
        BY <1>5, <3>1, <4>1, Zenon
    <3>4. CASE op' = "idctrl" /\ Plausible
      <4>1. op' \notin {"ready"} \cup CallOps
        BY <3>4 DEF CallOps
      <4>2. QED
        BY <1>5, <3>1, <3>4, <4>1, Zenon
    <3>5. CASE op = "ic io" /\ op' = "connect io"
      <4>1. op' \notin {"ready"} \cup CallOps
        BY <3>5 DEF CallOps
      <4>2. Plausible
        BY <1>1, <3>5, Zenon
      <4>3. QED
        BY <1>5, <3>1, <4>1, <4>2, Zenon
    <3>6. CASE op \notin AttachOps /\ op' = "ready"
      <4>1. op \in CallOps
        BY <3>2, <3>6
      <4>2. QED
        BY <1>1, <1>5, <3>1, <4>1, Zenon
    <3>7. QED
      BY <3>1, <3>3, <3>4, <3>5, <3>6
  <2>4. QED
    BY <2>2, <2>3
<1>7. CASE Moves
  <2>1. /\ op = "idctrl" /\ op' = "ic io" /\ mdts' \in {0, ctrl.mdts} /\ UNCHANGED max
    BY <1>7, Zenon DEF Moves, ToIo
  <2>2. op' \notin {"ready"} \cup CallOps
    BY <2>1 DEF CallOps
  <2>3. Plausible
    BY <1>1, <2>1, Zenon
  <2>4. QED
    BY <1>1, <1>4, <2>1, <2>2, <2>3, Zenon DEF Limited
<1>8. CASE Call
  <2>1. UNCHANGED <<mdts, max>> /\ op = "ready"
    BY <1>8, Zenon DEF Call
  <2>2. QED
    BY <1>1, <1>5, <2>1, Zenon
<1>9. CASE Reads \/ Send \/ Lost \/ Serve \/ ComesReady \/ UNCHANGED vars
  <2>1. UNCHANGED <<op, mdts, max>>
    BY <1>9, AReading, Zenon DEF Send, Lost, Serve, ComesReady, vars, client
  <2>2. QED
    BY <1>1, <1>5, <2>1, Zenon
<1>10. QED
  BY <1>6, <1>7, <1>8, <1>9, Steps, Zenon DEF Reads

------------------------------------------------------------------------------
(* The theorems.                                                           *)

\* The inductive invariant holds before the first attach.
LEMMA Starts ==
    ASSUME Init
    PROVE  InOrder
<1>1. /\ op = "ic" /\ cid = 0 /\ act = "send" /\ left = 0
      /\ pdu = NoUnit /\ h2c = FALSE
      /\ waited = 0 /\ mdts = 0 /\ max = 0
      /\ buf = NoData /\ done = <<>>
      /\ stalls = 0
      /\ open = TRUE /\ down = <<>> /\ skew = FALSE
      /\ need = 0 /\ cut = NoCut /\ todo = {}
      /\ disk = Old /\ rdy = FALSE
  BY Zenon DEF Init
<1>2. PICK c \in Cases : ctrl = c[1] /\ calls = c[2] /\ faults = c[3]
  BY Zenon DEF Init
<1>3. MaxWaits \in Nat /\ MaxStalls \in Nat
  BY ConstantsAssumption
<1>4. CaseTypeOK
  <2>1. /\ c[1] \in Controllers
        /\ c[2] \in Seq({"read", "write"})
        /\ \A i, j \in DOMAIN c[2] :
              c[2][i] = "write" /\ c[2][j] = "write" => i = j
        /\ c[3] \subseteq FaultKinds
    BY ConstantsAssumption, Zenon
  <2>2. QED
    BY <1>2, <2>1, Zenon DEF CaseTypeOK, CallOps
<1>5. ~Waiting /\ ~InFlight /\ act # "rest"
  BY <1>1 DEF Waiting, InFlight
<1>6. ClientTypeOK
  <2>1. /\ cid \in Nat /\ left \in 0 .. 2 /\ waited \in 0 .. MaxWaits /\ ~(left > 0)
    BY <1>1, <1>3
  <2>2. /\ op \in AttachOps /\ op \notin {"ready", "failed"}
        /\ act \in {"send", "header", "rest", "idle"} /\ act # "idle"
    BY <1>1 DEF AttachOps
  <2>3. QED
    BY <1>1, <1>5, <2>1, <2>2, Constants, Zenon DEF ClientTypeOK
<1>7. ConnTypeOK
  <2>1. need \in 0 .. 2 /\ stalls \in 0 .. MaxStalls
    BY <1>1, <1>3
  <2>2. QED
    BY <1>1, <2>1, Constants, Zenon DEF ConnTypeOK
<1>8. Calling
  <2>1. calls \in Seq(CallOps)
    BY <1>4, Zenon DEF CaseTypeOK
  <2>2. /\ done \in Seq([kind : CallOps, ok : BOOLEAN, buf : Bufs, disk : Values])
        /\ Len(done) = 0 /\ 0 <= Len(calls) /\ 1 .. 0 = {}
    BY <1>1, <2>1
  <2>3. op \notin CallOps
    BY <1>1 DEF CallOps
  <2>4. QED
    BY <2>2, <2>3, Zenon DEF Calling
<1>9. 1 .. Len(down) = {}
  BY <1>1
<1>10. Formed
  BY <1>5, <1>9, Zenon DEF Formed
<1>11. Numbered
  <2>1. cut.cid <= cid
    BY <1>1 DEF NoCut
  <2>2. QED
    BY <1>1, <1>5, <1>9, <2>1, Zenon DEF Numbered
<1>12. Reading
  BY <1>5, Zenon DEF Reading
<1>13. Writing
  <2>1. ~(need > 0)
    BY <1>1
  <2>2. QED
    BY <1>5, <2>1, Zenon DEF Writing
<1>14. SuccessIsReal
  <2>1. DOMAIN done = {}
    BY <1>1
  <2>2. QED
    BY <2>1, Zenon DEF SuccessIsReal, ReadIsWhole, AckedWriteHolds
<1>15. Limited
  <2>1. max \in Nat
    BY <1>1
  <2>2. /\ op \notin {"idctrl", "ic io", "connect io", "ready"} \cup CallOps
        /\ op \notin {"ready"} \cup CallOps
    BY <1>1 DEF CallOps
  <2>3. QED
    BY <1>1, <2>1, <2>2, Zenon DEF Limited
<1>16. QED
  BY <1>4, <1>6, <1>7, <1>8, <1>10, <1>11, <1>12, <1>13, <1>14, <1>15, Zenon DEF InOrder

\* The inductive invariant holds: the streams are in order, for any controllers,
\* calls and faults.
THEOREM StreamInOrder == Spec => []InOrder
<1>1. Init => InOrder
  BY Starts
<1>2. InOrder /\ [Next]_vars => InOrder'
  <2>1. SUFFICES ASSUME InOrder, [Next]_vars
        PROVE  InOrder'
    OBVIOUS
  <2>2. /\ CaseTypeOK /\ ClientTypeOK /\ ConnTypeOK /\ Calling /\ Formed /\ Numbered
        /\ Reading /\ Writing /\ SuccessIsReal /\ Limited
    BY <2>1, Zenon DEF InOrder
  <2>3. CaseTypeOK' /\ ConnTypeOK'
    BY <2>1, <2>2, ConnTyped
  <2>4. ClientTypeOK'
    BY <2>1, <2>2, ClientTyped
  <2>5. Calling'
    BY <2>1, <2>2, CallingStep
  <2>6. Formed'
    BY <2>1, <2>2, FormedStep
  <2>7. Numbered'
    BY <2>1, <2>2, NumberedStep
  <2>8. Reading'
    BY <2>1, <2>2, ReadingStep
  <2>9. Writing'
    BY <2>1, <2>2, WritingStep
  <2>10. SuccessIsReal'
    BY <2>1, <2>2, SuccessStep
  <2>11. Limited'
    BY <2>1, <2>2, LimitedStep
  <2>12. QED
    BY <2>3, <2>4, <2>5, <2>6, <2>7, <2>8, <2>9, <2>10, <2>11, Zenon DEF InOrder
<1>3. QED
  BY <1>1, <1>2, PTL DEF Spec

\* What a call reports as done is done (SuccessIsReal): the bytes a PDU given up in
\* its middle leaves in the stream (TcpSocket::send, read_into) never become a
\* block read, and never overwrite a block whose write was reported.
THEOREM SuccessAlwaysReal == Spec => []SuccessIsReal
<1>1. InOrder => SuccessIsReal
  BY Zenon DEF InOrder
<1>2. QED
  BY <1>1, StreamInOrder, PTL

\* What transfer_limit lets a command carry fits the controller and the command
\* (TransferFits), whatever MDTS, CAP.MPSMIN and LBADS the controller states.
THEOREM TransfersAlwaysFit == Spec => []TransferFits
<1>1. ASSUME InOrder
      PROVE  TransferFits
  <2>1. CaseTypeOK /\ ClientTypeOK /\ ConnTypeOK /\ Calling /\ Limited
    BY <1>1, Zenon DEF InOrder
  <2>2. /\ ctrl \in Controllers /\ max \in Nat /\ mdts \in {0, ctrl.mdts}
        /\ op \in {"idctrl", "ic io", "connect io", "ready"} \cup CallOps => Plausible
        /\ op \in {"ready"} \cup CallOps
             => max = TransferLimit(mdts, ctrl.mpsmin, BlockSize)
    BY <2>1, Zenon DEF CaseTypeOK, Limited
  <2>3. ctrl.mpsmin \in 0 .. 15 /\ mdts \in 0 .. 255
    <3>1. ctrl.mpsmin \in 0 .. 15 /\ ctrl.mdts \in 0 .. 255 /\ 0 \in 0 .. 255
      <4>1. ctrl \in Controllers
        BY <2>2, Zenon
      <4>2. QED
        BY <4>1 DEF Controllers
    <3>2. mdts \in {0, ctrl.mdts}
      BY <2>2, Zenon
    <3>3. QED
      BY <3>1, <3>2
  <2>4. TypeOK
    <3>1. AttachOps \cup {"ready"} \subseteq {Ops[i] : i \in DOMAIN Ops}
      <4>1. \A o \in AttachOps \cup {"ready"} : \E i \in 1 .. 10 : o = Ops[i]
        <5>1. {1, 2, 3, 4, 5, 6, 7, 8, 9, 10} \subseteq 1 .. 10
          OBVIOUS
        <5>2. QED
          BY <5>1, OpsOnce, Zenon DEF AttachOps
      <4>2. QED
        BY <4>1, OpsOnce, Zenon
    <3>2. op \in {Ops[i] : i \in DOMAIN Ops} \cup {"failed", "read", "write"}
      <4>1. op \in AttachOps \cup CallOps \cup {"ready", "failed"}
        BY <2>1, Zenon DEF ClientTypeOK
      <4>2. CallOps = {"read", "write"}
        BY Zenon DEF CallOps
      <4>3. QED
        BY <3>1, <4>1, <4>2, Zenon
    <3>3. QED
      BY <2>1, <2>2, <2>3, <3>2, Zenon DEF ClientTypeOK, ConnTypeOK, Calling, TypeOK
  <2>5. ASSUME op \in {"ready", "read", "write"}
        PROVE  /\ max >= BlockSize /\ max % BlockSize = 0
               /\ max \div BlockSize <= 65536
               /\ \/ mdts = 0 /\ max <= Unstated
                  \/ max = BlockSize
                  \/ mdts > 0 /\ max <= 2 ^ Least(19, 12 + ctrl.mpsmin + mdts)
    <3>1. op \in {"ready"} \cup CallOps
      BY <2>5 DEF CallOps
    <3>2. Plausible /\ max = TransferLimit(mdts, ctrl.mpsmin, BlockSize)
      BY <2>2, <3>1, Zenon
    <3>3. BlockSize \in BlockSizes
      BY <2>2, <3>2, PlausibleSize
    <3>4. Carried(max, mdts, ctrl.mpsmin, BlockSize)
      BY <2>3, <3>2, <3>3, TransferLimitFits, Zenon
    <3>5. QED
      BY <3>4 DEF Carried
  <2>6. QED
    BY <2>4, <2>5 DEF TransferFits
<1>2. QED
  BY <1>1, StreamInOrder, PTL
==============================================================================
