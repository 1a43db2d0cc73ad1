--------------------------- MODULE NvmeQueueProofs ---------------------------
(***************************************************************************)
(* Theorems about NvmeQueue, for any namespace, depth and patience, every  *)
(* fault, and as many calls as there are identifiers for.                  *)
(***************************************************************************)
EXTENDS NvmeQueue, FiniteSetTheorems, TLAPS

\* What the constants are; fewer blocks are asked for than there are identifiers.
LEMMA Sizes ==
    /\ Blocks \in Nat \ {0} /\ Parts \in Nat \ {0} /\ Patience \in Nat \ {0}
    /\ CidSpace \in Nat \ {0} /\ MaxCalls \in Nat
    /\ SqSize \in Nat /\ Depth \in Nat \ {0}
    /\ Blocks * MaxCalls < CidSpace
  BY ConstantsAssumption

\* What a PDU's fields are.
LEMMA PduFields ==
    ASSUME NEW d \in Pdu
    PROVE  /\ d.type \in {"resp", "data", "r2t", "term"}
           /\ d.type # "term" => d.cid \in Cids
           /\ d.type = "resp" => d.ok \in BOOLEAN
           /\ d.type = "data" => /\ d.part \in 1 .. Parts /\ d.from \in Lbas
                                 /\ d.bytes \in Bytes /\ d.done \in BOOLEAN
  BY DEF Pdu

\* The fields of a command in flight.
LEMMA CommandFields ==
    ASSUME NEW c \in Command
    PROVE  /\ c.cid \in Cids /\ c.op \in {"read", "write"} /\ c.at \in Lbas
           /\ c.sent \in 0 .. Parts /\ c.got \in Seq(Bytes)
  BY DEF Command

\* A command whose next part goes out is a command.
LEMMA SentOn ==
    ASSUME NEW c \in Command, c.sent < Parts
    PROVE  /\ [c EXCEPT !.sent = @ + 1] \in Command
           /\ c.sent + 1 \in 1 .. Parts
<1>1. c.sent + 1 \in 1 .. Parts /\ c.sent + 1 \in 0 .. Parts
  BY CommandFields, Sizes
<1>2. [c EXCEPT !.sent = @ + 1] \in Command
  BY <1>1 DEF Command
<1>3. QED
  BY <1>1, <1>2

\* A part of a block on the disk is some call's bytes.
LEMMA DiskByte ==
    ASSUME TypeOK, NEW a \in Lbas, NEW k \in 1 .. Parts
    PROVE  disk[a][k] \in Bytes
<1>1. disk \in [Lbas -> [1 .. Parts -> Bytes]]
  BY DEF TypeOK
<1>2. disk[a] \in [1 .. Parts -> Bytes]
  BY <1>1
<1>3. QED
  BY <1>2

\* What the controller puts on the wire is a PDU.
LEMMA SentTyped ==
    ASSUME TypeOK, NEW d \in Pdu, Send(d)
    PROVE  wire' \in Seq(Pdu)
  BY DEF TypeOK, Send

\* A call that returns leaves every variable of the host typed.
LEMMA ReturnTyped ==
    ASSUME TypeOK, NEW ok \in BOOLEAN, Return(ok)
    PROVE  /\ pc' = "idle" /\ cid' \in Cids /\ nxt' \in 0 .. Blocks
           /\ last' \in Lbas /\ first' \in Lbas /\ flight' = {}
           /\ failed' \in BOOLEAN /\ budget' \in Nat
           /\ buf' \in [Lbas -> [1 .. Parts -> {NoData}
                                    \cup [from : Lbas, bytes : Bytes]]]
           /\ call' \in 0 .. MaxCalls /\ good' \in BOOLEAN /\ left' \in BOOLEAN
           /\ sure' \in [Lbas -> (0 .. MaxCalls) \cup {Unsure}]
<1>1. 0 \in Lbas /\ 0 \in 0 .. Blocks /\ 0 \in Nat
  BY Sizes DEF Lbas
<1>2. Empty \in [Lbas -> [1 .. Parts -> {NoData}
                                    \cup [from : Lbas, bytes : Bytes]]]
  BY DEF Empty
<1>3. /\ good' \in BOOLEAN /\ left' \in BOOLEAN /\ failed' \in BOOLEAN
      /\ flight' = {} /\ pc' = "idle"
  BY Zenon DEF Return
<1>4. sure' \in [Lbas -> (0 .. MaxCalls) \cup {Unsure}]
  BY DEF Return, TypeOK
<1>5. /\ last' \in Lbas /\ first' \in Lbas
      /\ buf' \in [Lbas -> [1 .. Parts -> {NoData}
                                    \cup [from : Lbas, bytes : Bytes]]]
  BY <1>1, <1>2, Zenon DEF Return, TypeOK
<1>6. QED
  BY <1>1, <1>3, <1>4, <1>5 DEF Return, TypeOK

\* Every step keeps every variable's type: identifiers wrap, offsets stay in the
\* buffer, and the budget never goes below zero.
THEOREM TypeCorrect == Spec => []TypeOK
<1>1. Init => TypeOK
  <2> SUFFICES ASSUME Init PROVE TypeOK
    OBVIOUS
  <2>1. /\ 0 \in Lbas /\ CidSpace - 1 \in Cids /\ 0 \in 0 .. Blocks
        /\ 0 \in 0 .. MaxCalls
    BY Sizes DEF Lbas, Cids
  <2>2. disk \in [Lbas -> [1 .. Parts -> Bytes]]
    BY <2>1 DEF Init, Bytes
  <2>3. buf \in [Lbas -> [1 .. Parts -> {NoData}
                                    \cup [from : Lbas, bytes : Bytes]]]
    BY DEF Init, Empty
  <2>4. sure \in [Lbas -> (0 .. MaxCalls) \cup {Unsure}]
    BY <2>1 DEF Init
  <2>5. QED
    <3>1. wire \in Seq(Pdu) /\ budget \in Nat
      BY DEF Init
    <3>2. cmds \subseteq Command /\ flight \subseteq [cid : Cids, at : Lbas]
      BY DEF Init
    <3>3. QED
      BY <2>1, <2>2, <2>3, <2>4, <3>1, <3>2, Zenon DEF Init, TypeOK
<1>2. TypeOK /\ [Next]_vars => TypeOK'
  <2> SUFFICES ASSUME TypeOK, [Next]_vars PROVE TypeOK'
    OBVIOUS
  <2>1. CASE Calls
    <3>1. PICK op \in {"read", "write"}, b \in Lbas, e \in Lbas : Begin(op, b, e)
      BY <2>1 DEF Calls
    <3>2. b \in 0 .. Blocks /\ call' \in 0 .. MaxCalls
      BY <3>1, Sizes DEF Begin, Lbas, TypeOK
    <3>3. buf' \in [Lbas -> [1 .. Parts -> {NoData}
                                    \cup [from : Lbas, bytes : Bytes]]]
      BY <3>1 DEF Begin, Empty
    <3>4. QED
      BY <3>1, <3>2, <3>3, Zenon DEF Begin, TypeOK, target
  <2>2. ASSUME NEW ok \in BOOLEAN, Return(ok), cmds' \subseteq Command,
               wire' \in Seq(Pdu), UNCHANGED <<disk, up>>
        PROVE  TypeOK'
    <3>1. pc' \in {"idle", "read", "write"} /\ flight' \subseteq [cid : Cids, at : Lbas]
      BY <2>2, ReturnTyped
    <3>2. QED
      BY <2>2, <3>1, ReturnTyped, Zenon DEF TypeOK
  <2>3. CASE SendFails \/ GiveUp \/ Timeout
    <3>1. /\ Return(FALSE) /\ UNCHANGED target
      BY <2>3, Zenon DEF SendFails, GiveUp, Timeout
    <3>2. QED
      BY <3>1, <2>2, Zenon DEF target, TypeOK
  <2>4. CASE Finish
    <3>1. (~failed) \in BOOLEAN
      OBVIOUS
    <3>2. QED
      BY <2>4, <3>1, <2>2, Zenon DEF Finish, target, TypeOK
  <2>5. ASSUME wire # <<>>, wire' = Tail(wire)
        PROVE  Head(wire) \in Pdu /\ wire' \in Seq(Pdu)
    BY <2>5 DEF TypeOK
  <2>6. CASE Refuse
    <3>1. /\ Return(FALSE) /\ UNCHANGED <<disk, cmds, up>>
          /\ wire # <<>> /\ wire' = Tail(wire)
      BY <2>6, Zenon DEF Refuse, Receive
    <3>2. QED
      BY <3>1, <2>2, <2>5, Zenon DEF TypeOK
  <2>7. CASE Issue
    <3>1. NextCid \in Cids /\ nxt \in Lbas /\ nxt + 1 \in 0 .. Blocks
      BY <2>7, Sizes DEF Issue, MayIssue, TypeOK, NextCid, Cids, Lbas
    <3>2. pc \in {"read", "write"}
      BY <2>7 DEF Issue, MayIssue
    <3>3. [cid |-> NextCid, op |-> pc, at |-> nxt, sent |-> 0, got |-> <<>>]
            \in Command
      BY <3>1, <3>2, Sizes DEF Command
    <3>4. cmds' \subseteq Command
      BY <2>7, <3>3 DEF Issue, TypeOK
    <3>5. flight' \subseteq [cid : Cids, at : Lbas]
      BY <2>7, <3>1 DEF Issue, TypeOK
    <3>6. budget' \in Nat
      BY <2>7, Sizes DEF Issue, TypeOK
    <3>7. cid' \in Cids /\ nxt' \in 0 .. Blocks
      BY <2>7, <3>1 DEF Issue
    <3>8. QED
      BY <2>7, <3>4, <3>5, <3>6, <3>7, Zenon DEF Issue, TypeOK, observers
  <2>8. ASSUME budget > 0, Reads, wire # <<>>, wire' = Tail(wire),
               cmds' \subseteq Command, flight' \subseteq flight,
               failed' \in BOOLEAN,
               buf' \in [Lbas -> [1 .. Parts -> {NoData}
                                    \cup [from : Lbas, bytes : Bytes]]]
        PROVE  TypeOK'
    <3>1. budget' \in Nat
      BY <2>8 DEF Reads, TypeOK
    <3>2. flight' \subseteq [cid : Cids, at : Lbas] /\ wire' \in Seq(Pdu)
      BY <2>8, <2>5 DEF TypeOK
    <3>3. QED
      BY <2>8, <3>1, <3>2, Zenon DEF Reads, TypeOK, observers
  <2>9. CASE SkipStale
    BY <2>9, <2>8, Zenon DEF SkipStale, Receive, TypeOK
  <2>10. CASE Completed
    <3>1. flight' \subseteq flight
      BY <2>10 DEF Completed
    <3>2. failed' \in BOOLEAN
      BY <2>10, Zenon DEF Completed
    <3>3. QED
      BY <2>10, <2>8, <3>1, <3>2, Zenon DEF Completed, Receive, TypeOK
  <2>11. CASE GotData
    <3>1. PICK f \in About :
            /\ buf' = [buf EXCEPT ![f.at][Head(wire).part] =
                         [from |-> Head(wire).from, bytes |-> Head(wire).bytes]]
            /\ flight' = IF Head(wire).done THEN flight \ {f} ELSE flight
      BY <2>11 DEF GotData
    <3>2. Head(wire) \in Pdu /\ Head(wire).type = "data"
      BY <2>11, <2>5 DEF GotData, Receive
    <3>3. [from |-> Head(wire).from, bytes |-> Head(wire).bytes]
             \in [from : Lbas, bytes : Bytes]
      BY <3>2, PduFields
    <3>4. buf' \in [Lbas -> [1 .. Parts -> {NoData}
                                    \cup [from : Lbas, bytes : Bytes]]]
      BY <3>1, <3>3 DEF TypeOK
    <3>5. flight' \subseteq flight
      BY <3>1
    <3>6. QED
      BY <2>11, <2>8, <3>4, <3>5, Zenon DEF GotData, Receive, TypeOK
  <2>12. CASE AnswerR2T
    <3>1. PICK f \in flight :
            cmds' = {IF c.cid = Head(wire).cid /\ c.op = "write"
                     THEN [c EXCEPT !.got = Append(@, <<call, f.at>>)]
                     ELSE c : c \in cmds}
      BY <2>12 DEF AnswerR2T
    <3>2. <<call, f.at>> \in Bytes
      BY DEF TypeOK, Bytes
    <3>3. ASSUME NEW c \in cmds
          PROVE  [c EXCEPT !.got = Append(@, <<call, f.at>>)] \in Command
      <4>1. c \in Command
        BY DEF TypeOK
      <4>2. Append(c.got, <<call, f.at>>) \in Seq(Bytes)
        BY <3>2, <4>1, CommandFields
      <4>3. QED
        BY <4>1, <4>2 DEF Command
    <3>4. cmds' \subseteq Command
      BY <3>1, <3>3 DEF TypeOK
    <3>5. QED
      BY <2>12, <2>8, <3>4, Zenon DEF AnswerR2T, Receive, TypeOK
  <2>13. ASSUME NEW d \in Pdu, Send(d), cmds' \subseteq Command,
                disk' \in [Lbas -> [1 .. Parts -> Bytes]], up' \in BOOLEAN,
                UNCHANGED <<host, observers>>
         PROVE  TypeOK'
    <3>1. wire' \in Seq(Pdu)
      BY <2>13, SentTyped
    <3>2. QED
      BY <2>13, <3>1, Zenon DEF TypeOK, host, observers
  <2>14. ASSUME NEW c \in cmds PROVE c \in Command
    BY DEF TypeOK
  <2>15. ASSUME NEW c \in cmds, ServeRead(c) PROVE TypeOK'
    <3> DEFINE served == [c EXCEPT !.sent = @ + 1]
    <3>1. PICK done \in BOOLEAN :
            /\ Send([type |-> "data", cid |-> c.cid, part |-> served.sent,
                     from |-> c.at, bytes |-> disk[c.at][served.sent],
                     done |-> done])
            /\ cmds' = (cmds \ {c}) \cup (IF done THEN {} ELSE {served})
      BY <2>15 DEF ServeRead
    <3>2. served.sent = c.sent + 1 /\ served.sent \in 1 .. Parts /\ served \in Command
      <4>1. c \in Command /\ c.sent < Parts
        BY <2>14, <2>15 DEF ServeRead
      <4>2. served.sent = c.sent + 1
        BY <4>1 DEF Command
      <4>3. QED
        BY <4>1, <4>2, SentOn
    <3>3. disk[c.at][served.sent] \in Bytes
      <4> HIDE DEF served
      <4>1. c.at \in Lbas
        BY <2>14, CommandFields
      <4>2. QED
        BY <3>2, <4>1, DiskByte
    <3>4. [type |-> "data", cid |-> c.cid, part |-> served.sent, from |-> c.at,
           bytes |-> disk[c.at][served.sent], done |-> done] \in Pdu
      BY <2>14, <3>2, <3>3, CommandFields DEF Pdu
    <3>5. cmds' \subseteq Command
      BY <3>1, <3>2 DEF TypeOK
    <3>6. QED
      BY <2>15, <3>1, <3>4, <3>5, <2>13, Zenon DEF ServeRead, TypeOK
  <2>16. ASSUME NEW c \in cmds, AskData(c) PROVE TypeOK'
    <3>1. [c EXCEPT !.sent = @ + 1] \in Command /\ c.sent + 1 \in 1 .. Parts
      <4>1. c \in Command /\ c.sent < Parts
        BY <2>14, <2>16 DEF AskData
      <4>2. QED
        BY <4>1, SentOn
    <3>2. [type |-> "r2t", cid |-> c.cid, part |-> c.sent + 1] \in Pdu
      BY <2>14, <3>1, CommandFields DEF Pdu
    <3>3. cmds' \subseteq Command
      BY <2>16, <3>1 DEF AskData, TypeOK
    <3>4. QED
      BY <2>16, <3>2, <3>3, <2>13, Zenon DEF AskData, TypeOK
  <2>17. ASSUME NEW c \in cmds, NEW ok \in BOOLEAN
         PROVE  [type |-> "resp", cid |-> c.cid, ok |-> ok] \in Pdu
    BY <2>14, CommandFields DEF Pdu
  <2>18. ASSUME NEW c \in cmds, CompleteRead(c) \/ Fail(c) PROVE TypeOK'
    <3>1. cmds' \subseteq Command
      BY <2>18 DEF CompleteRead, Fail, TypeOK
    <3>2. QED
      BY <2>18, <2>13, <2>17, <3>1, Zenon DEF CompleteRead, Fail, TypeOK
  <2>19. ASSUME NEW c \in cmds, CompleteWrite(c) PROVE TypeOK'
    <3>1. cmds' \subseteq Command
      BY <2>19 DEF CompleteWrite, TypeOK
    <3>2. c.got \in [1 .. Parts -> Bytes] /\ c.at \in Lbas
      BY <2>14, <2>19, CommandFields DEF CompleteWrite
    <3>3. disk' \in [Lbas -> [1 .. Parts -> Bytes]]
      BY <2>19, <3>2 DEF CompleteWrite, TypeOK
    <3>4. QED
      BY <2>19, <2>13, <2>17, <3>1, <3>3, Zenon DEF CompleteWrite, TypeOK
  <2>20. CASE Junk
    <3>1. [type |-> "resp", cid |-> CidSpace - 1, ok |-> TRUE] \in Pdu
      BY Sizes DEF Pdu, Cids
    <3>2. \A c \in cmds :
            [type |-> "data", cid |-> c.cid, part |-> 1, from |-> c.at,
             bytes |-> disk[c.at][1], done |-> FALSE] \in Pdu
      BY <2>14, CommandFields, Sizes DEF Pdu, TypeOK
    <3>3. PICK d \in Pdu : Send(d)
      BY <2>20, <3>1, <3>2 DEF Junk
    <3>4. QED
      BY <2>20, <3>3, <2>13, Zenon DEF Junk, TypeOK
  <2>21. CASE Terminate
    <3>1. [type |-> "term"] \in Pdu
      BY DEF Pdu
    <3>2. cmds' \subseteq Command /\ up' \in BOOLEAN
      BY <2>21 DEF Terminate
    <3>3. QED
      BY <2>21, <3>1, <3>2, <2>13, Zenon DEF Terminate, TypeOK
  <2>22. CASE UNCHANGED vars
    BY <2>22, Zenon DEF vars, target, host, observers, TypeOK
  <2>23. QED
    BY <2>1, <2>3, <2>4, <2>6, <2>7, <2>9, <2>10, <2>11, <2>12, <2>15, <2>16,
       <2>18, <2>19, <2>20, <2>21, <2>22
       DEF Next, HostStep, Controller
<1>3. QED
  BY <1>1, <1>2, PTL DEF Spec

\* The commands issued so far: their identifiers are 0 .. Issued - 1.
Issued == IF cid = CidSpace - 1 THEN 0 ELSE cid + 1

\* Identifiers are fresh when they are given: what is still under way for an
\* earlier command has a smaller one.
CallBounds ==
    /\ pc = "idle" => Issued <= call * Blocks
    /\ pc # "idle" => /\ call >= 1
                      /\ first <= nxt /\ nxt <= last + 1
                      /\ Issued <= (call - 1) * Blocks + (nxt - first)
    /\ pc = "idle" => flight = {}

\* PDU i is of type t and names the command f.
IsAbout(t, i, f) == wire[i].type = t /\ wire[i].cid = f.cid

FreshIds ==
    /\ \A c \in cmds : c.cid < Issued
    /\ \A f \in flight : f.cid < Issued
    /\ \A i \in 1 .. Len(wire) :
         wire[i].type \in {"resp", "data"} =>
           wire[i].cid < Issued \/ wire[i].cid = CidSpace - 1
    /\ \A f, g \in flight : f.cid = g.cid => f = g

\* The controller's record of a command in flight, and the data it sends for
\* it, are of the block the host issued it for.
SameBlock ==
    \A f \in flight :
      /\ \A c \in cmds : c.cid = f.cid => c.at = f.at /\ c.op = pc
      /\ \A i \in 1 .. Len(wire) : IsAbout("data", i, f) => wire[i].from = f.at

Filled(b, p) == buf[b][p].from = b

\* Part p of f is in the buffer, or among the first n PDUs.
OnItsWay(f, p, n) ==
    \/ Filled(f.at, p)
    \/ \E j \in 1 .. n : IsAbout("data", j, f) /\ wire[j].part = p

\* A part the controller has sent is under way, and what completes a command
\* comes after all its parts.
PartsFirst ==
    pc = "read" =>
      \A f \in flight :
        /\ \A c \in cmds : c.cid = f.cid =>
             \A p \in 1 .. c.sent : OnItsWay(f, p, Len(wire))
        /\ \A i \in 1 .. Len(wire) :
             \/ IsAbout("resp", i, f) /\ wire[i].ok
             \/ IsAbout("data", i, f) /\ wire[i].done
             => \A p \in 1 .. Parts : OnItsWay(f, p, i)

\* A block that was asked for is in flight, or in the buffer.
AskedOrFilled ==
    pc = "read" /\ ~failed =>
      \A b \in first .. nxt - 1 :
        \/ \E f \in flight : f.at = b
        \/ \A p \in 1 .. Parts : Filled(b, p)

\* The inductive invariant of ReadsOwnBlocks.
Paired == /\ CallBounds /\ FreshIds /\ SameBlock /\ PartsFirst /\ AskedOrFilled
          /\ ReadsOwnBlocks

\* A product grows with its factor.
LEMMA Monotone ==
    ASSUME NEW a \in Nat, NEW b \in Nat, NEW k \in Nat, a <= b
    PROVE  a * k <= b * k
<1>1. PICK d \in Nat : b = a + d
  <2>1. b - a \in Nat /\ b = a + (b - a)
    OBVIOUS
  <2>2. QED
    BY <2>1
<1>2. (a + d) * k = a * k + d * k /\ d * k >= 0
  OBVIOUS
<1>3. QED
  BY <1>1, <1>2

\* There is an identifier left for every command a call may issue.
LEMMA IdentifierLeft ==
    ASSUME TypeOK, CallBounds, MayIssue
    PROVE  /\ Issued \in Nat /\ Issued < CidSpace - 1
           /\ NextCid = Issued
<1>1. /\ call \in Nat /\ call >= 1 /\ call <= MaxCalls
      /\ nxt - first <= Blocks - 1
      /\ Issued <= (call - 1) * Blocks + (nxt - first)
  BY Sizes DEF TypeOK, CallBounds, MayIssue, Lbas
<1>2. (call - 1) * Blocks <= (MaxCalls - 1) * Blocks
  <2>1. call - 1 \in Nat /\ MaxCalls - 1 \in Nat /\ call - 1 <= MaxCalls - 1
    BY <1>1, Sizes
  <2>2. QED
    BY <2>1, Monotone, Sizes
<1>3. (MaxCalls - 1) * Blocks = Blocks * MaxCalls - Blocks
  BY Sizes
<1>4. Issued \in Nat
  BY Sizes DEF Issued, TypeOK, Cids
<1>5. /\ (call - 1) * Blocks \in Int /\ (MaxCalls - 1) * Blocks \in Int
      /\ Blocks * MaxCalls \in Int /\ nxt - first \in Int
  BY <1>1, Sizes DEF TypeOK, Lbas
<1>6. Issued < CidSpace - 1
  BY <1>1, <1>2, <1>3, <1>4, <1>5, Sizes
<1>7. QED
  BY <1>4, <1>6 DEF Issued, NextCid

\* A step of the controller that sends d.
LEMMA Sent ==
    ASSUME TypeOK, Paired, NEW d \in Pdu, Send(d), UNCHANGED <<host, observers>>,
           \A e \in cmds' : \E c \in cmds :
             /\ e.cid = c.cid /\ e.at = c.at /\ e.op = c.op
             /\ \/ e.sent = c.sent
                \/ e.sent = c.sent + 1 /\ c.op = "write"
                \/ /\ e.sent = c.sent + 1
                   /\ d.type = "data" /\ d.cid = c.cid /\ d.part = e.sent,
           d.type \in {"resp", "data"} => d.cid < Issued \/ d.cid = CidSpace - 1,
           \A f \in flight : d.type = "data" /\ d.cid = f.cid => d.from = f.at,
           pc = "read" =>
             \A f \in flight :
               \/ d.type = "resp" /\ d.cid = f.cid /\ d.ok
               \/ d.type = "data" /\ d.cid = f.cid /\ d.done
               => \A p \in 1 .. Parts :
                    \/ OnItsWay(f, p, Len(wire))
                    \/ d.type = "data" /\ d.part = p
    PROVE  Paired'
<1>1. /\ pc' = pc /\ cid' = cid /\ nxt' = nxt /\ last' = last /\ flight' = flight
      /\ failed' = failed /\ buf' = buf /\ call' = call /\ first' = first
      /\ good' = good
  BY DEF host, observers
<1>2. /\ wire \in Seq(Pdu) /\ Len(wire) \in Nat
      /\ Len(wire') = Len(wire) + 1 /\ wire'[Len(wire) + 1] = d
      /\ \A i \in 1 .. Len(wire) : wire'[i] = wire[i]
  BY DEF TypeOK, Send
<1>3. CallBounds'
  BY <1>1 DEF Paired, CallBounds, Issued
<1>4. FreshIds'
  <2>1. \A e \in cmds' : e.cid < Issued
    BY DEF Paired, FreshIds
  <2>2. \A i \in 1 .. Len(wire') :
          wire'[i].type \in {"resp", "data"} =>
            wire'[i].cid < Issued \/ wire'[i].cid = CidSpace - 1
    BY <1>2 DEF Paired, FreshIds
  <2>3. Issued' = Issued
    BY <1>1 DEF Issued
  <2>4. QED
    BY <1>1, <2>1, <2>2, <2>3 DEF Paired, FreshIds
<1>5. SameBlock'
  <2> SUFFICES ASSUME NEW f \in flight
               PROVE  /\ \A c \in cmds' : c.cid = f.cid => c.at = f.at /\ c.op = pc
                      /\ \A i \in 1 .. Len(wire') :
                           wire'[i].type = "data" /\ wire'[i].cid = f.cid
                             => wire'[i].from = f.at
    BY <1>1 DEF SameBlock, IsAbout
  <2>1. \A c \in cmds' : c.cid = f.cid => c.at = f.at /\ c.op = pc
    BY DEF Paired, SameBlock
  <2>2. QED
    BY <1>2, <2>1 DEF Paired, SameBlock, IsAbout
<1>6. PICK m \in Nat : m = Len(wire) /\ m + 1 = Len(wire')
  BY <1>2
<1>7. ASSUME NEW f, NEW p, NEW n \in 0 .. m, OnItsWay(f, p, n),
             NEW k \in n .. m + 1
      PROVE  OnItsWay(f, p, k)'
  <2>1. CASE Filled(f.at, p)
    BY <2>1, <1>1 DEF OnItsWay, Filled
  <2>2. CASE \E j \in 1 .. n : IsAbout("data", j, f) /\ wire[j].part = p
    <3>1. PICK j \in 1 .. n : IsAbout("data", j, f) /\ wire[j].part = p
      BY <2>2
    <3>2. wire'[j] = wire[j] /\ j \in 1 .. k
      BY <1>2, <1>6
    <3>3. QED
      BY <3>1, <3>2 DEF OnItsWay, IsAbout
  <2>3. QED
    BY <1>7, <2>1, <2>2 DEF OnItsWay
<1>8. ASSUME NEW f, NEW p, d.type = "data", d.cid = f.cid, d.part = p
      PROVE  OnItsWay(f, p, m + 1)'
  BY <1>2, <1>6, <1>8 DEF OnItsWay, IsAbout
<1>9. ASSUME pc = "read", NEW f \in flight, NEW e \in cmds', e.cid = f.cid,
             NEW p \in 1 .. e.sent
      PROVE  OnItsWay(f, p, m + 1)'
  <2>1. PICK c \in cmds :
          /\ e.cid = c.cid /\ e.at = c.at /\ e.op = c.op
          /\ \/ e.sent = c.sent
             \/ e.sent = c.sent + 1 /\ c.op = "write"
             \/ /\ e.sent = c.sent + 1
                /\ d.type = "data" /\ d.cid = c.cid /\ d.part = e.sent
    OBVIOUS
  <2>2. c.op = "read" /\ c.sent \in Nat /\ c.cid = f.cid
    <3>1. c \in Command
      BY DEF TypeOK
    <3>2. c.op = "read"
      BY <2>1, <1>9 DEF Paired, SameBlock
    <3>3. QED
      BY <2>1, <1>9, <3>1, <3>2, CommandFields
  <2>3. CASE p \in 1 .. c.sent
    <3>1. OnItsWay(f, p, m)
      BY <1>6, <1>9, <2>2, <2>3 DEF Paired, PartsFirst
    <3>2. QED
      BY <3>1, <1>7
  <2>4. CASE p \notin 1 .. c.sent
    <3>1. d.type = "data" /\ d.cid = f.cid /\ d.part = p
      BY <1>9, <2>1, <2>2, <2>4
    <3>2. QED
      BY <3>1, <1>8
  <2>5. QED
    BY <2>3, <2>4
<1>10. ASSUME pc = "read", NEW f \in flight, NEW i \in 1 .. m + 1,
              \/ wire'[i].type = "resp" /\ wire'[i].cid = f.cid /\ wire'[i].ok
              \/ wire'[i].type = "data" /\ wire'[i].cid = f.cid /\ wire'[i].done,
              NEW p \in 1 .. Parts
       PROVE  OnItsWay(f, p, i)'
  <2>1. CASE i \in 1 .. m
    <3>1. wire'[i] = wire[i]
      BY <1>2, <1>6, <2>1
    <3>2. OnItsWay(f, p, i)
      BY <1>6, <1>10, <2>1, <3>1 DEF Paired, PartsFirst, IsAbout
    <3>3. QED
      BY <3>2, <2>1, <1>7
  <2>2. CASE i = m + 1
    <3>1. \/ OnItsWay(f, p, m)
          \/ d.type = "data" /\ d.cid = f.cid /\ d.part = p
      BY <1>2, <1>6, <1>10, <2>2, PduFields
    <3>2. CASE OnItsWay(f, p, m)
      BY <3>2, <2>2, <1>7
    <3>3. CASE d.type = "data" /\ d.cid = f.cid /\ d.part = p
      BY <3>3, <2>2, <1>8
    <3>4. QED
      BY <3>1, <3>2, <3>3
  <2>3. QED
    BY <2>1, <2>2
<1>11. PartsFirst'
  <2>1. ASSUME pc = "read", NEW f \in flight
        PROVE  /\ \A e \in cmds' : e.cid = f.cid =>
                    \A p \in 1 .. e.sent : OnItsWay(f, p, m + 1)'
               /\ \A i \in 1 .. m + 1 :
                    \/ wire'[i].type = "resp" /\ wire'[i].cid = f.cid /\ wire'[i].ok
                    \/ wire'[i].type = "data" /\ wire'[i].cid = f.cid /\ wire'[i].done
                    => \A p \in 1 .. Parts : OnItsWay(f, p, i)'
    BY <2>1, <1>9, <1>10
  <2>2. QED
    BY <1>1, <1>6, <2>1 DEF PartsFirst, IsAbout, OnItsWay, Filled
<1>12. AskedOrFilled' /\ ReadsOwnBlocks'
  BY <1>1 DEF Paired, AskedOrFilled, ReadsOwnBlocks, Filled
<1>13. QED
  BY <1>3, <1>4, <1>5, <1>11, <1>12 DEF Paired

\* A PDU is taken off the wire in the middle of a call: what it fills stays
\* filled, and a command is only dropped when its block is filled or the call
\* has failed.
LEMMA Received ==
    ASSUME TypeOK, Paired, wire # <<>>, wire' = Tail(wire), pc # "idle",
           UNCHANGED <<pc, cid, nxt, last, observers>>,
           \A e \in cmds' : \E c \in cmds :
             e.cid = c.cid /\ e.at = c.at /\ e.op = c.op /\ e.sent = c.sent,
           flight' \subseteq flight,
           failed => failed',
           pc = "read" =>
             /\ \A b \in Lbas, p \in 1 .. Parts : Filled(b, p) => Filled(b, p)'
             /\ \A f \in flight', p \in 1 .. Parts :
                  IsAbout("data", 1, f) /\ wire[1].part = p => Filled(f.at, p)'
             /\ \A f \in flight \ flight' :
                  failed' \/ \A p \in 1 .. Parts : Filled(f.at, p)'
    PROVE  Paired'
<1>1. /\ pc' = pc /\ cid' = cid /\ nxt' = nxt /\ last' = last
      /\ call' = call /\ first' = first
  BY DEF observers
<1>2. PICK m \in Nat : /\ Len(wire) = m + 1 /\ Len(wire') = m
                       /\ \A i \in 1 .. m : wire'[i] = wire[i + 1]
  <2>1. wire \in Seq(Pdu) /\ Len(wire) \in Nat /\ Len(wire) >= 1
    BY DEF TypeOK
  <2>2. /\ Len(wire) - 1 \in Nat /\ Len(wire') = Len(wire) - 1
        /\ \A i \in 1 .. Len(wire) - 1 : wire'[i] = wire[i + 1]
        /\ Len(wire) = (Len(wire) - 1) + 1
    BY <2>1
  <2>3. QED
    BY <2>2, Zenon
<1>3. CallBounds'
  BY <1>1 DEF Paired, CallBounds, Issued
<1>4. FreshIds'
  <2>1. Issued' = Issued
    BY <1>1 DEF Issued
  <2>2. \A e \in cmds' : e.cid < Issued
    BY DEF Paired, FreshIds
  <2>3. \A i \in 1 .. m :
          wire'[i].type \in {"resp", "data"} =>
            wire'[i].cid < Issued \/ wire'[i].cid = CidSpace - 1
    BY <1>2 DEF Paired, FreshIds
  <2>4. QED
    BY <1>2, <2>1, <2>2, <2>3 DEF Paired, FreshIds
<1>5. SameBlock'
  <2> SUFFICES ASSUME NEW f \in flight'
               PROVE  /\ \A c \in cmds' : c.cid = f.cid => c.at = f.at /\ c.op = pc
                      /\ \A i \in 1 .. m :
                           wire'[i].type = "data" /\ wire'[i].cid = f.cid
                             => wire'[i].from = f.at
    BY <1>1, <1>2 DEF SameBlock, IsAbout
  <2>1. \A c \in cmds' : c.cid = f.cid => c.at = f.at /\ c.op = pc
    BY DEF Paired, SameBlock
  <2>2. QED
    BY <1>2, <2>1 DEF Paired, SameBlock, IsAbout
<1>6. ASSUME pc = "read", NEW f \in flight', NEW p \in 1 .. Parts,
             NEW i \in 0 .. m, OnItsWay(f, p, i + 1)
      PROVE  OnItsWay(f, p, i)'
  <2>1. CASE Filled(f.at, p)
    <3>1. f.at \in Lbas
      BY DEF TypeOK
    <3>2. Filled(f.at, p)'
      BY <1>6, <2>1, <3>1
    <3>3. QED
      BY <3>2 DEF OnItsWay
  <2>2. CASE \E j \in 1 .. i + 1 : IsAbout("data", j, f) /\ wire[j].part = p
    <3>1. PICK j \in 1 .. i + 1 : IsAbout("data", j, f) /\ wire[j].part = p
      BY <2>2
    <3>2. CASE j = 1
      <4>1. Filled(f.at, p)'
        BY <1>6, <3>1, <3>2
      <4>2. QED
        BY <4>1 DEF OnItsWay
    <3>3. CASE j # 1
      <4>1. PICK h \in 1 .. i : h + 1 = j
        <5>1. j - 1 \in 1 .. i /\ (j - 1) + 1 = j
          BY <3>3
        <5>2. QED
          BY <5>1
      <4>2. wire'[h] = wire[j]
        BY <1>2, <4>1
      <4>3. QED
        BY <3>1, <4>1, <4>2 DEF OnItsWay, IsAbout
    <3>4. QED
      BY <3>2, <3>3
  <2>3. QED
    BY <1>6, <2>1, <2>2 DEF OnItsWay
<1>7. PartsFirst'
  <2>1. ASSUME pc = "read", NEW f \in flight', NEW e \in cmds', e.cid = f.cid,
               NEW p \in 1 .. e.sent
        PROVE  OnItsWay(f, p, m)'
    <3>1. PICK c \in cmds : e.cid = c.cid /\ e.sent = c.sent
      OBVIOUS
    <3>2. c.sent \in 0 .. Parts
      BY CommandFields DEF TypeOK
    <3>3. p \in 1 .. Parts /\ f \in flight
      BY <3>1, <3>2, Sizes
    <3>4. OnItsWay(f, p, m + 1)
      BY <1>2, <2>1, <3>1, <3>3 DEF Paired, PartsFirst
    <3>5. QED
      BY <1>6, <2>1, <3>3, <3>4
  <2>2. ASSUME pc = "read", NEW f \in flight', NEW i \in 1 .. m,
               \/ wire'[i].type = "resp" /\ wire'[i].cid = f.cid /\ wire'[i].ok
               \/ wire'[i].type = "data" /\ wire'[i].cid = f.cid /\ wire'[i].done,
               NEW p \in 1 .. Parts
        PROVE  OnItsWay(f, p, i)'
    <3>1. wire'[i] = wire[i + 1] /\ i + 1 \in 1 .. Len(wire)
      BY <1>2
    <3>2. OnItsWay(f, p, i + 1)
      BY <2>2, <3>1 DEF Paired, PartsFirst, IsAbout
    <3>3. QED
      BY <1>6, <2>2, <3>2
  <2>3. ASSUME pc = "read", NEW f \in flight'
        PROVE  /\ \A e \in cmds' : e.cid = f.cid =>
                    \A p \in 1 .. e.sent : OnItsWay(f, p, m)'
               /\ \A i \in 1 .. m :
                    \/ wire'[i].type = "resp" /\ wire'[i].cid = f.cid /\ wire'[i].ok
                    \/ wire'[i].type = "data" /\ wire'[i].cid = f.cid /\ wire'[i].done
                    => \A p \in 1 .. Parts : OnItsWay(f, p, i)'
    BY <2>1, <2>2, <2>3
  <2>4. QED
    BY <1>1, <1>2, <2>3 DEF PartsFirst, IsAbout, OnItsWay, Filled
<1>8. AskedOrFilled'
  <2> SUFFICES ASSUME pc = "read", ~failed', NEW b \in first .. nxt - 1,
                      ~ \E f \in flight' : f.at = b
               PROVE  \A p \in 1 .. Parts : Filled(b, p)'
    BY <1>1 DEF AskedOrFilled, Filled
  <2>1. b \in Lbas
    BY Sizes DEF TypeOK, Paired, CallBounds, Lbas
  <2>2. CASE \E f \in flight : f.at = b
    BY <2>2
  <2>3. CASE \A p \in 1 .. Parts : Filled(b, p)
    BY <2>1, <2>3
  <2>4. QED
    BY <2>2, <2>3 DEF Paired, AskedOrFilled
<1>9. ReadsOwnBlocks'
  BY <1>1 DEF ReadsOwnBlocks
<1>10. QED
  BY <1>3, <1>4, <1>5, <1>7, <1>8, <1>9 DEF Paired

\* One more of a size.
LEMMA OneMore ==
    ASSUME NEW a \in Int, NEW k \in Int
    PROVE  /\ a * k \in Int /\ (a - 1) * k \in Int
           /\ (a - 1) * k + k = a * k
  OBVIOUS

\* A call that returns: if it is a read that reports success, it asked for every
\* block and every command came in.
LEMMA Returned ==
    ASSUME TypeOK, Paired, NEW ok \in BOOLEAN, Return(ok), pc # "idle",
           ok /\ pc = "read" => flight = {} /\ nxt > last /\ ~failed,
           \/ wire' = wire
           \/ wire # <<>> /\ wire' = Tail(wire),
           cmds' = cmds
    PROVE  Paired'
<1>1. /\ pc' = "idle" /\ flight' = {} /\ cid' = cid /\ call' = call
  BY Zenon DEF Return
<1>2. CallBounds'
  <2>1. /\ call \in Int /\ Blocks \in Int /\ Issued \in Int
        /\ nxt - first <= Blocks /\ nxt - first \in Int
    BY Sizes DEF TypeOK, Lbas, Issued, Cids
  <2>2. (call - 1) * Blocks \in Int /\ (call - 1) * Blocks + Blocks = call * Blocks
    BY <2>1, OneMore
  <2>3. Issued <= call * Blocks
    BY <2>1, <2>2 DEF Paired, CallBounds
  <2>4. QED
    BY <1>1, <2>3 DEF CallBounds, Issued
<1>3. FreshIds'
  <2>1. \A i \in 1 .. Len(wire') :
          wire'[i].type \in {"resp", "data"} =>
            wire'[i].cid < Issued \/ wire'[i].cid = CidSpace - 1
    <3>1. CASE wire' = wire
      BY <3>1 DEF Paired, FreshIds
    <3>2. CASE wire # <<>> /\ wire' = Tail(wire)
      <4>1. wire \in Seq(Pdu) /\ Len(wire) \in Nat /\ Len(wire) >= 1
        BY <3>2 DEF TypeOK
      <4>2. /\ Len(wire') = Len(wire) - 1
            /\ \A i \in 1 .. Len(wire) - 1 : wire'[i] = wire[i + 1]
        BY <3>2, <4>1
      <4>3. QED
        BY <4>1, <4>2 DEF Paired, FreshIds
    <3>3. QED
      BY <3>1, <3>2
  <2>2. Issued' = Issued
    BY <1>1 DEF Issued
  <2>3. QED
    BY <1>1, <2>1, <2>2 DEF Paired, FreshIds
<1>4. SameBlock' /\ PartsFirst' /\ AskedOrFilled'
  BY <1>1 DEF SameBlock, PartsFirst, AskedOrFilled
<1>5. ReadsOwnBlocks'
  <2> SUFFICES ASSUME good', NEW b \in first' .. last', NEW p \in 1 .. Parts
               PROVE  buf'[b][p].from = b
    BY DEF ReadsOwnBlocks
  <2>1. ok /\ pc = "read" /\ last' = last /\ first' = first /\ buf' = buf
    BY Zenon DEF Return
  <2>2. b \in first .. nxt - 1
    BY <2>1 DEF TypeOK, Lbas
  <2>3. QED
    BY <2>1, <2>2 DEF Paired, AskedOrFilled, Filled
<1>6. QED
  BY <1>2, <1>3, <1>4, <1>5 DEF Paired

\* A command goes out under an identifier nothing under way still names.
LEMMA Issues ==
    ASSUME TypeOK, Paired, Issue
    PROVE  Paired'
<1>1. /\ Issued \in Nat /\ Issued < CidSpace - 1 /\ NextCid = Issued
  BY IdentifierLeft DEF Paired, Issue
<1>2. /\ pc' = pc /\ cid' = Issued /\ nxt' = nxt + 1 /\ wire' = wire
      /\ last' = last /\ failed' = failed /\ buf' = buf
      /\ call' = call /\ first' = first /\ good' = good
      /\ pc # "idle" /\ nxt <= last
  BY <1>1 DEF Issue, MayIssue, observers
<1>3. Issued' = Issued + 1
  BY <1>1, <1>2, Sizes DEF Issued
<1>4. \A c \in cmds' : \/ c \in cmds
                       \/ /\ c.cid = Issued /\ c.op = pc /\ c.at = nxt
                          /\ c.sent = 0
  BY <1>1 DEF Issue
<1>5. PICK n : /\ n.cid = Issued /\ n.at = nxt
               /\ flight' = flight \cup {n}
  BY <1>1 DEF Issue
<1>6. /\ \A c \in cmds : c.cid \in Nat /\ c.cid < Issued
      /\ \A f \in flight : f.cid \in Nat /\ f.cid < Issued
      /\ \A i \in 1 .. Len(wire) :
           /\ wire[i] \in Pdu
           /\ wire[i].type \in {"resp", "data"} =>
                wire[i].cid \in Nat /\ wire[i].cid # Issued
  <2>1. \A c \in cmds : c.cid \in Nat
    BY CommandFields DEF TypeOK, Cids
  <2>2. \A f \in flight : f.cid \in Nat
    BY DEF TypeOK, Cids
  <2>3. \A i \in 1 .. Len(wire) : wire[i] \in Pdu
    BY DEF TypeOK
  <2>4. \A i \in 1 .. Len(wire) :
          wire[i].type \in {"resp", "data"} => wire[i].cid \in Nat
    BY <2>3, PduFields DEF Cids
  <2>5. QED
    BY <1>1, <2>1, <2>2, <2>3, <2>4, Sizes DEF Paired, FreshIds
<1>7. CallBounds'
  <2>1. /\ (call - 1) * Blocks \in Int /\ Issued \in Int
        /\ nxt \in Int /\ first \in Int /\ last \in Int
    BY <1>1, Sizes DEF TypeOK, Lbas
  <2>2. Issued + 1 <= (call - 1) * Blocks + (nxt + 1 - first)
    BY <1>2, <2>1 DEF Paired, CallBounds
  <2>3. QED
    BY <1>2, <1>3, <2>1, <2>2 DEF Paired, CallBounds
<1>8. FreshIds'
  <2>1. \A c \in cmds' : c.cid < Issued + 1
    BY <1>1, <1>4, <1>6
  <2>2. \A f \in flight' : f.cid < Issued + 1
    BY <1>1, <1>5, <1>6
  <2>3. \A i \in 1 .. Len(wire) :
          wire[i].type \in {"resp", "data"} =>
            wire[i].cid < Issued + 1 \/ wire[i].cid = CidSpace - 1
    BY <1>1, <1>6 DEF Paired, FreshIds
  <2>4. \A f, g \in flight' : f.cid = g.cid => f = g
    BY <1>1, <1>5, <1>6 DEF Paired, FreshIds
  <2>5. QED
    BY <1>2, <1>3, <2>1, <2>2, <2>3, <2>4 DEF FreshIds
<1>9. SameBlock'
  <2> SUFFICES ASSUME NEW f \in flight'
               PROVE  /\ \A c \in cmds' : c.cid = f.cid => c.at = f.at /\ c.op = pc
                      /\ \A i \in 1 .. Len(wire) :
                           IsAbout("data", i, f) => wire[i].from = f.at
    BY <1>2 DEF SameBlock, IsAbout
  <2>1. CASE f \in flight
    BY <1>1, <1>4, <1>6, <2>1 DEF Paired, SameBlock
  <2>2. CASE f = n
    BY <1>1, <1>4, <1>5, <1>6, <2>2 DEF IsAbout
  <2>3. QED
    BY <1>5, <2>1, <2>2
<1>10. PartsFirst'
  <2> SUFFICES ASSUME pc = "read", NEW f \in flight'
               PROVE  /\ \A c \in cmds' : c.cid = f.cid =>
                           \A p \in 1 .. c.sent : OnItsWay(f, p, Len(wire))
                      /\ \A i \in 1 .. Len(wire) :
                           \/ IsAbout("resp", i, f) /\ wire[i].ok
                           \/ IsAbout("data", i, f) /\ wire[i].done
                           => \A p \in 1 .. Parts : OnItsWay(f, p, i)
    BY <1>2 DEF PartsFirst, IsAbout, OnItsWay, Filled
  <2>1. CASE f \in flight
    <3>1. \A c \in cmds' : c.cid = f.cid =>
            \A p \in 1 .. c.sent : OnItsWay(f, p, Len(wire))
      BY <1>1, <1>4, <1>6, <2>1 DEF Paired, PartsFirst
    <3>2. QED
      BY <2>1, <3>1 DEF Paired, PartsFirst
  <2>2. CASE f = n
    <3>1. \A c \in cmds' : c.cid = f.cid => c.sent = 0
      BY <1>1, <1>4, <1>5, <1>6, <2>2
    <3>2. \A i \in 1 .. Len(wire) : ~IsAbout("resp", i, f) /\ ~IsAbout("data", i, f)
      BY <1>1, <1>5, <1>6, <2>2 DEF IsAbout
    <3>3. QED
      BY <3>1, <3>2
  <2>3. QED
    BY <1>5, <2>1, <2>2
<1>11. AskedOrFilled'
  <2> SUFFICES ASSUME pc = "read", ~failed, NEW b \in first .. nxt
               PROVE  \/ \E f \in flight' : f.at = b
                      \/ \A p \in 1 .. Parts : Filled(b, p)
    <3>1. nxt \in Int /\ first \in Int
      BY Sizes DEF TypeOK, Lbas
    <3>2. first' .. (nxt' - 1) = first .. nxt
      BY <1>2, <3>1
    <3>3. QED
      BY <1>2, <3>2 DEF AskedOrFilled, Filled
  <2>1. CASE b = nxt
    BY <1>5, <2>1
  <2>2. CASE b # nxt
    <3>1. b \in first .. nxt - 1
      BY <2>2, Sizes DEF TypeOK, Lbas
    <3>2. QED
      BY <1>5, <3>1 DEF Paired, AskedOrFilled
  <2>3. QED
    BY <2>1, <2>2
<1>12. ReadsOwnBlocks'
  BY <1>2 DEF ReadsOwnBlocks
<1>13. QED
  BY <1>7, <1>8, <1>9, <1>10, <1>11, <1>12 DEF Paired

\* Data for a command in flight goes where its own block is: what was filled
\* stays filled, and when a command ends with it the block is full.
LEMMA DataLands ==
    ASSUME TypeOK, Paired, GotData
    PROVE  /\ flight' \subseteq flight
           /\ \A b \in Lbas, p \in 1 .. Parts : Filled(b, p) => Filled(b, p)'
           /\ \A f \in flight', p \in 1 .. Parts :
                IsAbout("data", 1, f) /\ wire[1].part = p => Filled(f.at, p)'
           /\ \A f \in flight \ flight', p \in 1 .. Parts : Filled(f.at, p)'
<1>1. /\ Head(wire) = wire[1] /\ wire[1] \in Pdu /\ wire[1].type = "data"
      /\ 1 \in 1 .. Len(wire) /\ pc = "read"
  BY DEF GotData, Receive, TypeOK
<1>2. PICK g \in flight :
        /\ g.cid = wire[1].cid
        /\ buf' = [buf EXCEPT ![g.at][wire[1].part] =
                     [from |-> wire[1].from, bytes |-> wire[1].bytes]]
        /\ flight' = IF wire[1].done THEN flight \ {g} ELSE flight
  BY <1>1 DEF GotData, About
<1>3. IsAbout("data", 1, g) /\ wire[1].from = g.at
  BY <1>1, <1>2 DEF Paired, SameBlock, IsAbout
<1>4. g.at \in Lbas /\ wire[1].part \in 1 .. Parts
  BY <1>1, PduFields DEF TypeOK
<1>5. buf'[g.at][wire[1].part].from = g.at
  BY <1>2, <1>3, <1>4 DEF TypeOK
<1>6. ASSUME NEW b \in Lbas, NEW p \in 1 .. Parts, Filled(b, p)
      PROVE  Filled(b, p)'
  BY <1>2, <1>4, <1>5, <1>6 DEF Filled, TypeOK
<1>7. ASSUME NEW f \in flight, f.cid = wire[1].cid
      PROVE  f = g
  BY <1>2, <1>7 DEF Paired, FreshIds
<1>8. ASSUME NEW f \in flight \ flight', NEW p \in 1 .. Parts
      PROVE  Filled(f.at, p)'
  <2>1. f = g /\ wire[1].done
    BY <1>2, <1>8
  <2>2. OnItsWay(g, p, 1)
    BY <1>1, <1>3, <2>1 DEF Paired, PartsFirst
  <2>3. CASE Filled(g.at, p)
    BY <1>4, <1>6, <2>1, <2>3
  <2>4. CASE wire[1].part = p
    BY <1>5, <2>1, <2>4 DEF Filled
  <2>5. QED
    BY <2>2, <2>3, <2>4 DEF OnItsWay
<1>9. flight' \subseteq flight
  BY <1>2
<1>10. ASSUME NEW f \in flight', NEW p \in 1 .. Parts,
              IsAbout("data", 1, f), wire[1].part = p
       PROVE  Filled(f.at, p)'
  <2>1. f = g
    BY <1>7, <1>9, <1>10 DEF IsAbout
  <2>2. QED
    BY <1>5, <1>10, <2>1 DEF Filled
<1>11. QED
  BY <1>6, <1>8, <1>9, <1>10

\* What the call has in flight, what the controller holds and what is on the
\* wire belong together in every state.
LEMMA AlwaysPaired == Spec => []Paired
<1>1. Init => Paired
  <2> SUFFICES ASSUME Init PROVE Paired
    OBVIOUS
  <2>1. Issued = 0 /\ call = 0 /\ 0 <= 0 * Blocks
    BY Sizes DEF Init, Issued
  <2>2. CallBounds
    BY <2>1 DEF Init, CallBounds
  <2>3. FreshIds /\ SameBlock /\ PartsFirst /\ AskedOrFilled /\ ReadsOwnBlocks
    BY DEF Init, FreshIds, SameBlock, PartsFirst, AskedOrFilled, ReadsOwnBlocks
  <2>4. QED
    BY <2>2, <2>3 DEF Paired
<1>2. TypeOK /\ Paired /\ [Next]_vars => Paired'
  <2> SUFFICES ASSUME TypeOK, Paired, [Next]_vars PROVE Paired'
    OBVIOUS
  <2>1. CASE Calls
    <3>1. PICK op \in {"read", "write"}, b \in Lbas, e \in Lbas : Begin(op, b, e)
      BY <2>1 DEF Calls
    <3>2. /\ pc = "idle" /\ pc' \in {"read", "write"} /\ cid' = cid
          /\ flight' = flight /\ nxt' = b /\ first' = b /\ last' = e /\ b <= e
          /\ call' = call + 1 /\ ~good' /\ cmds' = cmds /\ wire' = wire
      BY <3>1 DEF Begin, target
    <3>3. flight = {}
      BY <3>2 DEF Paired, CallBounds
    <3>4. CallBounds'
      <4>1. call \in Nat /\ b \in Int /\ e \in Int /\ Issued \in Int
            /\ call * Blocks \in Int
        BY Sizes DEF TypeOK, Lbas, Issued, Cids
      <4>2. call' - 1 = call /\ nxt' - first' = 0 /\ Issued' = Issued
        BY <3>2, <4>1 DEF Issued
      <4>3. Issued <= call * Blocks + 0
        BY <3>2, <4>1 DEF Paired, CallBounds
      <4>4. call' >= 1 /\ first' <= nxt' /\ nxt' <= last' + 1 /\ pc' # "idle"
        BY <3>2, <4>1
      <4>5. Issued' <= (call' - 1) * Blocks + (nxt' - first')
        BY <4>2, <4>3
      <4>6. QED
        BY <4>4, <4>5 DEF CallBounds
    <3>5. FreshIds'
      BY <3>2 DEF Paired, FreshIds, Issued
    <3>6. SameBlock' /\ PartsFirst' /\ ReadsOwnBlocks'
      BY <3>2, <3>3 DEF SameBlock, PartsFirst, ReadsOwnBlocks
    <3>7. AskedOrFilled'
      BY <3>2, Sizes DEF AskedOrFilled, Lbas
    <3>8. QED
      BY <3>4, <3>5, <3>6, <3>7 DEF Paired
  <2>2. CASE Issue
    BY <2>2, Issues
  <2>3. CASE SendFails \/ GiveUp \/ Timeout
    <3>1. Return(FALSE) /\ pc # "idle" /\ wire' = wire /\ cmds' = cmds
      BY <2>3 DEF SendFails, GiveUp, Timeout, Waiting, MayIssue, target
    <3>2. QED
      BY <3>1, Returned
  <2>4. CASE Finish
    <3>1. /\ Return(~failed) /\ pc # "idle" /\ wire' = wire /\ cmds' = cmds
          /\ flight = {} /\ ~MayIssue
      BY <2>4, Zenon DEF Finish, target
    <3>2. ASSUME ~failed, pc = "read" PROVE nxt > last
      <4>1. Cardinality(flight) = 0
        BY <3>1, FS_EmptySet
      <4>2. QED
        BY <3>1, <3>2, <4>1, Sizes DEF MayIssue, TypeOK, Lbas
    <3>3. (~failed) \in BOOLEAN
      OBVIOUS
    <3>4. QED
      BY <3>1, <3>2, <3>3, Returned
  <2>5. CASE Refuse
    <3>1. /\ Return(FALSE) /\ pc # "idle" /\ cmds' = cmds
          /\ wire # <<>> /\ wire' = Tail(wire)
      BY <2>5 DEF Refuse, Receive, Waiting
    <3>2. QED
      BY <3>1, Returned
  <2>6. ASSUME wire # <<>> PROVE Head(wire) = wire[1] /\ 1 \in 1 .. Len(wire)
                                 /\ wire[1] \in Pdu
    BY <2>6 DEF TypeOK
  <2>7. ASSUME buf' = buf, NEW b, NEW p PROVE Filled(b, p)' <=> Filled(b, p)
    BY <2>7 DEF Filled
  <2>8. CASE SkipStale
    <3>1. /\ wire # <<>> /\ wire' = Tail(wire) /\ pc # "idle" /\ About = {}
          /\ UNCHANGED <<pc, cid, nxt, last, observers>>
          /\ UNCHANGED <<cmds, flight, failed, buf>>
      BY <2>8 DEF SkipStale, Receive, Waiting, Reads
    <3>2. \A f \in flight : ~IsAbout("data", 1, f)
      BY <2>6, <3>1 DEF About, IsAbout
    <3>3. QED
      BY <2>7, <3>1, <3>2, Received
  <2>9. CASE Completed
    <3>1. /\ wire # <<>> /\ wire' = Tail(wire) /\ pc # "idle"
          /\ wire[1].type = "resp" /\ wire[1] \in Pdu /\ 1 \in 1 .. Len(wire)
          /\ failed' = (failed \/ ~wire[1].ok)
          /\ flight' = flight \ About
          /\ UNCHANGED <<pc, cid, nxt, last, observers>>
          /\ UNCHANGED <<cmds, buf>>
          /\ About = {f \in flight : f.cid = wire[1].cid}
      BY <2>6, <2>9, Zenon DEF Completed, Receive, Waiting, Reads, About
    <3>2. ASSUME NEW f \in flight \ flight', pc = "read", ~failed',
                 NEW p \in 1 .. Parts
          PROVE  Filled(f.at, p)
      <4>1. IsAbout("resp", 1, f) /\ wire[1].ok
        BY <3>1, <3>2 DEF IsAbout
      <4>2. OnItsWay(f, p, 1)
        BY <3>1, <3>2, <4>1 DEF Paired, PartsFirst
      <4>3. QED
        BY <3>1, <4>2 DEF OnItsWay, IsAbout
    <3>3. \A f \in flight : ~IsAbout("data", 1, f)
      BY <3>1 DEF IsAbout
    <3>4. flight' \subseteq flight /\ (failed => failed')
      BY <3>1
    <3>5. QED
      BY <2>7, <3>1, <3>2, <3>3, <3>4, Received
  <2>10. CASE GotData
    <3>1. /\ wire # <<>> /\ wire' = Tail(wire) /\ pc # "idle"
          /\ UNCHANGED <<pc, cid, nxt, last, observers>>
          /\ UNCHANGED <<cmds, failed>>
      BY <2>10 DEF GotData, Receive, Waiting, Reads
    <3>2. QED
      BY <2>10, <3>1, DataLands, Received
  <2>11. CASE AnswerR2T
    <3>1. /\ wire # <<>> /\ wire' = Tail(wire) /\ pc = "write"
          /\ UNCHANGED <<pc, cid, nxt, last, observers>>
          /\ UNCHANGED <<flight, failed, buf>>
      BY <2>11 DEF AnswerR2T, Receive, Reads
    <3>2. \A e \in cmds' : \E c \in cmds :
            e.cid = c.cid /\ e.at = c.at /\ e.op = c.op /\ e.sent = c.sent
      <4>1. PICK f \in flight :
              cmds' = {IF c.cid = Head(wire).cid /\ c.op = "write"
                       THEN [c EXCEPT !.got = Append(@, <<call, f.at>>)]
                       ELSE c : c \in cmds}
        BY <2>11 DEF AnswerR2T
      <4>2. SUFFICES ASSUME NEW e \in cmds'
                     PROVE  \E c \in cmds :
                              /\ e.cid = c.cid /\ e.at = c.at
                              /\ e.op = c.op /\ e.sent = c.sent
        OBVIOUS
      <4>3. PICK c \in cmds :
              e \in {c, [c EXCEPT !.got = Append(@, <<call, f.at>>)]}
        BY <4>1, Zenon
      <4>4. c \in Command
        BY DEF TypeOK
      <4>5. /\ e.cid = c.cid /\ e.at = c.at
            /\ e.op = c.op /\ e.sent = c.sent
        <5>1. CASE e = c
          BY <5>1
        <5>2. CASE e = [c EXCEPT !.got = Append(@, <<call, f.at>>)]
          BY <4>4, <5>2 DEF Command
        <5>3. QED
          BY <4>3, <5>1, <5>2
      <4>6. QED
        BY <4>5
    <3>3. QED
      BY <3>1, <3>2, Received
  <2>12. ASSUME NEW c \in cmds
         PROVE  c \in Command /\ c.cid < Issued
    BY DEF TypeOK, Paired, FreshIds
  <2>13. ASSUME NEW c \in cmds, NEW f \in flight, c.cid = f.cid
         PROVE  c.at = f.at /\ c.op = pc
    BY <2>13 DEF Paired, SameBlock
  <2>14. CASE \E c \in cmds : ServeRead(c)
    <3>1. PICK c \in cmds : ServeRead(c)
      BY <2>14
    <3> DEFINE served == [c EXCEPT !.sent = @ + 1]
    <3>2. PICK done \in BOOLEAN :
            /\ done => served.sent = Parts
            /\ Send([type |-> "data", cid |-> c.cid, part |-> served.sent,
                     from |-> c.at, bytes |-> disk[c.at][served.sent],
                     done |-> done])
            /\ cmds' = (cmds \ {c}) \cup (IF done THEN {} ELSE {served})
      BY <3>1 DEF ServeRead
    <3>3. /\ served.sent = c.sent + 1 /\ served.sent \in 1 .. Parts
          /\ served.cid = c.cid /\ served.at = c.at /\ served.op = c.op
          /\ c.sent \in Nat
      <4>1. c \in Command /\ c.sent < Parts
        BY <2>12, <3>1 DEF ServeRead
      <4>2. c.sent \in Nat /\ c.sent + 1 \in 1 .. Parts
        BY <4>1, CommandFields, Sizes
      <4>3. /\ served.sent = c.sent + 1
            /\ served.cid = c.cid /\ served.at = c.at /\ served.op = c.op
        BY <4>1 DEF Command
      <4>4. QED
        BY <4>2, <4>3
    <3>4. PICK d : /\ d.type = "data" /\ d.cid = c.cid /\ d.part = served.sent
                   /\ d.from = c.at /\ d.done = done /\ d \in Pdu /\ Send(d)
      <4>1. disk[c.at][served.sent] \in Bytes
        <5> HIDE DEF served
        <5>1. c.at \in Lbas
          BY <2>12, CommandFields
        <5>2. QED
          BY <3>3, <5>1, DiskByte
      <4>2. [type |-> "data", cid |-> c.cid, part |-> served.sent, from |-> c.at,
             bytes |-> disk[c.at][served.sent], done |-> done] \in Pdu
        BY <2>12, <3>3, <4>1, CommandFields DEF Pdu
      <4>3. QED
        BY <3>2, <4>2
    <3>5. \A e \in cmds' : \E b \in cmds :
            /\ e.cid = b.cid /\ e.at = b.at /\ e.op = b.op
            /\ \/ e.sent = b.sent
               \/ e.sent = b.sent + 1 /\ b.op = "write"
               \/ /\ e.sent = b.sent + 1
                  /\ d.type = "data" /\ d.cid = b.cid /\ d.part = e.sent
      BY <3>2, <3>3, <3>4
    <3>6. \A f \in flight : d.type = "data" /\ d.cid = f.cid => d.from = f.at
      BY <2>13, <3>4
    <3>7. ASSUME pc = "read", NEW f \in flight,
                 \/ d.type = "resp" /\ d.cid = f.cid /\ d.ok
                 \/ d.type = "data" /\ d.cid = f.cid /\ d.done,
                 NEW p \in 1 .. Parts
          PROVE  \/ OnItsWay(f, p, Len(wire))
                 \/ d.type = "data" /\ d.part = p
      <4>1. c.cid = f.cid /\ c.sent + 1 = Parts /\ d.part = Parts
        BY <3>2, <3>3, <3>4, <3>7
      <4>2. CASE p \in 1 .. c.sent
        BY <3>7, <4>1, <4>2 DEF Paired, PartsFirst
      <4>3. CASE p = Parts
        BY <3>4, <4>1, <4>3
      <4>4. QED
        BY <3>3, <4>1, <4>2, <4>3, Sizes
    <3>8. UNCHANGED <<host, observers>> /\ d.cid < Issued
      BY <2>12, <3>1, <3>4 DEF ServeRead
    <3>9. QED
      BY <3>4, <3>5, <3>6, <3>7, <3>8, Sent
  <2>15. CASE \E c \in cmds : AskData(c)
    <3>1. PICK c \in cmds : AskData(c)
      BY <2>15
    <3>2. /\ [c EXCEPT !.sent = @ + 1].sent = c.sent + 1
          /\ [c EXCEPT !.sent = @ + 1].cid = c.cid
          /\ [c EXCEPT !.sent = @ + 1].at = c.at
          /\ [c EXCEPT !.sent = @ + 1].op = c.op
          /\ c.op = "write" /\ c.sent + 1 \in 1 .. Parts
      <4>1. c \in Command /\ c.sent < Parts
        BY <2>12, <3>1 DEF AskData
      <4>2. c.sent + 1 \in 1 .. Parts
        BY <4>1, CommandFields, Sizes
      <4>3. /\ [c EXCEPT !.sent = @ + 1].sent = c.sent + 1
            /\ [c EXCEPT !.sent = @ + 1].cid = c.cid
            /\ [c EXCEPT !.sent = @ + 1].at = c.at
            /\ [c EXCEPT !.sent = @ + 1].op = c.op
        BY <4>1 DEF Command
      <4>4. QED
        BY <3>1, <4>2, <4>3 DEF AskData
    <3>3. PICK d \in Pdu : d.type = "r2t" /\ Send(d)
      <4>1. [type |-> "r2t", cid |-> c.cid, part |-> c.sent + 1] \in Pdu
        BY <2>12, <3>2, CommandFields DEF Pdu
      <4>2. QED
        BY <3>1, <4>1 DEF AskData
    <3>4. \A e \in cmds' : \E b \in cmds :
            /\ e.cid = b.cid /\ e.at = b.at /\ e.op = b.op
            /\ \/ e.sent = b.sent
               \/ e.sent = b.sent + 1 /\ b.op = "write"
      BY <3>1, <3>2 DEF AskData
    <3>5. UNCHANGED <<host, observers>>
      BY <3>1 DEF AskData
    <3>6. QED
      BY <3>3, <3>4, <3>5, Sent
  <2>16. ASSUME NEW c \in cmds, CompleteRead(c) \/ CompleteWrite(c) \/ Fail(c)
         PROVE  Paired'
    <3>1. PICK d \in Pdu :
            /\ d.type = "resp" /\ d.cid = c.cid /\ Send(d)
            /\ d.ok => CompleteRead(c) \/ CompleteWrite(c)
      <4>1. \A ok \in BOOLEAN :
              [type |-> "resp", cid |-> c.cid, ok |-> ok] \in Pdu
        BY <2>12, CommandFields DEF Pdu
      <4>2. QED
        BY <2>16, <4>1 DEF CompleteRead, CompleteWrite, Fail
    <3>2. cmds' \subseteq cmds /\ UNCHANGED <<host, observers>>
      BY <2>16 DEF CompleteRead, CompleteWrite, Fail
    <3>3. ASSUME pc = "read", NEW f \in flight, d.cid = f.cid, d.ok,
                 NEW p \in 1 .. Parts
          PROVE  OnItsWay(f, p, Len(wire))
      <4>1. c.op = "read"
        BY <2>13, <3>1, <3>3
      <4>2. c.sent = Parts
        BY <3>1, <3>3, <4>1 DEF CompleteRead, CompleteWrite
      <4>3. QED
        BY <3>1, <3>3, <4>2 DEF Paired, PartsFirst
    <3>4. d.cid < Issued
      BY <2>12, <3>1
    <3>5. QED
      BY <3>1, <3>2, <3>3, <3>4, Sent
  <2>17. CASE Junk
    <3>1. cmds' = cmds /\ UNCHANGED <<host, observers>>
      BY <2>17 DEF Junk
    <3>2. CASE Send([type |-> "resp", cid |-> CidSpace - 1, ok |-> TRUE])
      <4>1. PICK d \in Pdu : d.type = "resp" /\ d.cid = CidSpace - 1 /\ Send(d)
        <5>1. [type |-> "resp", cid |-> CidSpace - 1, ok |-> TRUE] \in Pdu
          BY Sizes DEF Pdu, Cids
        <5>2. QED
          BY <3>2, <5>1
      <4>2. \A f \in flight : f.cid # CidSpace - 1
        <5>1. Issued \in Nat /\ Issued <= CidSpace - 1
          BY Sizes DEF Issued, TypeOK, Cids
        <5>2. \A f \in flight : f.cid \in Nat /\ f.cid < Issued
          BY DEF Paired, FreshIds, TypeOK, Cids
        <5>3. QED
          BY <5>1, <5>2, Sizes
      <4>3. QED
        BY <3>1, <4>1, <4>2, Sent
    <3>3. CASE \E c \in cmds :
                 /\ c.op = "write"
                 /\ Send([type |-> "data", cid |-> c.cid, part |-> 1,
                          from |-> c.at, bytes |-> disk[c.at][1],
                          done |-> FALSE])
      <4>1. PICK c \in cmds :
                 /\ c.op = "write"
                 /\ Send([type |-> "data", cid |-> c.cid, part |-> 1,
                          from |-> c.at, bytes |-> disk[c.at][1],
                          done |-> FALSE])
        BY <3>3
      <4>2. [type |-> "data", cid |-> c.cid, part |-> 1, from |-> c.at,
             bytes |-> disk[c.at][1], done |-> FALSE] \in Pdu
        BY <2>12, CommandFields, Sizes DEF Pdu, TypeOK
      <4>3. PICK d \in Pdu : /\ d.type = "data" /\ d.cid = c.cid
                             /\ d.from = c.at /\ ~d.done /\ Send(d)
        BY <4>1, <4>2
      <4>4. \A f \in flight : d.cid = f.cid => d.from = f.at
        BY <2>13, <4>3
      <4>5. d.cid < Issued
        BY <2>12, <4>3
      <4>6. QED
        BY <3>1, <4>3, <4>4, <4>5, Sent
    <3>4. QED
      BY <2>17, <3>2, <3>3 DEF Junk
  <2>18. CASE Terminate
    <3>1. PICK d \in Pdu : d.type = "term" /\ Send(d)
      <4>1. [type |-> "term"] \in Pdu
        BY DEF Pdu
      <4>2. QED
        BY <2>18, <4>1 DEF Terminate
    <3>2. cmds' = {} /\ UNCHANGED <<host, observers>>
      BY <2>18 DEF Terminate
    <3>3. QED
      BY <3>1, <3>2, Sent
  <2>19. CASE UNCHANGED vars
    BY <2>19 DEF vars, target, host, observers, Paired, CallBounds, FreshIds,
       SameBlock, PartsFirst, AskedOrFilled, ReadsOwnBlocks, Issued, IsAbout,
       OnItsWay, Filled
  <2>20. QED
    BY <2>1, <2>2, <2>3, <2>4, <2>5, <2>8, <2>9, <2>10, <2>11, <2>14, <2>15,
       <2>16, <2>17, <2>18, <2>19
       DEF Next, HostStep, Controller
<1>3. QED
  BY <1>1, <1>2, TypeCorrect, PTL DEF Spec

\* A read that reports success has put in each block of the caller's buffer that
\* block's own data, however many commands it kept in flight, in whatever order
\* the controller served them, and whatever earlier calls gave up on was still
\* arriving (read, took and next_cid).
THEOREM ReadsCorrect == Spec => []ReadsOwnBlocks
<1>1. Paired => ReadsOwnBlocks
  BY DEF Paired
<1>2. QED
  BY <1>1, AlwaysPaired, PTL

------------------------------------------------------------------------------
(* What the controller holds and what is on the disk, as long as no call   *)
(* was left half way.                                                      *)

\* The PDUs the host has not read, and those of them that end a command.
Arriving == {wire[i] : i \in 1 .. Len(wire)}

Ends(d) == d.type = "resp" \/ (d.type = "data" /\ d.done)

\* Every command the controller holds is one of the call's in flight, and is
\* over there before it is over here.
Matched ==
    /\ \A c \in cmds : \E f \in flight : f.cid = c.cid
    /\ \A c, d \in cmds : c.cid = d.cid => c = d
    /\ \A d \in Arriving, c \in cmds : Ends(d) => d.cid # c.cid
    /\ IsFiniteSet(flight) /\ Cardinality(flight) <= Depth
    /\ \A f \in flight : f.at \in first .. nxt - 1
    /\ pc = "write" => \A f, g \in flight : f = g

\* Block b holds what call n wrote there.
Holds(b, n) == \A p \in 1 .. Parts : disk[b][p] = <<n, b>>

\* A block is as the last write reported done left it, but for those the write
\* in progress has reached, and it fills those with its own bytes.
OnDisk ==
    /\ \A b \in Lbas :
         sure[b] # Unsure /\ ~(pc = "write" /\ b \in first .. nxt - 1)
           => Holds(b, sure[b])
    /\ pc = "write" =>
         /\ \A c \in cmds : \A k \in 1 .. Len(c.got) : c.got[k] = <<call, c.at>>
         /\ \A f \in flight, d \in Arriving :
              d.type = "resp" /\ d.ok /\ d.cid = f.cid => Holds(f.at, call)
         /\ ~failed => \A b \in first .. nxt - 1 :
                         (\E f \in flight : f.at = b) \/ Holds(b, call)

\* What a read is sent, and has, is what is on the disk.
InBuffer ==
    /\ pc = "read" =>
         \A f \in flight, d \in Arriving :
           d.type = "data" /\ d.cid = f.cid /\ sure[f.at] # Unsure
             => d.bytes = <<sure[f.at], f.at>>
    /\ pc = "read" \/ (pc = "idle" /\ good) =>
         \A b \in Lbas, p \in 1 .. Parts :
           Filled(b, p) /\ sure[b] # Unsure => buf[b][p].bytes = <<sure[b], b>>

Tallied == Matched /\ OnDisk /\ InBuffer

\* The inductive invariant of InOrder.
KeptInOrder == ~left => Tallied

\* Taking the head off the wire adds nothing to what arrives.
LEMMA ArrivingTail ==
    ASSUME TypeOK, wire # <<>>, wire' = Tail(wire)
    PROVE  Arriving' \subseteq Arriving /\ Head(wire) \in Arriving
<1>1. /\ wire \in Seq(Pdu) /\ Len(wire) \in Nat /\ Len(wire) >= 1
      /\ Len(wire') = Len(wire) - 1 /\ Head(wire) = wire[1]
      /\ \A i \in 1 .. Len(wire) - 1 : wire'[i] = wire[i + 1]
  BY DEF TypeOK
<1>2. \A i \in 1 .. Len(wire') : i + 1 \in 1 .. Len(wire) /\ wire'[i] = wire[i + 1]
  BY <1>1
<1>3. Head(wire) \in Arriving
  <2>1. 1 \in 1 .. Len(wire)
    BY <1>1
  <2>2. QED
    BY <1>1, <2>1 DEF Arriving
<1>4. ASSUME NEW d \in Arriving' PROVE d \in Arriving
  <2>1. PICK i \in 1 .. Len(wire') : d = wire'[i]
    BY <1>4, Zenon DEF Arriving
  <2>2. i + 1 \in 1 .. Len(wire) /\ d = wire[i + 1]
    BY <1>2, <2>1
  <2>3. QED
    BY <2>2, Zenon DEF Arriving
<1>5. QED
  BY <1>3, <1>4

\* Sending adds what is sent, and nothing else, to what arrives.
LEMMA ArrivingSent ==
    ASSUME TypeOK, NEW d \in Pdu, Send(d)
    PROVE  Arriving' \subseteq Arriving \cup {d}
<1>1. /\ wire \in Seq(Pdu) /\ Len(wire) \in Nat /\ Len(wire') = Len(wire) + 1
      /\ wire'[Len(wire) + 1] = d
      /\ \A i \in 1 .. Len(wire) : wire'[i] = wire[i]
  BY DEF TypeOK, Send
<1>2. \A i \in 1 .. Len(wire') : (i \in 1 .. Len(wire) /\ wire'[i] = wire[i]) \/ wire'[i] = d
  BY <1>1
<1>3. QED
  BY <1>2, Zenon DEF Arriving

\* No identifier under way for the call is that of the completion nobody waits for.
LEMMA NotTheSpare ==
    ASSUME TypeOK, Paired
    PROVE  /\ Issued \in Nat /\ Issued <= CidSpace - 1
           /\ \A c \in cmds : c.cid # CidSpace - 1
           /\ \A f \in flight : f.cid # CidSpace - 1
<1>1. Issued \in Nat /\ Issued <= CidSpace - 1
  BY Sizes DEF Issued, TypeOK, Cids
<1>2. \A c \in cmds : c.cid \in Nat /\ c.cid < Issued
  BY CommandFields DEF Paired, FreshIds, TypeOK, Cids
<1>3. \A f \in flight : f.cid \in Nat /\ f.cid < Issued
  BY DEF Paired, FreshIds, TypeOK, Cids
<1>4. QED
  BY <1>1, <1>2, <1>3, Sizes

\* A PDU comes off the wire.
LEMMA ReceivedTallied ==
    ASSUME TypeOK, Tallied, wire # <<>>, wire' = Tail(wire),
           UNCHANGED <<pc, nxt, first, sure, call, disk>>,
           pc # "idle",
           \A e \in cmds' : \E c \in cmds : e.cid = c.cid,
           \A d, e \in cmds' : d.cid = e.cid => d = e,
           pc = "write" =>
             \A e \in cmds' : \A k \in 1 .. Len(e.got) : e.got[k] = <<call, e.at>>,
           flight' \subseteq flight,
           \A f \in flight \ flight' :
             /\ Ends(Head(wire)) /\ f.cid = Head(wire).cid
             /\ pc = "write" => failed' \/ (Head(wire).type = "resp" /\ Head(wire).ok),
           failed => failed',
           pc = "read" =>
             \A b \in Lbas, p \in 1 .. Parts :
               Filled(b, p)' /\ sure[b] # Unsure => buf'[b][p].bytes = <<sure[b], b>>
    PROVE  Tallied'
<1>1. Arriving' \subseteq Arriving /\ Head(wire) \in Arriving
  BY ArrivingTail
<1>2. Matched'
  <2>1. ASSUME NEW e \in cmds' PROVE \E f \in flight' : f.cid = e.cid
    <3>1. PICK c \in cmds : e.cid = c.cid
      OBVIOUS
    <3>2. PICK f \in flight : f.cid = c.cid
      BY DEF Tallied, Matched
    <3>3. f \in flight'
      BY <1>1, <3>2 DEF Tallied, Matched
    <3>4. QED
      BY <3>1, <3>2, <3>3
  <2>2. \A d \in Arriving', e \in cmds' : Ends(d) => d.cid # e.cid
    BY <1>1 DEF Tallied, Matched
  <2>3. IsFiniteSet(flight') /\ Cardinality(flight') <= Depth
    <3>1. IsFiniteSet(flight) /\ Cardinality(flight) <= Depth
      BY DEF Tallied, Matched
    <3>2. IsFiniteSet(flight') /\ Cardinality(flight') <= Cardinality(flight)
      BY <3>1, FS_Subset
    <3>3. Cardinality(flight) \in Nat /\ Cardinality(flight') \in Nat
      BY <3>1, <3>2, FS_CardinalityType
    <3>4. QED
      BY <3>1, <3>2, <3>3, Sizes
  <2>4. \A f \in flight' : f.at \in first .. nxt - 1
    BY DEF Tallied, Matched
  <2>5. pc = "write" => \A f, g \in flight' : f = g
    BY DEF Tallied, Matched
  <2>6. \A d \in Arriving', e \in cmds' : Ends(d)' => d.cid # e.cid
    BY <2>2 DEF Ends
  <2>7. QED
    BY <2>1, <2>3, <2>4, <2>5, <2>6 DEF Matched
<1>3. OnDisk'
  <2>1. \A b, n : Holds(b, n)' <=> Holds(b, n)
    BY DEF Holds
  <2>2. ASSUME pc = "write", ~failed', NEW b \in first .. nxt - 1
        PROVE  (\E f \in flight' : f.at = b) \/ Holds(b, call)
    <3>1. CASE \E f \in flight : f.at = b
      <4>1. PICK f \in flight : f.at = b
        BY <3>1
      <4>2. CASE f \in flight'
        BY <4>1, <4>2
      <4>3. CASE f \notin flight'
        BY <1>1, <2>2, <4>1, <4>3 DEF Tallied, OnDisk
      <4>4. QED
        BY <4>2, <4>3
    <3>2. CASE Holds(b, call)
      BY <3>2
    <3>3. QED
      BY <2>2, <3>1, <3>2 DEF Tallied, OnDisk
  <2>3. ASSUME NEW b \in Lbas, sure[b] # Unsure,
               ~(pc = "write" /\ b \in first .. nxt - 1)
        PROVE  Holds(b, sure[b])
    BY <2>3 DEF Tallied, OnDisk
  <2>4. ASSUME pc = "write", NEW f \in flight', NEW d \in Arriving',
               d.type = "resp", d.ok, d.cid = f.cid
        PROVE  Holds(f.at, call)
    BY <1>1, <2>4 DEF Tallied, OnDisk
  <2>5. QED
    BY <2>1, <2>2, <2>3, <2>4 DEF OnDisk
<1>4. InBuffer'
  <2>1. ASSUME pc = "read", NEW f \in flight', NEW d \in Arriving',
               d.type = "data", d.cid = f.cid, sure[f.at] # Unsure
        PROVE  d.bytes = <<sure[f.at], f.at>>
    BY <1>1, <2>1 DEF Tallied, InBuffer
  <2>2. QED
    BY <2>1 DEF InBuffer
<1>5. QED
  BY <1>2, <1>3, <1>4 DEF Tallied

\* The controller sends d, and may have put a block on the disk.
LEMMA SentTallied ==
    ASSUME TypeOK, Tallied, NEW d \in Pdu, Send(d), UNCHANGED <<host, observers>>,
           \A e \in cmds' : \E c \in cmds :
             e.cid = c.cid /\ e.at = c.at /\ e.got = c.got,
           \A b, e \in cmds' : b.cid = e.cid => b = e,
           Ends(d) => \A e \in cmds' : e.cid # d.cid,
           \A b \in Lbas : \/ disk'[b] = disk[b]
                           \/ /\ pc = "write" /\ b \in first .. nxt - 1
                              /\ \A p \in 1 .. Parts : disk'[b][p] = <<call, b>>,
           \A f \in flight : d.type = "resp" /\ d.ok /\ d.cid = f.cid /\ pc = "write"
                               => \A p \in 1 .. Parts : disk'[f.at][p] = <<call, f.at>>,
           \A f \in flight : d.type = "data" /\ d.cid = f.cid /\ sure[f.at] # Unsure
                               /\ pc = "read" => d.bytes = <<sure[f.at], f.at>>
    PROVE  Tallied'
<1>1. Arriving' \subseteq Arriving \cup {d}
  BY ArrivingSent
<1>2. /\ pc' = pc /\ nxt' = nxt /\ flight' = flight /\ failed' = failed /\ buf' = buf
      /\ call' = call /\ first' = first /\ good' = good /\ sure' = sure
  BY DEF host, observers
<1>3. Matched'
  <2>1. \A e \in cmds' : \E f \in flight : f.cid = e.cid
    BY DEF Tallied, Matched
  <2>2. ASSUME NEW a \in Arriving', NEW e \in cmds', Ends(a) PROVE a.cid # e.cid
    <3>1. CASE a = d
      BY <3>1, <2>2
    <3>2. CASE a \in Arriving
      BY <3>2, <2>2 DEF Tallied, Matched
    <3>3. QED
      BY <3>1, <3>2, <1>1
  <2>3. QED
    BY <1>2, <2>1, <2>2 DEF Tallied, Matched, Ends
<1>4. \A n : \A b \in Lbas : n = call \/ ~(pc = "write" /\ b \in first .. nxt - 1) =>
        (Holds(b, n) => Holds(b, n)')
  BY DEF Holds
<1>5. \A f \in flight : f.at \in Lbas
  BY DEF TypeOK
<1>6. OnDisk'
  <2>1. ASSUME NEW b \in Lbas, sure[b] # Unsure,
               ~(pc = "write" /\ b \in first .. nxt - 1)
        PROVE  Holds(b, sure[b])'
    BY <1>2, <1>4, <2>1 DEF Tallied, OnDisk, Holds
  <2>2. ASSUME pc = "write", NEW e \in cmds', NEW k \in 1 .. Len(e.got)
        PROVE  e.got[k] = <<call, e.at>>
    BY <2>2 DEF Tallied, OnDisk
  <2>3. ASSUME pc = "write", NEW f \in flight, NEW a \in Arriving',
               a.type = "resp", a.ok, a.cid = f.cid
        PROVE  Holds(f.at, call)'
    <3>1. CASE a = d
      BY <3>1, <2>3, <1>2 DEF Holds
    <3>2. CASE a \in Arriving
      <4>1. Holds(f.at, call)
        BY <3>2, <2>3 DEF Tallied, OnDisk
      <4>2. QED
        BY <4>1, <1>2, <1>4, <1>5 DEF Holds
    <3>3. QED
      BY <3>1, <3>2, <1>1
  <2>4. ASSUME pc = "write", ~failed, NEW b \in first .. nxt - 1
        PROVE  (\E f \in flight : f.at = b) \/ Holds(b, call)'
    <3>1. b \in Lbas \/ Holds(b, call)'
      <4>1. first \in Lbas /\ nxt \in 0 .. Blocks
        BY DEF TypeOK
      <4>2. QED
        BY <4>1, Sizes DEF Lbas
    <3>2. CASE Holds(b, call)
      BY <3>1, <3>2, <1>2, <1>4 DEF Holds
    <3>3. QED
      BY <3>2, <2>4 DEF Tallied, OnDisk
  <2>5. QED
    BY <1>2, <2>1, <2>2, <2>3, <2>4, Zenon DEF OnDisk
<1>7. InBuffer'
  <2>1. ASSUME pc = "read", NEW f \in flight, NEW a \in Arriving',
               a.type = "data", a.cid = f.cid, sure[f.at] # Unsure
        PROVE  a.bytes = <<sure[f.at], f.at>>
    BY <1>1, <2>1 DEF Tallied, InBuffer
  <2>2. QED
    BY <1>2, <2>1 DEF Tallied, InBuffer, Filled
<1>8. QED
  BY <1>3, <1>6, <1>7 DEF Tallied

\* A call that returns with nothing in flight leaves nothing with the controller,
\* and is sure of what it wrote or says it is not.
LEMMA ReturnedTallied ==
    ASSUME TypeOK, Paired, Tallied, NEW ok \in BOOLEAN, Return(ok), pc # "idle",
           flight = {}, UNCHANGED <<cmds, disk>>, ok => ~failed /\ nxt > last
    PROVE  Tallied'
<1>1. /\ pc' = "idle" /\ flight' = {}
      /\ good' => ok /\ pc = "read" /\ buf' = buf
      /\ sure' = IF pc = "write"
                 THEN [b \in Lbas |-> IF b \notin first .. last THEN sure[b]
                                      ELSE IF ok THEN call ELSE Unsure]
                 ELSE sure
  BY Zenon DEF Return
<1>2. cmds = {}
  BY DEF Tallied, Matched
<1>3. Matched'
  BY <1>1, <1>2, FS_EmptySet, Sizes DEF Matched
<1>4. OnDisk'
  <2>1. ASSUME NEW b \in Lbas, sure'[b] # Unsure PROVE Holds(b, sure'[b])
    <3>1. CASE pc = "write" /\ b \in first .. last
      <4>1. ok /\ sure'[b] = call
        BY <1>1, <2>1, <3>1
      <4>2. b \in first .. nxt - 1
        BY <3>1, <4>1 DEF TypeOK, Lbas
      <4>3. Holds(b, call)
        BY <3>1, <4>1, <4>2 DEF Tallied, OnDisk
      <4>4. QED
        BY <4>1, <4>3
    <3>2. CASE pc # "write"
      BY <1>1, <2>1, <3>2 DEF Tallied, OnDisk
    <3>3. CASE pc = "write" /\ b \notin first .. last
      <4>1. sure'[b] = sure[b]
        BY <1>1, <3>3
      <4>2. b \notin first .. nxt - 1
        <5>1. nxt <= last + 1
          BY <3>3 DEF Paired, CallBounds
        <5>2. QED
          BY <3>3, <5>1, Sizes DEF TypeOK, Lbas
      <4>3. QED
        BY <2>1, <4>1, <4>2 DEF Tallied, OnDisk
    <3>4. QED
      BY <3>1, <3>2, <3>3
  <2>2. QED
    BY <1>1, <2>1 DEF OnDisk, Holds
<1>5. InBuffer'
  BY <1>1 DEF Tallied, InBuffer, Filled
<1>6. QED
  BY <1>3, <1>4, <1>5 DEF Tallied

\* A command goes out, and the controller holds it, or is gone.
LEMMA IssuedTallied ==
    ASSUME TypeOK, Paired, Tallied, Issue
    PROVE  Tallied'
<1>1. /\ Issued \in Nat /\ Issued < CidSpace - 1 /\ NextCid = Issued
  BY IdentifierLeft DEF Paired, Issue
<1>2. /\ pc' = pc /\ nxt' = nxt + 1 /\ wire' = wire /\ disk' = disk
      /\ failed' = failed /\ buf' = buf /\ ~failed
      /\ call' = call /\ first' = first /\ good' = good /\ sure' = sure
      /\ pc \in {"read", "write"} /\ nxt <= last
      /\ pc = "read" => Cardinality(flight) < Depth
      /\ pc = "write" => flight = {}
  BY DEF Issue, MayIssue, observers
<1> DEFINE n == [cid |-> Issued, at |-> nxt]
           m == [cid |-> Issued, op |-> pc, at |-> nxt, sent |-> 0, got |-> <<>>]
<1>3. flight' = flight \cup {n} /\ cmds' \subseteq cmds \cup {m}
  BY <1>1 DEF Issue
<1>4. n.cid = Issued /\ n.at = nxt /\ m.cid = Issued /\ m.at = nxt /\ m.got = <<>>
  OBVIOUS
<1> HIDE DEF n, m
<1>5. \A c \in cmds : c.cid # Issued
  <2>1. \A c \in cmds : c.cid \in Nat /\ c.cid < Issued
    BY CommandFields DEF Paired, FreshIds, TypeOK, Cids
  <2>2. QED
    BY <1>1, <2>1
<1>6. \A d \in Arriving : d.type \in {"resp", "data"} => d.cid # Issued
  <2>1. ASSUME NEW i \in 1 .. Len(wire), wire[i].type \in {"resp", "data"}
        PROVE  wire[i].cid # Issued
    <3>1. wire[i] \in Pdu
      BY DEF TypeOK
    <3>2. wire[i].cid \in Nat
      BY <2>1, <3>1, PduFields DEF Cids
    <3>3. wire[i].cid < Issued \/ wire[i].cid = CidSpace - 1
      BY <2>1 DEF Paired, FreshIds
    <3>4. QED
      BY <1>1, <3>2, <3>3
  <2>2. QED
    BY <2>1, Zenon DEF Arriving
<1>7. Arriving' = Arriving
  BY <1>2 DEF Arriving
<1>8. /\ nxt \in Int /\ first \in Int /\ first <= nxt
      /\ first .. nxt' - 1 = (first .. nxt - 1) \cup {nxt}
  <2>1. nxt \in Int /\ first \in Int /\ first <= nxt
    BY <1>2 DEF TypeOK, Lbas, Paired, CallBounds
  <2>2. QED
    BY <1>2, <2>1
<1>9. Matched'
  <2>1. \A c \in cmds' : \E f \in flight' : f.cid = c.cid
    BY <1>3, <1>4 DEF Tallied, Matched
  <2>2. \A c, d \in cmds' : c.cid = d.cid => c = d
    BY <1>3, <1>4, <1>5 DEF Tallied, Matched
  <2>3. \A d \in Arriving', c \in cmds' : Ends(d)' => d.cid # c.cid
    BY <1>3, <1>4, <1>6, <1>7 DEF Tallied, Matched, Ends
  <2>4. IsFiniteSet(flight') /\ Cardinality(flight') <= Depth
    <3>1. IsFiniteSet(flight) /\ Cardinality(flight) \in Nat
      BY FS_CardinalityType DEF Tallied, Matched
    <3>2. Cardinality(flight) < Depth
      BY <1>2, FS_EmptySet, Sizes
    <3>3. /\ IsFiniteSet(flight')
          /\ Cardinality(flight') \in {Cardinality(flight), Cardinality(flight) + 1}
      BY <1>3, <3>1, FS_AddElement
    <3>4. QED
      BY <3>1, <3>2, <3>3, Sizes
  <2>5. \A f \in flight' : f.at \in first .. nxt' - 1
    BY <1>3, <1>4, <1>8 DEF Tallied, Matched
  <2>6. pc = "write" => \A f, g \in flight' : f = g
    BY <1>2, <1>3
  <2>7. QED
    BY <1>2, <2>1, <2>2, <2>3, <2>4, <2>5, <2>6 DEF Matched
<1>10. OnDisk'
  <2>1. \A b, k : Holds(b, k)' <=> Holds(b, k)
    BY <1>2 DEF Holds
  <2>2. ASSUME NEW b \in Lbas, sure[b] # Unsure,
               ~(pc = "write" /\ b \in first .. nxt' - 1)
        PROVE  Holds(b, sure[b])
    BY <1>8, <2>2 DEF Tallied, OnDisk
  <2>3. ASSUME pc = "write", NEW c \in cmds', NEW k \in 1 .. Len(c.got)
        PROVE  c.got[k] = <<call, c.at>>
    BY <1>3, <1>4, <2>3 DEF Tallied, OnDisk
  <2>4. ASSUME pc = "write", NEW f \in flight', NEW d \in Arriving',
               d.type = "resp", d.ok, d.cid = f.cid
        PROVE  Holds(f.at, call)
    BY <1>2, <1>3, <1>4, <1>6, <1>7, <2>4
  <2>5. ASSUME pc = "write", NEW b \in first .. nxt' - 1
        PROVE  (\E f \in flight' : f.at = b) \/ Holds(b, call)
    BY <1>2, <1>3, <1>4, <1>8, <2>5 DEF Tallied, OnDisk
  <2>6. QED
    BY <1>2, <2>1, <2>2, <2>3, <2>4, <2>5, Zenon DEF OnDisk
<1>11. InBuffer'
  <2>1. ASSUME pc = "read", NEW f \in flight', NEW d \in Arriving',
               d.type = "data", d.cid = f.cid, sure[f.at] # Unsure
        PROVE  d.bytes = <<sure[f.at], f.at>>
    BY <1>3, <1>4, <1>6, <1>7, <2>1 DEF Tallied, InBuffer
  <2>2. QED
    BY <1>2, <2>1 DEF Tallied, InBuffer, Filled
<1>12. QED
  BY <1>9, <1>10, <1>11 DEF Tallied

\* A call begins.
LEMMA BeginTallied ==
    ASSUME TypeOK, Paired, Tallied, Calls
    PROVE  Tallied'
<1>1. PICK op \in {"read", "write"}, b \in Lbas, e \in Lbas : Begin(op, b, e)
  BY DEF Calls
<1>2. /\ pc = "idle" /\ flight' = flight /\ cmds' = cmds /\ wire' = wire
      /\ disk' = disk /\ nxt' = b /\ first' = b /\ buf' = Empty /\ sure' = sure
      /\ b \in Int
  BY <1>1 DEF Begin, target, Lbas
<1>3. flight = {} /\ cmds = {}
  BY <1>2 DEF Paired, CallBounds, Tallied, Matched
<1>4. first' .. nxt' - 1 = {}
  BY <1>2
<1>5. Matched'
  BY <1>2, <1>3, FS_EmptySet, Sizes DEF Matched
<1>6. OnDisk'
  BY <1>2, <1>3, <1>4 DEF Tallied, OnDisk, Holds
<1>7. InBuffer'
  <2>1. \A a \in Lbas, p \in 1 .. Parts : buf'[a][p].from = -1 /\ a # -1
    BY <1>2 DEF Empty, NoData, Lbas
  <2>2. QED
    BY <1>2, <1>3, <2>1 DEF InBuffer, Filled
<1>8. QED
  BY <1>5, <1>6, <1>7 DEF Tallied

\* Data for a read lands in the buffer as it is on the disk.
LEMMA DataTallied ==
    ASSUME TypeOK, Paired, Tallied, GotData
    PROVE  Tallied'
<1>1. /\ Head(wire) \in Pdu /\ Head(wire).type = "data" /\ pc = "read"
      /\ wire # <<>> /\ wire' = Tail(wire) /\ Head(wire) = wire[1]
      /\ 1 \in 1 .. Len(wire)
      /\ UNCHANGED <<pc, nxt, first, sure, call, disk>>
      /\ UNCHANGED <<cmds, failed>>
  BY DEF GotData, Receive, Reads, observers, TypeOK
<1>2. PICK f \in flight :
        /\ f.cid = Head(wire).cid
        /\ buf' = [buf EXCEPT ![f.at][Head(wire).part] =
                     [from |-> Head(wire).from, bytes |-> Head(wire).bytes]]
        /\ flight' = IF Head(wire).done THEN flight \ {f} ELSE flight
  BY DEF GotData, About
<1>3. f.at \in Lbas /\ Head(wire).part \in 1 .. Parts
  BY <1>1, PduFields DEF TypeOK
<1>4. sure[f.at] # Unsure => Head(wire).bytes = <<sure[f.at], f.at>>
  BY <1>1, <1>2, ArrivingTail DEF Tallied, InBuffer
<1>5. ASSUME NEW b \in Lbas, NEW p \in 1 .. Parts, Filled(b, p)', sure[b] # Unsure
      PROVE  buf'[b][p].bytes = <<sure[b], b>>
  <2>1. CASE b = f.at /\ p = Head(wire).part
    <3>1. buf'[b][p] = [from |-> Head(wire).from, bytes |-> Head(wire).bytes]
      BY <1>2, <1>3, <2>1 DEF TypeOK
    <3>2. QED
      BY <3>1, <1>4, <1>5, <2>1
  <2>2. CASE ~(b = f.at /\ p = Head(wire).part)
    <3>1. buf'[b][p] = buf[b][p]
      BY <1>2, <1>3, <2>2 DEF TypeOK
    <3>2. QED
      BY <3>1, <1>1, <1>5 DEF Tallied, InBuffer, Filled
  <2>3. QED
    BY <2>1, <2>2
<1>6. \A g \in flight \ flight' : Ends(Head(wire)) /\ g.cid = Head(wire).cid
  BY <1>1, <1>2 DEF Ends
<1>7. \A b, e \in cmds : b.cid = e.cid => b = e
  BY DEF Tallied, Matched
<1>8. flight' \subseteq flight
  BY <1>2
<1>9. QED
  BY <1>1, <1>5, <1>6, <1>7, <1>8, ReceivedTallied

\* An R2T is answered with the bytes of the only block the write has in flight.
LEMMA AnswerTallied ==
    ASSUME TypeOK, Paired, Tallied, AnswerR2T
    PROVE  Tallied'
<1>1. /\ pc = "write" /\ wire # <<>> /\ wire' = Tail(wire)
      /\ UNCHANGED <<pc, nxt, first, sure, call, disk>>
      /\ UNCHANGED <<flight, failed, buf>>
  BY DEF AnswerR2T, Receive, Reads, observers
<1>2. PICK f \in flight :
        cmds' = {IF c.cid = Head(wire).cid /\ c.op = "write"
                 THEN [c EXCEPT !.got = Append(@, <<call, f.at>>)]
                 ELSE c : c \in cmds}
  BY DEF AnswerR2T
<1> DEFINE Took(c) == [c EXCEPT !.got = Append(@, <<call, f.at>>)]
<1>3. ASSUME NEW e \in cmds'
      PROVE  \E c \in cmds :
               e = IF c.cid = Head(wire).cid /\ c.op = "write" THEN Took(c) ELSE c
  BY <1>2, <1>3, Zenon
<1>4. ASSUME NEW c \in cmds
      PROVE  /\ c.got \in Seq(Bytes) /\ Took(c).cid = c.cid /\ Took(c).at = c.at
             /\ Took(c).got = Append(c.got, <<call, f.at>>)
             /\ f.at = c.at
  <2>1. c \in Command
    BY DEF TypeOK
  <2>2. f.cid = c.cid
    BY <1>1 DEF Tallied, Matched
  <2>3. QED
    BY <2>1, <2>2 DEF Command, Paired, SameBlock
<1>5. ASSUME NEW e \in cmds'
      PROVE  \E c \in cmds :
               /\ e.cid = c.cid /\ e.at = c.at
               /\ e.got = c.got \/ e.got = Append(c.got, <<call, c.at>>)
  <2>1. PICK c \in cmds :
          e = IF c.cid = Head(wire).cid /\ c.op = "write" THEN Took(c) ELSE c
    BY <1>3
  <2> HIDE DEF Took
  <2>2. QED
    BY <1>4, <2>1
<1>6. ASSUME NEW d \in cmds', NEW e \in cmds', d.cid = e.cid
      PROVE  d = e
  <2>1. PICK a \in cmds :
          d = IF a.cid = Head(wire).cid /\ a.op = "write" THEN Took(a) ELSE a
    BY <1>3
  <2>2. PICK c \in cmds :
          e = IF c.cid = Head(wire).cid /\ c.op = "write" THEN Took(c) ELSE c
    BY <1>3
  <2> HIDE DEF Took
  <2>3. a.cid = c.cid
    BY <1>4, <1>6, <2>1, <2>2
  <2>4. a = c
    BY <2>3 DEF Tallied, Matched
  <2>5. QED
    BY <2>1, <2>2, <2>4
<1>7. ASSUME NEW e \in cmds', NEW k \in 1 .. Len(e.got)
      PROVE  e.got[k] = <<call, e.at>>
  <2>1. PICK c \in cmds :
          /\ e.cid = c.cid /\ e.at = c.at
          /\ e.got = c.got \/ e.got = Append(c.got, <<call, c.at>>)
    BY <1>5
  <2>2. \A j \in 1 .. Len(c.got) : c.got[j] = <<call, c.at>>
    BY <1>1 DEF Tallied, OnDisk
  <2>3. CASE e.got = c.got
    BY <2>1, <2>2, <2>3
  <2>4. CASE e.got = Append(c.got, <<call, c.at>>)
    <3>1. c.got \in Seq(Bytes)
      BY <1>4
    <3>2. /\ Len(e.got) = Len(c.got) + 1 /\ Len(c.got) \in Nat
          /\ e.got[Len(c.got) + 1] = <<call, c.at>>
          /\ \A j \in 1 .. Len(c.got) : e.got[j] = c.got[j]
      BY <2>4, <3>1
    <3>3. k \in 1 .. Len(c.got) \/ k = Len(c.got) + 1
      BY <3>2
    <3>4. QED
      BY <2>1, <2>2, <3>2, <3>3
  <2>5. QED
    BY <2>1, <2>3, <2>4
<1> HIDE DEF Took
<1>8. \A e \in cmds' : \E c \in cmds : e.cid = c.cid
  BY <1>5
<1>9. QED
  BY <1>1, <1>6, <1>7, <1>8, ReceivedTallied

\* The controller sends a part of a block, as it is on the disk.
LEMMA ServeTallied ==
    ASSUME TypeOK, Paired, Tallied, NEW c \in cmds, ServeRead(c)
    PROVE  Tallied'
<1> DEFINE served == [c EXCEPT !.sent = @ + 1]
<1>1. PICK done \in BOOLEAN :
        /\ Send([type |-> "data", cid |-> c.cid, part |-> served.sent,
                 from |-> c.at, bytes |-> disk[c.at][served.sent], done |-> done])
        /\ cmds' = (cmds \ {c}) \cup (IF done THEN {} ELSE {served})
  BY DEF ServeRead
<1>2. /\ c \in Command /\ c.op = "read" /\ c.at \in Lbas /\ c.cid \in Cids
      /\ disk' = disk /\ UNCHANGED <<host, observers>>
  BY CommandFields DEF ServeRead, TypeOK
<1>3. /\ served.sent \in 1 .. Parts /\ served.cid = c.cid /\ served.at = c.at
      /\ served.got = c.got
  <2>1. c.sent < Parts /\ c.sent + 1 \in 1 .. Parts
    BY <1>2, SentOn DEF ServeRead
  <2>2. QED
    BY <1>2, <2>1 DEF Command
<1> HIDE DEF served
<1>4. PICK d : /\ d \in Pdu /\ Send(d) /\ d.type = "data" /\ d.cid = c.cid
               /\ d.done = done /\ d.bytes = disk[c.at][served.sent]
  <2>1. disk[c.at][served.sent] \in Bytes
    BY <1>2, <1>3, DiskByte
  <2>2. [type |-> "data", cid |-> c.cid, part |-> served.sent, from |-> c.at,
         bytes |-> disk[c.at][served.sent], done |-> done] \in Pdu
    BY <1>2, <1>3, <2>1 DEF Pdu
  <2>3. QED
    BY <1>1, <2>2
<1>5. \A e \in cmds' : \E b \in cmds : e.cid = b.cid /\ e.at = b.at /\ e.got = b.got
  BY <1>1, <1>3
<1>6. \A b, e \in cmds' : b.cid = e.cid => b = e
  BY <1>1, <1>3 DEF Tallied, Matched
<1>7. Ends(d) => \A e \in cmds' : e.cid # d.cid
  BY <1>1, <1>4 DEF Ends, Tallied, Matched
<1>8. ASSUME NEW f \in flight, d.cid = f.cid, sure[f.at] # Unsure, pc = "read"
      PROVE  d.bytes = <<sure[f.at], f.at>>
  <2>1. f.at = c.at
    BY <1>4, <1>8 DEF Paired, SameBlock
  <2>2. Holds(c.at, sure[c.at])
    BY <1>2, <1>8, <2>1 DEF Tallied, OnDisk
  <2>3. QED
    BY <1>3, <1>4, <2>1, <2>2 DEF Holds
<1>9. d.type # "resp"
  BY <1>4
<1>10. QED
  BY <1>2, <1>4, <1>5, <1>6, <1>7, <1>8, <1>9, SentTallied

\* The controller asks for the next part of a write.
LEMMA AskTallied ==
    ASSUME TypeOK, Paired, Tallied, NEW c \in cmds, AskData(c)
    PROVE  Tallied'
<1> DEFINE asked == [c EXCEPT !.sent = @ + 1]
<1>1. /\ c \in Command /\ disk' = disk /\ UNCHANGED <<host, observers>>
      /\ cmds' = (cmds \ {c}) \cup {asked}
  BY DEF AskData, TypeOK
<1>2. asked.cid = c.cid /\ asked.at = c.at /\ asked.got = c.got
  BY <1>1 DEF Command
<1> HIDE DEF asked
<1>3. PICK d \in Pdu : d.type = "r2t" /\ Send(d)
  <2>1. c.cid \in Cids /\ c.sent + 1 \in 1 .. Parts
    BY <1>1, CommandFields, SentOn DEF AskData
  <2>2. [type |-> "r2t", cid |-> c.cid, part |-> c.sent + 1] \in Pdu
    BY <2>1 DEF Pdu
  <2>3. QED
    BY <2>2 DEF AskData
<1>4. \A e \in cmds' : \E b \in cmds : e.cid = b.cid /\ e.at = b.at /\ e.got = b.got
  BY <1>1, <1>2
<1>5. \A b, e \in cmds' : b.cid = e.cid => b = e
  BY <1>1, <1>2 DEF Tallied, Matched
<1>6. ~Ends(d)
  BY <1>3 DEF Ends
<1>7. QED
  BY <1>1, <1>3, <1>4, <1>5, <1>6, SentTallied

\* A command is completed: a write's block is on the disk by then.
LEMMA CompleteTallied ==
    ASSUME TypeOK, Paired, Tallied, NEW c \in cmds,
           CompleteRead(c) \/ CompleteWrite(c) \/ Fail(c)
    PROVE  Tallied'
<1>1. /\ c \in Command /\ c.at \in Lbas /\ c.cid \in Cids
      /\ cmds' = cmds \ {c} /\ UNCHANGED <<host, observers>>
      /\ disk \in [Lbas -> [1 .. Parts -> Bytes]]
  BY CommandFields DEF CompleteRead, CompleteWrite, Fail, TypeOK
<1>2. PICK d \in Pdu :
        /\ Send(d) /\ d.type = "resp" /\ d.cid = c.cid
        /\ d.ok => CompleteRead(c) \/ CompleteWrite(c)
  <2>1. \A ok \in BOOLEAN : [type |-> "resp", cid |-> c.cid, ok |-> ok] \in Pdu
    BY <1>1 DEF Pdu
  <2>2. QED
    BY <2>1 DEF CompleteRead, CompleteWrite, Fail
<1>3. \A e \in cmds' : e.cid # d.cid
  BY <1>1, <1>2 DEF Tallied, Matched
<1>4. PICK f \in flight : f.cid = c.cid
  BY DEF Tallied, Matched
<1>5. f.at = c.at /\ c.op = pc /\ f.at \in first .. nxt - 1
  BY <1>4 DEF Paired, SameBlock, Tallied, Matched
<1>6. ASSUME CompleteWrite(c)
      PROVE  /\ pc = "write" /\ \A p \in 1 .. Parts : disk'[c.at][p] = <<call, c.at>>
             /\ \A b \in Lbas : b # c.at => disk'[b] = disk[b]
  <2>1. /\ c.op = "write" /\ Len(c.got) = Parts
        /\ disk' = [disk EXCEPT ![c.at] = c.got]
    BY <1>6 DEF CompleteWrite
  <2>2. \A k \in 1 .. Parts : c.got[k] = <<call, c.at>>
    BY <1>5, <2>1 DEF Tallied, OnDisk
  <2>3. QED
    BY <1>1, <1>5, <2>1, <2>2
<1>7. ~CompleteWrite(c) => disk' = disk
  BY DEF CompleteRead, Fail
<1>8. \A b \in Lbas : \/ disk'[b] = disk[b]
                      \/ /\ pc = "write" /\ b \in first .. nxt - 1
                         /\ \A p \in 1 .. Parts : disk'[b][p] = <<call, b>>
  BY <1>5, <1>6, <1>7
<1>9. ASSUME NEW g \in flight, d.ok, d.cid = g.cid, pc = "write"
      PROVE  \A p \in 1 .. Parts : disk'[g.at][p] = <<call, g.at>>
  <2>1. g.at = c.at
    BY <1>2, <1>9 DEF Paired, SameBlock
  <2>2. CompleteWrite(c)
    BY <1>2, <1>5, <1>9 DEF CompleteRead
  <2>3. QED
    BY <1>6, <2>1, <2>2
<1>10. \A e \in cmds' : \E b \in cmds : e.cid = b.cid /\ e.at = b.at /\ e.got = b.got
  BY <1>1
<1>11. \A b, e \in cmds' : b.cid = e.cid => b = e
  BY <1>1 DEF Tallied, Matched
<1>12. d.type # "data"
  BY <1>2
<1>13. QED
  BY <1>1, <1>2, <1>3, <1>8, <1>9, <1>10, <1>11, <1>12, SentTallied

\* What nobody waits for changes nothing, and a controller that says goodbye
\* holds nothing any more.
LEMMA OddTallied ==
    ASSUME TypeOK, Paired, Tallied, Junk \/ Terminate
    PROVE  Tallied'
<1>1. /\ disk' = disk /\ UNCHANGED <<host, observers>> /\ cmds' \subseteq cmds
      /\ \A b, e \in cmds : b.cid = e.cid => b = e
  BY DEF Junk, Terminate, Tallied, Matched
<1>2. ASSUME NEW d \in Pdu, Send(d),
             d.type = "resp" => d.cid = CidSpace - 1,
             d.type = "data" => ~d.done /\ \E c \in cmds : c.op = "write" /\ d.cid = c.cid
      PROVE  Tallied'
  <2>1. /\ \A c \in cmds : c.cid # CidSpace - 1
        /\ \A f \in flight : f.cid # CidSpace - 1
    BY NotTheSpare
  <2>2. Ends(d) => d.type = "resp"
    BY <1>2 DEF Ends
  <2>3. \A f \in flight : ~(d.type = "data" /\ d.cid = f.cid /\ pc = "read")
    BY <1>2 DEF Paired, SameBlock
  <2>4. \A e \in cmds' : \E b \in cmds :
          e.cid = b.cid /\ e.at = b.at /\ e.got = b.got
    BY <1>1
  <2>5. Ends(d) => \A e \in cmds' : e.cid # d.cid
    BY <1>1, <1>2, <2>1, <2>2
  <2>6. \A b, e \in cmds' : b.cid = e.cid => b = e
    BY <1>1
  <2>7. \A f \in flight : ~(d.type = "resp" /\ d.cid = f.cid)
    BY <1>2, <2>1
  <2>8. QED
    BY <1>1, <1>2, <2>3, <2>4, <2>5, <2>6, <2>7, SentTallied
<1>3. CASE Send([type |-> "resp", cid |-> CidSpace - 1, ok |-> TRUE])
  <2>1. PICK d \in Pdu : d.type = "resp" /\ d.cid = CidSpace - 1 /\ Send(d)
    <3>1. [type |-> "resp", cid |-> CidSpace - 1, ok |-> TRUE] \in Pdu
      BY Sizes DEF Pdu, Cids
    <3>2. QED
      BY <1>3, <3>1
  <2>2. QED
    BY <1>2, <2>1
<1>4. CASE \E c \in cmds :
             /\ c.op = "write"
             /\ Send([type |-> "data", cid |-> c.cid, part |-> 1, from |-> c.at,
                      bytes |-> disk[c.at][1], done |-> FALSE])
  <2>1. PICK c \in cmds :
             /\ c.op = "write"
             /\ Send([type |-> "data", cid |-> c.cid, part |-> 1, from |-> c.at,
                      bytes |-> disk[c.at][1], done |-> FALSE])
    BY <1>4
  <2>2. c.cid \in Cids /\ c.at \in Lbas /\ 1 \in 1 .. Parts
    BY CommandFields, Sizes DEF TypeOK
  <2>3. [type |-> "data", cid |-> c.cid, part |-> 1, from |-> c.at,
         bytes |-> disk[c.at][1], done |-> FALSE] \in Pdu
    BY <2>2, DiskByte DEF Pdu
  <2>4. PICK d \in Pdu : d.type = "data" /\ d.cid = c.cid /\ ~d.done /\ Send(d)
    BY <2>1, <2>3
  <2>5. QED
    BY <1>2, <2>1, <2>4
<1>5. CASE Terminate
  <2>1. PICK d \in Pdu : d.type = "term" /\ Send(d)
    <3>1. [type |-> "term"] \in Pdu
      BY DEF Pdu
    <3>2. QED
      BY <1>5, <3>1 DEF Terminate
  <2>2. QED
    BY <1>2, <2>1
<1>6. QED
  BY <1>3, <1>4, <1>5 DEF Junk

\* A step that leaves no call half way.
LEMMA StepInOrder ==
    ASSUME TypeOK, Paired, KeptInOrder, [Next]_vars
    PROVE  KeptInOrder'
<1> SUFFICES ASSUME ~left' PROVE Tallied'
  BY DEF KeptInOrder
<1>1. ASSUME NEW ok \in BOOLEAN, Return(ok), pc # "idle", UNCHANGED <<cmds, disk>>,
             ok => ~failed /\ nxt > last
      PROVE  Tallied'
  <2>1. ~left /\ flight = {}
    BY <1>1, Zenon DEF Return
  <2>2. Tallied
    BY <2>1 DEF KeptInOrder
  <2>3. QED
    BY <1>1, <2>1, <2>2, ReturnedTallied
<1>2. ASSUME left' = left PROVE Tallied
  BY <1>2 DEF KeptInOrder
<1>3. CASE SendFails \/ GiveUp \/ Timeout \/ Refuse
  <2>1. Return(FALSE) /\ pc # "idle" /\ UNCHANGED <<cmds, disk>>
    BY <1>3 DEF SendFails, GiveUp, Timeout, Refuse, Receive, Waiting, MayIssue, target
  <2>2. QED
    BY <1>1, <2>1
<1>4. CASE Finish
  <2>1. /\ Return(~failed) /\ pc # "idle" /\ flight = {} /\ ~MayIssue
        /\ UNCHANGED <<cmds, disk>>
    BY <1>4, Zenon DEF Finish, target
  <2>2. ASSUME ~failed PROVE nxt > last
    <3>1. Cardinality(flight) = 0 /\ pc \in {"read", "write"}
      BY <2>1, FS_EmptySet DEF TypeOK
    <3>2. QED
      BY <2>1, <2>2, <3>1, Sizes DEF MayIssue, TypeOK, Lbas
  <2>3. (~failed) \in BOOLEAN
    OBVIOUS
  <2>4. QED
    BY <1>1, <2>1, <2>2, <2>3
<1>5. CASE Calls
  BY <1>2, <1>5, BeginTallied DEF Calls, Begin
<1>6. CASE Issue
  BY <1>2, <1>6, IssuedTallied DEF Issue, observers
<1>7. ASSUME wire # <<>>, wire' = Tail(wire), pc # "idle", Reads, cmds' = cmds,
             buf' = buf, flight' = flight \ About, failed => failed',
             About = {} \/ (Ends(Head(wire)) /\ (Head(wire).ok \/ failed')
                             /\ Head(wire).type = "resp")
      PROVE  Tallied'
  <2>1. Tallied
    BY <1>2, <1>7 DEF Reads, observers
  <2>2. UNCHANGED <<pc, nxt, first, sure, call, disk>>
    BY <1>7 DEF Reads, observers
  <2>3. \A f \in flight \ flight' :
          /\ Ends(Head(wire)) /\ f.cid = Head(wire).cid
          /\ failed' \/ (Head(wire).type = "resp" /\ Head(wire).ok)
    BY <1>7 DEF About
  <2>4. \A b, e \in cmds : b.cid = e.cid => b = e
    BY <2>1 DEF Tallied, Matched
  <2>5. pc = "write" =>
          \A e \in cmds : \A k \in 1 .. Len(e.got) : e.got[k] = <<call, e.at>>
    BY <2>1 DEF Tallied, OnDisk
  <2>6. pc = "read" => \A b \in Lbas, p \in 1 .. Parts :
          Filled(b, p)' /\ sure[b] # Unsure => buf'[b][p].bytes = <<sure[b], b>>
    BY <1>7, <2>1 DEF Tallied, InBuffer, Filled
  <2>7. flight' \subseteq flight
    BY <1>7
  <2>8. QED
    BY <1>7, <2>1, <2>2, <2>3, <2>4, <2>5, <2>6, <2>7, ReceivedTallied
<1>8. CASE SkipStale
  BY <1>7, <1>8 DEF SkipStale, Receive, Waiting
<1>9. CASE Completed
  <2>1. Ends(Head(wire)) /\ Head(wire).type = "resp"
    BY <1>9 DEF Completed, Receive, Ends
  <2>2. (failed => failed') /\ (Head(wire).ok \/ failed')
    BY <1>9, Zenon DEF Completed
  <2>3. /\ wire # <<>> /\ wire' = Tail(wire) /\ pc # "idle" /\ Reads
        /\ cmds' = cmds /\ buf' = buf /\ flight' = flight \ About
    BY <1>9, Zenon DEF Completed, Receive, Waiting
  <2>4. QED
    BY <1>7, <2>1, <2>2, <2>3
<1>10. CASE GotData
  BY <1>2, <1>10, DataTallied DEF GotData, Reads, observers
<1>11. CASE AnswerR2T
  BY <1>2, <1>11, AnswerTallied DEF AnswerR2T, Reads, observers
<1>12. CASE Controller
  <2>1. Tallied
    BY <1>2, <1>12 DEF Controller, ServeRead, AskData, CompleteRead, CompleteWrite,
       Fail, Junk, Terminate, observers
  <2>2. QED
    BY <1>12, <2>1, ServeTallied, AskTallied, CompleteTallied, OddTallied
       DEF Controller
<1>13. CASE UNCHANGED vars
  <2>1. Tallied
    BY <1>2, <1>13 DEF vars, observers
  <2>2. QED
    BY <1>13, <2>1 DEF vars, target, host, observers, Tallied, Matched, OnDisk,
       InBuffer, Arriving, Holds, Filled, Ends
<1>14. QED
  BY <1>3, <1>4, <1>5, <1>6, <1>8, <1>9, <1>10, <1>11, <1>12, <1>13
     DEF Next, HostStep

\* The controller never holds more commands than the call has in flight.
LEMMA NoMoreThanInFlight ==
    ASSUME TypeOK, Tallied
    PROVE  Cardinality(cmds) < SqSize
<1> DEFINE theirs == [c \in cmds |-> CHOOSE f \in flight : f.cid = c.cid]
<1>1. \A c \in cmds : theirs[c] \in flight /\ theirs[c].cid = c.cid
  BY DEF Tallied, Matched
<1> HIDE DEF theirs
<1>2. \A c, d \in cmds : theirs[c] = theirs[d] => c = d
  BY <1>1 DEF Tallied, Matched
<1>3. theirs \in Injection(cmds, flight)
  <2>1. theirs \in [cmds -> flight]
    BY <1>1 DEF theirs
  <2>2. QED
    BY <1>2, <2>1 DEF Injection, IsInjective
<1>4. IsFiniteSet(flight) /\ Cardinality(flight) \in Nat /\ Cardinality(flight) <= Depth
  BY FS_CardinalityType DEF Tallied, Matched
<1>5. IsFiniteSet(cmds) /\ Cardinality(cmds) <= Cardinality(flight)
  BY <1>3, <1>4, FS_Injection
<1>6. Cardinality(cmds) \in Nat
  BY <1>5, FS_CardinalityType
<1>7. Depth < SqSize
  BY ConstantsAssumption
<1>8. QED
  BY <1>4, <1>5, <1>6, <1>7, Sizes

\* As long as no call has returned with a command of its own in flight, the
\* controller's submission queue is never overrun and is empty between calls
\* (depth, SQSIZE), every block is as the last write reported done left it, and
\* a read that reports success returns just that (read, write, collect).
THEOREM QueueInOrder == Spec => []InOrder
<1>1. Init => KeptInOrder
  <2> SUFFICES ASSUME Init PROVE Tallied
    BY DEF KeptInOrder
  <2>1. Matched
    BY FS_EmptySet, Sizes DEF Init, Matched
  <2>2. OnDisk
    BY Sizes DEF Init, OnDisk, Holds, Lbas
  <2>3. InBuffer
    BY DEF Init, InBuffer
  <2>4. QED
    BY <2>1, <2>2, <2>3 DEF Tallied
<1>2. TypeOK /\ Paired /\ KeptInOrder /\ [Next]_vars => KeptInOrder'
  BY StepInOrder
<1>3. TypeOK /\ Paired /\ KeptInOrder => InOrder
  <2> SUFFICES ASSUME TypeOK, Paired, KeptInOrder PROVE InOrder
    OBVIOUS
  <2>1. QueueFits
    <3> SUFFICES ASSUME ~left
                 PROVE  Cardinality(cmds) < SqSize /\ (pc = "idle" => cmds = {})
      BY DEF QueueFits
    <3>1. Tallied
      BY DEF KeptInOrder
    <3>2. pc = "idle" => cmds = {}
      BY <3>1 DEF Tallied, Matched, Paired, CallBounds
    <3>3. QED
      BY <3>1, <3>2, NoMoreThanInFlight
  <2>2. AckedWritesHold
    <3> SUFFICES ASSUME pc = "idle", ~left, NEW b \in Lbas, NEW p \in 1 .. Parts,
                        sure[b] # Unsure
                 PROVE  /\ disk[b][p] = <<sure[b], b>>
                        /\ good /\ b \in first .. last =>
                             buf[b][p].bytes = <<sure[b], b>>
      BY DEF AckedWritesHold
    <3>1. Tallied
      BY DEF KeptInOrder
    <3>2. disk[b][p] = <<sure[b], b>>
      BY <3>1 DEF Tallied, OnDisk, Holds
    <3>3. ASSUME good, b \in first .. last PROVE buf[b][p].bytes = <<sure[b], b>>
      <4>1. Filled(b, p)
        BY <3>3 DEF Paired, ReadsOwnBlocks, Filled
      <4>2. QED
        BY <3>1, <3>3, <4>1 DEF Tallied, InBuffer
    <3>4. QED
      BY <3>2, <3>3
  <2>3. QED
    BY <2>1, <2>2 DEF InOrder
<1>4. QED
  BY <1>1, <1>2, <1>3, TypeCorrect, AlwaysPaired, PTL DEF Spec
=============================================================================
