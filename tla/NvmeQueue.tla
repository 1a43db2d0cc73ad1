------------------------------ MODULE NvmeQueue ------------------------------
(***************************************************************************)
(* One I/O queue of the NVMe/TCP initiator                                 *)
(* (src/crates/nvme-tcp-initiator/src/lib.rs): reads that keep several     *)
(* commands in flight, writes one at a time, and a transport whose         *)
(* time-outs leave the connection open (src/src/net.rs read_into).         *)
(*                                                                         *)
(* A block stands for one command's transfer, and its Parts for the pieces *)
(* of data a PDU carries.  The bytes of a part are named by the call that  *)
(* wrote them and the block they were meant for.  What the host sends      *)
(* reaches the controller at once: the controller serves it when it likes. *)
(***************************************************************************)
EXTENDS Integers, Sequences, FiniteSets

CONSTANTS
    Blocks,    \* blocks of the namespace
    Parts,     \* data PDUs a block takes
    Depth,     \* Namespace::depth, reads kept in flight
    SqSize,    \* entries of the submission queue
    CidSpace,  \* command identifiers, 2^16 in the code
    Patience,  \* PDUs allowed per command, 4096 in the code
    MaxCalls,  \* bound: calls of read and write
    Bad,       \* the blocks for which the controller may fail a command
    Faults     \* what may go wrong in this run

(***************************************************************************)
(* "timeout" nothing arrives for the transport's patience                  *)
(* "junk"    a completion or data for a command nobody waits for           *)
(* "close"   the controller terminates the connection                      *)
(***************************************************************************)
FaultKinds == {"timeout", "junk", "close"}

Lbas == 0 .. Blocks - 1
Cids == 0 .. CidSpace - 1

ASSUME ConstantsAssumption ==
    /\ Blocks \in Nat \ {0} /\ Parts \in Nat \ {0}
    /\ SqSize \in Nat \ {0, 1} /\ Depth \in 1 .. SqSize - 1
    /\ CidSpace \in Nat \ {0} /\ Blocks * MaxCalls < CidSpace
    /\ Patience \in Nat \ {0} /\ MaxCalls \in Nat
    /\ Bad \subseteq Lbas /\ Faults \subseteq FaultKinds

VARIABLES
    disk,    \* the namespace: each block's parts
    cmds,    \* the commands the controller has and has not completed
    wire,    \* PDUs from the controller, in order
    up,      \* the connection is open
    pc,      \* "idle", or the call in progress: "read" or "write"
    cid,     \* Queue::cid
    nxt,     \* the next block to issue
    last,    \* the last block of the call
    flight,  \* commands issued and not completed: [cid, at]
    failed,  \* a command of this read failed
    budget,  \* PDUs this call may still read
    buf      \* the caller's buffer

VARIABLES    \* observers: no guard but the bound on calls reads them
    call,    \* calls begun
    first,   \* the first block of the call
    good,    \* the last call was a read, and it reported success
    left,    \* a call has returned with a command of its own in flight
    sure     \* the call whose bytes each block must hold, or Unsure

target    == <<disk, cmds, wire, up>>
host      == <<pc, cid, nxt, last, flight, failed, budget, buf>>
observers == <<call, first, good, left, sure>>
vars      == <<target, host, observers>>

Unsure == -1
NoData == [from |-> -1, bytes |-> <<-1, -1>>]

Bytes == (0 .. MaxCalls) \X Lbas

Command == [cid : Cids, op : {"read", "write"}, at : Lbas,
            sent : 0 .. Parts, got : Seq(Bytes)]

Pdu == [type : {"resp"}, cid : Cids, ok : BOOLEAN]
       \cup [type : {"data"}, cid : Cids, part : 1 .. Parts, from : Lbas,
             bytes : Bytes, done : BOOLEAN]
       \cup [type : {"r2t"}, cid : Cids, part : 1 .. Parts]
       \cup [type : {"term"}]

Empty == [b \in Lbas |-> [p \in 1 .. Parts |-> NoData]]

Init ==
    /\ disk = [b \in Lbas |-> [p \in 1 .. Parts |-> <<0, b>>]]
    /\ cmds = {}
    /\ wire = <<>>
    /\ up = TRUE
    /\ pc = "idle"
    /\ cid = CidSpace - 1
    /\ nxt = 0
    /\ last = 0
    /\ flight = {}
    /\ failed = FALSE
    /\ budget = 0
    /\ buf = Empty
    /\ call = 0
    /\ first = 0
    /\ good = FALSE
    /\ left = FALSE
    /\ sure = [b \in Lbas |-> 0]

------------------------------------------------------------------------------
(* The calls.                                                              *)

NextCid == IF cid = CidSpace - 1 THEN 0 ELSE cid + 1

\* The firmware asks for blocks from `b` to `e`.
Begin(op, b, e) ==
    /\ pc = "idle"
    /\ call < MaxCalls
    /\ b <= e
    /\ pc' = op
    /\ nxt' = b
    /\ last' = e
    /\ buf' = Empty
    /\ call' = call + 1
    /\ first' = b
    /\ good' = FALSE
    /\ UNCHANGED <<target, cid, flight, failed, budget, left, sure>>

\* The call returns, and its locals are gone.  Nobody looks at the buffer of a
\* read that failed.
Return(ok) ==
    /\ pc' = "idle"
    /\ flight' = {}
    /\ failed' = FALSE
    /\ budget' = 0
    /\ good' = (ok /\ pc = "read")
    /\ left' = (left \/ flight # {})
    /\ sure' = IF pc = "write"
               THEN [b \in Lbas |-> IF b \notin first .. last THEN sure[b]
                                    ELSE IF ok THEN call ELSE Unsure]
               ELSE sure
    /\ nxt' = 0
    /\ IF good' THEN UNCHANGED <<last, first, buf>>
       ELSE last' = 0 /\ first' = 0 /\ buf' = Empty
    /\ UNCHANGED <<cid, call>>

\* `read` keeps Depth commands in flight and `write` one, until one fails.
MayIssue ==
    /\ nxt <= last /\ ~failed
    /\ \/ pc = "read" /\ Cardinality(flight) < Depth
       \/ pc = "write" /\ flight = {}

\* What the stack takes after the controller has closed reaches nobody.
Issue ==
    /\ MayIssue
    /\ cmds' = cmds \cup (IF up THEN {[cid |-> NextCid, op |-> pc, at |-> nxt,
                                      sent |-> 0, got |-> <<>>]}
                                ELSE {})
    /\ flight' = flight \cup {[cid |-> NextCid, at |-> nxt]}
    /\ cid' = NextCid
    /\ nxt' = nxt + 1
    /\ budget' = IF pc = "read" THEN budget + Patience ELSE Patience
    /\ UNCHANGED <<disk, wire, up, pc, last, failed, buf, observers>>

\* The connection is known to be gone.
SendFails ==
    /\ MayIssue
    /\ ~up
    /\ Return(FALSE)
    /\ UNCHANGED target

Finish ==
    /\ pc # "idle"
    /\ ~MayIssue
    /\ flight = {}
    /\ Return(~failed)
    /\ UNCHANGED target

Waiting ==
    /\ pc # "idle"
    /\ ~MayIssue
    /\ flight # {}

\* The controller sent all the PDUs a call will read.
GiveUp ==
    /\ Waiting
    /\ budget = 0
    /\ Return(FALSE)
    /\ UNCHANGED target

\* Nothing came in time, or the other end has closed.  The queue stays as it is.
Timeout ==
    /\ Waiting
    /\ budget > 0
    /\ wire = <<>>
    /\ up => "timeout" \in Faults
    /\ Return(FALSE)
    /\ UNCHANGED target

------------------------------------------------------------------------------
(* A PDU arrives.                                                          *)

Receive(type) ==
    /\ Waiting
    /\ budget > 0
    /\ wire # <<>>
    /\ Head(wire).type = type
    /\ wire' = Tail(wire)

\* The command in flight that the first PDU is about.
About == {f \in flight : f.cid = Head(wire).cid}

Reads == /\ budget' = budget - 1
         /\ UNCHANGED <<disk, up, pc, cid, nxt, last, observers>>

\* Mutant of SkipStale: junk costs nothing.
SkipForFree ==
    /\ \E t \in {"resp", "data"} : Receive(t)
    /\ About = {}
    /\ UNCHANGED <<disk, cmds, up, host, observers>>

\* Not this call's: an earlier one gave up on it.
SkipStale ==
    /\ \E t \in {"resp", "data"} : Receive(t)
    /\ About = {}
    /\ Reads
    /\ UNCHANGED <<cmds, flight, failed, buf>>

\* A failure is kept until the call's other commands are in.
Completed ==
    /\ Receive("resp")
    /\ About # {}
    /\ failed' = (failed \/ ~Head(wire).ok)
    /\ flight' = flight \ About
    /\ Reads
    /\ UNCHANGED <<cmds, buf>>

\* Mutant of GotData: the data lands at the oldest command's place.
GotDataFirst ==
    /\ Receive("data")
    /\ About # {}
    /\ pc = "read"
    /\ LET f == CHOOSE x \in flight : \A y \in flight : x.at <= y.at
           pdu == Head(wire)
       IN  /\ buf' = [buf EXCEPT ![f.at][pdu.part] =
                        [from |-> pdu.from, bytes |-> pdu.bytes]]
           /\ flight' = IF pdu.done THEN flight \ About ELSE flight
    /\ Reads
    /\ UNCHANGED <<cmds, failed>>

\* Data lands at its own place; with LAST and SUCCESS no completion follows.
GotData ==
    /\ Receive("data")
    /\ About # {}
    /\ pc = "read"
    /\ \E f \in About :
         LET pdu == Head(wire)
         IN  /\ buf' = [buf EXCEPT ![f.at][pdu.part] =
                          [from |-> pdu.from, bytes |-> pdu.bytes]]
             /\ flight' = IF pdu.done THEN flight \ {f} ELSE flight
    /\ Reads
    /\ UNCHANGED <<cmds, failed>>

\* Mutant of AnswerR2T: the data is taken from the start of the call's buffer.
AnswerFromStart ==
    /\ Receive("r2t")
    /\ pc = "write"
    /\ cmds' = {IF c.cid = Head(wire).cid /\ c.op = "write"
                THEN [c EXCEPT !.got = Append(@, <<call, first>>)]
                ELSE c : c \in cmds}
    /\ Reads
    /\ UNCHANGED <<flight, failed, buf>>

\* A write answers every R2T with its own data, under the R2T's identifiers.
AnswerR2T ==
    /\ Receive("r2t")
    /\ pc = "write"
    /\ \E f \in flight :
         cmds' = {IF c.cid = Head(wire).cid /\ c.op = "write"
                  THEN [c EXCEPT !.got = Append(@, <<call, f.at>>)]
                  ELSE c : c \in cmds}
    /\ Reads
    /\ UNCHANGED <<flight, failed, buf>>

\* A PDU that ends the call: an R2T in a read, an answer nobody can take, or
\* the controller's goodbye.
Refuse ==
    /\ \/ Receive("r2t") /\ (pc = "read" \/ ~up)
       \/ Receive("data") /\ About # {} /\ pc = "write"
       \/ Receive("term")
    /\ Return(FALSE)
    /\ UNCHANGED <<disk, cmds, up>>

------------------------------------------------------------------------------
(* The controller.                                                         *)

Send(pdu) == wire' = Append(wire, pdu)

\* The next part of a read.  The last may say that the read is done.
ServeRead(c) ==
    /\ c \in cmds /\ c.op = "read" /\ c.sent < Parts
    /\ LET served == [c EXCEPT !.sent = @ + 1]
       IN  \E done \in {d \in BOOLEAN : d => served.sent = Parts} :
             /\ Send([type |-> "data", cid |-> c.cid, part |-> served.sent,
                      from |-> c.at, bytes |-> disk[c.at][served.sent],
                      done |-> done])
             /\ cmds' = (cmds \ {c}) \cup (IF done THEN {} ELSE {served})
    /\ UNCHANGED <<disk, up, host, observers>>

\* One R2T at a time (MAXR2T is 0 in the ICReq).
AskData(c) ==
    /\ c \in cmds /\ c.op = "write"
    /\ c.sent = Len(c.got) /\ c.sent < Parts
    /\ Send([type |-> "r2t", cid |-> c.cid, part |-> c.sent + 1])
    /\ cmds' = (cmds \ {c}) \cup {[c EXCEPT !.sent = @ + 1]}
    /\ UNCHANGED <<disk, up, host, observers>>

CompleteRead(c) ==
    /\ c \in cmds /\ c.op = "read" /\ c.sent = Parts
    /\ cmds' = cmds \ {c}
    /\ Send([type |-> "resp", cid |-> c.cid, ok |-> TRUE])
    /\ UNCHANGED <<disk, up, host, observers>>

CompleteWrite(c) ==
    /\ c \in cmds /\ c.op = "write" /\ Len(c.got) = Parts
    /\ disk' = [disk EXCEPT ![c.at] = c.got]
    /\ cmds' = cmds \ {c}
    /\ Send([type |-> "resp", cid |-> c.cid, ok |-> TRUE])
    /\ UNCHANGED <<up, host, observers>>

\* A command fails, part of its data moved or not.
Fail(c) ==
    /\ c \in cmds /\ c.at \in Bad
    /\ c.op = "write" => c.sent = Len(c.got)
    /\ cmds' = cmds \ {c}
    /\ Send([type |-> "resp", cid |-> c.cid, ok |-> FALSE])
    /\ UNCHANGED <<disk, up, host, observers>>

\* A completion of a command long since done, or data for a write.  Bound: it
\* is sent in the first call, when that has read everything else.
Junk ==
    /\ "junk" \in Faults
    /\ up /\ call = 1
    /\ Waiting /\ wire = <<>>
    /\ \/ Send([type |-> "resp", cid |-> CidSpace - 1, ok |-> TRUE])
       \/ \E c \in cmds :
            /\ c.op = "write"
            /\ Send([type |-> "data", cid |-> c.cid, part |-> 1, from |-> c.at,
                     bytes |-> disk[c.at][1], done |-> FALSE])
    /\ UNCHANGED <<disk, cmds, up, host, observers>>

\* A C2HTermReq, and the end of the connection.  Bound: a call is waiting, and
\* has read everything else.
Terminate ==
    /\ "close" \in Faults
    /\ up
    /\ Waiting /\ wire = <<>>
    /\ up' = FALSE
    /\ cmds' = {}
    /\ Send([type |-> "term"])
    /\ UNCHANGED <<disk, host, observers>>

------------------------------------------------------------------------------

Calls == \E op \in {"read", "write"}, b, e \in Lbas : Begin(op, b, e)

HostStep == \/ Issue \/ SendFails \/ Finish \/ GiveUp \/ Timeout
            \/ SkipStale \/ Completed \/ GotData \/ AnswerR2T \/ Refuse

Controller == \/ \E c \in cmds : \/ ServeRead(c) \/ AskData(c)
                                 \/ CompleteRead(c) \/ CompleteWrite(c)
                                 \/ Fail(c)
              \/ Junk \/ Terminate

\* Bound: nothing happens after the last call.
Over == pc = "idle" /\ call = MaxCalls

Next == Calls \/ HostStep \/ (~Over /\ Controller) \/ (Over /\ UNCHANGED vars)

Spec == Init /\ [][Next]_vars

\* The call's own steps are taken: the transport's wait ends by the clock.
FairSpec == Spec /\ WF_vars(HostStep)

------------------------------------------------------------------------------
(* Properties.                                                             *)

\* Every variable keeps its type: identifiers wrap, offsets stay in the buffer.
TypeOK ==
    /\ disk \in [Lbas -> [1 .. Parts -> Bytes]]
    /\ cmds \subseteq Command
    /\ wire \in Seq(Pdu)
    /\ up \in BOOLEAN
    /\ pc \in {"idle", "read", "write"}
    /\ cid \in Cids
    /\ nxt \in 0 .. Blocks /\ last \in Lbas /\ first \in Lbas
    /\ flight \subseteq [cid : Cids, at : Lbas]
    /\ failed \in BOOLEAN
    /\ budget \in Nat
    /\ buf \in [Lbas -> [1 .. Parts -> {NoData}
                                       \cup [from : Lbas, bytes : Bytes]]]
    /\ call \in 0 .. MaxCalls
    /\ good \in BOOLEAN /\ left \in BOOLEAN
    /\ sure \in [Lbas -> (0 .. MaxCalls) \cup {Unsure}]

\* As long as no call was left half way, the commands the controller has not
\* completed fit its queue (an SQ of N entries holds N - 1), and none is left
\* when a call returns.
QueueFits ==
    ~left => /\ Cardinality(cmds) < SqSize
             /\ pc = "idle" => cmds = {}

\* A read that reports success has filled each block with that block's data,
\* whatever order the controller answered in and whatever earlier calls gave up
\* on is still arriving.
ReadsOwnBlocks ==
    pc = "idle" /\ good =>
      \A b \in first .. last, p \in 1 .. Parts : buf[b][p].from = b

\* As long as no call was left half way, a block holds what the last write
\* reported done put there, and a read returns it.
AckedWritesHold ==
    pc = "idle" /\ ~left =>
      \A b \in Lbas, p \in 1 .. Parts :
        sure[b] # Unsure =>
          /\ disk[b][p] = <<sure[b], b>>
          /\ good /\ b \in first .. last =>
               buf[b][p].bytes = <<sure[b], b>>

\* As long as no call was left half way, the queue and the disk are in order.
InOrder == QueueFits /\ AckedWritesHold

\* Every call returns, whatever the controller sends or does not send.
CallReturns == pc # "idle" ~> pc = "idle"

\* "not ours: a command an earlier read gave up on" (lib.rs:411): what is still
\* arriving for a command an earlier call gave up on puts no bytes where they
\* were not meant to be.  The code does not keep this: an R2T is answered with
\* the data of the write in progress.
WritesOwnBlocks == \A b \in Lbas, p \in 1 .. Parts : disk[b][p][2] = b
=============================================================================
