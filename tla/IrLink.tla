--------------------------------- MODULE IrLink ---------------------------------
(***************************************************************************)
(* The infrared link between instances of the application: the transport   *)
(* of src/src/ir_link.cpp, pumpIR and the infrared menu of                 *)
(* src/src/macos_main.m, and the two queues of the emulator behind them.   *)
(*                                                                         *)
(* An application is one thread.  A slice of its tick is poll, receive,    *)
(* exchange, run; the menu acts between slices (between ticks in the code, *)
(* which is less).  Applications interleave at the system calls of a poll. *)
(*                                                                         *)
(* TCP is external: a connection holds the bytes each end sent and the     *)
(* other has not received, it delivers them in order or is reset.  All     *)
(* instances use one port of one host.  Leaving the application closes its *)
(* sockets, as Disconnect does.                                            *)
(***************************************************************************)
EXTENDS Integers, FiniteSets, Sequences, TLC

CONSTANTS
  Peers,        \* the instances
  Nobody,       \* no instance
  MayListen,    \* bound: the instances whose menu is used to wait,
  MayConnect,   \* to connect,
  MayStop,      \* to pause; and whose emulator stops without a full queue
  MaxConns,     \* bound: connections ever made
  MaxBytes,     \* bound: bytes one end emits in a session, or outside
  WireLimit,    \* bytes the sockets of one direction hold
  RecvMax,      \* what one poll receives: 16 times sizeof(bytes)
  RxLimit,      \* 65536, of rx
  TxLimit,      \* 65536, of tx
  QueueLimit    \* 65536, of the receive queue of the emulator

ASSUME IrLinkAssumption ==
  /\ Nobody \notin Peers /\ MayListen \cup MayConnect \cup MayStop \subseteq Peers
  /\ MaxConns \in Nat /\ MaxBytes \in Nat /\ WireLimit \in Nat \ {0}
  /\ RecvMax \in Nat \ {0} /\ RxLimit \in Nat /\ RecvMax <= RxLimit
  /\ TxLimit \in Nat /\ QueueLimit \in Nat

VARIABLES
  link,    \* PWLink
  app,     \* the application and the queues of its emulator
  net      \* the connections

vars == <<link, app, net>>

Conns == 1..MaxConns
None == 0                                             \* no connection

(* A byte is the session it was emitted in, None outside, and its place.   *)
Bytes == [conn : Conns \cup {None}, n : 0..MaxBytes]

Links == [state : {-1, 0, 1, 2}, server : BOOLEAN, peer : Conns \cup {None},
          tx : Seq(Bytes), rx : Seq(Bytes), error : {"", "os", "closed", "rx", "tx"}]
Apps == [at : {"poll", "receive", "exchange", "run"}, mode : {"running", "paused", "failed"},
         last : {-1, 0, 1, 2}, ire : BOOLEAN, ir : Seq(Bytes), quiet : BOOLEAN,
         in : Seq(Bytes), error : BOOLEAN]
Connections ==
  [stage : {"free", "syn", "refused", "backlog", "accepted"}, client : Peers \cup {Nobody}, server : Peers \cup {Nobody},
   ends : SUBSET Peers, reset : BOOLEAN, wire : [Peers -> Seq(Bytes)],
   sent : [Peers -> 0..MaxBytes], got : [Peers -> 0..MaxBytes]]

TypeOK ==
  /\ link \in [Peers -> Links] /\ app \in [Peers -> Apps] /\ net \in [Conns -> Connections]
  /\ \A p \in Peers : Len(link[p].tx) <= TxLimit /\ Len(link[p].rx) <= RxLimit
                      /\ Len(app[p].in) <= QueueLimit

First(s, n) == IF n < Len(s) THEN SubSeq(s, 1, n) ELSE s

NoLink == [state |-> 0, server |-> FALSE, peer |-> None, tx |-> <<>>, rx |-> <<>>, error |-> ""]
Zeros == [q \in Peers |-> 0]
NoBytes == [q \in Peers |-> <<>>]
FreeConn == [stage |-> "free", client |-> Nobody, server |-> Nobody, ends |-> {},
             reset |-> FALSE, wire |-> NoBytes, sent |-> Zeros, got |-> Zeros]
NewApp == [at |-> "poll", mode |-> "running", last |-> 0, ire |-> FALSE, ir |-> <<>>,
           quiet |-> TRUE, in |-> <<>>, error |-> FALSE]

Init ==
  /\ link = [p \in Peers |-> NoLink]
  /\ app = [p \in Peers |-> NewApp]
  /\ net = [c \in Conns |-> FreeConn]

-----------------------------------------------------------------------------
(* Connections.                                                            *)

Up(c) == net[c].stage \in {"backlog", "accepted"}
Other(c, p) == IF p = net[c].client THEN net[c].server ELSE net[c].client
Backlog(p) == {c \in Conns : net[c].stage = "backlog" /\ net[c].server = p /\ p \in net[c].ends}
Listeners == {q \in Peers : link[q].server}
HasRoom(q) == Cardinality(Backlog(q)) < 1                      \* listen(server, 1)
Free == {c \in Conns : net[c].stage = "free"}

(* Closing p's sockets: a connection nobody uses any more is forgotten,    *)
(* one that was never accepted is reset.                                   *)
Sockets(p) == {c \in Conns : link[p].peer = c} \cup (IF link[p].server THEN Backlog(p) ELSE {})
Left(c, p) ==
  IF net[c].ends \subseteq {p} THEN [FreeConn EXCEPT !.stage = "refused"]
  ELSE [net[c] EXCEPT !.ends = @ \ {p}, !.wire[Other(c, p)] = <<>>,
                      !.reset = @ \/ (net[c].stage = "backlog" /\ net[c].server = p)]
Hangup(p) == [c \in Conns |-> IF c \in Sockets(p) THEN Left(c, p) ELSE net[c]]

(* The handshake, between the calls of the client.                         *)
Establish(c) ==
  /\ net[c].stage = "syn"
  /\ \E q \in Listeners :
       /\ HasRoom(q)
       /\ net' = [net EXCEPT ![c] = [@ EXCEPT !.stage = "backlog", !.server = q, !.ends = net[c].ends \cup {q}]]
  /\ UNCHANGED <<link, app>>

Refuse(c) ==
  /\ net[c].stage = "syn" /\ \A q \in Listeners : ~HasRoom(q)
  /\ net' = [net EXCEPT ![c].stage = "refused"]
  /\ UNCHANGED <<link, app>>

(* The network, or an end that sends to a closed one, resets.              *)
Reset(c) ==
  /\ Up(c) /\ ~net[c].reset /\ net[c].ends # {}
  /\ net' = [net EXCEPT ![c].reset = TRUE]
  /\ UNCHANGED <<link, app>>

-----------------------------------------------------------------------------
(* pw_link_poll.                                                           *)

Step(p, from) == app[p].at = from /\ app[p].mode = "running"
Goto(p, to) == app' = [app EXCEPT ![p].at = to]

(* fail: every socket closed, every byte thrown away.                      *)
Failed(why) == [NoLink EXCEPT !.state = -1, !.error = why]
Fail(p, why) == link' = [link EXCEPT ![p] = Failed(why)] /\ net' = Hangup(p)

(* state < 1: nothing to poll.                                             *)
PollOff(p) ==
  /\ Step(p, "poll") /\ link[p].state < 1
  /\ Goto(p, "exchange")
  /\ UNCHANGED <<link, net>>

Waiting(p) == link[p].server /\ link[p].peer = None

AcceptNone(p) ==
  /\ Step(p, "poll") /\ Waiting(p) /\ Backlog(p) = {}
  /\ Goto(p, "exchange")
  /\ UNCHANGED <<link, net>>

Accept(p) ==
  /\ Step(p, "poll") /\ Waiting(p)
  /\ \E c \in Backlog(p) :
       /\ link' = [link EXCEPT ![p].peer = c, ![p].state = 2]
       /\ net' = [net EXCEPT ![c].stage = "accepted"]
  /\ Goto(p, "receive")

(* ECONNABORTED: the client has gone before it was accepted.               *)
AcceptFails(p) ==
  /\ Step(p, "poll") /\ Waiting(p) /\ \E c \in Backlog(p) : net[c].reset
  /\ Fail(p, "os")
  /\ Goto(p, "exchange")

Connecting(p) == Step(p, "poll") /\ link[p].state = 1 /\ link[p].peer # None

ConnectPending(p) ==
  /\ Connecting(p) /\ net[link[p].peer].stage = "syn"
  /\ Goto(p, "exchange")
  /\ UNCHANGED <<link, net>>

ConnectFails(p) ==
  /\ Connecting(p)
  /\ LET c == net[link[p].peer] IN c.stage = "refused" \/ c.reset
  /\ Fail(p, "os")
  /\ Goto(p, "exchange")

ConnectDone(p) ==
  /\ Connecting(p) /\ Up(link[p].peer) /\ ~net[link[p].peer].reset
  /\ link' = [link EXCEPT ![p].state = 2]
  /\ Goto(p, "receive")
  /\ UNCHANGED net

(* A mistake: a partial send takes everything out of tx.                   *)
SendForgets(p) ==
  /\ Step(p, "poll") /\ link[p].state = 2
  /\ LET c == link[p].peer
         sent == First(link[p].tx, WireLimit - Len(net[c].wire[p]))
     IN /\ link' = [link EXCEPT ![p].tx = <<>>]
        /\ net' = [net EXCEPT ![c].wire[p] = @ \o sent]
  /\ Goto(p, "receive")

(* The send loop: until tx is empty or the sockets are full.  What is sent *)
(* to an end that has closed is lost, and resets the connection.           *)
Send(p) ==
  /\ Step(p, "poll") /\ link[p].state = 2
  /\ LET c == link[p].peer
         tx == link[p].tx
         open == Other(c, p) \in net[c].ends
         sent == First(tx, WireLimit - Len(net[c].wire[p]))
     IN /\ tx = <<>> \/ ~net[c].reset
        /\ link' = [link EXCEPT ![p].tx = SubSeq(tx, Len(sent) + 1, Len(tx))]
        /\ net' = [net EXCEPT ![c].wire[p] = IF open THEN @ \o sent ELSE @,
                              ![c].reset = @ \/ (~open /\ sent # <<>>)]
  /\ Goto(p, "receive")

SendFails(p) ==
  /\ Step(p, "poll") /\ link[p].state = 2
  /\ link[p].tx # <<>> /\ net[link[p].peer].reset
  /\ Fail(p, "os")
  /\ Goto(p, "exchange")

(* The receive loop: what has arrived, k of the bytes sent.                *)
Arrives(p, k) ==
  LET c == link[p].peer IN
  /\ ~net[c].reset
  /\ k <= RecvMax /\ k <= Len(net[c].wire[Other(c, p)])

(* A mistake: 0 bytes are taken for nothing to read.                       *)
AtEndNever(p, k) == FALSE

(* recv gives 0: all was received, and the other end has closed.           *)
AtEnd(p, k) ==
  LET c == link[p].peer IN
  k = Len(net[c].wire[Other(c, p)]) /\ k < RecvMax /\ Other(c, p) \notin net[c].ends

(* The end of the connection throws away what was received before it.      *)
ReceiveFails(p) ==
  /\ Step(p, "receive")
  /\ \/ net[link[p].peer].reset /\ Fail(p, "os")
     \/ \E k \in 0..WireLimit : Arrives(p, k) /\ Len(link[p].rx) + k > RxLimit /\ Fail(p, "rx")
     \/ \E k \in 0..WireLimit : Arrives(p, k) /\ AtEnd(p, k) /\ Fail(p, "closed")
  /\ Goto(p, "exchange")

Receive(p, k) ==
  /\ Step(p, "receive") /\ Arrives(p, k) /\ ~AtEnd(p, k) /\ Len(link[p].rx) + k <= RxLimit
  /\ LET c == link[p].peer
         q == Other(c, p)
         wire == net[c].wire[q]
     IN /\ link' = [link EXCEPT ![p].rx = @ \o SubSeq(wire, 1, k)]
        /\ net' = [net EXCEPT ![c].wire[q] = SubSeq(wire, k + 1, Len(wire))]
  /\ Goto(p, "exchange")

-----------------------------------------------------------------------------
(* pumpIR after the poll.                                                  *)

Cleared(a) == [a EXCEPT !.ir = <<>>, !.in = <<>>]                  \* pw_ir_clear

(* The emulator with what is left after a change of the link's state.      *)
Noticed(p) == IF link[p].state # app[p].last THEN Cleared(app[p]) ELSE app[p]

(* pw_ir_transmit gives a burst after 250 us without a byte, and nothing   *)
(* before; unless the link is connected it is thrown away.                 *)
Burst(p) == IF app[p].quiet THEN Noticed(p).ir ELSE <<>>
Sendable(p) == IF link[p].state = 2 THEN Burst(p) ELSE <<>>
(* A mistake: one byte too many fits.                                      *)
TxFullLate(p) == Len(Sendable(p)) > TxLimit + 1 - Len(link[p].tx)
TxFull(p) == Len(Sendable(p)) > TxLimit - Len(link[p].tx)

(* pw_ir_receive: thrown away while the guest has its port disabled.  One  *)
(* byte too many is an error of the emulator.                              *)
Handed(p, bytes) ==
  LET in == Noticed(p).in
      all == IF app[p].ire THEN in \o bytes ELSE in
  IN [Noticed(p) EXCEPT !.at = "run", !.last = link[p].state,
        !.ir = IF app[p].quiet THEN <<>> ELSE @,
        !.in = First(all, QueueLimit),
        !.error = @ \/ Len(all) > QueueLimit]

(* fail in pw_link_send empties rx too: nothing is handed over.            *)
ExchangeFails(p) ==
  /\ Step(p, "exchange") /\ TxFull(p)
  /\ Fail(p, "tx")
  /\ app' = [app EXCEPT ![p] = Handed(p, <<>>)]

(* A mistake: rx is kept while the guest has its port disabled.            *)
ExchangeEnabled(p) ==
  /\ Step(p, "exchange") /\ ~TxFull(p)
  /\ LET rx == IF app[p].ire THEN link[p].rx ELSE <<>>
         c == link[p].peer
     IN /\ link' = [link EXCEPT ![p].tx = @ \o Sendable(p),
                                ![p].rx = IF app[p].ire THEN <<>> ELSE @]
        /\ app' = [app EXCEPT ![p] = Handed(p, rx)]
        /\ net' = IF rx = <<>> THEN net ELSE [net EXCEPT ![c].got[p] = @ + Len(rx)]

Exchange(p) ==
  /\ Step(p, "exchange") /\ ~TxFull(p)
  /\ LET rx == link[p].rx
         c == link[p].peer
     IN /\ link' = [link EXCEPT ![p].tx = @ \o Sendable(p), ![p].rx = <<>>]
        /\ app' = [app EXCEPT ![p] = Handed(p, rx)]
        /\ net' = IF rx = <<>> THEN net ELSE [net EXCEPT ![c].got[p] = @ + Len(rx)]

-----------------------------------------------------------------------------
(* pw_run: the guest reads k bytes, may switch its port and, when it is on,*)
(* emits at most one byte.  The time to the end of the slice is its quiet. *)

Session(p) == IF link[p].state = 2 THEN link[p].peer ELSE None
Serial(p) == IF Session(p) = None THEN 0 ELSE net[Session(p)].sent[p] + 1

Read(p, k, ire) ==
  IF ire THEN SubSeq(app[p].in, k + 1, Len(app[p].in)) ELSE <<>>

(* A mistake: a slice without a byte does not count as quiet.              *)
RunSilentBusy(p) ==
  /\ Step(p, "run") /\ ~app[p].error
  /\ \E k \in 0..Len(app[p].in), ire \in BOOLEAN :
       app' = [app EXCEPT ![p] = [@ EXCEPT !.at = "poll", !.ire = ire, !.in = Read(p, k, ire)]]
  /\ UNCHANGED <<link, net>>

RunSilent(p) ==
  /\ Step(p, "run") /\ ~app[p].error
  /\ \E k \in 0..Len(app[p].in), ire \in BOOLEAN :
       app' = [app EXCEPT ![p] = [@ EXCEPT !.at = "poll", !.ire = ire, !.in = Read(p, k, ire),
                                           !.quiet = TRUE]]
  /\ UNCHANGED <<link, net>>

RunEmits(p) ==
  /\ Step(p, "run") /\ ~app[p].error /\ app[p].ire
  /\ Len(app[p].ir) < MaxBytes /\ Serial(p) <= MaxBytes
  /\ \E k \in 0..Len(app[p].in), quiet \in BOOLEAN :
       app' = [app EXCEPT ![p] = [@ EXCEPT !.at = "poll", !.in = Read(p, k, TRUE), !.quiet = quiet,
                                  !.ir = Append(app[p].ir, [conn |-> Session(p), n |-> Serial(p)])]]
  /\ net' = IF Session(p) = None THEN net ELSE [net EXCEPT ![Session(p)].sent[p] = @ + 1]
  /\ UNCHANGED link

(* The emulator stops: an instruction it refuses, or a queue that is full. *)
RunFails(p) ==
  /\ Step(p, "run") /\ (p \in MayStop \/ app[p].error)
  /\ app' = [app EXCEPT ![p].mode = "failed", ![p].at = "poll"]
  /\ UNCHANGED <<link, net>>

-----------------------------------------------------------------------------
(* The menu.                                                               *)

Menu(p) == app[p].at = "poll"

(* A mistake: pw_link_listen keeps the sockets it finds.                   *)
ListenLeaking(p) ==
  /\ Menu(p) /\ p \in MayListen /\ app[p].mode # "failed" /\ Listeners = {}
  /\ link' = [link EXCEPT ![p] = [NoLink EXCEPT !.state = 1, !.server = TRUE]]
  /\ app' = [app EXCEPT ![p] = Cleared(@)]
  /\ UNCHANGED net

(* pw_ir_clear, then pw_link_listen; bind fails when the port is taken.    *)
Listen(p) ==
  /\ Menu(p) /\ p \in MayListen /\ app[p].mode # "failed"
  /\ link' = [link EXCEPT ![p] = IF Listeners \subseteq {p}
                                 THEN [NoLink EXCEPT !.state = 1, !.server = TRUE]
                                 ELSE Failed("os")]
  /\ app' = [app EXCEPT ![p] = Cleared(@)]
  /\ net' = Hangup(p)

(* Dialling a free connection; connect answers at once or is in progress.  *)
Dialled(p, c, q) ==
  [FreeConn EXCEPT !.client = p, !.ends = {p, q}, !.server = IF p = q THEN Nobody ELSE q,
                   !.stage = IF p = q THEN "syn" ELSE "backlog"]
DialTo(p) == {p} \cup {q \in Listeners \ {p} : HasRoom(q)}

(* A mistake: the queues of the emulator are kept for the new session.     *)
ConnectKeeping(p) ==
  /\ Menu(p) /\ p \in MayConnect /\ app[p].mode # "failed"
  /\ \E c \in Free, q \in DialTo(p) :
       /\ c - 1 \notin Free
       /\ net' = [Hangup(p) EXCEPT ![c] = Dialled(p, c, q)]
       /\ link' = [link EXCEPT ![p] = [NoLink EXCEPT !.state = IF p = q THEN 1 ELSE 2, !.peer = c]]
  /\ UNCHANGED app

Connect(p) ==
  /\ Menu(p) /\ p \in MayConnect /\ app[p].mode # "failed"
  /\ \E c \in Free, q \in DialTo(p) :
       /\ c - 1 \notin Free
       /\ net' = [Hangup(p) EXCEPT ![c] = Dialled(p, c, q)]
       /\ link' = [link EXCEPT ![p] = [NoLink EXCEPT !.state = IF p = q THEN 1 ELSE 2, !.peer = c]]
  /\ app' = [app EXCEPT ![p] = Cleared(@)]

(* An address that is not one, or connect refused at once.                 *)
ConnectRefused(p) ==
  /\ Menu(p) /\ p \in MayConnect /\ app[p].mode # "failed"
  /\ Fail(p, "os")
  /\ app' = [app EXCEPT ![p] = Cleared(@)]

Disconnect(p) ==
  /\ Menu(p) /\ link[p].state # 0
  /\ link' = [link EXCEPT ![p] = NoLink]
  /\ app' = [app EXCEPT ![p] = [Cleared(@) EXCEPT !.last = 0]]
  /\ net' = Hangup(p)

(* loadROM: a new emulator, then disconnectIR.                             *)
Reload(p) ==
  /\ Menu(p)
  /\ link' = [link EXCEPT ![p] = NoLink]
  /\ app' = [app EXCEPT ![p] = NewApp]
  /\ net' = Hangup(p)

TogglePause(p) ==
  /\ Menu(p) /\ app[p].mode # "failed" /\ p \in MayStop
  /\ app' = [app EXCEPT ![p].mode = IF @ = "paused" THEN "running" ELSE "paused"]
  /\ UNCHANGED <<link, net>>

-----------------------------------------------------------------------------

Poll(p) ==
  \/ PollOff(p) \/ AcceptNone(p) \/ Accept(p) \/ AcceptFails(p)
  \/ ConnectPending(p) \/ ConnectFails(p) \/ ConnectDone(p)
  \/ Send(p) \/ SendFails(p)
Recv(p) == ReceiveFails(p) \/ \E k \in 0..WireLimit : Receive(p, k)
Pump(p) == Exchange(p) \/ ExchangeFails(p)
Run(p) == RunSilent(p) \/ RunEmits(p) \/ RunFails(p)
Slice(p) == Poll(p) \/ Recv(p) \/ Pump(p) \/ Run(p)
User(p) ==
  \/ Listen(p) \/ Connect(p) \/ ConnectRefused(p) \/ Disconnect(p) \/ Reload(p)
  \/ TogglePause(p)
Network(c) == Establish(c) \/ Refuse(c) \/ Reset(c)

Next ==
  \/ \E p \in Peers : Slice(p) \/ User(p)
  \/ \E c \in Conns : Network(c)

Spec == Init /\ [][Next]_vars

(* Slices go on while an application runs and is not paused, and TCP does  *)
(* not hold the same bytes back for ever.                                  *)
AllArrived(p) ==
  Step(p, "receive") /\ \E k \in 0..WireLimit :
    /\ k = RecvMax \/ k = Len(net[link[p].peer].wire[Other(link[p].peer, p)])
    /\ Receive(p, k) \/ (AtEnd(p, k) /\ ReceiveFails(p))
Fairness ==
  /\ \A p \in Peers : WF_vars(Slice(p)) /\ SF_vars(AllArrived(p))
  /\ \A c \in Conns : WF_vars(Establish(c) \/ Refuse(c))
FairSpec == Spec /\ Fairness

-----------------------------------------------------------------------------

(* The bytes the emulator of q has emitted and pw_ir_transmit has not given *)
(* away, if one of them is of the session.                                 *)
Emitted(c, q) == IF \E i \in DOMAIN app[q].ir : app[q].ir[i].conn = c THEN app[q].ir ELSE <<>>

(* What q emitted for the session and p has not been handed, oldest first. *)
Pipe(c, q, p) == link[p].rx \o net[c].wire[q] \o link[q].tx \o Emitted(c, q)

(* Order and conservation: while both ends hold a session, what is between *)
(* the two emulators is exactly what the one emitted in this session after *)
(* what the other was handed, in order: nothing lost, doubled or foreign.  *)
InOrder ==
  \A c \in Conns, p \in Peers :
    link[p].peer = c /\ link[p].state = 2 =>
      \A q \in net[c].ends \ {p} : link[q].peer = c =>
        Pipe(c, q, p) = [i \in 1..(net[c].sent[q] - net[c].got[p]) |->
                           [conn |-> c, n |-> net[c].got[p] + i]]

(* The guest runs with bytes of the session its link is in and no other,   *)
(* unless the link has failed in the same slice.                           *)
OwnSession ==
  \A p \in Peers : app[p].at = "run" /\ link[p].state # -1 =>
    \A i \in DOMAIN app[p].in : app[p].in[i].conn = Session(p) /\ Session(p) # None

(* No socket is leaked: an end of a connection that is open belongs to the *)
(* link's peer or waits in the backlog of its server.                      *)
NoLeak ==
  \A c \in Conns : \A p \in net[c].ends :
    link[p].peer = c \/ (link[p].server /\ c \in Backlog(p))

(* "Trop de donnees IR en attente" is never shown: pumpIR empties rx.      *)
RxNeverFull == \A p \in Peers : link[p].error # "rx"

Stops(p) == []<>(app[p].mode # "running")

(* Once one end of a session has closed, the other leaves the session,     *)
(* unless it is paused again and again or has failed.                      *)
NoticesClose ==
  \A c \in Conns, p \in Peers :
    Stops(p) \/ (link[p].peer = c /\ link[p].state = 2 /\ net[c].ends = {p} ~> link[p].peer # c)

(* What one end emitted in a session reaches the emulator of the other, or *)
(* the session ends; also when the other had not accepted it yet.          *)
Delivered ==
  \A c \in Conns, p \in Peers, q \in Peers, n \in 1..MaxBytes :
    \/ p = q \/ Stops(p) \/ Stops(q)
    \/ net[c].sent[q] >= n ~> net[c].got[p] >= n \/ net[c].ends # {p, q}

PeerSymmetry == Permutations(Peers)
=============================================================================
