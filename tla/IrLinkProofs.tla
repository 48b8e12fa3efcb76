---------------------------- MODULE IrLinkProofs ----------------------------
(***************************************************************************)
(* Proofs about the sessions of IrLink, for any number of instances and    *)
(* connections and any sizes of the buffers.                               *)
(*                                                                         *)
(* LinkInv says of each instance what its sockets, buffers and queues hold *)
(* while its link is up, down, or has changed since pumpIR last looked     *)
(* (Tied, Queued), and of each connection whose ends it has (Sound, Held). *)
(* A step of one instance is looked at through what it spares the others.  *)
(*                                                                         *)
(* OrderInv adds where in the sequence of the emitted bytes each buffer    *)
(* between two guests begins (Flow, Follows), and who the two ends of a    *)
(* connection are (Roles), without which the end that dials and the one    *)
(* that accepts could not be told apart.                                   *)
(***************************************************************************)
EXTENDS IrLink, TLAPS

\* Connections without the bounds on what was sent and received.
NetRecs ==
  [stage : {"free", "syn", "refused", "backlog", "accepted"}, client : Peers \cup {Nobody},
   server : Peers \cup {Nobody}, ends : SUBSET Peers, reset : BOOLEAN,
   wire : [Peers -> Seq(Bytes)], sent : [Peers -> Nat], got : [Peers -> Nat]]

UpStages == {"backlog", "accepted"}
Own(s, c) == \A i \in 1 .. Len(s) : s[i].conn = c

\* A link l of p with the application a over the connections n: it holds the
\* socket of its peer, its buffers hold bytes of its session alone, and rx is
\* empty but between a poll and the exchange.
Tied(p, l, a, n) ==
  /\ l.peer # None => p \in n[l.peer].ends
  /\ l.state = 2 => /\ l.peer # None /\ n[l.peer].stage \in UpStages
                    /\ Own(l.tx, l.peer) /\ Own(l.rx, l.peer)
  /\ l.state # 2 => l.tx = <<>> /\ l.rx = <<>>
  /\ l.server => l.state \in {1, 2}
  /\ a.at = "receive" => l.state = 2
  /\ a.at # "exchange" => l.rx = <<>>
  /\ l.error # "rx"

\* The queues of the emulator hold bytes of the session of the link, or will be
\* cleared before the guest runs, or the link has failed.
SessionOf(l) == IF l.state = 2 THEN l.peer ELSE None
Owned(l, a) ==
  /\ Own(a.ir, SessionOf(l)) /\ Own(a.in, SessionOf(l))
  /\ l.state # 2 => a.in = <<>>
Queued(l, a) ==
  /\ \/ a.ir = <<>> /\ a.in = <<>>
     \/ l.state = a.last /\ Owned(l, a)
     \/ l.state # a.last /\ (l.state = -1 \/ (l.state = 2 /\ a.last = 1 /\ Own(a.ir, None)))
  /\ a.at = "run" => l.state = -1 \/ l.state = a.last

\* A connection c: who its ends are, and that it carries its own bytes.
Sound(c, x) ==
  /\ x.stage = "free" => x.ends = {}
  /\ x.stage \in {"syn", "backlog", "accepted"} => x.client \in Peers
  /\ x.stage \in UpStages => x.server \in Peers
  /\ \A q \in Peers : Own(x.wire[q], c)

\* The end that r has of the connection c is held by its link, or waits.
Held(r, c, l, n) ==
  r \in n[c].ends => l.peer = c \/ (l.server /\ n[c].stage = "backlog" /\ n[c].server = r)

LinkInv ==
  /\ link \in [Peers -> Links] /\ app \in [Peers -> Apps] /\ net \in [Conns -> NetRecs]
  /\ \A p \in Peers : Tied(p, link[p], app[p], net) /\ Queued(link[p], app[p])
  /\ \A c \in Conns : Sound(c, net[c])
  /\ \A p \in Peers, c \in Conns : Held(p, c, link[p], net)

\* What a step that makes n of the connections spares r: c is not taken away
\* from its link, and its end of c is still held.
Spared(r, c, n) ==
  /\ link[r].peer = c => /\ r \in net[c].ends => r \in n[c].ends
                         /\ net[c].stage \in UpStages => n[c].stage \in UpStages
  /\ Held(r, c, link[r], n)

-----------------------------------------------------------------------------
\* What the operators on sequences keep.
LEMMA EmptyOwn ==
  \A c : Own(<<>>, c) /\ <<>> \in Seq(Bytes)
BY DEF Own

LEMMA OwnPart ==
  ASSUME NEW s \in Seq(Bytes), NEW c, Own(s, c), NEW i \in Nat \ {0}, NEW j \in Int, j <= Len(s)
  PROVE  SubSeq(s, i, j) \in Seq(Bytes) /\ Own(SubSeq(s, i, j), c)
<1>1. SubSeq(s, i, j) \in Seq(Bytes)
  OBVIOUS
<1>2. ASSUME NEW k \in 1 .. Len(SubSeq(s, i, j)) PROVE SubSeq(s, i, j)[k].conn = c
  <2>1. /\ i + k - 1 \in 1 .. Len(s) /\ SubSeq(s, i, j)[k] = s[i + k - 1]
    OBVIOUS
  <2>. QED
    BY <2>1 DEF Own
<1>. QED
  BY <1>1, <1>2 DEF Own

LEMMA OwnJoined ==
  ASSUME NEW s \in Seq(Bytes), NEW t \in Seq(Bytes), NEW c, Own(s, c), Own(t, c)
  PROVE  s \o t \in Seq(Bytes) /\ Own(s \o t, c)
<1>1. s \o t \in Seq(Bytes)
  OBVIOUS
<1>2. ASSUME NEW k \in 1 .. Len(s \o t) PROVE (s \o t)[k].conn = c
  <2>1. CASE k <= Len(s)
    <3>1. k \in 1 .. Len(s) /\ (s \o t)[k] = s[k]
      BY <2>1
    <3>. QED
      BY <3>1 DEF Own
  <2>2. CASE k > Len(s)
    <3>1. k - Len(s) \in 1 .. Len(t) /\ (s \o t)[k] = t[k - Len(s)]
      BY <2>2
    <3>. QED
      BY <3>1 DEF Own
  <2>. QED
    BY <2>1, <2>2
<1>. QED
  BY <1>1, <1>2 DEF Own

LEMMA OwnFirst ==
  ASSUME NEW s \in Seq(Bytes), NEW c, Own(s, c), NEW n \in Int
  PROVE  /\ First(s, n) \in Seq(Bytes) /\ Own(First(s, n), c)
         /\ Len(First(s, n)) \in Nat
<1>1. CASE n < Len(s)
  BY <1>1, OwnPart DEF First
<1>2. CASE ~(n < Len(s))
  BY <1>2 DEF First
<1>. QED
  BY <1>1, <1>2

-----------------------------------------------------------------------------
\* A step of p: it is enough to look at p, and at what is spared of the others.
LEMMA StepOf ==
  ASSUME LinkInv, NEW p \in Peers, NEW l \in Links, NEW a \in Apps, NEW n \in [Conns -> NetRecs],
         Tied(p, l, a, n), Queued(l, a),
         \A c \in Conns : Sound(c, n[c]) /\ Held(p, c, l, n),
         \A r \in Peers \ {p}, c \in Conns : Spared(r, c, n),
         link' = [link EXCEPT ![p] = l], app' = [app EXCEPT ![p] = a], net' = n
  PROVE  LinkInv'
<1>1. link' \in [Peers -> Links] /\ app' \in [Peers -> Apps] /\ net' \in [Conns -> NetRecs]
  BY DEF LinkInv
<1>2. /\ link'[p] = l /\ app'[p] = a
      /\ \A r \in Peers \ {p} : link'[r] = link[r] /\ app'[r] = app[r]
  BY DEF LinkInv
<1>3. ASSUME NEW r \in Peers PROVE Tied(r, link'[r], app'[r], net') /\ Queued(link'[r], app'[r])
  <2>1. CASE r = p
    BY <2>1, <1>2
  <2>2. CASE r # p
    <3>1. /\ Tied(r, link[r], app[r], net) /\ Queued(link[r], app[r])
          /\ link[r].peer \in Conns \cup {None}
      BY DEF LinkInv, Links
    <3>2. Tied(r, link[r], app[r], n)
      <4>1. CASE link[r].peer = None
        BY <3>1, <4>1 DEF Tied
      <4>2. CASE link[r].peer \in Conns
        <5>1. Spared(r, link[r].peer, n)
          BY <2>2, <4>2
        <5>. QED
          BY <3>1, <5>1 DEF Tied, Spared
      <4>. QED
        BY <3>1, <4>1, <4>2
    <3>. QED
      BY <2>2, <1>2, <3>1, <3>2
  <2>. QED
    BY <2>1, <2>2
<1>4. ASSUME NEW r \in Peers, NEW c \in Conns PROVE Held(r, c, link'[r], net')
  <2>1. CASE r = p
    BY <2>1, <1>2
  <2>2. CASE r # p
    BY <2>2, <1>2 DEF Spared
  <2>. QED
    BY <2>1, <2>2
<1>. QED
  BY <1>1, <1>3, <1>4 DEF LinkInv

\* A step of p that leaves the connections their ends and their stages.
Alike(n) ==
  \A c \in Conns : /\ n[c].ends = net[c].ends /\ n[c].stage = net[c].stage
                   /\ n[c].server = net[c].server

LEMMA CalmStep ==
  ASSUME LinkInv, NEW p \in Peers, NEW l \in Links, NEW a \in Apps, NEW n \in [Conns -> NetRecs],
         Tied(p, l, a, n), Queued(l, a), Alike(n), \A c \in Conns : Sound(c, n[c]),
         l.peer = link[p].peer, l.server = link[p].server,
         link' = [link EXCEPT ![p] = l], app' = [app EXCEPT ![p] = a], net' = n
  PROVE  LinkInv'
<1>1. ASSUME NEW c \in Conns PROVE Held(p, c, l, n)
  BY DEF LinkInv, Held, Alike
<1>2. ASSUME NEW r \in Peers \ {p}, NEW c \in Conns PROVE Spared(r, c, n)
  <2>1. Held(r, c, link[r], net)
    BY DEF LinkInv
  <2>. QED
    BY <2>1 DEF Spared, Held, Alike
<1>. QED
  BY <1>1, <1>2, StepOf

\* A step of p that changes its application alone.
LEMMA AppStep ==
  ASSUME LinkInv, NEW p \in Peers, NEW a \in Apps,
         Tied(p, link[p], a, net), Queued(link[p], a),
         app' = [app EXCEPT ![p] = a], UNCHANGED <<link, net>>
  PROVE  LinkInv'
<1>1. /\ link[p] \in Links /\ net \in [Conns -> NetRecs]
      /\ link' = [link EXCEPT ![p] = link[p]] /\ net' = net
      /\ \A c \in Conns : Sound(c, net[c])
  BY DEF LinkInv
<1>2. Alike(net)
  BY DEF Alike
<1>. QED
  BY <1>1, <1>2, CalmStep

\* A step of the network alone.
LEMMA NetStep ==
  ASSUME LinkInv, NEW n \in [Conns -> NetRecs], \A c \in Conns : Sound(c, n[c]),
         \A r \in Peers, c \in Conns : Spared(r, c, n),
         UNCHANGED <<link, app>>, net' = n
  PROVE  LinkInv'
<1>1. CASE Peers = {}
  BY <1>1 DEF LinkInv
<1>2. ASSUME NEW p \in Peers PROVE LinkInv'
  <2>1. /\ link[p] \in Links /\ app[p] \in Apps
        /\ link' = [link EXCEPT ![p] = link[p]] /\ app' = [app EXCEPT ![p] = app[p]]
        /\ Tied(p, link[p], app[p], net) /\ Queued(link[p], app[p])
        /\ link[p].peer \in Conns \cup {None}
    BY DEF LinkInv, Links
  <2>2. Tied(p, link[p], app[p], n)
    <3>1. CASE link[p].peer = None
      BY <2>1, <3>1 DEF Tied
    <3>2. CASE link[p].peer \in Conns
      <4>1. Spared(p, link[p].peer, n)
        BY <3>2
      <4>. QED
        BY <2>1, <4>1 DEF Tied, Spared
    <3>. QED
      BY <2>1, <3>1, <3>2
  <2>3. \A c \in Conns : Held(p, c, link[p], n)
    BY DEF Spared
  <2>. QED
    BY <2>1, <2>2, <2>3, StepOf
<1>. QED
  BY <1>1, <1>2

\* Closing the sockets of p.
LEMMA HangupSpares ==
  ASSUME LinkInv, NEW p \in Peers
  PROVE  /\ Hangup(p) \in [Conns -> NetRecs]
         /\ \A c \in Conns : Sound(c, Hangup(p)[c]) /\ p \notin Hangup(p)[c].ends
         /\ \A r \in Peers \ {p}, c \in Conns : Spared(r, c, Hangup(p))
<1>. DEFINE n == Hangup(p)
<1>1. ASSUME NEW c \in Conns
      PROVE  n[c] \in NetRecs /\ Sound(c, n[c]) /\ p \notin n[c].ends
  <2>1. net[c] \in NetRecs /\ Sound(c, net[c]) /\ Held(p, c, link[p], net)
    BY DEF LinkInv
  <2>2. CASE c \notin Sockets(p)
    <3>1. n[c] = net[c]
      BY <2>2 DEF Hangup
    <3>2. p \notin net[c].ends
      BY <2>1, <2>2 DEF Held, Sockets, Backlog
    <3>. QED
      BY <2>1, <3>1, <3>2
  <2>3. CASE c \in Sockets(p) /\ net[c].ends \subseteq {p}
    <3>1. n[c] = [FreeConn EXCEPT !.stage = "refused"]
      BY <2>3 DEF Hangup, Left
    <3>2. NoBytes \in [Peers -> Seq(Bytes)] /\ Zeros \in [Peers -> Nat]
      BY EmptyOwn DEF NoBytes, Zeros
    <3>3. n[c] \in NetRecs
      BY <3>1, <3>2 DEF NetRecs, FreeConn
    <3>4. \A q \in Peers : n[c].wire[q] = <<>>
      BY <3>1 DEF FreeConn, NoBytes
    <3>5. n[c].stage = "refused" /\ n[c].ends = {}
      BY <3>1 DEF FreeConn
    <3>. QED
      BY <3>3, <3>4, <3>5, EmptyOwn DEF Sound, UpStages
  <2>4. CASE c \in Sockets(p) /\ ~(net[c].ends \subseteq {p})
    <3>. DEFINE w == [net[c].wire EXCEPT ![Other(c, p)] = <<>>]
                b == net[c].reset \/ (net[c].stage = "backlog" /\ net[c].server = p)
    <3>1. n[c] = [net[c] EXCEPT !.ends = @ \ {p}, !.wire = w, !.reset = b]
      BY <2>4 DEF Hangup, Left
    <3>2. net[c].wire \in [Peers -> Seq(Bytes)]
      BY <2>1 DEF NetRecs
    <3>3. /\ w \in [Peers -> Seq(Bytes)]
          /\ \A q \in Peers : w[q] = <<>> \/ w[q] = net[c].wire[q]
      BY <3>2, EmptyOwn
    <3>4. b \in BOOLEAN
      BY <2>1 DEF NetRecs
    <3>. HIDE DEF w, b
    <3>5. n[c] \in NetRecs
      BY <2>1, <3>1, <3>3, <3>4 DEF NetRecs
    <3>6. /\ n[c].stage = net[c].stage /\ n[c].client = net[c].client /\ n[c].server = net[c].server
          /\ n[c].ends = net[c].ends \ {p} /\ n[c].wire = w
      BY <2>1, <3>1 DEF NetRecs
    <3>7. \A q \in Peers : Own(w[q], c)
      BY <2>1, <3>3, EmptyOwn DEF Sound
    <3>. QED
      BY <2>1, <3>5, <3>6, <3>7 DEF Sound
  <2>. QED
    BY <2>2, <2>3, <2>4
<1>2. ASSUME NEW r \in Peers \ {p}, NEW c \in Conns PROVE Spared(r, c, n)
  <2>1. Held(r, c, link[r], net) /\ net[c] \in NetRecs
    BY DEF LinkInv
  <2>2. CASE c \notin Sockets(p)
    <3>1. n[c] = net[c]
      BY <2>2 DEF Hangup
    <3>. QED
      BY <2>1, <3>1 DEF Spared, Held
  <2>3. CASE c \in Sockets(p) /\ net[c].ends \subseteq {p}
    <3>1. n[c].ends = {}
      BY <2>3 DEF Hangup, Left, FreeConn
    <3>2. link[r].peer # c
      <4>1. Tied(r, link[r], app[r], net) /\ c # None
        BY DEF LinkInv, Conns, None
      <4>. QED
        BY <2>3, <4>1 DEF Tied
    <3>. QED
      BY <3>1, <3>2 DEF Spared, Held
  <2>4. CASE c \in Sockets(p) /\ ~(net[c].ends \subseteq {p})
    <3>1. n[c].ends = net[c].ends \ {p} /\ n[c].stage = net[c].stage /\ n[c].server = net[c].server
      BY <2>1, <2>4 DEF Hangup, Left, NetRecs
    <3>. QED
      BY <2>1, <3>1 DEF Spared, Held
  <2>. QED
    BY <2>2, <2>3, <2>4
<1>3. n = [c \in Conns |-> n[c]]
  BY DEF Hangup
<1>. HIDE DEF n
<1>4. n \in [Conns -> NetRecs]
  BY <1>1, <1>3
<1>. QED
  BY <1>1, <1>2, <1>4 DEF n

\* A step of p that closes its sockets and empties its buffers.
LEMMA CloseStep ==
  ASSUME LinkInv, NEW p \in Peers, NEW l \in Links, NEW a \in Apps,
         l.peer = None, l.state # 2, l.tx = <<>>, l.rx = <<>>, l.error # "rx",
         l.server => l.state = 1, a.at # "receive", Queued(l, a),
         link' = [link EXCEPT ![p] = l], app' = [app EXCEPT ![p] = a], net' = Hangup(p)
  PROVE  LinkInv'
<1>. DEFINE n == Hangup(p)
<1>1. /\ n \in [Conns -> NetRecs]
      /\ \A c \in Conns : Sound(c, n[c]) /\ p \notin n[c].ends
      /\ \A r \in Peers \ {p}, c \in Conns : Spared(r, c, n)
  BY HangupSpares
<1>. HIDE DEF n
<1>2. \A c \in Conns : Held(p, c, l, n)
  BY <1>1 DEF Held
<1>3. Tied(p, l, a, n)
  BY DEF Tied
<1>4. net' = n
  BY DEF n
<1>. QED
  BY <1>1, <1>2, <1>3, <1>4, StepOf

-----------------------------------------------------------------------------
\* What LinkInv says of p.
LEMMA OfPeer ==
  ASSUME LinkInv, NEW p \in Peers
  PROVE  /\ link[p] \in Links /\ app[p] \in Apps
         /\ Tied(p, link[p], app[p], net) /\ Queued(link[p], app[p])
         /\ link[p].peer # None => link[p].peer \in Conns
BY DEF LinkInv, Links

LEMMA OfConn ==
  ASSUME LinkInv, NEW c \in Conns
  PROVE  net[c] \in NetRecs /\ Sound(c, net[c])
BY DEF LinkInv

LEMMA InitLink == Init => LinkInv
<1>. SUFFICES ASSUME Init PROVE LinkInv
  OBVIOUS
<1>1. NoLink \in Links /\ NewApp \in Apps
  BY EmptyOwn DEF NoLink, NewApp, Links, Apps
<1>2. NoBytes \in [Peers -> Seq(Bytes)] /\ Zeros \in [Peers -> Nat]
  BY EmptyOwn DEF NoBytes, Zeros
<1>3. FreeConn \in NetRecs
  BY <1>2 DEF FreeConn, NetRecs
<1>4. /\ link \in [Peers -> Links] /\ app \in [Peers -> Apps] /\ net \in [Conns -> NetRecs]
  BY <1>1, <1>3 DEF Init
<1>5. ASSUME NEW p \in Peers PROVE Tied(p, link[p], app[p], net) /\ Queued(link[p], app[p])
  <2>1. link[p] = NoLink /\ app[p] = NewApp
    BY DEF Init
  <2>2. /\ NoLink.peer = None /\ NoLink.state = 0 /\ NoLink.tx = <<>> /\ NoLink.rx = <<>>
        /\ ~NoLink.server /\ NoLink.error # "rx"
    BY DEF NoLink
  <2>3. NewApp.at = "poll" /\ NewApp.ir = <<>> /\ NewApp.in = <<>>
    BY DEF NewApp
  <2>. QED
    BY <2>1, <2>2, <2>3 DEF Tied, Queued
<1>6. ASSUME NEW c \in Conns PROVE Sound(c, net[c])
  BY EmptyOwn DEF Init, FreeConn, NoBytes, Sound, UpStages
<1>7. ASSUME NEW p \in Peers, NEW c \in Conns PROVE Held(p, c, link[p], net)
  BY DEF Init, FreeConn, Held
<1>. QED
  BY <1>4, <1>5, <1>6, <1>7 DEF LinkInv

\* The steps that only move the application on.
LEMMA MovesOn ==
  ASSUME LinkInv, NEW p \in Peers, app[p].at = "poll",
         Goto(p, "exchange"), UNCHANGED <<link, net>>
  PROVE  LinkInv'
<1>. DEFINE a == [app[p] EXCEPT !.at = "exchange"]
<1>1. /\ app[p] \in Apps /\ Tied(p, link[p], app[p], net) /\ Queued(link[p], app[p])
  BY OfPeer
<1>2. a \in Apps /\ a.at = "exchange" /\ a.last = app[p].last /\ a.ir = app[p].ir /\ a.in = app[p].in
  BY <1>1 DEF Apps
<1>3. app' = [app EXCEPT ![p] = a]
  BY DEF Goto, LinkInv
<1>. HIDE DEF a
<1>4. Tied(p, link[p], a, net)
  BY <1>1, <1>2 DEF Tied
<1>5. Queued(link[p], a)
  BY <1>1, <1>2 DEF Queued, Owned
<1>. QED
  BY <1>2, <1>3, <1>4, <1>5, AppStep


\* The link fails, between the slices or in the poll.
LEMMA FailStep ==
  ASSUME LinkInv, NEW p \in Peers, NEW why \in {"os", "closed", "tx"}, Fail(p, why),
         NEW a \in Apps, app' = [app EXCEPT ![p] = a], a.at # "receive",
         \/ a.ir = <<>> /\ a.in = <<>>
         \/ a.last # -1
  PROVE  LinkInv'
<1>. DEFINE l == Failed(why)
<1>1. /\ l \in Links /\ l.peer = None /\ l.state = -1 /\ l.tx = <<>> /\ l.rx = <<>>
      /\ l.error # "rx" /\ ~l.server
  BY EmptyOwn DEF Failed, NoLink, Links
<1>2. link' = [link EXCEPT ![p] = l] /\ net' = Hangup(p)
  BY DEF Fail
<1>. HIDE DEF l
<1>3. Queued(l, a)
  BY <1>1 DEF Queued
<1>4. l.state # 2 /\ (l.server => l.state = 1)
  BY <1>1
<1>. QED
  BY <1>1, <1>2, <1>3, <1>4, CloseStep

\* What a poll that fails leaves of the application.
LEMMA PollFails ==
  ASSUME LinkInv, NEW p \in Peers, NEW why \in {"os", "closed"}, link[p].state \in {1, 2},
         Fail(p, why), Goto(p, "exchange")
  PROVE  LinkInv'
<1>. DEFINE a == [app[p] EXCEPT !.at = "exchange"]
<1>1. app[p] \in Apps /\ Queued(link[p], app[p])
  BY OfPeer
<1>2. a \in Apps /\ a.at = "exchange" /\ a.last = app[p].last /\ a.ir = app[p].ir /\ a.in = app[p].in
  BY <1>1 DEF Apps
<1>3. app' = [app EXCEPT ![p] = a]
  BY DEF Goto, LinkInv
<1>. HIDE DEF a
<1>4. (a.ir = <<>> /\ a.in = <<>>) \/ a.last # -1
  BY <1>1, <1>2 DEF Queued
<1>. QED
  BY <1>2, <1>3, <1>4, FailStep

\* Becoming connected: the queues of the emulator are those of a link that
\* waited, and will be cleared.
LEMMA Becomes ==
  ASSUME NEW l, NEW a \in Apps, NEW m, NEW b, Queued(l, a), l.state = 1, m.state = 2,
         b.at # "run", b.last = a.last, b.ir = a.ir, b.in = a.in
  PROVE  Queued(m, b)
BY EmptyOwn DEF Queued, Owned, SessionOf, Apps

-----------------------------------------------------------------------------
\* The poll, step by step.
LEMMA PollAccepts ==
  ASSUME LinkInv, NEW p \in Peers, Accept(p)
  PROVE  LinkInv'
<1>1. PICK c \in Backlog(p) : /\ link' = [link EXCEPT ![p].peer = c, ![p].state = 2]
                              /\ net' = [net EXCEPT ![c].stage = "accepted"]
  BY DEF Accept
<1>2. /\ c \in Conns /\ net[c].stage = "backlog" /\ net[c].server = p /\ p \in net[c].ends
      /\ c # None
  BY DEF Backlog, Conns, None
<1>3. /\ link[p] \in Links /\ app[p] \in Apps /\ net[c] \in NetRecs /\ Sound(c, net[c])
      /\ Tied(p, link[p], app[p], net) /\ Queued(link[p], app[p])
  BY <1>2, OfPeer, OfConn
<1>4. link[p].server /\ link[p].peer = None /\ app[p].at = "poll"
  BY DEF Accept, Waiting, Step
<1>5. link[p].state = 1 /\ link[p].tx = <<>> /\ link[p].rx = <<>> /\ link[p].error # "rx"
  BY <1>3, <1>4 DEF Tied
<1>. DEFINE l == [link[p] EXCEPT !.peer = c, !.state = 2]
            a == [app[p] EXCEPT !.at = "receive"]
            n == [net EXCEPT ![c].stage = "accepted"]
<1>6. /\ l \in Links /\ l.peer = c /\ l.state = 2 /\ l.tx = <<>> /\ l.rx = <<>>
      /\ l.error = link[p].error
  BY <1>2, <1>3, <1>5 DEF Links
<1>7. a \in Apps /\ a.at = "receive" /\ a.last = app[p].last /\ a.ir = app[p].ir /\ a.in = app[p].in
  BY <1>3 DEF Apps
<1>8. /\ n \in [Conns -> NetRecs]
      /\ n[c] \in NetRecs /\ n[c].stage = "accepted" /\ n[c].ends = net[c].ends
      /\ n[c].server = p /\ n[c].client = net[c].client /\ n[c].wire = net[c].wire
      /\ \A d \in Conns \ {c} : n[d] = net[d]
  <2>1. net \in [Conns -> NetRecs]
    BY DEF LinkInv
  <2>2. DEFINE x == [net[c] EXCEPT !.stage = "accepted"]
  <2>3. /\ x \in NetRecs /\ x.stage = "accepted" /\ x.ends = net[c].ends
        /\ x.server = p /\ x.client = net[c].client /\ x.wire = net[c].wire
    BY <1>2, <1>3 DEF NetRecs
  <2>4. n = [net EXCEPT ![c] = x]
    BY <1>2, <2>1
  <2>. HIDE DEF x, n
  <2>. QED
    BY <1>2, <2>1, <2>3, <2>4
<1>9. link' = [link EXCEPT ![p] = l] /\ app' = [app EXCEPT ![p] = a] /\ net' = n
  BY <1>1 DEF LinkInv, Accept, Goto
<1>. HIDE DEF l, a, n
<1>10. Tied(p, l, a, n)
  BY <1>2, <1>5, <1>6, <1>8, EmptyOwn DEF Tied, UpStages
<1>11. Queued(l, a)
  BY <1>3, <1>5, <1>6, <1>7, Becomes
<1>12. ASSUME NEW d \in Conns PROVE Sound(d, n[d]) /\ Held(p, d, l, n)
  <2>1. CASE d = c
    BY <2>1, <1>2, <1>3, <1>6, <1>8 DEF Sound, Held, UpStages
  <2>2. CASE d # c
    <3>1. Sound(d, net[d]) /\ Held(p, d, link[p], net) /\ n[d] = net[d]
      BY <2>2, <1>8 DEF LinkInv
    <3>2. l.server = link[p].server
      BY <1>3 DEF l, Links
    <3>. QED
      BY <2>2, <3>1, <3>2, <1>2, <1>4 DEF Held, None, Conns
  <2>. QED
    BY <2>1, <2>2
<1>13. ASSUME NEW r \in Peers \ {p}, NEW d \in Conns PROVE Spared(r, d, n)
  <2>1. Held(r, d, link[r], net)
    BY DEF LinkInv
  <2>2. CASE d = c
    BY <2>1, <2>2, <1>2, <1>8 DEF Spared, Held, UpStages
  <2>3. CASE d # c
    BY <2>1, <2>3, <1>8 DEF Spared, Held
  <2>. QED
    BY <2>2, <2>3
<1>. QED
  BY <1>6, <1>7, <1>8, <1>9, <1>10, <1>11, <1>12, <1>13, StepOf

LEMMA PollConnects ==
  ASSUME LinkInv, NEW p \in Peers, ConnectDone(p)
  PROVE  LinkInv'
<1>1. /\ link[p] \in Links /\ app[p] \in Apps
      /\ Tied(p, link[p], app[p], net) /\ Queued(link[p], app[p])
  BY OfPeer
<1>2. /\ app[p].at = "poll" /\ link[p].state = 1 /\ link[p].peer # None
      /\ net[link[p].peer].stage \in UpStages
  BY DEF ConnectDone, Connecting, Step, Up, UpStages
<1>. DEFINE l == [link[p] EXCEPT !.state = 2]
            a == [app[p] EXCEPT !.at = "receive"]
<1>3. /\ l \in Links /\ l.peer = link[p].peer /\ l.state = 2 /\ l.tx = link[p].tx /\ l.rx = link[p].rx
      /\ l.error = link[p].error /\ l.server = link[p].server
  BY <1>1 DEF Links
<1>4. a \in Apps /\ a.at = "receive" /\ a.last = app[p].last /\ a.ir = app[p].ir /\ a.in = app[p].in
  BY <1>1 DEF Apps
<1>5. link' = [link EXCEPT ![p] = l] /\ app' = [app EXCEPT ![p] = a] /\ net' = net
  BY DEF LinkInv, ConnectDone, Goto
<1>. HIDE DEF l, a
<1>6. Tied(p, l, a, net)
  BY <1>1, <1>2, <1>3, EmptyOwn DEF Tied
<1>7. Queued(l, a)
  BY <1>1, <1>2, <1>3, <1>4, Becomes
<1>8. Alike(net) /\ net \in [Conns -> NetRecs] /\ \A c \in Conns : Sound(c, net[c])
  BY DEF Alike, LinkInv
<1>. QED
  BY <1>3, <1>4, <1>5, <1>6, <1>7, <1>8, CalmStep

\* A connected link: its peer, and what it holds.
LEMMA Connected ==
  ASSUME LinkInv, NEW p \in Peers, link[p].state = 2
  PROVE  /\ link[p].peer \in Conns /\ net[link[p].peer] \in NetRecs
         /\ p \in net[link[p].peer].ends /\ net[link[p].peer].stage \in UpStages
         /\ Other(link[p].peer, p) \in Peers
         /\ \A q \in Peers : /\ net[link[p].peer].wire[q] \in Seq(Bytes)
                             /\ Own(net[link[p].peer].wire[q], link[p].peer)
<1>1. Tied(p, link[p], app[p], net) /\ (link[p].peer # None => link[p].peer \in Conns)
  BY OfPeer
<1>2. link[p].peer \in Conns /\ p \in net[link[p].peer].ends /\ net[link[p].peer].stage \in UpStages
  BY <1>1 DEF Tied
<1>3. net[link[p].peer] \in NetRecs /\ Sound(link[p].peer, net[link[p].peer])
  BY <1>2, OfConn
<1>4. Other(link[p].peer, p) \in Peers
  BY <1>2, <1>3 DEF Sound, Other, UpStages
<1>. QED
  BY <1>2, <1>3, <1>4 DEF Sound, NetRecs

\* A connection c with another wire or reset is alike.
LEMMA OneAlike ==
  ASSUME LinkInv, NEW c \in Conns, NEW x \in NetRecs, Sound(c, x),
         x.ends = net[c].ends, x.stage = net[c].stage, x.server = net[c].server
  PROVE  /\ [net EXCEPT ![c] = x] \in [Conns -> NetRecs] /\ Alike([net EXCEPT ![c] = x])
         /\ \A d \in Conns : Sound(d, [net EXCEPT ![c] = x][d])
BY DEF LinkInv, Alike

LEMMA PollSends ==
  ASSUME LinkInv, NEW p \in Peers, Send(p)
  PROVE  LinkInv'
<1>. DEFINE c == link[p].peer
            tx == link[p].tx
            open == Other(c, p) \in net[c].ends
            sent == First(tx, WireLimit - Len(net[c].wire[p]))
            rest == SubSeq(tx, Len(sent) + 1, Len(tx))
            wire == [net[c].wire EXCEPT ![p] = IF open THEN @ \o sent ELSE @]
            reset == net[c].reset \/ (~open /\ sent # <<>>)
            l == [link[p] EXCEPT !.tx = rest]
            a == [app[p] EXCEPT !.at = "receive"]
            x == [net[c] EXCEPT !.wire = wire, !.reset = reset]
<1>1. /\ link[p] \in Links /\ app[p] \in Apps
      /\ Tied(p, link[p], app[p], net) /\ Queued(link[p], app[p])
  BY OfPeer
<1>2. link[p].state = 2 /\ app[p].at = "poll"
  BY DEF Send, Step
<1>3. /\ c \in Conns /\ net[c] \in NetRecs /\ Sound(c, net[c])
      /\ \A q \in Peers : net[c].wire[q] \in Seq(Bytes) /\ Own(net[c].wire[q], c)
  BY <1>2, Connected, OfConn
<1>4. tx \in Seq(Bytes) /\ Own(tx, c)
  BY <1>1, <1>2 DEF Tied, Links
<1>5. sent \in Seq(Bytes) /\ Own(sent, c) /\ Len(sent) \in Nat
  <2>1. WireLimit - Len(net[c].wire[p]) \in Int
    <3>1. WireLimit \in Int
      BY IrLinkAssumption
    <3>2. Len(net[c].wire[p]) \in Int
      BY <1>3
    <3>. QED
      BY <3>1, <3>2
  <2>. HIDE DEF tx, c
  <2>. QED
    BY <2>1, <1>4, OwnFirst
<1>6. rest \in Seq(Bytes) /\ Own(rest, c)
  <2>. HIDE DEF tx, c, sent
  <2>. QED
    BY <1>4, <1>5, OwnPart
<1>7. wire \in [Peers -> Seq(Bytes)] /\ \A q \in Peers : Own(wire[q], c)
  <2>1. net[c].wire \in [Peers -> Seq(Bytes)]
    BY <1>3 DEF NetRecs
  <2>2. net[c].wire[p] \o sent \in Seq(Bytes) /\ Own(net[c].wire[p] \o sent, c)
    BY <1>3, <1>5, OwnJoined
  <2>. HIDE DEF c, sent, open
  <2>. QED
    BY <2>1, <2>2, <1>3
<1>8. reset \in BOOLEAN
  BY <1>3 DEF NetRecs
<1>9. net' = [net EXCEPT ![c] = x]
  <2>1. net' = [net EXCEPT ![c].wire[p] = IF open THEN @ \o sent ELSE @,
                           ![c].reset = @ \/ (~open /\ sent # <<>>)]
    BY DEF Send
  <2>. HIDE DEF c, sent, open
  <2>. QED
    BY <2>1, <1>3 DEF LinkInv, NetRecs
<1>10. link' = [link EXCEPT ![p] = l] /\ app' = [app EXCEPT ![p] = a]
  BY DEF Send, Goto, LinkInv
<1>. HIDE DEF rest, wire, reset, open, sent
<1>11. /\ l \in Links /\ l.tx = rest /\ l.rx = link[p].rx /\ l.peer = c /\ l.state = 2
       /\ l.server = link[p].server /\ l.error = link[p].error
  BY <1>1, <1>2, <1>6 DEF Links
<1>12. a \in Apps /\ a.at = "receive" /\ a.last = app[p].last /\ a.ir = app[p].ir /\ a.in = app[p].in
  BY <1>1 DEF Apps
<1>13. /\ x \in NetRecs /\ x.wire = wire /\ x.ends = net[c].ends /\ x.stage = net[c].stage
       /\ x.server = net[c].server /\ x.client = net[c].client
  BY <1>3, <1>7, <1>8 DEF NetRecs
<1>. HIDE DEF l, a, x
<1>14. Sound(c, x)
  BY <1>3, <1>7, <1>13 DEF Sound
<1>. DEFINE n == [net EXCEPT ![c] = x]
<1>15. n \in [Conns -> NetRecs] /\ Alike(n) /\ \A d \in Conns : Sound(d, n[d])
  BY <1>3, <1>13, <1>14, OneAlike
<1>16. net' = n
  BY <1>9
<1>. HIDE DEF n
<1>17. Tied(p, l, a, n)
  BY <1>1, <1>2, <1>3, <1>6, <1>11, <1>12, <1>15 DEF Tied, Alike
<1>18. Queued(l, a)
  BY <1>1, <1>2, <1>11, <1>12 DEF Queued, Owned, SessionOf
<1>. QED
  BY <1>10, <1>11, <1>12, <1>15, <1>16, <1>17, <1>18, CalmStep

LEMMA PollStep ==
  ASSUME LinkInv, NEW p \in Peers, Poll(p)
  PROVE  LinkInv'
<1>1. CASE PollOff(p)
  BY <1>1, MovesOn DEF PollOff, Step
<1>2. CASE AcceptNone(p)
  BY <1>2, MovesOn DEF AcceptNone, Step
<1>3. CASE Accept(p)
  BY <1>3, PollAccepts
<1>4. CASE AcceptFails(p)
  <2>1. link[p].state \in {1, 2}
    BY <1>4, OfPeer DEF AcceptFails, Waiting, Tied
  <2>. QED
    BY <1>4, <2>1, PollFails DEF AcceptFails
<1>5. CASE ConnectPending(p)
  BY <1>5, MovesOn DEF ConnectPending, Connecting, Step
<1>6. CASE ConnectFails(p)
  BY <1>6, PollFails DEF ConnectFails, Connecting
<1>7. CASE ConnectDone(p)
  BY <1>7, PollConnects
<1>8. CASE Send(p)
  BY <1>8, PollSends
<1>9. CASE SendFails(p)
  BY <1>9, PollFails DEF SendFails
<1>. QED
  BY <1>1, <1>2, <1>3, <1>4, <1>5, <1>6, <1>7, <1>8, <1>9 DEF Poll

\* The receive loop.
LEMMA Receives ==
  ASSUME LinkInv, NEW p \in Peers, NEW k \in 0 .. WireLimit, Receive(p, k)
  PROVE  LinkInv'
<1>. DEFINE c == link[p].peer
            q == Other(c, p)
            old == net[c].wire[q]
            rx == link[p].rx \o SubSeq(old, 1, k)
            wire == [net[c].wire EXCEPT ![q] = SubSeq(old, k + 1, Len(old))]
            l == [link[p] EXCEPT !.rx = rx]
            a == [app[p] EXCEPT !.at = "exchange"]
            x == [net[c] EXCEPT !.wire = wire]
<1>1. /\ link[p] \in Links /\ app[p] \in Apps
      /\ Tied(p, link[p], app[p], net) /\ Queued(link[p], app[p])
  BY OfPeer
<1>2. app[p].at = "receive" /\ link[p].state = 2
  BY <1>1 DEF Receive, Step, Tied
<1>3. /\ c \in Conns /\ q \in Peers /\ net[c] \in NetRecs /\ Sound(c, net[c])
      /\ \A r \in Peers : net[c].wire[r] \in Seq(Bytes) /\ Own(net[c].wire[r], c)
  BY <1>2, Connected, OfConn
<1>4. k \in Nat /\ k <= Len(old)
  <2>1. k \in Nat
    BY IrLinkAssumption
  <2>2. k <= Len(old)
    BY DEF Receive, Arrives
  <2>. QED
    BY <2>1, <2>2
<1>5. /\ net' = [net EXCEPT ![c].wire[q] = SubSeq(old, k + 1, Len(old))]
      /\ link' = [link EXCEPT ![p].rx = @ \o SubSeq(old, 1, k)]
      /\ app' = [app EXCEPT ![p].at = "exchange"]
  BY DEF Receive, Goto
<1>6. old \in Seq(Bytes) /\ Own(old, c) /\ link[p].rx \in Seq(Bytes) /\ Own(link[p].rx, c)
  BY <1>1, <1>2, <1>3 DEF Tied, Links
<1>. HIDE DEF c, q, old
<1>7. rx \in Seq(Bytes) /\ Own(rx, c)
  <2>1. SubSeq(old, 1, k) \in Seq(Bytes) /\ Own(SubSeq(old, 1, k), c)
    BY <1>4, <1>6, OwnPart
  <2>. QED
    BY <2>1, <1>6, OwnJoined
<1>8. wire \in [Peers -> Seq(Bytes)] /\ \A r \in Peers : Own(wire[r], c)
  <2>1. net[c].wire \in [Peers -> Seq(Bytes)]
    BY <1>3 DEF NetRecs
  <2>2. SubSeq(old, k + 1, Len(old)) \in Seq(Bytes) /\ Own(SubSeq(old, k + 1, Len(old)), c)
    BY <1>4, <1>6, OwnPart
  <2>. QED
    BY <2>1, <2>2, <1>3
<1>9. net' = [net EXCEPT ![c] = x]
  BY <1>3, <1>5 DEF LinkInv, NetRecs
<1>10. link' = [link EXCEPT ![p] = l] /\ app' = [app EXCEPT ![p] = a]
  BY <1>5 DEF LinkInv
<1>. HIDE DEF rx, wire
<1>11. /\ l \in Links /\ l.tx = link[p].tx /\ l.rx = rx /\ l.peer = link[p].peer /\ l.state = 2
       /\ l.server = link[p].server /\ l.error = link[p].error
  BY <1>1, <1>2, <1>7 DEF Links
<1>12. a \in Apps /\ a.at = "exchange" /\ a.last = app[p].last /\ a.ir = app[p].ir /\ a.in = app[p].in
  BY <1>1 DEF Apps
<1>13. /\ x \in NetRecs /\ x.wire = wire /\ x.ends = net[c].ends /\ x.stage = net[c].stage
       /\ x.server = net[c].server /\ x.client = net[c].client
  BY <1>3, <1>8 DEF NetRecs
<1>. HIDE DEF l, a, x
<1>14. Sound(c, x)
  BY <1>3, <1>8, <1>13 DEF Sound
<1>. DEFINE n == [net EXCEPT ![c] = x]
<1>15. n \in [Conns -> NetRecs] /\ Alike(n) /\ \A d \in Conns : Sound(d, n[d])
  BY <1>3, <1>13, <1>14, OneAlike
<1>16. net' = n
  BY <1>9
<1>. HIDE DEF n
<1>17. Tied(p, l, a, n)
  <2>1. l.peer = c /\ link[p].peer = c
    BY <1>11 DEF c
  <2>. QED
    BY <2>1, <1>1, <1>2, <1>3, <1>7, <1>11, <1>12, <1>15 DEF Tied, Alike
<1>18. Queued(l, a)
  BY <1>1, <1>2, <1>11, <1>12 DEF Queued, Owned, SessionOf
<1>. QED
  BY <1>10, <1>11, <1>12, <1>15, <1>16, <1>17, <1>18, CalmStep

LEMMA RecvStep ==
  ASSUME LinkInv, NEW p \in Peers, Recv(p)
  PROVE  LinkInv'
<1>1. CASE ReceiveFails(p)
  <2>1. link[p].state = 2 /\ link[p].rx = <<>> /\ Goto(p, "exchange")
    <3>1. Tied(p, link[p], app[p], net)
      BY OfPeer
    <3>. QED
      BY <1>1, <3>1 DEF ReceiveFails, Step, Tied
  <2>2. ASSUME NEW k \in 0 .. WireLimit, Arrives(p, k), Len(link[p].rx) + k > RxLimit PROVE FALSE
    <3>1. k \in Nat /\ k <= RecvMax
      BY <2>2 DEF Arrives
    <3>2. Len(link[p].rx) = 0
      BY <2>1
    <3>. QED
      BY <2>2, <3>1, <3>2, IrLinkAssumption
  <2>3. Fail(p, "os") \/ Fail(p, "closed")
    BY <1>1, <2>2 DEF ReceiveFails
  <2>. QED
    BY <2>1, <2>3, PollFails
<1>2. ASSUME NEW k \in 0 .. WireLimit, Receive(p, k) PROVE LinkInv'
  BY <1>2, Receives
<1>. QED
  BY <1>1, <1>2 DEF Recv

-----------------------------------------------------------------------------
\* The exchange with the emulator.

\* What a change of the state of the link leaves of the queues.
LEMMA NoticedKeeps ==
  ASSUME LinkInv, NEW p \in Peers
  PROVE  /\ Noticed(p) \in Apps
         /\ Owned(link[p], Noticed(p))
<1>1. app[p] \in Apps /\ Queued(link[p], app[p])
  BY OfPeer
<1>2. CASE link[p].state # app[p].last
  <2>1. /\ Noticed(p) \in Apps /\ Noticed(p).ir = <<>> /\ Noticed(p).in = <<>>
    BY <1>1, <1>2, EmptyOwn DEF Noticed, Cleared, Apps
  <2>. QED
    BY <2>1, EmptyOwn DEF Owned
<1>3. CASE link[p].state = app[p].last
  <2>1. Noticed(p) = app[p]
    BY <1>3 DEF Noticed
  <2>2. CASE app[p].ir = <<>> /\ app[p].in = <<>>
    BY <1>1, <2>1, <2>2, EmptyOwn DEF Owned
  <2>3. CASE ~(app[p].ir = <<>> /\ app[p].in = <<>>)
    BY <1>1, <1>3, <2>1, <2>3 DEF Queued
  <2>. QED
    BY <2>2, <2>3
<1>. QED
  BY <1>2, <1>3

LEMMA HandedKeeps ==
  ASSUME LinkInv, NEW p \in Peers, NEW rx \in Seq(Bytes), Own(rx, SessionOf(link[p])),
         link[p].state # 2 => rx = <<>>
  PROVE  /\ Handed(p, rx) \in Apps
         /\ Handed(p, rx).at = "run" /\ Handed(p, rx).last = link[p].state
         /\ Owned(link[p], Handed(p, rx))
<1>. DEFINE m == Noticed(p)
            s == SessionOf(link[p])
            all == IF app[p].ire THEN m.in \o rx ELSE m.in
            in == First(all, QueueLimit)
            ir == IF app[p].quiet THEN <<>> ELSE m.ir
            e == m.error \/ Len(all) > QueueLimit
<1>1. m \in Apps /\ Owned(link[p], m) /\ link[p] \in Links /\ app[p] \in Apps
  BY NoticedKeeps, OfPeer
<1>2. /\ m.in \in Seq(Bytes) /\ m.ir \in Seq(Bytes) /\ m.error \in BOOLEAN
      /\ Own(m.in, s) /\ Own(m.ir, s) /\ (link[p].state # 2 => m.in = <<>>)
      /\ link[p].state \in {-1, 0, 1, 2}
  BY <1>1 DEF Owned, Apps, Links
<1>3. Handed(p, rx) = [m EXCEPT !.at = "run", !.last = link[p].state, !.ir = ir, !.in = in, !.error = e]
  BY <1>1 DEF Handed, Apps
<1>. HIDE DEF m, s
<1>4. all \in Seq(Bytes) /\ Own(all, s) /\ (link[p].state # 2 => all = <<>>)
  <2>1. m.in \o rx \in Seq(Bytes) /\ Own(m.in \o rx, s)
    BY <1>2, OwnJoined DEF s
  <2>2. link[p].state # 2 => m.in \o rx = <<>>
    BY <1>2
  <2>. QED
    BY <2>1, <2>2, <1>2
<1>5. ir \in Seq(Bytes) /\ Own(ir, s)
  BY <1>2, EmptyOwn
<1>6. e \in BOOLEAN
  BY <1>2
<1>. HIDE DEF all, ir, e
<1>7. in \in Seq(Bytes) /\ Own(in, s) /\ (link[p].state # 2 => in = <<>>)
  <2>1. QueueLimit \in Int
    BY IrLinkAssumption
  <2>2. in \in Seq(Bytes) /\ Own(in, s)
    BY <2>1, <1>4, OwnFirst
  <2>3. First(<<>>, QueueLimit) = <<>>
    <3>1. ~(QueueLimit < Len(<<>>))
      BY IrLinkAssumption
    <3>. QED
      BY <3>1 DEF First
  <2>. QED
    BY <2>2, <2>3, <1>4
<1>. HIDE DEF in
<1>8. /\ Handed(p, rx) \in Apps /\ Handed(p, rx).at = "run" /\ Handed(p, rx).last = link[p].state
      /\ Handed(p, rx).ir = ir /\ Handed(p, rx).in = in
  BY <1>1, <1>2, <1>3, <1>5, <1>6, <1>7 DEF Apps, m
<1>. QED
  BY <1>5, <1>7, <1>8 DEF Owned, s

LEMMA SendableKeeps ==
  ASSUME LinkInv, NEW p \in Peers
  PROVE  /\ Sendable(p) \in Seq(Bytes) /\ Own(Sendable(p), link[p].peer)
         /\ link[p].state # 2 => Sendable(p) = <<>>
<1>1. Noticed(p) \in Apps /\ Owned(link[p], Noticed(p))
  BY NoticedKeeps
<1>2. CASE link[p].state = 2
  <2>1. Noticed(p).ir \in Seq(Bytes) /\ Own(Noticed(p).ir, link[p].peer)
    BY <1>1, <1>2 DEF Owned, SessionOf, Apps
  <2>. QED
    BY <1>2, <2>1, EmptyOwn DEF Sendable, Burst
<1>3. CASE link[p].state # 2
  BY <1>3, EmptyOwn DEF Sendable
<1>. QED
  BY <1>2, <1>3

LEMMA Exchanges ==
  ASSUME LinkInv, NEW p \in Peers, Exchange(p)
  PROVE  LinkInv'
<1>. DEFINE c == link[p].peer
            rx == link[p].rx
            out == Sendable(p)
            l == [link[p] EXCEPT !.tx = link[p].tx \o out, !.rx = <<>>]
            a == Handed(p, rx)
            n == IF rx = <<>> THEN net ELSE [net EXCEPT ![c].got[p] = @ + Len(rx)]
<1>1. /\ link[p] \in Links /\ app[p] \in Apps
      /\ Tied(p, link[p], app[p], net) /\ Queued(link[p], app[p])
  BY OfPeer
<1>2. link' = [link EXCEPT ![p] = l] /\ app' = [app EXCEPT ![p] = a] /\ net' = n
  <2>1. link' = [link EXCEPT ![p].tx = @ \o out, ![p].rx = <<>>]
    BY DEF Exchange
  <2>2. app' = [app EXCEPT ![p] = a] /\ net' = n
    BY DEF Exchange
  <2>. HIDE DEF out, a, n
  <2>. QED
    BY <1>1, <2>1, <2>2 DEF LinkInv, Links
<1>3. rx \in Seq(Bytes) /\ Own(rx, SessionOf(link[p])) /\ (link[p].state # 2 => rx = <<>>)
  <2>1. rx \in Seq(Bytes)
    BY <1>1 DEF Links
  <2>. QED
    BY <1>1, <2>1, EmptyOwn DEF Tied, SessionOf
<1>4. a \in Apps /\ a.at = "run" /\ a.last = link[p].state /\ Owned(link[p], a)
  <2>. HIDE DEF rx
  <2>. QED
    BY <1>3, HandedKeeps
<1>5. /\ link[p].tx \o out \in Seq(Bytes)
      /\ link[p].state = 2 => Own(link[p].tx \o out, c)
      /\ link[p].state # 2 => link[p].tx \o out = <<>>
  <2>1. out \in Seq(Bytes) /\ Own(out, c) /\ (link[p].state # 2 => out = <<>>)
    BY SendableKeeps
  <2>2. link[p].tx \in Seq(Bytes)
    BY <1>1 DEF Links
  <2>. HIDE DEF out, c
  <2>3. link[p].tx \o out \in Seq(Bytes)
    BY <2>1, <2>2
  <2>4. ASSUME link[p].state = 2 PROVE Own(link[p].tx \o out, c)
    <3>1. Own(link[p].tx, c)
      BY <1>1, <2>4 DEF Tied, c
    <3>. QED
      BY <2>1, <2>2, <3>1, OwnJoined
  <2>5. ASSUME link[p].state # 2 PROVE link[p].tx \o out = <<>>
    <3>1. link[p].tx = <<>> /\ out = <<>>
      BY <1>1, <2>1, <2>5 DEF Tied
    <3>. QED
      BY <3>1
  <2>. QED
    BY <2>3, <2>4, <2>5
<1>6. /\ l \in Links /\ l.tx = link[p].tx \o out /\ l.rx = <<>> /\ l.peer = c
      /\ l.state = link[p].state /\ l.server = link[p].server /\ l.error = link[p].error
  <2>. HIDE DEF out
  <2>. QED
    BY <1>1, <1>5, EmptyOwn DEF Links
<1>7. n \in [Conns -> NetRecs] /\ Alike(n) /\ \A d \in Conns : Sound(d, n[d])
  <2>1. CASE rx = <<>>
    BY <2>1 DEF LinkInv, Alike
  <2>2. CASE rx # <<>>
    <3>. DEFINE got == [net[c].got EXCEPT ![p] = @ + Len(rx)]
                x == [net[c] EXCEPT !.got = got]
    <3>1. link[p].state = 2
      BY <1>3, <2>2
    <3>2. c \in Conns /\ net[c] \in NetRecs /\ Sound(c, net[c])
      BY <3>1, Connected, OfConn
    <3>3. got \in [Peers -> Nat]
      <4>1. Len(rx) \in Nat
        BY <1>3
      <4>2. net[c].got \in [Peers -> Nat]
        BY <3>2 DEF NetRecs
      <4>. HIDE DEF rx, c
      <4>. QED
        BY <4>1, <4>2
    <3>4. n = [net EXCEPT ![c] = x]
      <4>1. n = [net EXCEPT ![c].got[p] = @ + Len(rx)]
        BY <2>2
      <4>. HIDE DEF rx, c, n
      <4>. QED
        BY <4>1, <3>2 DEF LinkInv, NetRecs
    <3>. HIDE DEF got, n
    <3>5. /\ x \in NetRecs /\ x.wire = net[c].wire /\ x.ends = net[c].ends /\ x.stage = net[c].stage
          /\ x.server = net[c].server /\ x.client = net[c].client
      BY <3>2, <3>3 DEF NetRecs
    <3>. HIDE DEF x, c
    <3>6. Sound(c, x)
      BY <3>2, <3>5 DEF Sound
    <3>. QED
      BY <3>2, <3>4, <3>5, <3>6, OneAlike
  <2>. QED
    BY <2>1, <2>2
<1>. HIDE DEF l, a, n, out, rx
<1>8. Tied(p, l, a, n)
  <2>1. l.state = 2 => c \in Conns /\ p \in n[c].ends /\ n[c].stage \in UpStages
    BY <1>6, <1>7, Connected DEF Alike
  <2>2. l.peer # None => p \in n[l.peer].ends
    BY <1>1, <1>6, <1>7, OfPeer DEF Tied, Alike
  <2>3. l.state = 2 => l.peer # None /\ Own(l.tx, l.peer) /\ Own(l.rx, l.peer)
    BY <1>1, <1>5, <1>6, EmptyOwn DEF Tied
  <2>4. l.state # 2 => l.tx = <<>>
    BY <1>5, <1>6
  <2>5. (l.server => l.state \in {1, 2}) /\ l.error # "rx"
    BY <1>1, <1>6 DEF Tied
  <2>. QED
    BY <2>1, <2>2, <2>3, <2>4, <2>5, <1>4, <1>6 DEF Tied
<1>9. Queued(l, a)
  BY <1>4, <1>6 DEF Queued, Owned, SessionOf
<1>. QED
  BY <1>2, <1>4, <1>6, <1>7, <1>8, <1>9, CalmStep

LEMMA PumpStep ==
  ASSUME LinkInv, NEW p \in Peers, Pump(p)
  PROVE  LinkInv'
<1>1. CASE Exchange(p)
  BY <1>1, Exchanges
<1>2. CASE ExchangeFails(p)
  <2>. DEFINE a == Handed(p, <<>>)
  <2>1. link[p].state = 2
    <3>1. SUFFICES ASSUME link[p].state # 2 PROVE FALSE
      OBVIOUS
    <3>2. Sendable(p) = <<>> /\ link[p].tx = <<>>
      BY <3>1, OfPeer, SendableKeeps DEF Tied
    <3>3. Len(<<>>) > TxLimit - Len(<<>>)
      BY <1>2, <3>2 DEF ExchangeFails, TxFull
    <3>. QED
      BY <3>3, IrLinkAssumption
  <2>2. a \in Apps /\ a.at = "run" /\ a.last = 2
    BY <2>1, EmptyOwn, HandedKeeps
  <2>3. Fail(p, "tx") /\ app' = [app EXCEPT ![p] = a]
    BY <1>2 DEF ExchangeFails
  <2>. HIDE DEF a
  <2>4. a.at # "receive" /\ a.last # -1
    BY <2>2
  <2>. QED
    BY <2>2, <2>3, <2>4, FailStep
<1>. QED
  BY <1>1, <1>2 DEF Pump

-----------------------------------------------------------------------------
\* The guest.
LEMMA ReadKeeps ==
  ASSUME NEW p \in Peers, app[p].in \in Seq(Bytes), NEW k \in 0 .. Len(app[p].in), NEW ire
  PROVE  /\ Read(p, k, ire) \in Seq(Bytes)
         /\ app[p].in = <<>> => Read(p, k, ire) = <<>>
         /\ \A c : Own(app[p].in, c) => Own(Read(p, k, ire), c)
<1>. DEFINE s == app[p].in
<1>1. k \in Nat
  OBVIOUS
<1>2. /\ SubSeq(s, k + 1, Len(s)) \in Seq(Bytes)
      /\ s = <<>> => SubSeq(s, k + 1, Len(s)) = <<>>
  BY <1>1
<1>3. ASSUME NEW c, Own(s, c) PROVE Own(SubSeq(s, k + 1, Len(s)), c)
  <2>. HIDE DEF s
  <2>1. s \in Seq(Bytes)
    BY DEF s
  <2>. QED
    BY <1>1, <1>3, <2>1, OwnPart
<1>. QED
  BY <1>2, <1>3, EmptyOwn DEF Read

LEMMA RunsSilent ==
  ASSUME LinkInv, NEW p \in Peers, RunSilent(p)
  PROVE  LinkInv'
<1>1. PICK k \in 0 .. Len(app[p].in), ire \in BOOLEAN :
        app' = [app EXCEPT ![p] = [@ EXCEPT !.at = "poll", !.ire = ire, !.in = Read(p, k, ire),
                                            !.quiet = TRUE]]
  BY DEF RunSilent
<1>2. /\ app[p] \in Apps /\ app[p].in \in Seq(Bytes) /\ app[p].at = "run"
      /\ Tied(p, link[p], app[p], net) /\ Queued(link[p], app[p])
  BY OfPeer DEF Apps, RunSilent, Step
<1>. DEFINE in == Read(p, k, ire)
            a == [app[p] EXCEPT !.at = "poll", !.ire = ire, !.in = in, !.quiet = TRUE]
<1>3. /\ in \in Seq(Bytes) /\ (app[p].in = <<>> => in = <<>>)
      /\ \A c : Own(app[p].in, c) => Own(in, c)
  BY <1>2, ReadKeeps
<1>4. app' = [app EXCEPT ![p] = a]
  BY <1>1 DEF LinkInv
<1>. HIDE DEF in
<1>5. a \in Apps /\ a.at = "poll" /\ a.last = app[p].last /\ a.ir = app[p].ir /\ a.in = in
  BY <1>2, <1>3 DEF Apps
<1>. HIDE DEF a
<1>6. Tied(p, link[p], a, net)
  BY <1>2, <1>5 DEF Tied
<1>7. Queued(link[p], a)
  BY <1>2, <1>3, <1>5 DEF Queued, Owned
<1>8. UNCHANGED <<link, net>>
  BY DEF RunSilent
<1>. QED
  BY <1>4, <1>5, <1>6, <1>7, <1>8, AppStep

\* The step that emits: one more byte, marked with the session of the link.
LEMMA RunsEmitting ==
  ASSUME LinkInv, NEW p \in Peers, RunEmits(p)
  PROVE  LinkInv'
<1>. DEFINE s == Session(p)
            byte == [conn |-> s, n |-> Serial(p)]
            ir == Append(app[p].ir, byte)
            n == IF s = None THEN net ELSE [net EXCEPT ![s].sent[p] = @ + 1]
<1>1. PICK k \in 0 .. Len(app[p].in), quiet \in BOOLEAN :
        app' = [app EXCEPT ![p] = [@ EXCEPT !.at = "poll", !.in = Read(p, k, TRUE), !.quiet = quiet,
                                            !.ir = ir]]
  BY DEF RunEmits
<1>2. /\ app[p] \in Apps /\ app[p].in \in Seq(Bytes) /\ app[p].ir \in Seq(Bytes)
      /\ app[p].at = "run" /\ link[p] \in Links
      /\ Tied(p, link[p], app[p], net) /\ Queued(link[p], app[p])
  BY OfPeer DEF Apps, RunEmits, Step
<1>3. s = SessionOf(link[p]) /\ (s # None => s \in Conns /\ net[s] \in NetRecs /\ Sound(s, net[s]))
  <2>1. link[p].state = 2 => link[p].peer \in Conns
    BY Connected
  <2>. QED
    BY <2>1, OfConn DEF Session, SessionOf
<1>4. Serial(p) \in Nat
  <2>1. CASE s = None
    BY <2>1 DEF Serial
  <2>2. CASE s # None
    <3>1. net[s].sent[p] \in Nat
      BY <1>3, <2>2 DEF NetRecs
    <3>. QED
      BY <2>2, <3>1 DEF Serial
  <2>. QED
    BY <2>1, <2>2
<1>5. byte \in Bytes /\ byte.conn = s
  <2>1. Serial(p) \in 0 .. MaxBytes
    BY <1>4, IrLinkAssumption DEF RunEmits
  <2>2. s \in Conns \cup {None}
    BY <1>3
  <2>. QED
    BY <2>1, <2>2 DEF Bytes
<1>6. n \in [Conns -> NetRecs] /\ Alike(n) /\ \A d \in Conns : Sound(d, n[d])
  <2>1. CASE s = None
    BY <2>1 DEF LinkInv, Alike
  <2>2. CASE s # None
    <3>. HIDE DEF s
    <3>. DEFINE sent == [net[s].sent EXCEPT ![p] = @ + 1]
                x == [net[s] EXCEPT !.sent = sent]
    <3>1. s \in Conns /\ net[s] \in NetRecs /\ Sound(s, net[s])
      BY <1>3, <2>2
    <3>2. sent \in [Peers -> Nat]
      <4>1. net[s].sent \in [Peers -> Nat]
        BY <3>1 DEF NetRecs
      <4>. QED
        BY <4>1
    <3>3. n = [net EXCEPT ![s] = x]
      BY <2>2, <3>1 DEF LinkInv, NetRecs
    <3>. HIDE DEF sent, n
    <3>4. /\ x \in NetRecs /\ x.wire = net[s].wire /\ x.ends = net[s].ends /\ x.stage = net[s].stage
          /\ x.server = net[s].server /\ x.client = net[s].client
      BY <3>1, <3>2 DEF NetRecs
    <3>. HIDE DEF x
    <3>5. Sound(s, x)
      BY <3>1, <3>4 DEF Sound
    <3>. QED
      BY <3>1, <3>3, <3>4, <3>5, OneAlike
  <2>. QED
    BY <2>1, <2>2
<1>7. net' = n /\ link' = [link EXCEPT ![p] = link[p]]
  BY DEF RunEmits, LinkInv
<1>. DEFINE in == Read(p, k, TRUE)
            a == [app[p] EXCEPT !.at = "poll", !.in = in, !.quiet = quiet, !.ir = ir]
<1>8. /\ in \in Seq(Bytes) /\ (app[p].in = <<>> => in = <<>>)
      /\ \A c : Own(app[p].in, c) => Own(in, c)
  BY <1>2, ReadKeeps
<1>. HIDE DEF s, byte, n
<1>9. app' = [app EXCEPT ![p] = a]
  BY <1>1
<1>10. /\ ir \in Seq(Bytes)
       /\ Own(app[p].ir, s) => Own(ir, s)
  <2>1. ir \in Seq(Bytes)
    BY <1>2, <1>5
  <2>2. ASSUME Own(app[p].ir, s), NEW i \in 1 .. Len(ir) PROVE ir[i].conn = s
    <3>1. CASE i <= Len(app[p].ir)
      <4>1. i \in 1 .. Len(app[p].ir) /\ ir[i] = app[p].ir[i]
        BY <1>2, <2>2, <3>1
      <4>. QED
        BY <2>2, <4>1 DEF Own
    <3>2. CASE i > Len(app[p].ir)
      <4>1. ir[i] = byte
        BY <1>2, <2>2, <3>2
      <4>. QED
        BY <1>5, <4>1
    <3>. QED
      BY <1>2, <3>1, <3>2
  <2>. QED
    BY <2>1, <2>2 DEF Own
<1>11. app[p].ir = <<>> => Own(app[p].ir, s)
  BY EmptyOwn
<1>. HIDE DEF in, ir
<1>12. a \in Apps /\ a.at = "poll" /\ a.last = app[p].last /\ a.ir = ir /\ a.in = in
  BY <1>2, <1>8, <1>10 DEF Apps
<1>. HIDE DEF a
<1>13. Tied(p, link[p], a, n)
  BY <1>2, <1>6, <1>12, OfPeer DEF Tied, Alike
<1>14. Queued(link[p], a)
  <2>1. CASE link[p].state = -1 /\ link[p].state # app[p].last
    BY <2>1, <1>12 DEF Queued
  <2>2. CASE link[p].state = app[p].last
    <3>1. Owned(link[p], app[p])
      BY <1>2, <2>2, EmptyOwn DEF Queued, Owned
    <3>2. Owned(link[p], a)
      BY <1>3, <1>8, <1>10, <1>12, <3>1 DEF Owned
    <3>. QED
      BY <2>2, <3>2, <1>12 DEF Queued
  <2>. QED
    BY <2>1, <2>2, <1>2 DEF Queued
<1>. QED
  BY <1>2, <1>6, <1>7, <1>9, <1>12, <1>13, <1>14, CalmStep

LEMMA RunStep ==
  ASSUME LinkInv, NEW p \in Peers, Run(p)
  PROVE  LinkInv'
<1>1. CASE RunSilent(p)
  BY <1>1, RunsSilent
<1>2. CASE RunEmits(p)
  BY <1>2, RunsEmitting
<1>3. CASE RunFails(p)
  <2>. DEFINE a == [app[p] EXCEPT !.mode = "failed", !.at = "poll"]
  <2>1. /\ app[p] \in Apps /\ app[p].at = "run"
        /\ Tied(p, link[p], app[p], net) /\ Queued(link[p], app[p])
    BY <1>3, OfPeer DEF RunFails, Step
  <2>2. app' = [app EXCEPT ![p] = a] /\ UNCHANGED <<link, net>>
    BY <1>3 DEF RunFails, LinkInv
  <2>3. a \in Apps /\ a.at = "poll" /\ a.last = app[p].last /\ a.ir = app[p].ir /\ a.in = app[p].in
    BY <2>1 DEF Apps
  <2>. HIDE DEF a
  <2>4. Tied(p, link[p], a, net)
    BY <2>1, <2>3 DEF Tied
  <2>5. Queued(link[p], a)
    BY <2>1, <2>3 DEF Queued, Owned
  <2>. QED
    BY <2>2, <2>3, <2>4, <2>5, AppStep
<1>. QED
  BY <1>1, <1>2, <1>3 DEF Run

-----------------------------------------------------------------------------
\* The menu.

\* The application after pw_ir_clear.
LEMMA ClearedKeeps ==
  ASSUME NEW a \in Apps
  PROVE  /\ Cleared(a) \in Apps /\ Cleared(a).ir = <<>> /\ Cleared(a).in = <<>>
         /\ Cleared(a).at = a.at /\ Cleared(a).last = a.last
BY EmptyOwn DEF Cleared, Apps

\* A command of the menu that closes the sockets of p and clears its queues.
LEMMA MenuCloses ==
  ASSUME LinkInv, NEW p \in Peers, NEW l \in Links, NEW a \in Apps,
         l.peer = None, l.state # 2, l.tx = <<>>, l.rx = <<>>, l.error # "rx",
         l.server => l.state = 1, a.at = "poll", a.ir = <<>>, a.in = <<>>,
         link' = [link EXCEPT ![p] = l], app' = [app EXCEPT ![p] = a], net' = Hangup(p)
  PROVE  LinkInv'
<1>1. Queued(l, a)
  BY DEF Queued
<1>2. a.at # "receive"
  OBVIOUS
<1>. QED
  BY <1>1, <1>2, CloseStep

LEMMA FailedFields ==
  ASSUME NEW why \in {"os", "closed", "tx"}
  PROVE  /\ Failed(why) \in Links /\ Failed(why).peer = None /\ Failed(why).state = -1
         /\ Failed(why).tx = <<>> /\ Failed(why).rx = <<>> /\ Failed(why).error # "rx"
         /\ ~Failed(why).server
BY EmptyOwn DEF Failed, NoLink, Links

LEMMA NoLinkFields ==
  /\ NoLink \in Links /\ NoLink.peer = None /\ NoLink.state = 0
  /\ NoLink.tx = <<>> /\ NoLink.rx = <<>> /\ NoLink.error # "rx" /\ ~NoLink.server
BY EmptyOwn DEF NoLink, Links

LEMMA ListenStep ==
  ASSUME LinkInv, NEW p \in Peers, Listen(p)
  PROVE  LinkInv'
<1>. DEFINE w == [NoLink EXCEPT !.state = 1, !.server = TRUE]
            l == IF Listeners \subseteq {p} THEN w ELSE Failed("os")
            a == Cleared(app[p])
<1>1. app[p] \in Apps /\ app[p].at = "poll"
  BY OfPeer DEF Listen, Menu
<1>2. a \in Apps /\ a.at = "poll" /\ a.ir = <<>> /\ a.in = <<>>
  BY <1>1, ClearedKeeps
<1>3. /\ w \in Links /\ w.peer = None /\ w.state = 1 /\ w.tx = <<>> /\ w.rx = <<>>
      /\ w.error # "rx"
  BY EmptyOwn DEF NoLink, Links
<1>4. link' = [link EXCEPT ![p] = l] /\ app' = [app EXCEPT ![p] = a] /\ net' = Hangup(p)
  BY DEF Listen
<1>. HIDE DEF w, a
<1>5. /\ l \in Links /\ l.peer = None /\ l.state # 2 /\ l.tx = <<>> /\ l.rx = <<>>
      /\ l.error # "rx" /\ (l.server => l.state = 1)
  <2>1. CASE Listeners \subseteq {p}
    BY <2>1, <1>3
  <2>2. CASE ~(Listeners \subseteq {p})
    <3>1. l = Failed("os")
      BY <2>2
    <3>. HIDE DEF l
    <3>. QED
      BY <3>1, FailedFields
  <2>. QED
    BY <2>1, <2>2
<1>. HIDE DEF l
<1>. QED
  BY <1>2, <1>4, <1>5, MenuCloses

LEMMA ConnectRefusedStep ==
  ASSUME LinkInv, NEW p \in Peers, ConnectRefused(p)
  PROVE  LinkInv'
<1>. DEFINE l == Failed("os")
            a == Cleared(app[p])
<1>1. app[p] \in Apps /\ app[p].at = "poll"
  BY OfPeer DEF ConnectRefused, Menu
<1>2. a \in Apps /\ a.at = "poll" /\ a.ir = <<>> /\ a.in = <<>>
  BY <1>1, ClearedKeeps
<1>3. link' = [link EXCEPT ![p] = l] /\ app' = [app EXCEPT ![p] = a] /\ net' = Hangup(p)
  BY DEF ConnectRefused, Fail
<1>4. /\ l \in Links /\ l.peer = None /\ l.state = -1 /\ l.tx = <<>> /\ l.rx = <<>>
      /\ l.error # "rx" /\ ~l.server
  BY FailedFields
<1>. HIDE DEF l, a
<1>5. l.state # 2 /\ (l.server => l.state = 1)
  BY <1>4
<1>. QED
  BY <1>2, <1>3, <1>4, <1>5, MenuCloses

LEMMA DisconnectStep ==
  ASSUME LinkInv, NEW p \in Peers, Disconnect(p)
  PROVE  LinkInv'
<1>. DEFINE b == Cleared(app[p])
            a == [b EXCEPT !.last = 0]
<1>1. app[p] \in Apps /\ app[p].at = "poll"
  BY OfPeer DEF Disconnect, Menu
<1>2. b \in Apps /\ b.at = "poll" /\ b.ir = <<>> /\ b.in = <<>>
  BY <1>1, ClearedKeeps
<1>3. link' = [link EXCEPT ![p] = NoLink] /\ app' = [app EXCEPT ![p] = a] /\ net' = Hangup(p)
  BY DEF Disconnect
<1>. HIDE DEF b
<1>4. a \in Apps /\ a.at = "poll" /\ a.ir = <<>> /\ a.in = <<>>
  BY <1>2 DEF Apps
<1>. HIDE DEF a
<1>5. NoLink.state # 2 /\ (NoLink.server => NoLink.state = 1)
  BY NoLinkFields
<1>. QED
  BY <1>3, <1>4, <1>5, NoLinkFields, MenuCloses

LEMMA ReloadStep ==
  ASSUME LinkInv, NEW p \in Peers, Reload(p)
  PROVE  LinkInv'
<1>1. link' = [link EXCEPT ![p] = NoLink] /\ app' = [app EXCEPT ![p] = NewApp] /\ net' = Hangup(p)
  BY DEF Reload
<1>2. NewApp \in Apps /\ NewApp.at = "poll" /\ NewApp.ir = <<>> /\ NewApp.in = <<>>
  BY EmptyOwn DEF NewApp, Apps
<1>3. NoLink.state # 2 /\ (NoLink.server => NoLink.state = 1)
  BY NoLinkFields
<1>. QED
  BY <1>1, <1>2, <1>3, NoLinkFields, MenuCloses

LEMMA TogglePauseStep ==
  ASSUME LinkInv, NEW p \in Peers, TogglePause(p)
  PROVE  LinkInv'
<1>. DEFINE mode == IF app[p].mode = "paused" THEN "running" ELSE "paused"
            a == [app[p] EXCEPT !.mode = mode]
<1>1. /\ app[p] \in Apps /\ Tied(p, link[p], app[p], net) /\ Queued(link[p], app[p])
  BY OfPeer
<1>2. app' = [app EXCEPT ![p] = a] /\ UNCHANGED <<link, net>>
  BY DEF TogglePause, LinkInv
<1>3. mode \in {"paused", "running"}
  OBVIOUS
<1>. HIDE DEF mode
<1>4. a \in Apps /\ a.at = app[p].at /\ a.last = app[p].last /\ a.ir = app[p].ir /\ a.in = app[p].in
  BY <1>1, <1>3 DEF Apps
<1>. HIDE DEF a
<1>5. Tied(p, link[p], a, net)
  BY <1>1, <1>4 DEF Tied
<1>6. Queued(link[p], a)
  BY <1>1, <1>4 DEF Queued, Owned
<1>. QED
  BY <1>2, <1>4, <1>5, <1>6, AppStep

\* Dialling: the old sockets are closed, the new connection is nobody else's
\* but the listener's, in whose backlog it waits.
LEMMA ConnectStep ==
  ASSUME LinkInv, NEW p \in Peers, Connect(p)
  PROVE  LinkInv'
<1>1. PICK c \in Free, q \in DialTo(p) :
        /\ net' = [Hangup(p) EXCEPT ![c] = Dialled(p, c, q)]
        /\ link' = [link EXCEPT ![p] = [NoLink EXCEPT !.state = IF p = q THEN 1 ELSE 2, !.peer = c]]
  BY DEF Connect
<1>2. /\ c \in Conns /\ net[c].ends = {} /\ c # None
      /\ q \in Peers /\ (p # q => link[q].server)
  <2>1. Sound(c, net[c]) /\ net[c].stage = "free"
    BY OfConn DEF Free
  <2>. QED
    BY <2>1 DEF Free, DialTo, Listeners, Sound, Conns, None
<1>. DEFINE st == IF p = q THEN 1 ELSE 2
            l == [NoLink EXCEPT !.state = st, !.peer = c]
            a == Cleared(app[p])
            h == Hangup(p)
            x == Dialled(p, c, q)
            n == [h EXCEPT ![c] = x]
<1>3. app[p] \in Apps /\ app[p].at = "poll"
  BY OfPeer DEF Connect, Menu
<1>4. a \in Apps /\ a.at = "poll" /\ a.ir = <<>> /\ a.in = <<>>
  BY <1>3, ClearedKeeps
<1>5. /\ l \in Links /\ l.peer = c /\ l.state = st /\ l.tx = <<>> /\ l.rx = <<>>
      /\ ~l.server /\ l.error # "rx"
  BY <1>2, EmptyOwn DEF NoLink, Links
<1>6. /\ x \in NetRecs /\ x.client = p /\ x.ends = {p, q} /\ x.wire = NoBytes
      /\ p = q => x.stage = "syn"
      /\ p # q => x.stage = "backlog" /\ x.server = q
  <2>1. NoBytes \in [Peers -> Seq(Bytes)] /\ Zeros \in [Peers -> Nat]
    BY EmptyOwn DEF NoBytes, Zeros
  <2>2. CASE p = q
    BY <1>2, <2>1, <2>2 DEF Dialled, FreeConn, NetRecs
  <2>3. CASE p # q
    BY <1>2, <2>1, <2>3 DEF Dialled, FreeConn, NetRecs
  <2>. QED
    BY <2>2, <2>3
<1>7. /\ h \in [Conns -> NetRecs]
      /\ \A d \in Conns : Sound(d, h[d]) /\ p \notin h[d].ends
      /\ \A r \in Peers \ {p}, d \in Conns : Spared(r, d, h)
  BY HangupSpares
<1>8. link' = [link EXCEPT ![p] = l] /\ app' = [app EXCEPT ![p] = a] /\ net' = n
  BY <1>1 DEF Connect
<1>. HIDE DEF l, a, h, x
<1>9. n \in [Conns -> NetRecs] /\ n[c] = x /\ \A d \in Conns \ {c} : n[d] = h[d]
  BY <1>2, <1>6, <1>7
<1>. HIDE DEF n
<1>10. Sound(c, x)
  BY <1>2, <1>6, EmptyOwn DEF Sound, NoBytes, UpStages
<1>11. ASSUME NEW d \in Conns PROVE Sound(d, n[d]) /\ Held(p, d, l, n)
  <2>1. CASE d = c
    BY <2>1, <1>5, <1>9, <1>10 DEF Held
  <2>2. CASE d # c
    BY <2>2, <1>7, <1>9 DEF Sound, Held
  <2>. QED
    BY <2>1, <2>2
<1>12. ASSUME NEW r \in Peers \ {p}, NEW d \in Conns PROVE Spared(r, d, n)
  <2>1. CASE d = c
    <3>1. link[r].peer # c
      BY <1>2, OfPeer DEF Tied
    <3>2. Held(r, c, link[r], n)
      BY <1>2, <1>6, <1>9 DEF Held
    <3>. QED
      BY <2>1, <3>1, <3>2 DEF Spared
  <2>2. CASE d # c
    BY <2>2, <1>7, <1>9 DEF Spared, Held
  <2>. QED
    BY <2>1, <2>2
<1>13. Tied(p, l, a, n)
  BY <1>2, <1>4, <1>5, <1>6, <1>9, EmptyOwn DEF Tied, UpStages
<1>14. Queued(l, a)
  BY <1>4 DEF Queued
<1>. QED
  BY <1>4, <1>5, <1>8, <1>9, <1>11, <1>12, <1>13, <1>14, StepOf

LEMMA UserStep ==
  ASSUME LinkInv, NEW p \in Peers, User(p)
  PROVE  LinkInv'
BY ListenStep, ConnectStep, ConnectRefusedStep, DisconnectStep, ReloadStep, TogglePauseStep DEF User

-----------------------------------------------------------------------------
\* The network.

\* A step of the network that changes the connection c to x.
LEMMA OneChanges ==
  ASSUME LinkInv, NEW c \in Conns, NEW x \in NetRecs, Sound(c, x),
         \A r \in Peers : /\ r \in net[c].ends => r \in x.ends
                          /\ link[r].peer = c /\ net[c].stage \in UpStages => x.stage \in UpStages
                          /\ r \in x.ends => \/ link[r].peer = c
                                             \/ link[r].server /\ x.stage = "backlog" /\ x.server = r,
         UNCHANGED <<link, app>>, net' = [net EXCEPT ![c] = x]
  PROVE  LinkInv'
<1>. DEFINE n == [net EXCEPT ![c] = x]
<1>1. n \in [Conns -> NetRecs] /\ n[c] = x /\ \A d \in Conns \ {c} : n[d] = net[d]
  BY DEF LinkInv
<1>2. net' = n
  OBVIOUS
<1>. HIDE DEF n
<1>3. ASSUME NEW d \in Conns PROVE Sound(d, n[d])
  BY <1>1, OfConn
<1>4. ASSUME NEW r \in Peers, NEW d \in Conns PROVE Spared(r, d, n)
  <2>1. CASE d = c
    BY <2>1, <1>1 DEF Spared, Held
  <2>2. CASE d # c
    <3>1. Held(r, d, link[r], net) /\ n[d] = net[d]
      BY <2>2, <1>1 DEF LinkInv
    <3>. QED
      BY <3>1 DEF Spared, Held
  <2>. QED
    BY <2>1, <2>2
<1>. QED
  BY <1>1, <1>2, <1>3, <1>4, NetStep

LEMMA NetworkStep ==
  ASSUME LinkInv, NEW c \in Conns, Network(c)
  PROVE  LinkInv'
<1>1. /\ net[c] \in NetRecs /\ Sound(c, net[c]) /\ net \in [Conns -> NetRecs]
      /\ \A r \in Peers : Held(r, c, link[r], net)
  BY DEF LinkInv
<1>2. CASE Establish(c)
  <2>1. PICK q \in Listeners :
          net' = [net EXCEPT ![c] = [@ EXCEPT !.stage = "backlog", !.server = q,
                                              !.ends = net[c].ends \cup {q}]]
    BY <1>2 DEF Establish
  <2>2. q \in Peers /\ link[q].server /\ net[c].stage = "syn" /\ UNCHANGED <<link, app>>
    BY <1>2 DEF Establish, Listeners
  <2>. DEFINE ends == net[c].ends \cup {q}
              x == [net[c] EXCEPT !.stage = "backlog", !.server = q, !.ends = ends]
  <2>3. net' = [net EXCEPT ![c] = x]
    BY <2>1, <1>1
  <2>4. ends \in SUBSET Peers
    BY <1>1, <2>2 DEF NetRecs
  <2>. HIDE DEF ends
  <2>5. /\ x \in NetRecs /\ x.stage = "backlog" /\ x.server = q /\ x.ends = ends
        /\ x.client = net[c].client /\ x.wire = net[c].wire
    BY <1>1, <2>2, <2>4 DEF NetRecs
  <2>. HIDE DEF x
  <2>6. Sound(c, x)
    BY <1>1, <2>2, <2>5 DEF Sound
  <2>7. ASSUME NEW r \in Peers
        PROVE  /\ r \in net[c].ends => r \in x.ends
               /\ x.stage \in UpStages
               /\ r \in x.ends => \/ link[r].peer = c
                                  \/ link[r].server /\ x.stage = "backlog" /\ x.server = r
    BY <1>1, <2>2, <2>5 DEF Held, ends, UpStages
  <2>. QED
    BY <2>2, <2>3, <2>5, <2>6, <2>7, OneChanges
<1>3. CASE Refuse(c)
  <2>. DEFINE x == [net[c] EXCEPT !.stage = "refused"]
  <2>1. net[c].stage = "syn" /\ UNCHANGED <<link, app>> /\ net' = [net EXCEPT ![c] = x]
    BY <1>1, <1>3 DEF Refuse
  <2>2. /\ x \in NetRecs /\ x.stage = "refused" /\ x.ends = net[c].ends
        /\ x.wire = net[c].wire
    BY <1>1 DEF NetRecs
  <2>. HIDE DEF x
  <2>3. Sound(c, x)
    BY <1>1, <2>2 DEF Sound, UpStages
  <2>4. ASSUME NEW r \in Peers
        PROVE  /\ r \in net[c].ends => r \in x.ends
               /\ net[c].stage \notin UpStages
               /\ r \in x.ends => link[r].peer = c
    BY <1>1, <2>1, <2>2 DEF Held, UpStages
  <2>. QED
    BY <2>1, <2>2, <2>3, <2>4, OneChanges
<1>4. CASE Reset(c)
  <2>. DEFINE x == [net[c] EXCEPT !.reset = TRUE]
  <2>1. UNCHANGED <<link, app>> /\ net' = [net EXCEPT ![c] = x]
    BY <1>1, <1>4 DEF Reset
  <2>2. /\ x \in NetRecs /\ x.stage = net[c].stage /\ x.ends = net[c].ends /\ x.server = net[c].server
        /\ x.client = net[c].client /\ x.wire = net[c].wire
    BY <1>1 DEF NetRecs
  <2>. HIDE DEF x
  <2>3. Sound(c, x)
    BY <1>1, <2>2 DEF Sound
  <2>4. ASSUME NEW r \in Peers
        PROVE  /\ r \in net[c].ends => r \in x.ends
               /\ net[c].stage \in UpStages => x.stage \in UpStages
               /\ r \in x.ends => \/ link[r].peer = c
                                  \/ link[r].server /\ x.stage = "backlog" /\ x.server = r
    BY <1>1, <2>2 DEF Held
  <2>5. \A r \in Peers :
          /\ r \in net[c].ends => r \in x.ends
          /\ link[r].peer = c /\ net[c].stage \in UpStages => x.stage \in UpStages
          /\ r \in x.ends => \/ link[r].peer = c
                             \/ link[r].server /\ x.stage = "backlog" /\ x.server = r
    BY <2>4
  <2>6. x \in NetRecs
    BY <2>2
  <2>. QED
    BY <2>1, <2>3, <2>5, <2>6, OneChanges
<1>. QED
  BY <1>2, <1>3, <1>4 DEF Network

-----------------------------------------------------------------------------

\* LinkInv is kept by every step of an application and of the network.
THEOREM LinkInvariant == Spec => []LinkInv
<1>1. ASSUME LinkInv, [Next]_vars PROVE LinkInv'
  <2>1. ASSUME NEW p \in Peers, Slice(p) PROVE LinkInv'
    BY <1>1, <2>1, PollStep, RecvStep, PumpStep, RunStep DEF Slice
  <2>2. ASSUME NEW p \in Peers, User(p) PROVE LinkInv'
    BY <1>1, <2>2, UserStep
  <2>3. ASSUME NEW c \in Conns, Network(c) PROVE LinkInv'
    BY <1>1, <2>3, NetworkStep
  <2>4. CASE UNCHANGED vars
    BY <1>1, <2>4 DEF vars, LinkInv, Tied, Queued, Owned, Sound, Held
  <2>. QED
    BY <1>1, <2>1, <2>2, <2>3, <2>4 DEF Next
<1>. QED
  BY <1>1, InitLink, PTL DEF Spec

\* pw_link_poll never refuses bytes for want of room in rx: pumpIR empties rx
\* in every slice, and one poll receives at most what rx can hold.
THEOREM RxIsEmptied == Spec => []RxNeverFull
<1>1. ASSUME LinkInv PROVE RxNeverFull
  BY <1>1, OfPeer DEF RxNeverFull, Tied
<1>. QED
  BY <1>1, LinkInvariant, PTL

\* Every way a session of pw_link ends, and every way one begins, closes the
\* sockets that were open: no end of a connection is forgotten.
THEOREM SocketsAreHeld == Spec => []NoLeak
<1>1. ASSUME LinkInv PROVE NoLeak
  <2>1. ASSUME NEW c \in Conns, NEW p \in net[c].ends
        PROVE  link[p].peer = c \/ (link[p].server /\ c \in Backlog(p))
    <3>1. p \in Peers
      BY <1>1, OfConn DEF NetRecs
    <3>2. Held(p, c, link[p], net)
      BY <1>1, <3>1 DEF LinkInv
    <3>. QED
      BY <3>2 DEF Held, Backlog
  <2>. QED
    BY <2>1 DEF NoLeak
<1>. QED
  BY <1>1, LinkInvariant, PTL

\* However sessions end and begin, the guest never runs with a byte of another
\* session in its receive queue than the one its link is in.
THEOREM SessionsAreApart == Spec => []OwnSession
<1>1. ASSUME LinkInv PROVE OwnSession
  <2>1. ASSUME NEW p \in Peers, app[p].at = "run", link[p].state # -1,
               NEW i \in DOMAIN app[p].in
        PROVE  app[p].in[i].conn = Session(p) /\ Session(p) # None
    <3>1. /\ Queued(link[p], app[p]) /\ Tied(p, link[p], app[p], net)
          /\ app[p].in \in Seq(Bytes)
      BY <1>1, OfPeer DEF Apps
    <3>2. app[p].in # <<>> /\ i \in 1 .. Len(app[p].in)
      BY <2>1, <3>1
    <3>3. Owned(link[p], app[p])
      BY <2>1, <3>1, <3>2 DEF Queued
    <3>4. link[p].state = 2 /\ Own(app[p].in, link[p].peer)
      BY <3>2, <3>3 DEF Owned, SessionOf
    <3>5. app[p].in[i].conn = link[p].peer
      BY <3>2, <3>4 DEF Own
    <3>. QED
      BY <3>1, <3>4, <3>5 DEF Session, Tied
  <2>. QED
    BY <2>1 DEF OwnSession
<1>. QED
  BY <1>1, LinkInvariant, PTL

-----------------------------------------------------------------------------
\* Order.  s holds the bytes of the session c after the first a.
Runs(s, c, a) == \A i \in 1 .. Len(s) : s[i] = [conn |-> c, n |-> a + i]

\* Of the bytes the other end of c has emitted: how many p has been handed or
\* has in rx, and how many have left the other end.
Had(c, p) == IF link[p].peer = c THEN link[p].rx ELSE <<>>
Received(c, p) == net[c].got[p] + Len(Had(c, p))
Sent(c, p) == Received(c, p) + Len(net[c].wire[Other(c, p)])

\* What q has not sent follows the first n bytes of c; an end that has not
\* noticed that it is connected has emitted nothing.
Follows(c, q, n) ==
  IF link[q].peer = c /\ link[q].state = 2
  THEN /\ Runs(link[q].tx, c, n)
       /\ LET m == n + Len(link[q].tx)
          IN IF app[q].last = 2 THEN Runs(app[q].ir, c, m) /\ m + Len(app[q].ir) = net[c].sent[q]
                                ELSE m = net[c].sent[q]
  ELSE net[c].sent[q] = 0

\* What is on its way to p.
Flow(c, p) ==
  LET q == Other(c, p)
  IN /\ Runs(Had(c, p), c, net[c].got[p])
     /\ Runs(net[c].wire[q], c, Received(c, p))
     /\ Sent(c, p) <= net[c].sent[q]
     /\ q \in net[c].ends => Follows(c, q, Sent(c, p))

\* Who the ends of c are, and which of them waits in accept and which dials.
Roles(c) ==
  /\ net[c].stage = "syn" =>
       /\ net[c].ends = {net[c].client} /\ net[c].server = Nobody
       /\ \A r \in Peers : net[c].sent[r] = 0 /\ net[c].got[r] = 0 /\ net[c].wire[r] = <<>>
  /\ net[c].stage \in UpStages =>
       net[c].client # net[c].server /\ net[c].ends \subseteq {net[c].client, net[c].server}
  /\ \A p \in Peers : link[p].peer = c =>
       link[p].state \in {1, 2} /\ p = IF link[p].server THEN net[c].server ELSE net[c].client

Ordered(c) ==
  Roles(c) /\ (net[c].stage \in UpStages => \A p \in net[c].ends : Flow(c, p))

Counted(c) == \A r \in Peers : net[c].sent[r] <= MaxBytes /\ net[c].got[r] <= MaxBytes
Buffered(r) == /\ Len(link[r].tx) <= TxLimit /\ Len(link[r].rx) <= RxLimit
               /\ Len(app[r].in) <= QueueLimit

OrderInv ==
  /\ \A c \in Conns : Ordered(c) /\ Counted(c)
  /\ \A r \in Peers : Buffered(r)

\* What a step leaves alone of the side that x has in c, and of c itself.
Still(c, x) ==
  \/ link[x].peer # c /\ link'[x].peer # c
  \/ /\ link'[x] = link[x]
     /\ link[x].state = 2 => app'[x].ir = app[x].ir /\ app'[x].last = app[x].last
Same(c) ==
  /\ net'[c].stage = net[c].stage /\ net'[c].ends = net[c].ends
  /\ net'[c].client = net[c].client /\ net'[c].server = net[c].server
  /\ net'[c].wire = net[c].wire /\ net'[c].sent = net[c].sent /\ net'[c].got = net[c].got

-----------------------------------------------------------------------------
LEMMA RunsEmpty ==
  \A c, a : Runs(<<>>, c, a)
BY DEF Runs

LEMMA JoinedLen ==
  ASSUME NEW s \in Seq(Bytes), NEW t \in Seq(Bytes)
  PROVE  Len(s \o t) = Len(s) + Len(t)
OBVIOUS

LEMMA RunsJoin ==
  ASSUME NEW s \in Seq(Bytes), NEW t \in Seq(Bytes), NEW c, NEW a \in Nat,
         Runs(s, c, a), Runs(t, c, a + Len(s))
  PROVE  Runs(s \o t, c, a) /\ Len(s \o t) = Len(s) + Len(t)
<1>1. ASSUME NEW i \in 1 .. Len(s \o t) PROVE (s \o t)[i] = [conn |-> c, n |-> a + i]
  <2>1. CASE i <= Len(s)
    <3>1. i \in 1 .. Len(s) /\ (s \o t)[i] = s[i]
      BY <2>1
    <3>. QED
      BY <3>1 DEF Runs
  <2>2. CASE i > Len(s)
    <3>1. i - Len(s) \in 1 .. Len(t) /\ (s \o t)[i] = t[i - Len(s)]
      BY <2>2
    <3>2. a + Len(s) + (i - Len(s)) = a + i
      OBVIOUS
    <3>. QED
      BY <3>1, <3>2 DEF Runs
  <2>. QED
    BY <2>1, <2>2
<1>. QED
  BY <1>1 DEF Runs

LEMMA RunsSplit ==
  ASSUME NEW s \in Seq(Bytes), NEW c, NEW a \in Nat, Runs(s, c, a), NEW k \in 0 .. Len(s)
  PROVE  /\ Runs(SubSeq(s, 1, k), c, a) /\ Len(SubSeq(s, 1, k)) = k
         /\ Runs(SubSeq(s, k + 1, Len(s)), c, a + k)
         /\ Len(SubSeq(s, k + 1, Len(s))) = Len(s) - k
<1>1. Len(SubSeq(s, 1, k)) = k /\ Len(SubSeq(s, k + 1, Len(s))) = Len(s) - k
  OBVIOUS
<1>2. ASSUME NEW i \in 1 .. k PROVE SubSeq(s, 1, k)[i] = [conn |-> c, n |-> a + i]
  <2>1. i \in 1 .. Len(s) /\ SubSeq(s, 1, k)[i] = s[i]
    OBVIOUS
  <2>. QED
    BY <2>1 DEF Runs
<1>3. ASSUME NEW i \in 1 .. Len(s) - k
      PROVE  SubSeq(s, k + 1, Len(s))[i] = [conn |-> c, n |-> a + k + i]
  <2>1. k + i \in 1 .. Len(s) /\ SubSeq(s, k + 1, Len(s))[i] = s[k + i]
    OBVIOUS
  <2>2. a + (k + i) = a + k + i
    OBVIOUS
  <2>. QED
    BY <2>1, <2>2 DEF Runs
<1>. QED
  BY <1>1, <1>2, <1>3 DEF Runs

LEMMA RunsMore ==
  ASSUME NEW s \in Seq(Bytes), NEW c, NEW a \in Nat, Runs(s, c, a), NEW n, n = a + Len(s) + 1
  PROVE  /\ Runs(Append(s, [conn |-> c, n |-> n]), c, a)
         /\ Len(Append(s, [conn |-> c, n |-> n])) = Len(s) + 1
<1>. DEFINE b == [conn |-> c, n |-> n]
<1>1. ASSUME NEW i \in 1 .. Len(s) + 1 PROVE Append(s, b)[i] = [conn |-> c, n |-> a + i]
  <2>1. CASE i <= Len(s)
    <3>1. i \in 1 .. Len(s) /\ Append(s, b)[i] = s[i]
      BY <2>1
    <3>. QED
      BY <3>1 DEF Runs
  <2>2. CASE i > Len(s)
    <3>1. Append(s, b)[i] = b /\ n = a + i
      BY <2>2
    <3>. QED
      BY <3>1
  <2>. QED
    BY <2>1, <2>2
<1>2. Len(Append(s, b)) = Len(s) + 1
  OBVIOUS
<1>. QED
  BY <1>1, <1>2 DEF Runs

LEMMA FirstPart ==
  ASSUME NEW s \in Seq(Bytes), NEW n \in Int
  PROVE  /\ Len(First(s, n)) \in 0 .. Len(s)
         /\ First(s, n) = SubSeq(s, 1, Len(First(s, n)))
         /\ n \in Nat => Len(First(s, n)) <= n
<1>1. CASE n < Len(s)
  <2>1. First(s, n) = SubSeq(s, 1, n)
    BY <1>1 DEF First
  <2>2. CASE n >= 0
    <3>1. Len(SubSeq(s, 1, n)) = n
      BY <1>1, <2>2
    <3>. QED
      BY <1>1, <2>1, <2>2, <3>1
  <2>3. CASE n < 0
    <3>1. SubSeq(s, 1, n) = <<>> /\ SubSeq(s, 1, 0) = <<>>
      BY <2>3
    <3>. QED
      BY <2>1, <2>3, <3>1
  <2>. QED
    BY <2>2, <2>3
<1>2. CASE ~(n < Len(s))
  <2>1. First(s, n) = s /\ SubSeq(s, 1, Len(s)) = s
    BY <1>2 DEF First
  <2>. QED
    BY <1>2, <2>1
<1>. QED
  BY <1>1, <1>2

\* A sequence that runs from a is determined by its length.
LEMMA RunsIs ==
  ASSUME NEW s \in Seq(Bytes), NEW c, NEW a \in Nat, Runs(s, c, a), NEW n, n = Len(s)
  PROVE  s = [i \in 1 .. n |-> [conn |-> c, n |-> a + i]]
<1>1. s = [i \in 1 .. Len(s) |-> s[i]]
  OBVIOUS
<1>. QED
  BY <1>1 DEF Runs

-----------------------------------------------------------------------------
\* The types of what the proofs of order speak of, before a step and after.
LEMMA Typed ==
  ASSUME LinkInv
  PROVE  /\ \A p \in Peers : /\ link[p].tx \in Seq(Bytes) /\ link[p].rx \in Seq(Bytes)
                             /\ app[p].ir \in Seq(Bytes) /\ app[p].in \in Seq(Bytes)
                             /\ link[p].peer \in Conns \cup {None}
         /\ \A c \in Conns, r \in Peers :
              /\ net[c].wire[r] \in Seq(Bytes) /\ net[c].sent[r] \in Nat /\ net[c].got[r] \in Nat
              /\ net[c].ends \subseteq Peers
<1>1. ASSUME NEW p \in Peers
      PROVE  /\ link[p].tx \in Seq(Bytes) /\ link[p].rx \in Seq(Bytes)
             /\ app[p].ir \in Seq(Bytes) /\ app[p].in \in Seq(Bytes)
             /\ link[p].peer \in Conns \cup {None}
  <2>1. link[p] \in Links /\ app[p] \in Apps
    BY OfPeer
  <2>. QED
    BY <2>1 DEF Links, Apps
<1>2. ASSUME NEW c \in Conns, NEW r \in Peers
      PROVE  /\ net[c].wire[r] \in Seq(Bytes) /\ net[c].sent[r] \in Nat /\ net[c].got[r] \in Nat
             /\ net[c].ends \subseteq Peers
  <2>1. net[c] \in NetRecs
    BY OfConn
  <2>2. /\ net[c].wire \in [Peers -> Seq(Bytes)] /\ net[c].sent \in [Peers -> Nat]
        /\ net[c].got \in [Peers -> Nat] /\ net[c].ends \in SUBSET Peers
    BY <2>1 DEF NetRecs
  <2>. QED
    BY <2>2
<1>. QED
  BY <1>1, <1>2

\* An end of c that is not Nobody, and the other end of it.
LEMMA Facing ==
  ASSUME LinkInv, NEW c \in Conns, net[c].stage \in UpStages, Roles(c), NEW r \in net[c].ends
  PROVE  /\ r \in Peers /\ Other(c, r) \in Peers /\ Other(c, r) # r
         /\ Other(c, Other(c, r)) = r
         /\ net[c].ends \subseteq {r, Other(c, r)}
<1>1. net[c].client \in Peers /\ net[c].server \in Peers /\ r \in Peers
  BY OfConn, Typed DEF Sound, UpStages
<1>. QED
  BY <1>1 DEF Roles, Other

LEMMA Counts ==
  ASSUME LinkInv, NEW c \in Conns, NEW r \in Peers, Other(c, r) \in Peers
  PROVE  /\ Had(c, r) \in Seq(Bytes) /\ net[c].got[r] \in Nat
         /\ Received(c, r) \in Nat /\ Sent(c, r) \in Nat
         /\ net[c].got[r] <= Received(c, r) /\ Received(c, r) <= Sent(c, r)
<1>1. Had(c, r) \in Seq(Bytes)
  BY Typed, EmptyOwn DEF Had
<1>2. /\ net[c].got[r] \in Nat /\ net[c].wire[Other(c, r)] \in Seq(Bytes)
  BY Typed
<1>3. Len(Had(c, r)) \in Nat /\ Len(net[c].wire[Other(c, r)]) \in Nat
  BY <1>1, <1>2
<1>4. Received(c, r) = net[c].got[r] + Len(Had(c, r))
  BY DEF Received
<1>5. Sent(c, r) = Received(c, r) + Len(net[c].wire[Other(c, r)])
  BY DEF Sent
<1>6. Received(c, r) \in Nat /\ net[c].got[r] <= Received(c, r)
  BY <1>2, <1>3, <1>4
<1>7. Sent(c, r) \in Nat /\ Received(c, r) <= Sent(c, r)
  <2>1. PICK n \in Nat : n = Len(net[c].wire[Other(c, r)])
    BY <1>3
  <2>2. Sent(c, r) = Received(c, r) + n
    BY <1>5, <2>1
  <2>. QED
    BY <1>6, <2>2
<1>. QED
  BY <1>1, <1>2, <1>6, <1>7

-----------------------------------------------------------------------------
\* What is on its way to r is the same when neither what r has of it, nor what
\* is on the wire, nor the side of the other end changes.
LEMMA FlowStays ==
  ASSUME NEW c, NEW r, Flow(c, r), Other(c, r)' = Other(c, r), Had(c, r)' = Had(c, r),
         net'[c].got[r] = net[c].got[r],
         net'[c].wire[Other(c, r)] = net[c].wire[Other(c, r)],
         net'[c].sent[Other(c, r)] = net[c].sent[Other(c, r)],
         Other(c, r) \in net'[c].ends => Other(c, r) \in net[c].ends /\ Still(c, Other(c, r))
  PROVE  Flow(c, r)'
<1>1. Received(c, r)' = Received(c, r)
  BY DEF Received
<1>2. Sent(c, r)' = Sent(c, r)
  BY <1>1 DEF Sent
<1>3. PICK q, n : q = Other(c, r) /\ n = Sent(c, r)
  OBVIOUS
<1>4. ASSUME q \in net'[c].ends PROVE Follows(c, q, n)'
  <2>1. Follows(c, q, n) /\ Still(c, q)
    BY <1>3, <1>4 DEF Flow
  <2>2. net'[c].sent[q] = net[c].sent[q]
    BY <1>3
  <2>. QED
    BY <2>1, <2>2 DEF Follows, Still
<1>5. Other(c, r)' = q /\ Sent(c, r)' = n
  BY <1>2, <1>3
<1>6. /\ Runs(Had(c, r), c, net[c].got[r])'
      /\ Runs(net'[c].wire[q], c, Received(c, r)')
      /\ n <= net'[c].sent[q]
  BY <1>1, <1>3 DEF Flow, Runs
<1>. QED
  BY <1>4, <1>5, <1>6 DEF Flow

\* A connection that a step leaves alone.
LEMMA Untouched ==
  ASSUME LinkInv, NEW c \in Conns, Ordered(c), Same(c), \A x \in Peers : Still(c, x)
  PROVE  Ordered(c)'
<1>1. Roles(c)'
  BY DEF Ordered, Roles, Same, Still
<1>2. ASSUME net[c].stage \in UpStages, NEW r \in net[c].ends PROVE Flow(c, r)'
  <2>1. Flow(c, r) /\ Other(c, r) \in Peers /\ r \in Peers
    BY <1>2, Facing DEF Ordered
  <2>2. Other(c, r)' = Other(c, r)
    BY DEF Same, Other
  <2>3. Had(c, r)' = Had(c, r)
    BY <2>1 DEF Had, Still
  <2>. QED
    BY <2>1, <2>2, <2>3, FlowStays DEF Same
<1>. QED
  BY <1>1, <1>2 DEF Ordered, Same

\* What is on its way to r when the side of the other end q changes: n bytes
\* have left it.
LEMMA FlowFrom ==
  ASSUME NEW c, NEW r, NEW q, NEW n, NEW m, Runs(Had(c, r), c, net[c].got[r]),
         q = Other(c, r), Other(c, r)' = q, m = Received(c, r),
         Had(c, r)' = Had(c, r), net'[c].got[r] = net[c].got[r],
         Runs(net'[c].wire[q], c, m), n = m + Len(net'[c].wire[q]),
         n <= net'[c].sent[q], q \in net'[c].ends => Follows(c, q, n)'
  PROVE  Flow(c, r)'
<1>1. Received(c, r)' = m
  BY DEF Received
<1>2. Sent(c, r)' = n
  BY <1>1 DEF Sent
<1>3. Runs(Had(c, r), c, net[c].got[r])'
  BY DEF Runs
<1>. QED
  BY <1>1, <1>2, <1>3 DEF Flow, Runs

\* Closing the sockets of p leaves the other ends what is on its way to them.
LEMMA HangupOrders ==
  ASSUME LinkInv, NEW p \in Peers, NEW c \in Conns, Ordered(c),
         net'[c] = Hangup(p)[c], link'[p].peer # c,
         \A x \in Peers \ {p} : link'[x] = link[x] /\ app'[x] = app[x]
  PROVE  Ordered(c)'
<1>1. net[c] \in NetRecs /\ c # None
  BY OfConn DEF Conns, None
<1>2. CASE c \notin Sockets(p)
  <2>1. net'[c] = net[c] /\ link[p].peer # c
    BY <1>2 DEF Hangup, Sockets
  <2>2. \A x \in Peers : Still(c, x)
    BY <2>1 DEF Still
  <2>. QED
    BY <2>1, <2>2, Untouched DEF Same
<1>3. CASE c \in Sockets(p) /\ net[c].ends \subseteq {p}
  <2>1. net'[c].stage = "refused"
    BY <1>3 DEF Hangup, Left, FreeConn
  <2>2. ASSUME NEW x \in Peers PROVE link'[x].peer # c
    <3>1. x # p /\ link[x].peer = c => x \in net[c].ends
      BY <1>1, OfPeer DEF Tied
    <3>. QED
      BY <1>3, <3>1
  <2>. QED
    BY <2>1, <2>2 DEF Ordered, Roles, UpStages
<1>4. CASE c \in Sockets(p) /\ ~(net[c].ends \subseteq {p})
  <2>1. p \in net[c].ends
    BY <1>1, <1>4, OfPeer DEF Sockets, Backlog, Tied
  <2>2. net[c].stage # "syn"
    BY <1>4, <2>1 DEF Ordered, Roles
  <2>. DEFINE b == net[c].reset \/ (net[c].stage = "backlog" /\ net[c].server = p)
              w == [net[c].wire EXCEPT ![Other(c, p)] = <<>>]
  <2>3. net'[c] = [net[c] EXCEPT !.ends = @ \ {p}, !.wire = w, !.reset = b]
    BY <1>4 DEF Hangup, Left
  <2>4. \A x \in Peers : x # Other(c, p) => w[x] = net[c].wire[x]
    BY <1>1 DEF NetRecs
  <2>. HIDE DEF b, w
  <2>5. /\ net'[c].stage = net[c].stage /\ net'[c].ends = net[c].ends \ {p} /\ net'[c].wire = w
        /\ net'[c].client = net[c].client /\ net'[c].server = net[c].server
        /\ net'[c].sent = net[c].sent /\ net'[c].got = net[c].got
    BY <1>1, <2>3 DEF NetRecs
  <2>6. Roles(c)'
    BY <2>2, <2>5 DEF Ordered, Roles
  <2>7. ASSUME net[c].stage \in UpStages, NEW r \in net'[c].ends PROVE Flow(c, r)'
    <3>1. r \in net[c].ends /\ r # p
      BY <2>5
    <3>2. /\ r \in Peers /\ r = Other(c, p) /\ Other(c, r) = p
      BY <2>1, <2>7, <3>1, Facing DEF Ordered
    <3>3. Other(c, r)' = Other(c, r)
      BY <2>5 DEF Other
    <3>4. Had(c, r)' = Had(c, r)
      BY <3>1, <3>2 DEF Had
    <3>5. Flow(c, r)
      BY <2>7, <3>1 DEF Ordered
    <3>. QED
      BY <2>4, <2>5, <3>1, <3>2, <3>3, <3>4, <3>5, FlowStays
  <2>. QED
    BY <2>5, <2>6, <2>7 DEF Ordered
<1>. QED
  BY <1>2, <1>3, <1>4

\* The end p of c becomes connected: it has emitted nothing before.
LEMMA Opens ==
  ASSUME LinkInv, NEW c \in Conns, Ordered(c), net[c].stage \in UpStages, NEW p \in net[c].ends,
         ~(link[p].peer = c /\ link[p].state = 2), Had(c, p) = <<>>,
         net'[c].stage \in UpStages, net'[c].ends = net[c].ends,
         net'[c].client = net[c].client, net'[c].server = net[c].server,
         net'[c].wire = net[c].wire, net'[c].sent = net[c].sent, net'[c].got = net[c].got,
         link'[p].peer = c, link'[p].state = 2, link'[p].tx = <<>>, link'[p].rx = <<>>,
         app'[p].last = 2 => app'[p].ir = <<>>,
         p = IF link'[p].server THEN net[c].server ELSE net[c].client,
         \A x \in Peers \ {p} : link'[x] = link[x] /\ app'[x] = app[x]
  PROVE  Ordered(c)'
<1>1. p \in Peers
  BY Facing DEF Ordered
<1>2. Roles(c)'
  BY <1>1 DEF Ordered, Roles, UpStages
<1>3. \A x : Other(c, x)' = Other(c, x)
  BY DEF Other
<1>4. \A x \in Peers : Had(c, x)' = Had(c, x)
  <2>1. Had(c, p)' = <<>>
    BY DEF Had
  <2>2. ASSUME NEW x \in Peers \ {p} PROVE Had(c, x)' = Had(c, x)
    BY DEF Had
  <2>. QED
    BY <2>1, <2>2
<1>5. ASSUME NEW r \in net[c].ends PROVE Flow(c, r)'
  <2>1. /\ Flow(c, r) /\ r \in Peers /\ Other(c, r) \in Peers
        /\ Other(c, r) # r /\ Other(c, Other(c, r)) = r
    BY Facing DEF Ordered
  <2>2. CASE Other(c, r) # p
    <3>1. Still(c, Other(c, r))
      BY <2>1, <2>2 DEF Still
    <3>. QED
      BY <1>3, <1>4, <2>1, <3>1, FlowStays
  <2>3. CASE Other(c, r) = p
    <3>1. PICK n, m : n = Sent(c, r) /\ m = Received(c, r)
      OBVIOUS
    <3>2. Follows(c, p, n) /\ n <= net[c].sent[p]
      BY <2>1, <2>3, <3>1 DEF Flow
    <3>3. net[c].sent[p] = 0 /\ n = 0 /\ m \in Nat /\ Runs(Had(c, r), c, net[c].got[r])
      <4>1. net[c].sent[p] = 0
        BY <3>2 DEF Follows
      <4>2. n \in Nat /\ m \in Nat
        BY <2>1, <3>1, Counts
      <4>. QED
        BY <2>1, <3>2, <4>1, <4>2 DEF Flow
    <3>4. Follows(c, p, 0)'
      <4>1. Len(<<>>) = 0
        OBVIOUS
      <4>. QED
        BY <1>1, <3>3, <4>1, RunsEmpty DEF Follows, Runs
    <3>5. Runs(net[c].wire[p], c, m) /\ n = m + Len(net[c].wire[p])
      BY <2>1, <2>3, <3>1 DEF Flow, Sent
    <3>6. Runs(net'[c].wire[p], c, m)
      BY <3>5 DEF Runs
    <3>7. n = m + Len(net'[c].wire[p])
      BY <3>5
    <3>8. /\ n <= net'[c].sent[p] /\ Runs(Had(c, r), c, net[c].got[r])
          /\ net'[c].got[r] = net[c].got[r] /\ Follows(c, p, n)'
      BY <3>2, <3>3, <3>4
    <3>9. /\ p = Other(c, r) /\ Other(c, r)' = p /\ m = Received(c, r)
          /\ Had(c, r)' = Had(c, r)
      BY <1>3, <1>4, <2>1, <2>3, <3>1
    <3>. QED
      BY <3>6, <3>7, <3>8, <3>9, FlowFrom
  <2>. QED
    BY <2>2, <2>3
<1>. QED
  BY <1>2, <1>5 DEF Ordered

-----------------------------------------------------------------------------
\* A connection of which nothing has been sent or received.
LEMMA NothingFlows ==
  ASSUME LinkInv', NEW c \in Conns, NEW r \in Peers, NEW q \in Peers, Other(c, r)' = q,
         net'[c].got[r] = 0, net'[c].wire[q] = <<>>, net'[c].sent[q] = 0,
         Had(c, r)' = <<>>,
         link'[q].peer = c /\ link'[q].state = 2 => link'[q].tx = <<>> /\ app'[q].ir = <<>>
  PROVE  Flow(c, r)'
<1>1. Len(<<>>) = 0
  OBVIOUS
<1>2. Received(c, r)' = 0
  BY <1>1 DEF Received
<1>3. Sent(c, r)' = 0
  BY <1>1, <1>2 DEF Sent
<1>4. Follows(c, q, 0)'
  <2>1. CASE link'[q].peer = c /\ link'[q].state = 2
    <3>1. Runs(link'[q].tx, c, 0) /\ 0 + Len(link'[q].tx) = 0
      BY <1>1, <2>1, RunsEmpty
    <3>2. Runs(app'[q].ir, c, 0) /\ 0 + Len(app'[q].ir) = 0
      BY <1>1, <2>1, RunsEmpty
    <3>. QED
      BY <2>1, <3>1, <3>2 DEF Follows, Runs
  <2>2. CASE ~(link'[q].peer = c /\ link'[q].state = 2)
    BY <2>2 DEF Follows
  <2>. QED
    BY <2>1, <2>2
<1>. QED
  BY <1>1, <1>2, <1>3, <1>4 DEF Flow, Runs

LEMMA EstablishOrders ==
  ASSUME LinkInv, LinkInv', NEW c \in Conns, Ordered(c), Establish(c)
  PROVE  Ordered(c)'
<1>1. PICK q \in Listeners :
        net' = [net EXCEPT ![c] = [@ EXCEPT !.stage = "backlog", !.server = q,
                                            !.ends = net[c].ends \cup {q}]]
  BY DEF Establish
<1>2. /\ net[c].stage = "syn" /\ UNCHANGED <<link, app>> /\ q \in Peers /\ link[q].server
      /\ net[c] \in NetRecs /\ net \in [Conns -> NetRecs] /\ c # None
  BY OfConn DEF Establish, Listeners, LinkInv, Conns, None
<1>3. /\ net'[c].stage = "backlog" /\ net'[c].server = q /\ net'[c].ends = net[c].ends \cup {q}
      /\ net'[c].client = net[c].client /\ net'[c].wire = net[c].wire
      /\ net'[c].sent = net[c].sent /\ net'[c].got = net[c].got
  BY <1>1, <1>2 DEF NetRecs
<1>4. PICK p : p = net[c].client
  OBVIOUS
<1>5. /\ p \in Peers /\ net[c].ends = {p} /\ net[c].server = Nobody
      /\ \A r \in Peers : net[c].sent[r] = 0 /\ net[c].got[r] = 0 /\ net[c].wire[r] = <<>>
  BY <1>2, <1>4, OfConn DEF Ordered, Roles, Sound
<1>6. /\ \A x \in Peers : link[x].peer = c => ~link[x].server /\ x = p /\ link[x].state \in {1, 2}
      /\ link[p].peer = c
  <2>1. \A x \in Peers : link[x].peer = c => ~link[x].server /\ x = p /\ link[x].state \in {1, 2}
    BY <1>4, <1>5, IrLinkAssumption DEF Ordered, Roles
  <2>2. Held(p, c, link[p], net)
    BY <1>5 DEF LinkInv
  <2>. QED
    BY <1>2, <1>5, <2>1, <2>2 DEF Held
<1>7. p # q
  BY <1>2, <1>5, <1>6
<1>8. \A x \in Peers : link'[x].peer = c => link'[x].state # 2 /\ link'[x].rx = <<>>
  <2>1. ASSUME NEW x \in Peers, link[x].peer = c PROVE link[x].state # 2
    BY <1>2, <2>1, OfPeer DEF Tied, UpStages
  <2>2. ASSUME NEW x \in Peers, link[x].state # 2 PROVE link[x].rx = <<>>
    BY <2>2, OfPeer DEF Tied
  <2>. QED
    BY <1>2, <2>1, <2>2
<1>9. Roles(c)'
  BY <1>2, <1>3, <1>4, <1>5, <1>6, <1>7 DEF Roles, UpStages
<1>10. ASSUME NEW r \in {p, q} PROVE Flow(c, r)'
  <2>1. PICK o \in {p, q} : o # r
    BY <1>7
  <2>2. Other(c, r)' = o
    BY <1>3, <1>4, <1>7, <2>1 DEF Other
  <2>3. Had(c, r)' = <<>>
    BY <1>2, <1>5, <1>8 DEF Had
  <2>. QED
    BY <1>2, <1>3, <1>5, <1>8, <2>2, <2>3, NothingFlows
<1>. QED
  BY <1>3, <1>5, <1>9, <1>10 DEF Ordered

LEMMA NetworkOrders ==
  ASSUME LinkInv, LinkInv', OrderInv, NEW c \in Conns, Network(c)
  PROVE  OrderInv'
<1>1. /\ UNCHANGED <<link, app>> /\ net \in [Conns -> NetRecs] /\ net[c] \in NetRecs
      /\ \A d \in Conns : Ordered(d) /\ Counted(d)
      /\ \A r \in Peers : Buffered(r)
  BY OfConn DEF Network, Establish, Refuse, Reset, LinkInv, OrderInv
<1>2. \A d, x : Still(d, x)
  BY <1>1 DEF Still
<1>3. ASSUME NEW d \in Conns, d # c PROVE Ordered(d)' /\ net'[d] = net[d]
  <2>1. net'[d] = net[d]
    BY <1>1, <1>3 DEF Network, Establish, Refuse, Reset
  <2>2. Same(d)
    BY <2>1 DEF Same
  <2>. QED
    BY <1>1, <1>2, <2>1, <2>2, Untouched
<1>4. Ordered(c)' /\ net'[c].sent = net[c].sent /\ net'[c].got = net[c].got
  <2>1. CASE Establish(c)
    <3>1. net'[c].sent = net[c].sent /\ net'[c].got = net[c].got
      BY <1>1, <2>1 DEF Establish, NetRecs
    <3>. QED
      BY <1>1, <2>1, <3>1, EstablishOrders
  <2>2. CASE Refuse(c)
    <3>1. /\ net'[c].stage = "refused" /\ net'[c].client = net[c].client
          /\ net'[c].server = net[c].server
          /\ net'[c].sent = net[c].sent /\ net'[c].got = net[c].got
      BY <1>1, <2>2 DEF Refuse, NetRecs
    <3>2. Roles(c)'
      BY <1>1, <3>1 DEF Ordered, Roles, UpStages
    <3>. QED
      BY <3>1, <3>2 DEF Ordered, UpStages
  <2>3. CASE Reset(c)
    <3>1. Same(c)
      BY <1>1, <2>3 DEF Reset, Same, NetRecs
    <3>. QED
      BY <1>1, <1>2, <3>1, Untouched DEF Same
  <2>. QED
    BY <2>1, <2>2, <2>3 DEF Network
<1>5. ASSUME NEW d \in Conns PROVE Counted(d)'
  BY <1>1, <1>3, <1>4 DEF Counted
<1>6. ASSUME NEW r \in Peers PROVE Buffered(r)'
  BY <1>1 DEF Buffered
<1>. QED
  BY <1>3, <1>4, <1>5, <1>6 DEF OrderInv

-----------------------------------------------------------------------------
\* What a step of p leaves alone of the other instances.
Others(p) == \A x \in Peers \ {p} : link'[x] = link[x] /\ app'[x] = app[x]

LEMMA OthersKept ==
  ASSUME LinkInv, NEW p \in Peers, NEW l, NEW a,
         link' = [link EXCEPT ![p] = l], app' = [app EXCEPT ![p] = a]
  PROVE  Others(p) /\ link'[p] = l /\ app'[p] = a
BY DEF LinkInv, Others

LEMMA OfOrder ==
  ASSUME OrderInv
  PROVE  /\ \A c \in Conns : Ordered(c) /\ Counted(c)
         /\ \A r \in Peers : Buffered(r)
BY DEF OrderInv

\* Steps that move no byte between the instances.
LEMMA CalmOrders ==
  ASSUME LinkInv, OrderInv, NEW p \in Peers, UNCHANGED <<link, net>>, Others(p),
         link[p].state = 2 => app'[p].ir = app[p].ir /\ app'[p].last = app[p].last,
         Buffered(p)'
  PROVE  OrderInv'
<1>1. ASSUME NEW c \in Conns PROVE Ordered(c)' /\ Counted(c)'
  <2>1. Ordered(c) /\ Counted(c) /\ Same(c)
    BY OfOrder DEF Same
  <2>2. \A x \in Peers : Still(c, x)
    BY DEF Still, Others
  <2>. QED
    BY <2>1, <2>2, Untouched DEF Counted
<1>2. ASSUME NEW r \in Peers PROVE Buffered(r)'
  BY OfOrder DEF Buffered, Others
<1>. QED
  BY <1>1, <1>2 DEF OrderInv

LEMMA HangupCounts ==
  ASSUME LinkInv, OrderInv, NEW p \in Peers, NEW c \in Conns, NEW r \in Peers
  PROVE  Hangup(p)[c].sent[r] <= MaxBytes /\ Hangup(p)[c].got[r] <= MaxBytes
<1>1. net[c] \in NetRecs /\ Counted(c)
  BY OfConn, OfOrder
<1>2. CASE c \notin Sockets(p)
  BY <1>1, <1>2 DEF Hangup, Counted
<1>3. CASE c \in Sockets(p) /\ net[c].ends \subseteq {p}
  <2>1. Hangup(p)[c].sent = Zeros /\ Hangup(p)[c].got = Zeros
    BY <1>3 DEF Hangup, Left, FreeConn
  <2>. QED
    BY <2>1, IrLinkAssumption DEF Zeros
<1>4. CASE c \in Sockets(p) /\ ~(net[c].ends \subseteq {p})
  <2>1. Hangup(p)[c].sent = net[c].sent /\ Hangup(p)[c].got = net[c].got
    BY <1>1, <1>4 DEF Hangup, Left, NetRecs
  <2>. QED
    BY <1>1, <2>1 DEF Counted
<1>. QED
  BY <1>2, <1>3, <1>4

\* Steps that close the sockets of p.
LEMMA CloseOrders ==
  ASSUME LinkInv, OrderInv, NEW p \in Peers, NEW l, NEW a,
         link' = [link EXCEPT ![p] = l], app' = [app EXCEPT ![p] = a], net' = Hangup(p),
         l.peer = None, l.tx = <<>>, l.rx = <<>>, Len(a.in) <= QueueLimit
  PROVE  OrderInv'
<1>1. Others(p) /\ link'[p] = l /\ app'[p] = a
  BY OthersKept
<1>2. ASSUME NEW c \in Conns PROVE Ordered(c)' /\ Counted(c)'
  <2>1. Ordered(c) /\ c # None
    BY OfOrder DEF Conns, None
  <2>2. Ordered(c)'
    BY <1>1, <2>1, HangupOrders DEF Others
  <2>3. Counted(c)'
    BY HangupCounts DEF Counted
  <2>. QED
    BY <2>2, <2>3
<1>3. ASSUME NEW r \in Peers PROVE Buffered(r)'
  <2>1. CASE r = p
    BY <1>1, <2>1, IrLinkAssumption DEF Buffered
  <2>2. CASE r # p
    BY <1>1, <2>2, OfOrder DEF Buffered, Others
  <2>. QED
    BY <2>1, <2>2
<1>. QED
  BY <1>2, <1>3 DEF OrderInv

LEMMA FailOrders ==
  ASSUME LinkInv, OrderInv, NEW p \in Peers, NEW why \in {"os", "closed", "tx"}, Fail(p, why),
         NEW a, app' = [app EXCEPT ![p] = a], Len(a.in) <= QueueLimit
  PROVE  OrderInv'
<1>1. Failed(why).peer = None /\ Failed(why).tx = <<>> /\ Failed(why).rx = <<>>
  BY DEF Failed, NoLink
<1>. QED
  BY <1>1, CloseOrders DEF Fail

\* A poll that goes on without moving a byte, or fails.
LEMMA PollOrders ==
  ASSUME LinkInv, OrderInv, NEW p \in Peers, Goto(p, "exchange"),
         UNCHANGED <<link, net>> \/ Fail(p, "os") \/ Fail(p, "closed")
  PROVE  OrderInv'
<1>. DEFINE a == [app[p] EXCEPT !.at = "exchange"]
<1>1. app[p] \in Apps /\ Buffered(p)
  BY OfPeer, OfOrder
<1>2. app' = [app EXCEPT ![p] = a]
  BY DEF Goto, LinkInv
<1>3. a.ir = app[p].ir /\ a.last = app[p].last /\ a.in = app[p].in
  BY <1>1 DEF Apps
<1>. HIDE DEF a
<1>4. CASE UNCHANGED <<link, net>>
  <2>1. Others(p) /\ app'[p] = a
    BY <1>2, <1>4 DEF LinkInv, Others
  <2>. QED
    BY <1>1, <1>3, <1>4, <2>1, CalmOrders DEF Buffered
<1>5. CASE Fail(p, "os") \/ Fail(p, "closed")
  BY <1>1, <1>2, <1>3, <1>5, FailOrders DEF Buffered
<1>. QED
  BY <1>4, <1>5

LEMMA AcceptOrders ==
  ASSUME LinkInv, OrderInv, NEW p \in Peers, Accept(p)
  PROVE  OrderInv'
<1>1. PICK c \in Backlog(p) : /\ link' = [link EXCEPT ![p].peer = c, ![p].state = 2]
                              /\ net' = [net EXCEPT ![c].stage = "accepted"]
  BY DEF Accept
<1>2. /\ c \in Conns /\ net[c].stage = "backlog" /\ net[c].server = p /\ p \in net[c].ends
      /\ c # None
  BY <1>1 DEF Backlog, Conns, None
<1>3. /\ link[p] \in Links /\ app[p] \in Apps /\ net \in [Conns -> NetRecs]
      /\ Tied(p, link[p], app[p], net) /\ Queued(link[p], app[p]) /\ Buffered(p)
      /\ link[p].server /\ link[p].peer = None
  BY OfPeer, OfOrder DEF LinkInv, Accept, Waiting
<1>4. link[p].state = 1 /\ link[p].tx = <<>> /\ link[p].rx = <<>>
  BY <1>3 DEF Tied
<1>. DEFINE l == [link[p] EXCEPT !.peer = c, !.state = 2]
            a == [app[p] EXCEPT !.at = "receive"]
<1>5. l.peer = c /\ l.state = 2 /\ l.tx = <<>> /\ l.rx = <<>> /\ l.server
  BY <1>3, <1>4 DEF Links
<1>6. a.last = app[p].last /\ a.ir = app[p].ir /\ a.in = app[p].in
  BY <1>3 DEF Apps
<1>7. link' = [link EXCEPT ![p] = l] /\ app' = [app EXCEPT ![p] = a]
  BY <1>1 DEF LinkInv, Accept, Goto
<1>. HIDE DEF l, a
<1>8. Others(p) /\ link'[p] = l /\ app'[p] = a
  BY <1>7, OthersKept
<1>9. /\ net'[c].stage = "accepted" /\ net'[c].ends = net[c].ends
      /\ net'[c].client = net[c].client /\ net'[c].server = net[c].server
      /\ net'[c].wire = net[c].wire /\ net'[c].sent = net[c].sent /\ net'[c].got = net[c].got
      /\ \A d \in Conns \ {c} : net'[d] = net[d]
  BY <1>1, <1>2, <1>3 DEF NetRecs
<1>10. Ordered(c)'
  <2>1. Had(c, p) = <<>>
    BY <1>2, <1>3 DEF Had
  <2>2. a.last = 2 => a.ir = <<>>
    BY <1>3, <1>4, <1>6 DEF Queued
  <2>3. Ordered(c) /\ net[c].stage \in UpStages /\ net'[c].stage \in UpStages
    BY <1>2, <1>9, OfOrder DEF UpStages
  <2>. QED
    BY <1>2, <1>4, <1>5, <1>8, <1>9, <2>1, <2>2, <2>3, Opens DEF Others
<1>11. ASSUME NEW d \in Conns, d # c PROVE Ordered(d)'
  <2>1. Same(d) /\ Ordered(d)
    BY <1>9, <1>11, OfOrder DEF Same
  <2>2. \A x \in Peers : Still(d, x)
    BY <1>3, <1>5, <1>8, <1>11 DEF Still, Others, Conns, None
  <2>. QED
    BY <2>1, <2>2, Untouched
<1>12. ASSUME NEW d \in Conns PROVE Counted(d)'
  <2>1. net'[d].sent = net[d].sent /\ net'[d].got = net[d].got
    BY <1>9
  <2>. QED
    BY <2>1, OfOrder DEF Counted
<1>13. ASSUME NEW r \in Peers PROVE Buffered(r)'
  <2>1. CASE r = p
    BY <1>3, <1>5, <1>6, <1>8, <2>1, IrLinkAssumption DEF Buffered
  <2>2. CASE r # p
    BY <1>8, <2>2, OfOrder DEF Buffered, Others
  <2>. QED
    BY <2>1, <2>2
<1>. QED
  BY <1>10, <1>11, <1>12, <1>13 DEF OrderInv

LEMMA ConnectedOrders ==
  ASSUME LinkInv, OrderInv, NEW p \in Peers, ConnectDone(p)
  PROVE  OrderInv'
<1>1. PICK c : c = link[p].peer
  OBVIOUS
<1>2. /\ link[p] \in Links /\ app[p] \in Apps
      /\ Tied(p, link[p], app[p], net) /\ Queued(link[p], app[p]) /\ Buffered(p)
      /\ link[p].state = 1 /\ net' = net /\ link[p].peer = c
  BY <1>1, OfPeer, OfOrder DEF ConnectDone, Connecting
<1>3. c \in Conns /\ net[c].stage \in UpStages /\ p \in net[c].ends
  BY <1>1, <1>2, OfPeer DEF ConnectDone, Connecting, Up, UpStages, Tied
<1>4. link[p].tx = <<>> /\ link[p].rx = <<>>
  BY <1>2 DEF Tied
<1>. DEFINE l == [link[p] EXCEPT !.state = 2]
            a == [app[p] EXCEPT !.at = "receive"]
<1>5. /\ l.peer = c /\ l.state = 2 /\ l.tx = <<>> /\ l.rx = <<>>
      /\ l.server = link[p].server
  BY <1>1, <1>2, <1>4 DEF Links
<1>6. a.last = app[p].last /\ a.ir = app[p].ir /\ a.in = app[p].in
  BY <1>2 DEF Apps
<1>7. link' = [link EXCEPT ![p] = l] /\ app' = [app EXCEPT ![p] = a]
  BY DEF LinkInv, ConnectDone, Goto
<1>. HIDE DEF l, a
<1>8. Others(p) /\ link'[p] = l /\ app'[p] = a
  BY <1>7, OthersKept
<1>9. Ordered(c)'
  <2>1. Had(c, p) = <<>>
    BY <1>4 DEF Had
  <2>2. a.last = 2 => a.ir = <<>>
    BY <1>2, <1>6 DEF Queued
  <2>3. Ordered(c) /\ p = IF l.server THEN net[c].server ELSE net[c].client
    BY <1>1, <1>3, <1>5, OfOrder DEF Ordered, Roles
  <2>. QED
    BY <1>2, <1>3, <1>5, <1>8, <2>1, <2>2, <2>3, Opens DEF Others
<1>10. ASSUME NEW d \in Conns, d # c PROVE Ordered(d)'
  <2>1. Same(d) /\ Ordered(d)
    BY <1>2, OfOrder DEF Same
  <2>2. \A x \in Peers : Still(d, x)
    BY <1>1, <1>5, <1>8, <1>10 DEF Still, Others
  <2>. QED
    BY <2>1, <2>2, Untouched
<1>11. ASSUME NEW d \in Conns PROVE Counted(d)'
  BY <1>2, OfOrder DEF Counted
<1>12. ASSUME NEW r \in Peers PROVE Buffered(r)'
  <2>1. CASE r = p
    BY <1>2, <1>5, <1>6, <1>8, <2>1, IrLinkAssumption DEF Buffered
  <2>2. CASE r # p
    BY <1>8, <2>2, OfOrder DEF Buffered, Others
  <2>. QED
    BY <2>1, <2>2
<1>. QED
  BY <1>9, <1>10, <1>11, <1>12 DEF OrderInv

-----------------------------------------------------------------------------
\* A connected link: the two ends of its connection c, and what is on its way.
LEMMA Joined ==
  ASSUME LinkInv, OrderInv, NEW p \in Peers, link[p].state = 2
  PROVE  \E c \in Conns, q \in Peers :
           /\ c = link[p].peer /\ q = Other(c, p) /\ q # p /\ Other(c, q) = p
           /\ net[c].stage \in UpStages /\ p \in net[c].ends /\ net[c].ends \subseteq {p, q}
           /\ Ordered(c) /\ Counted(c) /\ Flow(c, p) /\ (q \in net[c].ends => Flow(c, q))
<1>1. PICK c \in Conns : c = link[p].peer
  BY Connected
<1>2. net[c].stage \in UpStages /\ p \in net[c].ends
  BY <1>1, Connected
<1>3. Ordered(c) /\ Counted(c)
  BY OfOrder
<1>4. /\ Other(c, p) \in Peers /\ Other(c, p) # p /\ Other(c, Other(c, p)) = p
      /\ net[c].ends \subseteq {p, Other(c, p)}
  BY <1>2, <1>3, Facing DEF Ordered
<1>. QED
  BY <1>1, <1>2, <1>3, <1>4 DEF Ordered

\* What a connected end has not sent, before a step and after.
LEMMA Leaving ==
  ASSUME LinkInv, NEW c \in Conns, NEW p \in Peers, link[p].peer = c, link[p].state = 2,
         NEW n \in Nat, Follows(c, p, n)
  PROVE  \E m \in Nat :
           /\ m = n + Len(link[p].tx) /\ Runs(link[p].tx, c, n) /\ n <= m /\ m <= net[c].sent[p]
           /\ app[p].last = 2 => Runs(app[p].ir, c, m) /\ m + Len(app[p].ir) = net[c].sent[p]
           /\ app[p].last # 2 => m = net[c].sent[p]
<1>1. Len(link[p].tx) \in Nat /\ Len(app[p].ir) \in Nat /\ net[c].sent[p] \in Nat
  BY Typed
<1>2. PICK m \in Nat : m = n + Len(link[p].tx) /\ n <= m
  BY <1>1
<1>3. /\ Runs(link[p].tx, c, n)
      /\ app[p].last = 2 => Runs(app[p].ir, c, m) /\ m + Len(app[p].ir) = net[c].sent[p]
      /\ app[p].last # 2 => m = net[c].sent[p]
  BY <1>2 DEF Follows
<1>4. m <= net[c].sent[p]
  BY <1>1, <1>3
<1>. QED
  BY <1>2, <1>3, <1>4

LEMMA Leaves ==
  ASSUME NEW c, NEW p, NEW n, NEW m, link'[p].peer = c, link'[p].state = 2,
         Runs(link'[p].tx, c, n), m = n + Len(link'[p].tx),
         app'[p].last = 2 => Runs(app'[p].ir, c, m) /\ m + Len(app'[p].ir) = net'[c].sent[p],
         app'[p].last # 2 => m = net'[c].sent[p]
  PROVE  Follows(c, p, n)'
BY DEF Follows, Runs

\* A step of p that moves bytes of the connection c of its link.
LEMMA MoveOrders ==
  ASSUME LinkInv, OrderInv, NEW p \in Peers, NEW c \in Conns, NEW q \in Peers,
         c = link[p].peer, net[c].stage \in UpStages, net[c].ends \subseteq {p, q}, Others(p),
         link'[p].peer = c, link'[p].state = link[p].state, link'[p].server = link[p].server,
         net'[c].stage = net[c].stage, net'[c].ends = net[c].ends,
         net'[c].client = net[c].client, net'[c].server = net[c].server,
         \A d \in Conns \ {c} : net'[d] = net[d],
         Flow(c, p)', q \in net[c].ends => Flow(c, q)', Counted(c)', Buffered(p)'
  PROVE  OrderInv'
<1>1. Ordered(c)'
  <2>1. Roles(c)'
    <3>1. Roles(c)
      BY OfOrder DEF Ordered
    <3>. QED
      BY <3>1 DEF Roles, Others, UpStages
  <2>. QED
    BY <2>1 DEF Ordered
<1>2. ASSUME NEW d \in Conns, d # c PROVE Ordered(d)' /\ Counted(d)'
  <2>1. Same(d) /\ Ordered(d) /\ Counted(d)
    BY <1>2, OfOrder DEF Same
  <2>2. \A x \in Peers : Still(d, x)
    BY <1>2 DEF Still, Others
  <2>. QED
    BY <1>2, <2>1, <2>2, Untouched DEF Counted
<1>3. ASSUME NEW r \in Peers PROVE Buffered(r)'
  BY OfOrder DEF Buffered, Others
<1>. QED
  BY <1>1, <1>2, <1>3 DEF OrderInv

\* The send loop.
LEMMA SendOrders ==
  ASSUME LinkInv, OrderInv, NEW p \in Peers, Send(p)
  PROVE  OrderInv'
<1>1. PICK c \in Conns, q \in Peers :
        /\ c = link[p].peer /\ q = Other(c, p) /\ q # p /\ Other(c, q) = p
        /\ net[c].stage \in UpStages /\ p \in net[c].ends /\ net[c].ends \subseteq {p, q}
        /\ Ordered(c) /\ Counted(c) /\ Flow(c, p) /\ (q \in net[c].ends => Flow(c, q))
  BY Joined DEF Send
<1>2. /\ link[p] \in Links /\ app[p] \in Apps /\ net \in [Conns -> NetRecs] /\ net[c] \in NetRecs
      /\ link[p].state = 2 /\ link[p].tx \in Seq(Bytes) /\ net[c].wire[p] \in Seq(Bytes)
      /\ net[c].wire \in [Peers -> Seq(Bytes)] /\ Buffered(p)
  BY OfPeer, OfConn, OfOrder, Typed DEF LinkInv, Send, NetRecs
<1>3. PICK s, rest :
        /\ s = First(link[p].tx, WireLimit - Len(net[c].wire[p]))
        /\ rest = SubSeq(link[p].tx, Len(s) + 1, Len(link[p].tx))
  OBVIOUS
<1>4. PICK k \in 0 .. Len(link[p].tx) : k = Len(s) /\ s = SubSeq(link[p].tx, 1, k)
  <2>1. WireLimit - Len(net[c].wire[p]) \in Int
    BY <1>2, IrLinkAssumption
  <2>. QED
    BY <1>2, <1>3, <2>1, FirstPart
<1>5. /\ link' = [link EXCEPT ![p].tx = rest]
      /\ net' = [net EXCEPT ![c].wire[p] = IF q \in net[c].ends THEN @ \o s ELSE @,
                            ![c].reset = @ \/ (q \notin net[c].ends /\ s # <<>>)]
      /\ app' = [app EXCEPT ![p].at = "receive"]
  BY <1>1, <1>3 DEF Send, Goto
<1>6. /\ link'[p].peer = c /\ link'[p].state = 2 /\ link'[p].server = link[p].server
      /\ link'[p].tx = rest /\ link'[p].rx = link[p].rx
      /\ app'[p].last = app[p].last /\ app'[p].ir = app[p].ir /\ app'[p].in = app[p].in
      /\ Others(p)
  BY <1>1, <1>2, <1>5 DEF LinkInv, Links, Apps, Others
<1>. DEFINE w == [net[c].wire EXCEPT ![p] = IF q \in net[c].ends THEN @ \o s ELSE @]
            b == net[c].reset \/ (q \notin net[c].ends /\ s # <<>>)
<1>7. net' = [net EXCEPT ![c] = [net[c] EXCEPT !.wire = w, !.reset = b]]
  BY <1>2, <1>5 DEF NetRecs
<1>8. /\ w[q] = net[c].wire[q]
      /\ q \in net[c].ends => w[p] = net[c].wire[p] \o s
  BY <1>1, <1>2
<1>. HIDE DEF w, b
<1>9. /\ net'[c].stage = net[c].stage /\ net'[c].ends = net[c].ends /\ net'[c].wire = w
      /\ net'[c].client = net[c].client /\ net'[c].server = net[c].server
      /\ net'[c].sent = net[c].sent /\ net'[c].got = net[c].got
      /\ \A d \in Conns \ {c} : net'[d] = net[d]
  BY <1>2, <1>7 DEF NetRecs
<1>10. \A x : Other(c, x)' = Other(c, x)
  BY <1>9 DEF Other
<1>11. Had(c, p)' = Had(c, p) /\ Had(c, q)' = Had(c, q)
  BY <1>1, <1>6 DEF Had, Others
<1>12. Flow(c, p)'
  <2>1. Still(c, q)
    BY <1>1, <1>6 DEF Still, Others
  <2>. QED
    BY <1>1, <1>8, <1>9, <1>10, <1>11, <2>1, FlowStays
<1>13. ASSUME q \in net[c].ends PROVE Flow(c, q)'
  <2>1. PICK m \in Nat : m = Received(c, q)
    BY <1>1, Counts
  <2>2. PICK n \in Nat : n = Sent(c, q)
    BY <1>1, Counts
  <2>3. /\ Runs(Had(c, q), c, net[c].got[q]) /\ Runs(net[c].wire[p], c, m)
        /\ Follows(c, p, n) /\ n = m + Len(net[c].wire[p])
    BY <1>1, <1>13, <2>1, <2>2 DEF Flow, Sent
  <2>4. PICK e \in Nat :
          /\ e = n + Len(link[p].tx) /\ Runs(link[p].tx, c, n) /\ n <= e /\ e <= net[c].sent[p]
          /\ app[p].last = 2 => Runs(app[p].ir, c, e) /\ e + Len(app[p].ir) = net[c].sent[p]
          /\ app[p].last # 2 => e = net[c].sent[p]
    <3>1. link[p].peer = c /\ link[p].state = 2 /\ Follows(c, p, n)
      BY <1>1, <1>2, <2>3
    <3>. QED
      BY <3>1, Leaving
  <2>5. /\ Runs(s, c, n) /\ Len(s) = k /\ Runs(rest, c, n + k) /\ Len(rest) = Len(link[p].tx) - k
    <3>1. s = SubSeq(link[p].tx, 1, k) /\ rest = SubSeq(link[p].tx, k + 1, Len(link[p].tx))
      BY <1>3, <1>4
    <3>2. link[p].tx \in Seq(Bytes) /\ Runs(link[p].tx, c, n)
      BY <1>2, <2>4
    <3>. QED
      BY <3>1, <3>2, RunsSplit
  <2>6. s \in Seq(Bytes)
    BY <1>2, <1>4
  <2>7. Runs(net[c].wire[p] \o s, c, m) /\ Len(net[c].wire[p] \o s) = Len(net[c].wire[p]) + Len(s)
    BY <1>2, <2>1, <2>3, <2>5, <2>6, RunsJoin
  <2>8. PICK i \in Nat : i = n + k
    BY <1>4, <2>2
  <2>9. i = m + Len(w[p]) /\ e = i + Len(rest) /\ i <= e
    <3>1. PICK u \in Nat, v \in Nat : u = Len(net[c].wire[p]) /\ v = Len(link[p].tx)
      <4>1. Len(net[c].wire[p]) \in Nat /\ Len(link[p].tx) \in Nat
        BY <1>2
      <4>. QED
        BY <4>1
    <3>2. Len(w[p]) = u + k
      <4>1. w[p] = net[c].wire[p] \o s
        BY <1>8, <1>13
      <4>2. Len(net[c].wire[p] \o s) = u + k
        BY <2>5, <2>7, <3>1
      <4>. QED
        BY <4>1, <4>2
    <3>3. n = m + u /\ e = n + v /\ Len(rest) = v - k /\ k \in 0 .. v
      BY <2>3, <2>4, <2>5, <3>1
    <3>. QED
      BY <2>8, <3>2, <3>3
  <2>10. Follows(c, p, i)'
    <3>1. /\ link'[p].peer = c /\ link'[p].state = 2 /\ link'[p].tx = rest
          /\ app'[p].last = app[p].last /\ app'[p].ir = app[p].ir
          /\ net'[c].sent = net[c].sent
      BY <1>6, <1>9
    <3>2. Runs(rest, c, i) /\ e = i + Len(rest)
      BY <2>5, <2>8, <2>9
    <3>3. /\ app[p].last = 2 => Runs(app[p].ir, c, e) /\ e + Len(app[p].ir) = net[c].sent[p]
          /\ app[p].last # 2 => e = net[c].sent[p]
      BY <2>4
    <3>. QED
      BY <3>1, <3>2, <3>3, Leaves
  <2>11. i <= net'[c].sent[p]
    BY <1>1, <1>9, <2>4, <2>9, Typed
  <2>12. Runs(net'[c].wire[p], c, m) /\ i = m + Len(net'[c].wire[p])
    BY <1>8, <1>9, <1>13, <2>7, <2>9
  <2>13. /\ p = Other(c, q) /\ Other(c, q)' = p /\ Had(c, q)' = Had(c, q)
         /\ net'[c].got[q] = net[c].got[q]
    BY <1>1, <1>9, <1>10, <1>11
  <2>. QED
    BY <2>1, <2>3, <2>10, <2>11, <2>12, <2>13, FlowFrom
<1>14. Counted(c)' /\ Buffered(p)'
  <2>1. Len(rest) \in Nat /\ Len(rest) <= TxLimit
    <3>1. rest = SubSeq(link[p].tx, k + 1, Len(link[p].tx)) /\ Len(link[p].tx) \in Nat
      BY <1>2, <1>3, <1>4
    <3>2. Len(rest) = Len(link[p].tx) - k
      BY <1>2, <3>1
    <3>. QED
      BY <1>2, <3>1, <3>2, IrLinkAssumption DEF Buffered
  <2>. QED
    BY <1>1, <1>2, <1>6, <1>9, <2>1 DEF Counted, Buffered
<1>. QED
  BY <1>1, <1>2, <1>6, <1>9, <1>12, <1>13, <1>14, MoveOrders

\* The receive loop.
LEMMA ReceiveOrders ==
  ASSUME LinkInv, OrderInv, NEW p \in Peers, NEW k \in 0 .. WireLimit, Receive(p, k)
  PROVE  OrderInv'
<1>0. link[p].state = 2
  BY OfPeer DEF Receive, Step, Tied
<1>1. PICK c \in Conns, q \in Peers :
        /\ c = link[p].peer /\ q = Other(c, p) /\ q # p /\ Other(c, q) = p
        /\ net[c].stage \in UpStages /\ p \in net[c].ends /\ net[c].ends \subseteq {p, q}
        /\ Ordered(c) /\ Counted(c) /\ Flow(c, p) /\ (q \in net[c].ends => Flow(c, q))
  BY <1>0, Joined
<1>2. /\ link[p] \in Links /\ app[p] \in Apps /\ net \in [Conns -> NetRecs] /\ net[c] \in NetRecs
      /\ link[p].rx \in Seq(Bytes) /\ net[c].wire[q] \in Seq(Bytes)
      /\ net[c].wire \in [Peers -> Seq(Bytes)] /\ Buffered(p)
  BY OfPeer, OfConn, OfOrder, Typed DEF LinkInv, NetRecs
<1>3. PICK old, s, rest :
        /\ old = net[c].wire[q] /\ s = SubSeq(old, 1, k) /\ rest = SubSeq(old, k + 1, Len(old))
  OBVIOUS
<1>4. /\ link' = [link EXCEPT ![p].rx = @ \o s]
      /\ net' = [net EXCEPT ![c].wire[q] = rest]
      /\ app' = [app EXCEPT ![p].at = "exchange"]
      /\ k <= Len(old) /\ Len(link[p].rx) + k <= RxLimit
  BY <1>1, <1>3 DEF Receive, Goto, Arrives
<1>5. /\ link'[p].peer = c /\ link'[p].state = 2 /\ link'[p].server = link[p].server
      /\ link'[p].tx = link[p].tx /\ link'[p].rx = link[p].rx \o s
      /\ app'[p].last = app[p].last /\ app'[p].ir = app[p].ir /\ app'[p].in = app[p].in
      /\ Others(p)
  BY <1>0, <1>1, <1>2, <1>4 DEF LinkInv, Links, Apps, Others
<1>. DEFINE w == [net[c].wire EXCEPT ![q] = rest]
<1>6. net' = [net EXCEPT ![c] = [net[c] EXCEPT !.wire = w]]
  BY <1>2, <1>4 DEF NetRecs
<1>7. w[q] = rest /\ w[p] = net[c].wire[p]
  BY <1>1, <1>2
<1>. HIDE DEF w
<1>8. /\ net'[c].stage = net[c].stage /\ net'[c].ends = net[c].ends /\ net'[c].wire = w
      /\ net'[c].client = net[c].client /\ net'[c].server = net[c].server
      /\ net'[c].sent = net[c].sent /\ net'[c].got = net[c].got
      /\ \A d \in Conns \ {c} : net'[d] = net[d]
  BY <1>2, <1>6 DEF NetRecs
<1>9. \A x : Other(c, x)' = Other(c, x)
  BY <1>8 DEF Other
<1>10. /\ Had(c, p) = link[p].rx /\ Had(c, p)' = link[p].rx \o s
       /\ Had(c, q)' = Had(c, q)
  BY <1>1, <1>5 DEF Had, Others
<1>11. old \in Seq(Bytes) /\ k \in 0 .. Len(old)
  <2>1. old \in Seq(Bytes) /\ Len(old) \in Nat
    BY <1>2, <1>3
  <2>. QED
    BY <1>4, <2>1, IrLinkAssumption
<1>12. Flow(c, p)'
  <2>1. PICK g \in Nat : g = net[c].got[p]
    BY Typed
  <2>2. PICK m \in Nat, n \in Nat : m = Received(c, p) /\ n = Sent(c, p)
    BY <1>1, Counts
  <2>3. /\ Runs(link[p].rx, c, g) /\ Runs(old, c, m) /\ n <= net[c].sent[q]
        /\ m = g + Len(link[p].rx) /\ n = m + Len(old)
        /\ q \in net[c].ends => Follows(c, q, n)
    BY <1>1, <1>3, <1>10, <2>1, <2>2 DEF Flow, Sent, Received
  <2>4. /\ Runs(s, c, m) /\ Len(s) = k /\ Runs(rest, c, m + k) /\ Len(rest) = Len(old) - k
    BY <1>3, <1>11, <2>3, RunsSplit
  <2>5. s \in Seq(Bytes)
    BY <1>3, <1>11
  <2>6. Runs(link[p].rx \o s, c, g) /\ Len(link[p].rx \o s) = Len(link[p].rx) + Len(s)
    BY <1>2, <2>3, <2>4, <2>5, RunsJoin
  <2>7. PICK i \in Nat : i = m + k
    BY <1>11
  <2>8. i = g + Len(link[p].rx \o s) /\ n = i + Len(rest)
    <3>1. Len(link[p].rx) \in Nat /\ Len(old) \in Nat
      BY <1>2, <1>11
    <3>2. PICK u \in Nat, v \in Nat : u = Len(link[p].rx) /\ v = Len(old)
      BY <3>1
    <3>3. Len(link[p].rx \o s) = u + k /\ Len(rest) = v - k /\ m = g + u /\ n = m + v /\ k \in 0 .. v
      BY <1>11, <2>3, <2>4, <2>6, <3>2
    <3>. QED
      BY <2>7, <3>3
  <2>9. Received(c, p)' = i
    BY <1>8, <1>10, <2>1, <2>8 DEF Received
  <2>10. Sent(c, p)' = n
    BY <1>1, <1>7, <1>8, <1>9, <2>8, <2>9 DEF Sent
  <2>11. q \in net'[c].ends => Follows(c, q, n)'
    <3>1. link'[q] = link[q] /\ app'[q] = app[q] /\ net'[c].sent[q] = net[c].sent[q]
      BY <1>1, <1>5, <1>8 DEF Others
    <3>2. q \in net'[c].ends => Follows(c, q, n)
      BY <1>8, <2>3
    <3>. QED
      BY <3>1, <3>2 DEF Follows, Runs
  <2>12. Runs(Had(c, p), c, net[c].got[p])' /\ Runs(net'[c].wire[q], c, i)
    BY <1>7, <1>8, <1>10, <2>1, <2>4, <2>6, <2>7 DEF Runs
  <2>13. n <= net'[c].sent[q] /\ Other(c, p)' = q
    BY <1>1, <1>8, <1>9, <2>3
  <2>. QED
    BY <2>9, <2>10, <2>11, <2>12, <2>13 DEF Flow, Runs
<1>13. ASSUME q \in net[c].ends PROVE Flow(c, q)'
  <2>1. PICK m \in Nat, n \in Nat : m = Received(c, q) /\ n = Sent(c, q)
    BY <1>1, Counts
  <2>2. /\ Runs(Had(c, q), c, net[c].got[q]) /\ Runs(net[c].wire[p], c, m)
        /\ Follows(c, p, n) /\ n = m + Len(net[c].wire[p]) /\ n <= net[c].sent[p]
    BY <1>1, <1>13, <2>1 DEF Flow, Sent
  <2>3. Follows(c, p, n)'
    <3>1. /\ link'[p].peer = link[p].peer /\ link'[p].state = link[p].state
          /\ link'[p].tx = link[p].tx /\ app'[p].last = app[p].last /\ app'[p].ir = app[p].ir
          /\ net'[c].sent[p] = net[c].sent[p]
      BY <1>0, <1>1, <1>5, <1>8
    <3>. QED
      BY <2>2, <3>1 DEF Follows, Runs
  <2>4. /\ net'[c].wire[p] = net[c].wire[p] /\ net'[c].sent[p] = net[c].sent[p]
        /\ net'[c].got[q] = net[c].got[q] /\ Other(c, q)' = p /\ Had(c, q)' = Had(c, q)
    BY <1>1, <1>7, <1>8, <1>9, <1>10
  <2>. QED
    BY <1>1, <2>1, <2>2, <2>3, <2>4, FlowFrom
<1>14. Counted(c)' /\ Buffered(p)'
  <2>1. Len(link[p].rx \o s) = Len(link[p].rx) + k
    <3>1. s \in Seq(Bytes) /\ Len(s) = k
      BY <1>3, <1>11
    <3>2. Len(link[p].rx \o s) = Len(link[p].rx) + Len(s)
      BY <1>2, <3>1, JoinedLen
    <3>. QED
      BY <3>1, <3>2
  <2>. QED
    BY <1>1, <1>2, <1>4, <1>5, <1>8, <2>1 DEF Counted, Buffered
<1>. QED
  BY <1>0, <1>1, <1>2, <1>5, <1>8, <1>12, <1>13, <1>14, MoveOrders

-----------------------------------------------------------------------------
\* The exchange with the emulator.
LEMMA HandedIs ==
  ASSUME LinkInv, NEW p \in Peers, NEW rx \in Seq(Bytes)
  PROVE  /\ Handed(p, rx).last = link[p].state
         /\ Handed(p, rx).ir = IF app[p].quiet THEN <<>> ELSE Noticed(p).ir
         /\ Len(Handed(p, rx).in) <= QueueLimit
<1>. DEFINE m == Noticed(p)
            all == IF app[p].ire THEN m.in \o rx ELSE m.in
            in == First(all, QueueLimit)
            ir == IF app[p].quiet THEN <<>> ELSE m.ir
            e == m.error \/ Len(all) > QueueLimit
<1>1. m \in Apps /\ m.in \in Seq(Bytes)
  BY NoticedKeeps DEF Apps
<1>2. Handed(p, rx) = [m EXCEPT !.at = "run", !.last = link[p].state, !.ir = ir, !.in = in, !.error = e]
  BY <1>1 DEF Handed, Apps
<1>3. all \in Seq(Bytes)
  BY <1>1
<1>. HIDE DEF m, all, ir, e
<1>4. Len(in) <= QueueLimit
  BY <1>3, FirstPart, IrLinkAssumption
<1>. HIDE DEF in
<1>5. Handed(p, rx).last = link[p].state /\ Handed(p, rx).ir = ir /\ Handed(p, rx).in = in
  BY <1>1, <1>2 DEF Apps
<1>. QED
  BY <1>4, <1>5 DEF ir, m

\* What a slice gives to the link and what the emulator keeps, in order.
LEMMA BurstIs ==
  ASSUME LinkInv, NEW p \in Peers, link[p].state = 2
  PROVE  /\ app[p].last = 2 => \/ Sendable(p) = app[p].ir /\ Handed(p, link[p].rx).ir = <<>>
                               \/ Sendable(p) = <<>> /\ Handed(p, link[p].rx).ir = app[p].ir
         /\ app[p].last # 2 => Sendable(p) = <<>> /\ Handed(p, link[p].rx).ir = <<>>
         /\ Handed(p, link[p].rx).last = 2
         /\ Len(Handed(p, link[p].rx).in) <= QueueLimit
<1>1. app[p] \in Apps /\ link[p].rx \in Seq(Bytes)
  BY OfPeer, Typed
<1>2. /\ Handed(p, link[p].rx).last = link[p].state
      /\ Handed(p, link[p].rx).ir = IF app[p].quiet THEN <<>> ELSE Noticed(p).ir
      /\ Len(Handed(p, link[p].rx).in) <= QueueLimit
  BY <1>1, HandedIs
<1>3. Sendable(p) = IF app[p].quiet THEN Noticed(p).ir ELSE <<>>
  BY DEF Sendable, Burst
<1>4. app[p].last # 2 => Noticed(p).ir = <<>>
  BY <1>1 DEF Noticed, Cleared, Apps
<1>5. app[p].last = 2 => Noticed(p).ir = app[p].ir
  BY DEF Noticed
<1>. QED
  BY <1>2, <1>3, <1>4, <1>5

\* An exchange of a link that is not connected moves nothing.
LEMMA IdleExchangeOrders ==
  ASSUME LinkInv, OrderInv, NEW p \in Peers, Exchange(p), link[p].state # 2
  PROVE  OrderInv'
<1>1. /\ link[p] \in Links /\ Tied(p, link[p], app[p], net) /\ Buffered(p)
      /\ link \in [Peers -> Links]
  BY OfPeer, OfOrder DEF LinkInv
<1>2. link[p].rx = <<>> /\ link[p].tx = <<>> /\ Sendable(p) = <<>>
  BY <1>1 DEF Tied, Sendable
<1>3. net' = net /\ app' = [app EXCEPT ![p] = Handed(p, <<>>)]
  BY <1>2 DEF Exchange
<1>4. link' = link
  <2>1. link' = [link EXCEPT ![p].tx = <<>> \o <<>>, ![p].rx = <<>>]
    BY <1>1, <1>2 DEF Exchange, Links
  <2>2. <<>> \o <<>> = <<>>
    OBVIOUS
  <2>3. link' = [link EXCEPT ![p] = [link[p] EXCEPT !.tx = <<>>, !.rx = <<>>]]
    BY <1>1, <2>1, <2>2 DEF Links
  <2>4. [link[p] EXCEPT !.tx = <<>>, !.rx = <<>>] = link[p]
    BY <1>1, <1>2 DEF Links
  <2>. QED
    BY <1>1, <2>3, <2>4
<1>5. Others(p) /\ app'[p] = Handed(p, <<>>)
  BY <1>3, <1>4 DEF Others, LinkInv
<1>6. Len(Handed(p, <<>>).in) <= QueueLimit
  BY EmptyOwn, HandedIs
<1>7. Buffered(p)'
  BY <1>1, <1>4, <1>5, <1>6 DEF Buffered
<1>. QED
  BY <1>3, <1>4, <1>5, <1>7, CalmOrders

LEMMA ExchangeOrders ==
  ASSUME LinkInv, OrderInv, NEW p \in Peers, Exchange(p), link[p].state = 2
  PROVE  OrderInv'
<1>1. PICK c \in Conns, q \in Peers :
        /\ c = link[p].peer /\ q = Other(c, p) /\ q # p /\ Other(c, q) = p
        /\ net[c].stage \in UpStages /\ p \in net[c].ends /\ net[c].ends \subseteq {p, q}
        /\ Ordered(c) /\ Counted(c) /\ Flow(c, p) /\ (q \in net[c].ends => Flow(c, q))
  BY Joined
<1>2. /\ link[p] \in Links /\ app[p] \in Apps /\ net \in [Conns -> NetRecs] /\ net[c] \in NetRecs
      /\ link[p].rx \in Seq(Bytes) /\ link[p].tx \in Seq(Bytes) /\ app[p].ir \in Seq(Bytes)
      /\ net[c].got \in [Peers -> Nat] /\ Buffered(p)
  BY OfPeer, OfConn, OfOrder, Typed DEF LinkInv, NetRecs
<1>3. PICK rx, out, a, z :
        /\ rx = link[p].rx /\ out = Sendable(p) /\ a = Handed(p, link[p].rx) /\ z = Len(rx)
  OBVIOUS
<1>4. out \in Seq(Bytes) /\ z \in Nat
  BY <1>2, <1>3, SendableKeeps
<1>5. /\ link' = [link EXCEPT ![p].tx = @ \o out, ![p].rx = <<>>]
      /\ app' = [app EXCEPT ![p] = a]
      /\ net' = IF rx = <<>> THEN net ELSE [net EXCEPT ![c].got[p] = @ + z]
      /\ ~(Len(out) > TxLimit - Len(link[p].tx))
  BY <1>1, <1>3 DEF Exchange, TxFull
<1>6. /\ link'[p].peer = c /\ link'[p].state = 2 /\ link'[p].server = link[p].server
      /\ link'[p].tx = link[p].tx \o out /\ link'[p].rx = <<>>
      /\ app'[p] = a /\ Others(p)
  BY <1>1, <1>2, <1>5 DEF LinkInv, Links, Others
<1>7. /\ net'[c].stage = net[c].stage /\ net'[c].ends = net[c].ends /\ net'[c].wire = net[c].wire
      /\ net'[c].client = net[c].client /\ net'[c].server = net[c].server
      /\ net'[c].sent = net[c].sent /\ net'[c].got[q] = net[c].got[q]
      /\ net'[c].got[p] = net[c].got[p] + z
      /\ \A r \in Peers \ {p} : net'[c].got[r] = net[c].got[r]
      /\ \A d \in Conns \ {c} : net'[d] = net[d]
  <2>1. CASE rx = <<>>
    <3>1. z = 0
      BY <1>3, <2>1
    <3>. QED
      BY <1>2, <1>5, <2>1, <3>1
  <2>2. CASE rx # <<>>
    <3>. DEFINE got == [net[c].got EXCEPT ![p] = @ + z]
    <3>1. net' = [net EXCEPT ![c] = [net[c] EXCEPT !.got = got]]
      BY <1>2, <1>5, <2>2 DEF NetRecs
    <3>2. /\ got[p] = net[c].got[p] + z
          /\ \A r \in Peers \ {p} : got[r] = net[c].got[r]
      BY <1>2
    <3>. HIDE DEF got
    <3>3. /\ net'[c].stage = net[c].stage /\ net'[c].ends = net[c].ends
          /\ net'[c].wire = net[c].wire
          /\ net'[c].client = net[c].client /\ net'[c].server = net[c].server
          /\ net'[c].sent = net[c].sent /\ net'[c].got = got
          /\ \A d \in Conns \ {c} : net'[d] = net[d]
      BY <1>2, <3>1 DEF NetRecs
    <3>. QED
      BY <1>1, <3>2, <3>3
  <2>. QED
    BY <2>1, <2>2
<1>8. Other(c, p)' = q /\ Other(c, q)' = p
  BY <1>1, <1>7 DEF Other
<1>9. Had(c, p) = rx /\ Had(c, p)' = <<>> /\ Had(c, q)' = Had(c, q)
  BY <1>1, <1>3, <1>6 DEF Had, Others
<1>10. PICK g \in Nat, m \in Nat, n \in Nat :
         g = net[c].got[p] /\ m = Received(c, p) /\ n = Sent(c, p)
  <2>1. net[c].got[p] \in Nat /\ Received(c, p) \in Nat /\ Sent(c, p) \in Nat
    BY <1>1, Counts
  <2>. QED
    BY <2>1
<1>11. /\ m = g + z /\ m <= n /\ n <= net[c].sent[q] /\ Runs(net[c].wire[q], c, m)
       /\ n = m + Len(net[c].wire[q]) /\ (q \in net[c].ends => Follows(c, q, n))
  <2>1. m <= n
    BY <1>1, <1>10, Counts
  <2>. QED
    BY <2>1, <1>1, <1>3, <1>9, <1>10 DEF Flow, Sent, Received
<1>12. Flow(c, p)'
  <2>1. net'[c].got[p] = m /\ Len(<<>>) = 0 /\ m + 0 = m
    BY <1>7, <1>10, <1>11
  <2>2. Received(c, p)' = m
    BY <1>9, <2>1 DEF Received
  <2>3. Sent(c, p)' = n
    BY <1>7, <1>8, <1>11, <2>2 DEF Sent
  <2>4. q \in net'[c].ends => Follows(c, q, n)'
    <3>1. link'[q] = link[q] /\ app'[q] = app[q] /\ net'[c].sent[q] = net[c].sent[q]
      BY <1>1, <1>6, <1>7 DEF Others
    <3>2. q \in net'[c].ends => Follows(c, q, n)
      BY <1>7, <1>11
    <3>. QED
      BY <3>1, <3>2 DEF Follows, Runs
  <2>5. Runs(Had(c, p), c, net[c].got[p])' /\ Runs(net'[c].wire[q], c, m) /\ n <= net'[c].sent[q]
    BY <1>7, <1>9, <1>11, RunsEmpty DEF Runs
  <2>. QED
    BY <1>8, <2>2, <2>3, <2>4, <2>5 DEF Flow, Runs
<1>13. ASSUME q \in net[c].ends PROVE Flow(c, q)'
  <2>1. PICK j \in Nat, i \in Nat : j = Received(c, q) /\ i = Sent(c, q)
    BY <1>1, Counts
  <2>2. /\ Runs(Had(c, q), c, net[c].got[q]) /\ Runs(net[c].wire[p], c, j)
        /\ Follows(c, p, i) /\ i = j + Len(net[c].wire[p]) /\ i <= net[c].sent[p]
    BY <1>1, <1>13, <2>1 DEF Flow, Sent
  <2>3. PICK e \in Nat :
          /\ e = i + Len(link[p].tx) /\ Runs(link[p].tx, c, i) /\ i <= e /\ e <= net[c].sent[p]
          /\ app[p].last = 2 => Runs(app[p].ir, c, e) /\ e + Len(app[p].ir) = net[c].sent[p]
          /\ app[p].last # 2 => e = net[c].sent[p]
    <3>1. link[p].peer = c /\ link[p].state = 2 /\ Follows(c, p, i)
      BY <1>1, <2>2
    <3>. QED
      BY <3>1, Leaving
  <2>4. PICK u \in Nat : u = e + Len(out)
    BY <1>4
  <2>5. /\ Runs(link[p].tx \o out, c, i) /\ u = i + Len(link[p].tx \o out)
        /\ Runs(a.ir, c, u) /\ u + Len(a.ir) = net[c].sent[p]
    <3>1. Len(<<>>) = 0
      OBVIOUS
    <3>2. CASE app[p].last = 2 /\ out = app[p].ir /\ a.ir = <<>>
      <4>1. Runs(out, c, e) /\ e + Len(out) = net[c].sent[p]
        BY <2>3, <3>2
      <4>2. u + 0 = u
        OBVIOUS
      <4>3. /\ Runs(link[p].tx \o out, c, i)
            /\ Len(link[p].tx \o out) = Len(link[p].tx) + Len(out)
        BY <1>2, <1>4, <2>3, <4>1, RunsJoin
      <4>4. u = i + Len(link[p].tx \o out)
        <5>1. PICK x \in Nat, y \in Nat : x = Len(link[p].tx) /\ y = Len(out)
          <6>1. Len(link[p].tx) \in Nat /\ Len(out) \in Nat
            BY <1>2, <1>4
          <6>. QED
            BY <6>1
        <5>2. Len(link[p].tx \o out) = x + y /\ e = i + x /\ u = e + y
          BY <2>3, <2>4, <4>3, <5>1
        <5>. QED
          BY <5>2
      <4>. QED
        BY <2>4, <3>1, <3>2, <4>1, <4>2, <4>3, <4>4, RunsEmpty
    <3>3. CASE out = <<>> /\ a.ir = app[p].ir /\ app[p].last = 2
      <4>1. link[p].tx \o out = link[p].tx /\ u = e
        BY <1>2, <2>4, <3>1, <3>3
      <4>. QED
        BY <2>3, <3>3, <4>1
    <3>4. CASE out = <<>> /\ a.ir = <<>> /\ app[p].last # 2
      <4>1. link[p].tx \o out = link[p].tx /\ u = e /\ u + 0 = u
        BY <1>2, <2>4, <3>1, <3>4
      <4>. QED
        BY <2>3, <3>1, <3>4, <4>1, RunsEmpty
    <3>. QED
      BY <1>3, <3>2, <3>3, <3>4, BurstIs
  <2>6. a.last = 2
    BY <1>3, BurstIs
  <2>7. Follows(c, p, i)'
    <3>1. /\ link'[p].peer = c /\ link'[p].state = 2
          /\ link'[p].tx = link[p].tx \o out /\ app'[p] = a
      BY <1>6
    <3>2. net'[c].sent[p] = net[c].sent[p]
      BY <1>7
    <3>3. app'[p].last = 2 /\ app'[p].ir = a.ir
      BY <2>6, <3>1
    <3>. QED
      BY <2>5, <3>1, <3>2, <3>3, Leaves
  <2>8. /\ net'[c].wire[p] = net[c].wire[p] /\ net'[c].sent[p] = net[c].sent[p]
        /\ net'[c].got[q] = net[c].got[q] /\ Had(c, q)' = Had(c, q)
    BY <1>1, <1>7, <1>9
  <2>. QED
    BY <1>1, <1>8, <2>1, <2>2, <2>7, <2>8, FlowFrom
<1>14. Counted(c)'
  <2>1. net[c].sent[q] <= MaxBytes /\ net[c].sent[q] \in Nat
    BY <1>1, Typed DEF Counted
  <2>2. net'[c].got[p] <= MaxBytes
    BY <1>7, <1>10, <1>11, <2>1, IrLinkAssumption
  <2>. QED
    BY <1>1, <1>7, <2>2 DEF Counted
<1>15. Buffered(p)'
  <2>1. Len(link[p].tx \o out) = Len(link[p].tx) + Len(out)
    BY <1>2, <1>4, JoinedLen
  <2>2. PICK u \in Nat, v \in Nat : u = Len(link[p].tx) /\ v = Len(out)
    <3>1. Len(link[p].tx) \in Nat /\ Len(out) \in Nat
      BY <1>2, <1>4
    <3>. QED
      BY <3>1
  <2>3. Len(link[p].tx \o out) <= TxLimit
    <3>1. ~(v > TxLimit - u) /\ TxLimit \in Nat
      BY <1>5, <2>2, IrLinkAssumption
    <3>2. Len(link[p].tx \o out) = u + v
      BY <2>1, <2>2
    <3>3. u + v <= TxLimit
      BY <3>1
    <3>. QED
      BY <3>2, <3>3
  <2>4. Len(a.in) <= QueueLimit /\ Len(<<>>) <= RxLimit
    BY <1>3, BurstIs, IrLinkAssumption
  <2>. QED
    BY <1>6, <2>3, <2>4 DEF Buffered
<1>. QED
  BY <1>1, <1>2, <1>6, <1>7, <1>12, <1>13, <1>14, <1>15, MoveOrders

-----------------------------------------------------------------------------
\* The guest.
LEMMA ReadLen ==
  ASSUME LinkInv, NEW p \in Peers, Buffered(p), NEW k \in 0 .. Len(app[p].in), NEW ire
  PROVE  Len(Read(p, k, ire)) <= QueueLimit
<1>. DEFINE s == app[p].in
<1>1. s \in Seq(Bytes) /\ Len(s) <= QueueLimit
  BY Typed DEF Buffered
<1>. HIDE DEF s
<1>2. Len(SubSeq(s, k + 1, Len(s))) <= QueueLimit
  <2>1. Len(s) \in Nat /\ k \in 0 .. Len(s)
    BY <1>1 DEF s
  <2>2. Len(SubSeq(s, k + 1, Len(s))) = Len(s) - k
    BY <1>1, <2>1
  <2>. QED
    BY <1>1, <2>1, <2>2, IrLinkAssumption
<1>3. Len(<<>>) <= QueueLimit
  BY IrLinkAssumption
<1>. QED
  BY <1>2, <1>3 DEF Read, s

\* The guest emits: one more byte of the session, after those it emitted.
LEMMA EmitOrders ==
  ASSUME LinkInv, OrderInv, NEW p \in Peers, RunEmits(p)
  PROVE  OrderInv'
<1>1. PICK k \in 0 .. Len(app[p].in), quiet \in BOOLEAN :
        app' = [app EXCEPT ![p] = [@ EXCEPT !.at = "poll", !.in = Read(p, k, TRUE), !.quiet = quiet,
                             !.ir = Append(app[p].ir, [conn |-> Session(p), n |-> Serial(p)])]]
  BY DEF RunEmits
<1>2. /\ link[p] \in Links /\ app[p] \in Apps /\ net \in [Conns -> NetRecs]
      /\ app[p].ir \in Seq(Bytes) /\ Queued(link[p], app[p]) /\ Buffered(p)
      /\ link' = link /\ app[p].at = "run"
  BY OfPeer, OfOrder, Typed DEF LinkInv, RunEmits, Step
<1>3. PICK b : b = [conn |-> Session(p), n |-> Serial(p)]
  OBVIOUS
<1>4. /\ app'[p].ir = Append(app[p].ir, b) /\ app'[p].in = Read(p, k, TRUE)
      /\ app'[p].last = app[p].last /\ Others(p)
  BY <1>1, <1>2, <1>3 DEF LinkInv, Apps, Others
<1>5. Buffered(p)'
  BY <1>2, <1>4, ReadLen DEF Buffered
<1>6. CASE link[p].state # 2
  <2>1. net' = net
    BY <1>6 DEF RunEmits, Session
  <2>. QED
    BY <1>2, <1>4, <1>5, <1>6, <2>1, CalmOrders
<1>7. CASE link[p].state = 2
  <2>1. PICK c \in Conns, q \in Peers :
          /\ c = link[p].peer /\ q = Other(c, p) /\ q # p /\ Other(c, q) = p
          /\ net[c].stage \in UpStages /\ p \in net[c].ends /\ net[c].ends \subseteq {p, q}
          /\ Ordered(c) /\ Counted(c) /\ Flow(c, p) /\ (q \in net[c].ends => Flow(c, q))
    BY <1>7, Joined
  <2>2. Session(p) = c /\ c # None
    BY <1>7, <2>1 DEF Session, Conns, None
  <2>3. Serial(p) = net[c].sent[p] + 1 /\ Serial(p) <= MaxBytes
    BY <2>2 DEF Serial, RunEmits
  <2>4. /\ net[c] \in NetRecs /\ net[c].sent \in [Peers -> Nat] /\ net[c].sent[p] \in Nat
        /\ net' = [net EXCEPT ![c].sent[p] = @ + 1]
    BY <2>2, OfConn, Typed DEF NetRecs, RunEmits
  <2>. DEFINE sent == [net[c].sent EXCEPT ![p] = @ + 1]
  <2>5. net' = [net EXCEPT ![c] = [net[c] EXCEPT !.sent = sent]]
    BY <1>2, <2>4 DEF NetRecs
  <2>6. sent[p] = net[c].sent[p] + 1 /\ \A r \in Peers \ {p} : sent[r] = net[c].sent[r]
    BY <2>4
  <2>. HIDE DEF sent
  <2>7. /\ net'[c].stage = net[c].stage /\ net'[c].ends = net[c].ends
        /\ net'[c].wire = net[c].wire
        /\ net'[c].client = net[c].client /\ net'[c].server = net[c].server
        /\ net'[c].sent = sent /\ net'[c].got = net[c].got
        /\ \A d \in Conns \ {c} : net'[d] = net[d]
    BY <1>2, <2>4, <2>5 DEF NetRecs
  <2>8. Other(c, p)' = q /\ Other(c, q)' = p /\ Had(c, p)' = Had(c, p) /\ Had(c, q)' = Had(c, q)
    BY <1>2, <2>1, <2>7 DEF Other, Had
  <2>9. Flow(c, p)'
    <3>1. Still(c, q)
      BY <1>2, <1>4, <2>1 DEF Still, Others
    <3>2. net'[c].sent[q] = net[c].sent[q]
      BY <2>1, <2>6, <2>7
    <3>. QED
      BY <2>1, <2>7, <2>8, <3>1, <3>2, FlowStays
  <2>10. ASSUME q \in net[c].ends PROVE Flow(c, q)'
    <3>1. PICK j \in Nat, i \in Nat : j = Received(c, q) /\ i = Sent(c, q)
      BY <2>1, Counts
    <3>2. /\ Runs(Had(c, q), c, net[c].got[q]) /\ Runs(net[c].wire[p], c, j)
          /\ Follows(c, p, i) /\ i = j + Len(net[c].wire[p]) /\ i <= net[c].sent[p]
      BY <2>1, <2>10, <3>1 DEF Flow, Sent
    <3>3. PICK e \in Nat :
            /\ e = i + Len(link[p].tx) /\ Runs(link[p].tx, c, i) /\ i <= e /\ e <= net[c].sent[p]
            /\ app[p].last = 2 => Runs(app[p].ir, c, e) /\ e + Len(app[p].ir) = net[c].sent[p]
            /\ app[p].last # 2 => e = net[c].sent[p]
      <4>1. link[p].peer = c /\ link[p].state = 2 /\ Follows(c, p, i)
        BY <1>7, <2>1, <3>2
      <4>. QED
        BY <4>1, Leaving
    <3>4. app[p].last = 2
      BY <1>2, <1>7 DEF Queued
    <3>5. /\ Runs(Append(app[p].ir, b), c, e)
          /\ Len(Append(app[p].ir, b)) = Len(app[p].ir) + 1
      <4>1. PICK n : n = Serial(p) /\ b = [conn |-> c, n |-> n]
        BY <1>3, <2>2
      <4>2. n = e + Len(app[p].ir) + 1
        BY <2>3, <3>3, <3>4, <4>1
      <4>3. app[p].ir \in Seq(Bytes) /\ Runs(app[p].ir, c, e)
        BY <1>2, <3>3, <3>4
      <4>. QED
        BY <4>1, <4>2, <4>3, RunsMore
    <3>6. e + Len(Append(app[p].ir, b)) = sent[p]
      <4>1. PICK x \in Nat : x = Len(app[p].ir)
        <5>1. Len(app[p].ir) \in Nat
          BY <1>2
        <5>. QED
          BY <5>1
      <4>2. Len(Append(app[p].ir, b)) = x + 1 /\ e + x = net[c].sent[p]
        BY <3>3, <3>4, <3>5, <4>1
      <4>. QED
        BY <2>6, <4>2
    <3>7. Follows(c, p, i)'
      <4>1. /\ link'[p].peer = c /\ link'[p].state = 2 /\ link'[p].tx = link[p].tx
            /\ app'[p].last = 2 /\ app'[p].ir = Append(app[p].ir, b)
        BY <1>2, <1>4, <1>7, <2>1, <3>4
      <4>2. net'[c].sent[p] = sent[p]
        BY <2>7
      <4>. QED
        BY <3>3, <3>5, <3>6, <4>1, <4>2, Leaves
    <3>8. /\ net'[c].wire[p] = net[c].wire[p] /\ i <= net'[c].sent[p]
          /\ net'[c].got[q] = net[c].got[q]
      BY <2>4, <2>6, <2>7, <3>2
    <3>. QED
      BY <2>1, <2>8, <3>1, <3>2, <3>7, <3>8, FlowFrom
  <2>11. Counted(c)'
    BY <2>1, <2>3, <2>6, <2>7 DEF Counted
  <2>12. /\ link'[p].peer = c /\ link'[p].state = link[p].state /\ link'[p].server = link[p].server
    BY <1>2, <2>1
  <2>. QED
    BY <1>4, <1>5, <2>1, <2>7, <2>9, <2>10, <2>11, <2>12, MoveOrders
<1>. QED
  BY <1>6, <1>7

\* A step of the application alone that leaves ir and last.
LEMMA QuietOrders ==
  ASSUME LinkInv, OrderInv, NEW p \in Peers, NEW a, app' = [app EXCEPT ![p] = a],
         UNCHANGED <<link, net>>, a.ir = app[p].ir, a.last = app[p].last, Len(a.in) <= QueueLimit
  PROVE  OrderInv'
<1>1. Others(p) /\ app'[p] = a
  BY DEF LinkInv, Others
<1>2. Buffered(p)'
  BY <1>1, OfOrder DEF Buffered
<1>. QED
  BY <1>1, <1>2, CalmOrders

LEMMA RunOrders ==
  ASSUME LinkInv, OrderInv, NEW p \in Peers, Run(p)
  PROVE  OrderInv'
<1>1. app[p] \in Apps /\ Buffered(p)
  BY OfPeer, OfOrder
<1>2. CASE RunSilent(p)
  <2>1. PICK k \in 0 .. Len(app[p].in), ire \in BOOLEAN :
          app' = [app EXCEPT ![p] = [@ EXCEPT !.at = "poll", !.ire = ire, !.in = Read(p, k, ire),
                                              !.quiet = TRUE]]
    BY <1>2 DEF RunSilent
  <2>. DEFINE in == Read(p, k, ire)
              a == [app[p] EXCEPT !.at = "poll", !.ire = ire, !.in = in, !.quiet = TRUE]
  <2>2. app' = [app EXCEPT ![p] = a] /\ UNCHANGED <<link, net>>
    BY <1>2, <2>1 DEF LinkInv, RunSilent
  <2>3. Len(in) <= QueueLimit
    BY <1>1, ReadLen
  <2>. HIDE DEF in
  <2>4. a.ir = app[p].ir /\ a.last = app[p].last /\ a.in = in
    BY <1>1 DEF Apps
  <2>. HIDE DEF a
  <2>. QED
    BY <2>2, <2>3, <2>4, QuietOrders
<1>3. CASE RunEmits(p)
  BY <1>3, EmitOrders
<1>4. CASE RunFails(p)
  <2>. DEFINE a == [app[p] EXCEPT !.mode = "failed", !.at = "poll"]
  <2>1. app' = [app EXCEPT ![p] = a] /\ UNCHANGED <<link, net>>
    BY <1>4 DEF RunFails, LinkInv
  <2>2. a.ir = app[p].ir /\ a.last = app[p].last /\ a.in = app[p].in
    BY <1>1 DEF Apps
  <2>. HIDE DEF a
  <2>. QED
    BY <1>1, <2>1, <2>2, QuietOrders DEF Buffered
<1>. QED
  BY <1>2, <1>3, <1>4 DEF Run

-----------------------------------------------------------------------------
\* The menu.
LEMMA ConnectOrders ==
  ASSUME LinkInv, LinkInv', OrderInv, NEW p \in Peers, Connect(p)
  PROVE  OrderInv'
<1>1. PICK c \in Free, q \in DialTo(p) :
        /\ net' = [Hangup(p) EXCEPT ![c] = Dialled(p, c, q)]
        /\ link' = [link EXCEPT ![p] = [NoLink EXCEPT !.state = IF p = q THEN 1 ELSE 2, !.peer = c]]
  BY DEF Connect
<1>2. /\ c \in Conns /\ net[c].ends = {} /\ c # None
      /\ q \in Peers /\ app[p] \in Apps
  <2>1. Sound(c, net[c]) /\ net[c].stage = "free"
    BY OfConn DEF Free
  <2>. QED
    BY <2>1, OfPeer DEF Free, DialTo, Listeners, Sound, Conns, None
<1>. DEFINE l == [NoLink EXCEPT !.state = IF p = q THEN 1 ELSE 2, !.peer = c]
            a == Cleared(app[p])
            h == Hangup(p)
            x == Dialled(p, c, q)
<1>3. /\ l.peer = c /\ l.state \in {1, 2} /\ l.tx = <<>> /\ l.rx = <<>> /\ ~l.server
  BY DEF NoLink
<1>4. a.ir = <<>> /\ a.in = <<>>
  BY <1>2, ClearedKeeps
<1>5. /\ x.client = p /\ x.ends = {p, q} /\ x.wire = NoBytes /\ x.sent = Zeros /\ x.got = Zeros
      /\ p = q => x.stage = "syn" /\ x.server = Nobody
      /\ p # q => x.stage = "backlog" /\ x.server = q
  BY DEF Dialled, FreeConn
<1>6. link' = [link EXCEPT ![p] = l] /\ app' = [app EXCEPT ![p] = a] /\ net' = [h EXCEPT ![c] = x]
  BY <1>1 DEF Connect
<1>7. h \in [Conns -> NetRecs]
  BY HangupSpares
<1>. HIDE DEF l, a, h, x
<1>8. Others(p) /\ link'[p] = l /\ app'[p] = a
  BY <1>6, OthersKept
<1>9. net'[c] = x /\ \A d \in Conns \ {c} : net'[d] = h[d]
  BY <1>2, <1>6, <1>7
<1>10. ASSUME NEW r \in Peers PROVE link'[r].peer = c => r = p
  <2>1. link[r].peer # c
    BY <1>2, OfPeer DEF Tied
  <2>. QED
    BY <1>8, <2>1 DEF Others
<1>11. \A r \in Peers : net'[c].sent[r] = 0 /\ net'[c].got[r] = 0 /\ net'[c].wire[r] = <<>>
  BY <1>5, <1>9 DEF Zeros, NoBytes
<1>12. Roles(c)'
  BY <1>3, <1>5, <1>8, <1>9, <1>10, <1>11 DEF Roles, UpStages
<1>13. ASSUME p # q, NEW r \in {p, q} PROVE Flow(c, r)'
  <2>1. PICK o \in {p, q} : o # r
    BY <1>13
  <2>2. Other(c, r)' = o
    BY <1>5, <1>9, <1>13, <2>1 DEF Other
  <2>3. Had(c, r)' = <<>>
    BY <1>2, <1>3, <1>8, <1>10 DEF Had
  <2>4. link'[o].peer = c => link'[o].tx = <<>> /\ app'[o].ir = <<>>
    BY <1>2, <1>3, <1>4, <1>8, <1>10
  <2>. QED
    BY <1>2, <1>11, <2>2, <2>3, <2>4, NothingFlows
<1>14. Ordered(c)'
  BY <1>5, <1>9, <1>12, <1>13 DEF Ordered, UpStages
<1>15. Counted(c)'
  BY <1>11, IrLinkAssumption DEF Counted
<1>16. ASSUME NEW d \in Conns, d # c PROVE Ordered(d)' /\ Counted(d)'
  <2>1. net'[d] = Hangup(p)[d] /\ link'[p].peer # d
    BY <1>3, <1>8, <1>9, <1>16 DEF h
  <2>2. Ordered(d)'
    BY <1>8, <2>1, OfOrder, HangupOrders DEF Others
  <2>. QED
    BY <2>1, <2>2, HangupCounts DEF Counted
<1>17. ASSUME NEW r \in Peers PROVE Buffered(r)'
  <2>1. CASE r = p
    BY <1>3, <1>4, <1>8, <2>1, IrLinkAssumption DEF Buffered
  <2>2. CASE r # p
    BY <1>8, <2>2, OfOrder DEF Buffered, Others
  <2>. QED
    BY <2>1, <2>2
<1>. QED
  BY <1>14, <1>15, <1>16, <1>17 DEF OrderInv

LEMMA UserOrders ==
  ASSUME LinkInv, LinkInv', OrderInv, NEW p \in Peers, User(p)
  PROVE  OrderInv'
<1>1. app[p] \in Apps /\ Buffered(p)
  BY OfPeer, OfOrder
<1>2. Cleared(app[p]).in = <<>> /\ Len(<<>>) <= QueueLimit
  BY <1>1, ClearedKeeps, IrLinkAssumption
<1>3. CASE Listen(p)
  <2>. DEFINE w == [NoLink EXCEPT !.state = 1, !.server = TRUE]
              l == IF Listeners \subseteq {p} THEN w ELSE Failed("os")
              a == Cleared(app[p])
  <2>1. link' = [link EXCEPT ![p] = l] /\ app' = [app EXCEPT ![p] = a] /\ net' = Hangup(p)
    BY <1>3 DEF Listen
  <2>2. l.peer = None /\ l.tx = <<>> /\ l.rx = <<>>
    BY DEF NoLink, Failed
  <2>. HIDE DEF l
  <2>. QED
    BY <1>2, <2>1, <2>2, CloseOrders
<1>4. CASE Connect(p)
  BY <1>4, ConnectOrders
<1>5. CASE ConnectRefused(p)
  BY <1>2, <1>5, FailOrders DEF ConnectRefused
<1>6. CASE Disconnect(p)
  <2>. DEFINE b == Cleared(app[p])
              a == [b EXCEPT !.last = 0]
  <2>1. link' = [link EXCEPT ![p] = NoLink] /\ app' = [app EXCEPT ![p] = a] /\ net' = Hangup(p)
    BY <1>6 DEF Disconnect
  <2>2. b \in Apps /\ b.in = <<>>
    BY <1>1, ClearedKeeps
  <2>. HIDE DEF b
  <2>3. a.in = <<>>
    BY <2>2 DEF Apps
  <2>. HIDE DEF a
  <2>. QED
    BY <1>2, <2>1, <2>3, NoLinkFields, CloseOrders
<1>7. CASE Reload(p)
  <2>1. NewApp.in = <<>>
    BY DEF NewApp
  <2>. QED
    BY <1>2, <1>7, <2>1, NoLinkFields, CloseOrders DEF Reload
<1>8. CASE TogglePause(p)
  <2>. DEFINE mode == IF app[p].mode = "paused" THEN "running" ELSE "paused"
              a == [app[p] EXCEPT !.mode = mode]
  <2>1. app' = [app EXCEPT ![p] = a] /\ UNCHANGED <<link, net>>
    BY <1>8 DEF TogglePause, LinkInv
  <2>. HIDE DEF mode
  <2>2. a.ir = app[p].ir /\ a.last = app[p].last /\ a.in = app[p].in
    BY <1>1 DEF Apps
  <2>. HIDE DEF a
  <2>. QED
    BY <1>1, <2>1, <2>2, QuietOrders DEF Buffered
<1>. QED
  BY <1>3, <1>4, <1>5, <1>6, <1>7, <1>8 DEF User

-----------------------------------------------------------------------------
LEMMA SliceOrders ==
  ASSUME LinkInv, OrderInv, NEW p \in Peers, Slice(p)
  PROVE  OrderInv'
<1>1. CASE Poll(p)
  <2>1. CASE PollOff(p) \/ AcceptNone(p) \/ ConnectPending(p)
    BY <2>1, PollOrders DEF PollOff, AcceptNone, ConnectPending
  <2>2. CASE AcceptFails(p) \/ ConnectFails(p) \/ SendFails(p)
    BY <2>2, PollOrders DEF AcceptFails, ConnectFails, SendFails
  <2>3. CASE Accept(p)
    BY <2>3, AcceptOrders
  <2>4. CASE ConnectDone(p)
    BY <2>4, ConnectedOrders
  <2>5. CASE Send(p)
    BY <2>5, SendOrders
  <2>. QED
    BY <1>1, <2>1, <2>2, <2>3, <2>4, <2>5 DEF Poll
<1>2. CASE Recv(p)
  <2>1. ASSUME NEW k \in 0 .. WireLimit, Receive(p, k) PROVE OrderInv'
    BY <2>1, ReceiveOrders
  <2>2. CASE ReceiveFails(p)
    <3>1. link[p].rx = <<>>
      BY <2>2, OfPeer DEF ReceiveFails, Step, Tied
    <3>2. ASSUME NEW k \in 0 .. WireLimit, Arrives(p, k), Len(link[p].rx) + k > RxLimit PROVE FALSE
      <4>1. k \in Nat /\ k <= RecvMax
        BY <3>2 DEF Arrives
      <4>2. Len(link[p].rx) = 0
        BY <3>1
      <4>. QED
        BY <3>2, <4>1, <4>2, IrLinkAssumption
    <3>3. (Fail(p, "os") \/ Fail(p, "closed")) /\ Goto(p, "exchange")
      BY <2>2, <3>2 DEF ReceiveFails
    <3>. QED
      BY <3>3, PollOrders
  <2>. QED
    BY <1>2, <2>1, <2>2 DEF Recv
<1>3. CASE Pump(p)
  <2>1. CASE Exchange(p)
    BY <2>1, ExchangeOrders, IdleExchangeOrders
  <2>2. CASE ExchangeFails(p)
    <3>1. Len(Handed(p, <<>>).in) <= QueueLimit
      BY EmptyOwn, HandedIs
    <3>. QED
      BY <2>2, <3>1, FailOrders DEF ExchangeFails
  <2>. QED
    BY <1>3, <2>1, <2>2 DEF Pump
<1>4. CASE Run(p)
  BY <1>4, RunOrders
<1>. QED
  BY <1>1, <1>2, <1>3, <1>4 DEF Slice

LEMMA InitOrder == Init => OrderInv
<1>. SUFFICES ASSUME Init PROVE OrderInv
  OBVIOUS
<1>1. ASSUME NEW c \in Conns PROVE Ordered(c) /\ Counted(c)
  <2>1. /\ net[c].stage = "free" /\ net[c].sent = Zeros /\ net[c].got = Zeros
    BY DEF Init, FreeConn
  <2>2. \A p \in Peers : link[p].peer # c
    <3>1. c # None
      BY DEF Conns, None
    <3>2. \A p \in Peers : link[p].peer = None
      BY DEF Init, NoLink
    <3>. QED
      BY <3>1, <3>2
  <2>. QED
    BY <2>1, <2>2, IrLinkAssumption DEF Ordered, Roles, Counted, UpStages, Zeros
<1>2. ASSUME NEW r \in Peers PROVE Buffered(r)
  <2>1. link[r].tx = <<>> /\ link[r].rx = <<>> /\ app[r].in = <<>>
    BY DEF Init, NoLink, NewApp
  <2>. QED
    BY <2>1, IrLinkAssumption DEF Buffered
<1>. QED
  BY <1>1, <1>2 DEF OrderInv

\* OrderInv is kept by every step.
THEOREM OrderInvariant == Spec => []OrderInv
<1>1. ASSUME LinkInv, LinkInv', OrderInv, [Next]_vars PROVE OrderInv'
  <2>1. ASSUME NEW p \in Peers, Slice(p) PROVE OrderInv'
    BY <1>1, <2>1, SliceOrders
  <2>2. ASSUME NEW p \in Peers, User(p) PROVE OrderInv'
    BY <1>1, <2>2, UserOrders
  <2>3. ASSUME NEW c \in Conns, Network(c) PROVE OrderInv'
    BY <1>1, <2>3, NetworkOrders
  <2>4. CASE UNCHANGED vars
    <3>1. UNCHANGED <<link, app, net>>
      BY <2>4 DEF vars
    <3>2. ASSUME NEW c \in Conns PROVE Ordered(c)' /\ Counted(c)'
      <4>1. Same(c) /\ \A x \in Peers : Still(c, x)
        BY <3>1 DEF Same, Still
      <4>. QED
        BY <1>1, <3>1, <4>1, OfOrder, Untouched DEF Counted
    <3>3. ASSUME NEW r \in Peers PROVE Buffered(r)'
      BY <1>1, <3>1, OfOrder DEF Buffered
    <3>. QED
      BY <3>2, <3>3 DEF OrderInv
  <2>. QED
    BY <1>1, <2>1, <2>2, <2>3, <2>4 DEF Next
<1>. QED
  BY <1>1, InitOrder, LinkInvariant, PTL DEF Spec

\* The types of the state, and the bounds of the buffers: pw_link_send and
\* pw_link_poll keep tx and rx within 65536 bytes, pw_ir_receive its queue.
THEOREM TypeCorrect == Spec => []TypeOK
<1>1. ASSUME LinkInv, OrderInv PROVE TypeOK
  <2>1. ASSUME NEW c \in Conns PROVE net[c] \in Connections
    <3>1. net[c] \in NetRecs /\ Counted(c)
      BY <1>1, OfConn, OfOrder
    <3>2. net[c].sent \in [Peers -> Nat] /\ net[c].got \in [Peers -> Nat]
      BY <3>1 DEF NetRecs
    <3>3. net[c].sent \in [Peers -> 0 .. MaxBytes] /\ net[c].got \in [Peers -> 0 .. MaxBytes]
      BY <3>1, <3>2, IrLinkAssumption DEF Counted
    <3>. QED
      BY <3>1, <3>3 DEF NetRecs, Connections
  <2>2. net \in [Conns -> Connections]
    BY <1>1, <2>1 DEF LinkInv
  <2>. QED
    BY <1>1, <2>2, OfOrder DEF LinkInv, TypeOK, Buffered
<1>. QED
  BY <1>1, LinkInvariant, OrderInvariant, PTL

\* What lies between the emulators of two connected instances, in rx, in the
\* sockets, in tx and in the queue of the sender, is what the one has emitted in
\* this session after what the other was handed: no byte is lost, doubled,
\* overtaken or of another session, whatever ended and began in between.
THEOREM BytesAreInOrder == Spec => []InOrder
<1>1. ASSUME LinkInv, OrderInv PROVE InOrder
  <2>1. ASSUME NEW c \in Conns, NEW p \in Peers, link[p].peer = c, link[p].state = 2,
               NEW q \in net[c].ends \ {p}, link[q].peer = c
        PROVE  Pipe(c, q, p) = [i \in 1 .. (net[c].sent[q] - net[c].got[p]) |->
                                  [conn |-> c, n |-> net[c].got[p] + i]]
    <3>1. /\ net[c].stage \in UpStages /\ Ordered(c) /\ p \in net[c].ends /\ q \in Peers /\ c # None
      BY <1>1, <2>1, Connected, OfOrder, Typed DEF Conns, None
    <3>2. q = Other(c, p) /\ Flow(c, p) /\ Other(c, p) \in Peers
      BY <1>1, <2>1, <3>1, Facing DEF Ordered
    <3>3. PICK g \in Nat, m \in Nat, n \in Nat :
            g = net[c].got[p] /\ m = Received(c, p) /\ n = Sent(c, p)
      <4>1. net[c].got[p] \in Nat /\ Received(c, p) \in Nat /\ Sent(c, p) \in Nat
        BY <1>1, <3>2, Counts
      <4>. QED
        BY <4>1
    <3>4. PICK rx \in Seq(Bytes), wire \in Seq(Bytes), tx \in Seq(Bytes), ir \in Seq(Bytes) :
            rx = link[p].rx /\ wire = net[c].wire[q] /\ tx = link[q].tx /\ ir = Emitted(c, q)
      <4>1. link[p].rx \in Seq(Bytes) /\ net[c].wire[q] \in Seq(Bytes) /\ link[q].tx \in Seq(Bytes)
        BY <1>1, <3>1, Typed
      <4>2. Emitted(c, q) \in Seq(Bytes)
        BY <1>1, <3>1, Typed, EmptyOwn DEF Emitted
      <4>. QED
        BY <4>1, <4>2
    <3>5. /\ Runs(rx, c, g) /\ Runs(wire, c, m) /\ m = g + Len(rx) /\ n = m + Len(wire)
          /\ n <= net[c].sent[q] /\ Follows(c, q, n)
      BY <2>1, <3>2, <3>3, <3>4 DEF Flow, Had, Received, Sent
    <3>6. PICK e \in Nat : /\ e = n + Len(tx) /\ Runs(tx, c, n)
                           /\ Runs(ir, c, e) /\ e + Len(ir) = net[c].sent[q]
      <4>1. Tied(q, link[q], app[q], net) /\ Queued(link[q], app[q]) /\ app[q].ir \in Seq(Bytes)
        BY <1>1, <3>1, OfPeer, Typed
      <4>2. Len(<<>>) = 0 /\ \A k \in Nat : k + 0 = k
        OBVIOUS
      <4>3. Own(app[q].ir, None) => Emitted(c, q) = <<>>
        BY <3>1, <4>1 DEF Own, Emitted
      <4>4. CASE link[q].state = 2
        <5>1. PICK e \in Nat :
                /\ e = n + Len(link[q].tx) /\ Runs(link[q].tx, c, n) /\ n <= e /\ e <= net[c].sent[q]
                /\ app[q].last = 2 => Runs(app[q].ir, c, e) /\ e + Len(app[q].ir) = net[c].sent[q]
                /\ app[q].last # 2 => e = net[c].sent[q]
          BY <1>1, <2>1, <3>1, <3>5, <4>4, Leaving
        <5>2. CASE app[q].last = 2
          <6>1. Emitted(c, q) = app[q].ir
            <7>1. CASE app[q].ir = <<>>
              BY <7>1 DEF Emitted
            <7>2. CASE app[q].ir # <<>>
              <8>1. 1 \in DOMAIN app[q].ir /\ 1 \in 1 .. Len(app[q].ir)
                <9>1. app[q].ir \in Seq(Bytes)
                  BY <4>1
                <9>2. Len(app[q].ir) \in Nat \ {0} /\ DOMAIN app[q].ir = 1 .. Len(app[q].ir)
                  BY <7>2, <9>1
                <9>. QED
                  BY <9>2
              <8>2. app[q].ir[1].conn = c
                <9>1. Runs(app[q].ir, c, e)
                  BY <5>1, <5>2
                <9>2. app[q].ir[1] = [conn |-> c, n |-> e + 1]
                  BY <8>1, <9>1 DEF Runs
                <9>. QED
                  BY <9>2
              <8>. QED
                BY <8>1, <8>2 DEF Emitted
            <7>. QED
              BY <7>1, <7>2
          <6>. QED
            BY <3>4, <5>1, <5>2, <6>1
        <5>3. CASE app[q].last # 2
          <6>1. Emitted(c, q) = <<>>
            BY <4>1, <4>3, <4>4, <5>3, EmptyOwn DEF Queued
          <6>. QED
            BY <3>4, <4>2, <5>1, <5>3, <6>1, RunsEmpty
        <5>. QED
          BY <5>2, <5>3
      <4>5. CASE link[q].state # 2
        <5>1. net[c].sent[q] = 0 /\ n = 0
          <6>1. net[c].sent[q] = 0
            BY <3>5, <4>5 DEF Follows
          <6>2. n <= net[c].sent[q]
            BY <3>5
          <6>. QED
            BY <6>1, <6>2
        <5>2. tx = <<>>
          BY <3>4, <4>1, <4>5 DEF Tied
        <5>3. ir = <<>>
          <6>1. link[q].state = 1
            BY <2>1, <3>1, <4>5 DEF Ordered, Roles
          <6>2. Own(app[q].ir, None)
            BY <4>1, <6>1, EmptyOwn DEF Queued, Owned, SessionOf
          <6>. QED
            BY <3>4, <4>3, <6>2
        <5>. QED
          BY <4>2, <5>1, <5>2, <5>3, RunsEmpty
      <4>. QED
        BY <4>4, <4>5
    <3>7. PICK i \in Nat, j \in Nat, k \in Nat, l \in Nat :
            i = Len(rx) /\ j = Len(wire) /\ k = Len(tx) /\ l = Len(ir)
      <4>1. Len(rx) \in Nat /\ Len(wire) \in Nat /\ Len(tx) \in Nat /\ Len(ir) \in Nat
        OBVIOUS
      <4>. QED
        BY <4>1
    <3>8. PICK s \in Seq(Bytes) : s = rx \o wire /\ Runs(s, c, g) /\ Len(s) = i + j
      <4>1. rx \o wire \in Seq(Bytes)
        OBVIOUS
      <4>. QED
        BY <3>5, <3>7, <4>1, RunsJoin
    <3>9. PICK t \in Seq(Bytes) : t = s \o tx /\ Runs(t, c, g) /\ Len(t) = i + j + k
      <4>1. s \o tx \in Seq(Bytes)
        OBVIOUS
      <4>2. n = g + Len(s)
        BY <3>5, <3>7, <3>8
      <4>. QED
        BY <3>6, <3>7, <3>8, <4>1, <4>2, RunsJoin
    <3>10. PICK u \in Seq(Bytes) : u = t \o ir /\ Runs(u, c, g) /\ Len(u) = i + j + k + l
      <4>1. t \o ir \in Seq(Bytes)
        OBVIOUS
      <4>2. e = g + Len(t)
        <5>1. m = g + i /\ n = m + j /\ e = n + k /\ Len(t) = i + j + k
          BY <3>5, <3>6, <3>7, <3>9
        <5>2. n = g + (i + j)
          BY <5>1
        <5>3. e = g + (i + j + k)
          BY <5>1, <5>2
        <5>. QED
          BY <5>1, <5>3
      <4>3. Runs(ir, c, g + Len(t)) /\ Runs(t, c, g)
        BY <3>6, <3>9, <4>2
      <4>4. Runs(t \o ir, c, g) /\ Len(t \o ir) = Len(t) + Len(ir)
        BY <4>3, RunsJoin
      <4>5. Len(t) + Len(ir) = i + j + k + l
        BY <3>7, <3>9
      <4>. QED
        BY <4>1, <4>4, <4>5
    <3>11. net[c].sent[q] - g = Len(u)
      <4>1. /\ m = g + i /\ n = m + j /\ e = n + k /\ net[c].sent[q] = e + l
            /\ Len(u) = i + j + k + l
        BY <3>5, <3>6, <3>7, <3>10
      <4>2. n = g + (i + j)
        BY <4>1
      <4>3. e = g + (i + j + k)
        BY <4>1, <4>2
      <4>4. net[c].sent[q] = g + (i + j + k + l)
        BY <4>1, <4>3
      <4>5. PICK z \in Nat : z = i + j + k + l
        OBVIOUS
      <4>. QED
        BY <4>1, <4>4, <4>5
    <3>12. Pipe(c, q, p) = u
      <4>1. Pipe(c, q, p) = rx \o wire \o tx \o ir
        BY <3>4 DEF Pipe
      <4>2. rx \o wire = s /\ s \o tx = t /\ t \o ir = u
        BY <3>8, <3>9, <3>10
      <4>. QED
        BY <4>1, <4>2
    <3>13. u = [x \in 1 .. (net[c].sent[q] - g) |-> [conn |-> c, n |-> g + x]]
      <4>1. PICK z : z = net[c].sent[q] - g
        OBVIOUS
      <4>2. u = [x \in 1 .. z |-> [conn |-> c, n |-> g + x]]
        <5>1. Runs(u, c, g) /\ z = Len(u)
          BY <3>10, <3>11, <4>1
        <5>. QED
          BY <5>1, RunsIs
      <4>. QED
        BY <4>1, <4>2
    <3>. QED
      BY <3>3, <3>12, <3>13
  <2>. QED
    BY <2>1 DEF InOrder
<1>. QED
  BY <1>1, LinkInvariant, OrderInvariant, PTL
=============================================================================
