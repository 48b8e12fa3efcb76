-------------------------- MODULE LegacyCoreProofs --------------------------
(***************************************************************************)
(* Proofs about LegacyCore, for any keys, clocks and size of the queue.    *)
(*                                                                         *)
(* The queue is a list whatever element malloc gives back; that there is   *)
(* one to give is the room the key messages leave for the key of the       *)
(* interrupt.  With the list, what the firmware reads is what was queued   *)
(* first, and keys and their releases alternate.                           *)
(***************************************************************************)
EXTENDS LegacyCore, FiniteSetTheorems, SequenceTheorems, TLAPS

KeySets == SUBSET Keys
Queues == [first : Nodes \union {NULL}, last : Nodes \union {NULL},
           next : [Nodes -> Nodes \union {NULL}], value : [Nodes -> KeySets],
           used : SUBSET Nodes]

\* The nodes s hold w, and no node twice.
Chain(q, w, s) ==
  /\ s \in [1 .. Len(w) -> q.used] /\ Listed(q, w, s)
  /\ \A i, j \in 1 .. Len(w) : s[i] = s[j] => i = j

IsList(q, w) == q \in Queues /\ w \in Seq(KeySets) /\ \E s : Chain(q, w, s)

LEMMA EmptyIsList == IsList(Empty, <<>>)
<1>1. Empty \in Queues
  BY DEF Empty, Queues, KeySets
<1>2. Chain(Empty, <<>>, [i \in 1 .. 0 |-> NULL])
  BY DEF Chain, Listed, Empty
<1>. QED
  BY <1>1, <1>2 DEF IsList

\* There is an element to give as long as fewer are in use than there are.
LEMMA FreeExists ==
  ASSUME NEW q, NEW w, IsList(q, w), Len(w) < MaxWaiting
  PROVE  Free(q) \in Nodes \ q.used
<1>1. PICK s : Chain(q, w, s)
  BY DEF IsList
<1>2. Len(w) \in Nat /\ MaxWaiting \in Nat
  BY CoreAssumption DEF IsList
<1>3. s \in Surjection(1 .. Len(w), q.used)
  BY <1>1 DEF Chain, Listed, Surjection
<1>4. IsFiniteSet(1 .. Len(w)) /\ Cardinality(1 .. Len(w)) = Len(w)
  <2>1. PICK k \in Nat : k = Len(w)
    BY <1>2
  <2>2. IsFiniteSet(1 .. k) /\ Cardinality(1 .. k) = k
    BY FS_Interval
  <2>. QED
    BY <2>1, <2>2
<1>5. Cardinality(q.used) <= Len(w)
  BY <1>3, <1>4, FS_Surjection
<1>6. Cardinality(Nodes) = MaxWaiting
  BY <1>2, FS_Interval DEF Nodes
<1>7. q.used # Nodes
  <2>1. ~(MaxWaiting <= Len(w))
    BY <1>2
  <2>. QED
    BY <1>5, <1>6, <2>1
<1>8. \E n \in Nodes : n \notin q.used
  BY <1>7 DEF IsList, Queues
<1>. QED
  BY <1>8 DEF Free

\* A value that is put in is the last of the list.
LEMMA AddIsList ==
  ASSUME NEW q, NEW w, IsList(q, w), Len(w) < MaxWaiting, NEW v \in KeySets
  PROVE  IsList(Add(q, v), Append(w, v))
<1>1. PICK s : Chain(q, w, s)
  BY DEF IsList
<1>2. Free(q) \in Nodes \ q.used
  BY FreeExists
<1>3. Len(w) \in Nat
  BY DEF IsList
<1>. DEFINE n == Free(q)
            k == Len(w)
            t == [i \in 1 .. k + 1 |-> IF i <= k THEN s[i] ELSE n]
            a == Add(q, v)
            next0 == [q.next EXCEPT ![n] = NULL]
<1>4. /\ a.first = IF q.first = NULL THEN n ELSE q.first
      /\ a.last = n
      /\ a.next = IF q.last = NULL THEN next0 ELSE [next0 EXCEPT ![q.last] = n]
      /\ a.value = [q.value EXCEPT ![n] = v]
      /\ a.used = q.used \union {n}
  BY DEF Add
<1>5. a \in Queues
  BY <1>2 DEF Add, IsList, Queues
<1>6. Append(w, v) \in Seq(KeySets) /\ Len(Append(w, v)) = k + 1
  BY DEF IsList
<1>7. \A i \in 1 .. k : Append(w, v)[i] = w[i]
  BY DEF IsList
<1>8. Append(w, v)[k + 1] = v
  BY DEF IsList
<1>9. t \in [1 .. k + 1 -> a.used] /\ (\A i \in 1 .. k : t[i] = s[i]) /\ t[k + 1] = n
  BY <1>1, <1>3, <1>4 DEF Chain
<1>. HIDE DEF n, k, t, a, next0
<1>10. \A i, j \in 1 .. k + 1 : t[i] = t[j] => i = j
  <2>1. \A i \in 1 .. k : s[i] # n
    BY <1>1, <1>2 DEF Chain, n, k
  <2>2. \A i, j \in 1 .. k : s[i] = s[j] => i = j
    BY <1>1 DEF Chain, k
  <2>. QED
    BY <1>3, <1>9, <2>1, <2>2 DEF k
<1>a. /\ n \in Nodes /\ (\A i \in 1 .. k : s[i] \in Nodes /\ s[i] # n)
      /\ q.value \in [Nodes -> KeySets] /\ q.next \in [Nodes -> Nodes \union {NULL}]
  <2>1. \A i \in 1 .. k : s[i] \in q.used
    BY <1>1 DEF Chain, k
  <2>2. q \in Queues
    BY DEF IsList
  <2>. QED
    BY <1>2, <2>1, <2>2 DEF Queues, n
<1>b. /\ q.first = IF w = <<>> THEN NULL ELSE s[1]
      /\ q.last = IF w = <<>> THEN NULL ELSE s[k]
      /\ \A i \in 1 .. k : /\ q.value[s[i]] = w[i]
                           /\ q.next[s[i]] = IF i = k THEN NULL ELSE s[i + 1]
      /\ \A m \in q.used : \E i \in 1 .. k : s[i] = m
  BY <1>1 DEF Chain, Listed, k
<1>c. (w = <<>> <=> k = 0) /\ k \in Nat
  BY DEF IsList, k
<1>d. \A m \in Nodes : m # NULL
  BY DEF Nodes, NULL
<1>11. \A i \in 1 .. k + 1 : a.value[t[i]] = Append(w, v)[i]
  <2>1. ASSUME NEW i \in 1 .. k PROVE a.value[t[i]] = w[i]
    BY <1>4, <1>9, <1>a, <1>b
  <2>2. a.value[t[k + 1]] = v
    BY <1>4, <1>9, <1>a
  <2>3. \A i \in 1 .. k + 1 : i \in 1 .. k \/ i = k + 1
    BY <1>c
  <2>. QED
    BY <1>7, <1>8, <2>1, <2>2, <2>3, Zenon
<1>12. \A i \in 1 .. k + 1 : a.next[t[i]] = IF i = k + 1 THEN NULL ELSE t[i + 1]
  <2>1. next0 \in [Nodes -> Nodes \union {NULL}] /\ next0[n] = NULL
        /\ \A i \in 1 .. k : next0[s[i]] = q.next[s[i]]
    BY <1>a DEF next0
  <2>2. CASE k = 0
    <3>1. a.next = next0
      BY <1>4, <1>b, <1>c, <2>2
    <3>. QED
      BY <1>9, <2>1, <2>2, <3>1
  <2>3. CASE k # 0
    <3>1. q.last = s[k] /\ s[k] \in Nodes /\ s[k] # NULL /\ s[k] # n
      BY <1>a, <1>b, <1>c, <1>d, <2>3
    <3>2. a.next = [next0 EXCEPT ![s[k]] = n]
      BY <1>4, <3>1
    <3>3. a.next[t[k + 1]] = NULL
      BY <1>9, <1>a, <2>1, <3>1, <3>2
    <3>4. a.next[t[k]] = t[k + 1]
      BY <1>9, <1>c, <2>1, <2>3, <3>1, <3>2
    <3>5. ASSUME NEW i \in 1 .. k, i # k PROVE a.next[t[i]] = t[i + 1]
      <4>1. i + 1 \in 1 .. k /\ k \in 1 .. k
        BY <1>c, <3>5
      <4>2. t[i] = s[i] /\ t[i + 1] = s[i + 1] /\ s[i] \in Nodes /\ q.next[s[i]] = s[i + 1]
        BY <1>9, <1>a, <1>b, <3>5, <4>1
      <4>3. s[i] # s[k]
        BY <1>a, <1>b, <1>d, <3>5, <4>1, <4>2
      <4>. QED
        BY <2>1, <3>2, <4>2, <4>3
    <3>. QED
      BY <1>c, <3>3, <3>4, <3>5
  <2>. QED
    BY <2>2, <2>3
<1>13. a.first = t[1] /\ a.last = t[k + 1]
  <2>1. CASE k = 0
    BY <1>4, <1>9, <1>b, <1>c, <2>1
  <2>2. CASE k # 0
    <3>1. q.first = s[1] /\ s[1] \in Nodes /\ t[1] = s[1]
      BY <1>9, <1>a, <1>b, <1>c, <2>2
    <3>. QED
      BY <1>4, <1>9, <1>d, <3>1
  <2>. QED
    BY <2>1, <2>2
<1>14. \A m \in a.used : \E i \in 1 .. k + 1 : t[i] = m
  <2>1. k + 1 \in 1 .. k + 1 /\ \A i \in 1 .. k : i \in 1 .. k + 1
    BY <1>c
  <2>. QED
    BY <1>4, <1>9, <1>b, <2>1
<1>15. Chain(a, Append(w, v), t)
  <2>1. Append(w, v) # <<>>
    BY <1>6, <1>c DEF k
  <2>2. Len(Append(w, v)) = k + 1
    BY <1>6 DEF k
  <2>3. Listed(a, Append(w, v), t)
    BY <1>11, <1>12, <1>13, <1>14, <2>1, <2>2 DEF Listed
  <2>. QED
    BY <1>9, <1>10, <2>2, <2>3 DEF Chain
<1>. QED
  BY <1>5, <1>6, <1>15 DEF IsList, a

\* The queue is empty exactly if it has no first element, and that holds what
\* was put in first.
LEMMA FirstOfList ==
  ASSUME NEW q, NEW w, IsList(q, w)
  PROVE  /\ w = <<>> <=> q.first = NULL
         /\ w # <<>> => q.value[q.first] = w[1]
<1>1. PICK s : Chain(q, w, s)
  BY DEF IsList
<1>2. CASE w = <<>>
  BY <1>1, <1>2 DEF Chain, Listed
<1>3. CASE w # <<>>
  <2>1. 1 \in 1 .. Len(w)
    BY <1>3 DEF IsList
  <2>2. q.first = s[1] /\ q.value[s[1]] = w[1] /\ s[1] \in q.used
    BY <1>1, <1>3, <2>1 DEF Chain, Listed
  <2>3. s[1] # NULL
    BY <2>2 DEF IsList, Queues, Nodes, NULL
  <2>. QED
    BY <1>3, <2>2, <2>3
<1>. QED
  BY <1>2, <1>3

\* What is taken out is the first element, and the rest stays a list.
LEMMA PopIsList ==
  ASSUME NEW q, NEW w, IsList(q, w), w # <<>>
  PROVE  IsList(Pop(q), Tail(w))
<1>1. PICK s : Chain(q, w, s)
  BY DEF IsList
<1>. DEFINE k == Len(w)
            t == [i \in 1 .. k - 1 |-> s[i + 1]]
            p == Pop(q)
            x == Tail(w)
<1>2. k \in Nat \ {0} /\ x \in Seq(KeySets) /\ Len(x) = k - 1
  BY DEF IsList
<1>3. \A i \in 1 .. k - 1 : x[i] = w[i + 1]
  BY DEF IsList
<1>5. /\ q.first = s[1] /\ q.last = s[k]
      /\ \A i \in 1 .. k : /\ q.value[s[i]] = w[i]
                           /\ q.next[s[i]] = IF i = k THEN NULL ELSE s[i + 1]
      /\ \A n \in q.used : \E i \in 1 .. k : s[i] = n
  BY <1>1 DEF Chain, Listed
<1>6. (\A i \in 1 .. k : s[i] \in q.used) /\ \A i, j \in 1 .. k : s[i] = s[j] => i = j
  BY <1>1 DEF Chain
<1>7. q \in Queues /\ q.used \subseteq Nodes /\ \A n \in Nodes : n # NULL
  BY DEF IsList, Queues, Nodes, NULL
<1>. HIDE DEF k, x
<1>4. x = <<>> <=> k = 1
  BY <1>2
<1>8. 1 \in 1 .. k /\ q.first # NULL /\ q.next[s[1]] = IF k = 1 THEN NULL ELSE s[2]
  BY <1>2, <1>5, <1>6, <1>7
<1>9. p = [q EXCEPT !.first = q.next[s[1]], !.used = @ \ {s[1]},
                   !.last = IF q.next[s[1]] = NULL THEN NULL ELSE @]
  BY <1>5, <1>8 DEF Pop
<1>10. q.next[s[1]] = NULL <=> k = 1
  <2>1. CASE k # 1
    <3>1. 2 \in 1 .. k
      BY <1>2, <2>1
    <3>. QED
      BY <1>6, <1>7, <1>8, <2>1, <3>1
  <2>. QED
    BY <1>8, <2>1
<1>11. /\ p.first = (IF k = 1 THEN NULL ELSE s[2]) /\ p.used = q.used \ {s[1]}
       /\ p.last = (IF k = 1 THEN NULL ELSE s[k]) /\ p.value = q.value /\ p.next = q.next
  BY <1>5, <1>7, <1>8, <1>9, <1>10 DEF Queues
<1>12. p \in Queues
  <2>. DEFINE Changed(f, u, l) == [q EXCEPT !.first = f, !.used = u, !.last = l]
  <2>1. s[1] \in Nodes /\ q.next[s[1]] \in Nodes \union {NULL}
    BY <1>6, <1>7, <1>8 DEF Queues
  <2>2. ASSUME NEW f \in Nodes \union {NULL}, NEW u \in SUBSET Nodes,
               NEW l \in Nodes \union {NULL}
        PROVE  Changed(f, u, l) \in Queues
    <3>1. PICK a \in Queues : a = [q EXCEPT !.first = f]
      BY <1>7 DEF Queues
    <3>2. PICK b \in Queues : b = [a EXCEPT !.used = u]
      BY DEF Queues
    <3>3. Changed(f, u, l) = [b EXCEPT !.last = l]
      BY <3>1, <3>2
    <3>. HIDE DEF Changed
    <3>4. [b EXCEPT !.last = l] \in Queues
      BY DEF Queues
    <3>. QED
      BY <3>3, <3>4
  <2>3. PICK l \in Nodes \union {NULL} : l = IF q.next[s[1]] = NULL THEN NULL ELSE q.last
    BY <1>7 DEF Queues
  <2>4. p = Changed(q.next[s[1]], q.used \ {s[1]}, l)
    BY <1>9, <2>3
  <2>5. q.used \ {s[1]} \in SUBSET Nodes
    BY <1>7
  <2>. HIDE DEF p, Changed
  <2>. QED
    BY <2>1, <2>2, <2>4, <2>5
<1>. HIDE DEF p
<1>13. \A i \in 1 .. k - 1 : i + 1 \in 1 .. k /\ i + 1 # 1
  BY <1>2
<1>14. t \in [1 .. k - 1 -> p.used] /\ \A i \in 1 .. k - 1 : t[i] = s[i + 1]
  BY <1>6, <1>8, <1>11, <1>13
<1>. HIDE DEF t
<1>15. \A i, j \in 1 .. k - 1 : t[i] = t[j] => i = j
  <2>1. ASSUME NEW i \in 1 .. k - 1, NEW j \in 1 .. k - 1, t[i] = t[j] PROVE i = j
    <3>1. i + 1 = j + 1
      BY <1>6, <1>13, <1>14, <2>1
    <3>. QED
      BY <1>2, <3>1
  <2>. QED
    BY <2>1
<1>16. \A i \in 1 .. k - 1 : /\ p.value[t[i]] = x[i]
                             /\ p.next[t[i]] = IF i = k - 1 THEN NULL ELSE t[i + 1]
  <2>1. ASSUME NEW i \in 1 .. k - 1 PROVE p.value[t[i]] = x[i]
    <3>1. i + 1 \in 1 .. k /\ t[i] = s[i + 1]
      BY <1>13, <1>14
    <3>2. q.value[s[i + 1]] = w[i + 1] /\ x[i] = w[i + 1]
      BY <1>3, <1>5, <3>1
    <3>. QED
      BY <1>11, <3>1, <3>2
  <2>2. ASSUME NEW i \in 1 .. k - 1
        PROVE  p.next[t[i]] = IF i = k - 1 THEN NULL ELSE t[i + 1]
    <3>1. p.next[t[i]] = IF i + 1 = k THEN NULL ELSE s[(i + 1) + 1]
      BY <1>5, <1>11, <1>13, <1>14
    <3>2. i + 1 = k <=> i = k - 1
      BY <1>2
    <3>3. i # k - 1 => i + 1 \in 1 .. k - 1
      BY <1>2
    <3>. QED
      BY <1>14, <3>1, <3>2, <3>3
  <2>. QED
    BY <2>1, <2>2
<1>17. \A n \in p.used : \E i \in 1 .. k - 1 : t[i] = n
  <2>. SUFFICES ASSUME NEW n \in p.used PROVE \E i \in 1 .. k - 1 : t[i] = n
    OBVIOUS
  <2>1. PICK j \in 1 .. k : s[j] = n
    BY <1>5, <1>11
  <2>2. j # 1
    BY <1>11, <2>1
  <2>3. j - 1 \in 1 .. k - 1 /\ (j - 1) + 1 = j
    BY <1>2, <2>2
  <2>. QED
    BY <1>14, <2>1, <2>3
<1>18. p.first = IF x = <<>> THEN NULL ELSE t[1]
  <2>1. k # 1 => 1 \in 1 .. k - 1
    BY <1>2
  <2>. QED
    BY <1>4, <1>11, <1>14, <2>1
<1>19. p.last = IF x = <<>> THEN NULL ELSE t[Len(x)]
  <2>1. k # 1 => k - 1 \in 1 .. k - 1 /\ (k - 1) + 1 = k
    BY <1>2
  <2>. QED
    BY <1>2, <1>4, <1>11, <1>14, <2>1
<1>20. Chain(p, x, t)
  <2>1. Len(x) = k - 1
    BY <1>2
  <2>. QED
    BY <1>14, <1>15, <1>16, <1>17, <1>18, <1>19, <2>1 DEF Chain, Listed
<1>. QED
  BY <1>2, <1>12, <1>20 DEF IsList, p, x

-----------------------------------------------------------------------------
\* Keys and their releases alternate behind what is shown, and end released.
Alternate(sh, w) ==
  /\ \A i \in 1 .. Len(w) : w[i] = {} <=> (IF i = 1 THEN sh ELSE w[i - 1]) # {}
  /\ (IF w = <<>> THEN sh ELSE w[Len(w)]) = {}

LEMMA TwoAppends ==
  ASSUME NEW w \in Seq(KeySets), NEW v \in KeySets
  PROVE  /\ Append(Append(w, v), {}) = w \o <<v, {}>>
         /\ Len(Append(w, v)) = Len(w) + 1 /\ Len(w \o <<v, {}>>) = Len(w) + 2
<1>. DEFINE x == Append(Append(w, v), {})
            y == w \o <<v, {}>>
            k == Len(w)
<1>1. {} \in KeySets
  BY DEF KeySets
<1>2. k \in Nat /\ x \in Seq(KeySets) /\ y \in Seq(KeySets)
  BY <1>1
<1>3. Len(x) = k + 2 /\ Len(y) = k + 2
  OBVIOUS
<1>4. ASSUME NEW i \in 1 .. k + 2 PROVE x[i] = y[i]
  <2>1. CASE i \in 1 .. k
    BY <2>1
  <2>2. CASE i = k + 1
    BY <2>2
  <2>3. CASE i = k + 2
    BY <2>3
  <2>. QED
    BY <1>2, <2>1, <2>2, <2>3
<1>. HIDE DEF x, y, k
<1>5. x = y
  BY <1>2, <1>3, <1>4, SeqEqual
<1>6. Len(Append(w, v)) = Len(w) + 1
  OBVIOUS
<1>. QED
  BY <1>3, <1>5, <1>6 DEF x, y, k

LEMMA KeyAlternates ==
  ASSUME NEW sh, NEW w \in Seq(KeySets), Alternate(sh, w), NEW v \in KeySets, v # {}
  PROVE  Alternate(sh, w \o <<v, {}>>)
<1>. DEFINE k == Len(w)
            x == w \o <<v, {}>>
<1>1. k \in Nat /\ Len(x) = k + 2 /\ x[k + 1] = v /\ x[k + 2] = {} /\ x # <<>>
  OBVIOUS
<1>2. \A i \in 1 .. k : x[i] = w[i]
  OBVIOUS
<1>3. /\ \A i \in 1 .. k : w[i] = {} <=> (IF i = 1 THEN sh ELSE w[i - 1]) # {}
      /\ (IF k = 0 THEN sh ELSE w[k]) = {}
  BY DEF Alternate
<1>. HIDE DEF x, k
<1>4. ASSUME NEW i \in 1 .. k + 2 PROVE x[i] = {} <=> (IF i = 1 THEN sh ELSE x[i - 1]) # {}
  <2>1. CASE i \in 1 .. k
    <3>1. i # 1 => i - 1 \in 1 .. k
      BY <1>1, <2>1
    <3>. QED
      BY <1>2, <1>3, <2>1, <3>1
  <2>2. CASE i = k + 1
    <3>1. k # 0 => k \in 1 .. k /\ i - 1 = k /\ i # 1
      BY <1>1, <2>2
    <3>. QED
      BY <1>1, <1>2, <1>3, <2>2, <3>1
  <2>3. CASE i = k + 2
    <3>1. i # 1 /\ i - 1 = k + 1
      BY <1>1, <2>3
    <3>. QED
      BY <1>1, <2>3, <3>1
  <2>. QED
    BY <1>1, <2>1, <2>2, <2>3
<1>. QED
  BY <1>1, <1>4 DEF Alternate, x

LEMMA TailAlternates ==
  ASSUME NEW sh, NEW w \in Seq(KeySets), Alternate(sh, w), w # <<>>
  PROVE  Alternate(w[1], Tail(w))
<1>. DEFINE k == Len(w)
            x == Tail(w)
<1>1. k \in Nat \ {0} /\ x \in Seq(KeySets) /\ Len(x) = k - 1
  OBVIOUS
<1>2. \A i \in 1 .. k - 1 : x[i] = w[i + 1]
  OBVIOUS
<1>3. /\ \A i \in 1 .. k : w[i] = {} <=> (IF i = 1 THEN sh ELSE w[i - 1]) # {}
      /\ w[k] = {}
  BY DEF Alternate
<1>. HIDE DEF x, k
<1>4. ASSUME NEW i \in 1 .. k - 1
      PROVE  x[i] = {} <=> (IF i = 1 THEN w[1] ELSE x[i - 1]) # {}
  <2>1. i + 1 \in 1 .. k /\ i + 1 # 1 /\ (i + 1) - 1 = i
    BY <1>1
  <2>2. i # 1 => i - 1 \in 1 .. k - 1 /\ (i - 1) + 1 = i
    BY <1>1
  <2>3. w[i + 1] = {} <=> w[i] # {}
    BY <1>3, <2>1
  <2>. QED
    BY <1>2, <2>2, <2>3
<1>5. (IF x = <<>> THEN w[1] ELSE x[Len(x)]) = {}
  <2>1. CASE k = 1
    BY <1>1, <1>3, <2>1
  <2>2. CASE k # 1
    <3>1. k - 1 \in 1 .. k - 1 /\ (k - 1) + 1 = k
      BY <1>1, <2>2
    <3>2. x # <<>>
      BY <1>1, <2>2
    <3>. QED
      BY <1>1, <1>2, <1>3, <3>1, <3>2
  <2>. QED
    BY <2>1, <2>2
<1>. QED
  BY <1>1, <1>4, <1>5 DEF Alternate, x

-----------------------------------------------------------------------------
Cpus == [at : Interrupts \union {"main"}, masked : BOOLEAN, asleep : BOOLEAN,
         saved : [at : Interrupts \union {"main", "none"}, masked : BOOLEAN]]
Parts == {"cpu", "irq", "on", "timer", "clock", "queue", "shown", "waiting"}

\* The saved context of a handler is that of the code outside the handlers.
Kept(c) ==
  /\ c \in Cpus
  /\ c.at # "main" => c.masked /\ ~c.asleep /\ c.saved = [at |-> "main", masked |-> FALSE]

\* Room for the key that a request still has to put in.
Reserved(m) ==
  "IRQ0" \in m.irq /\ m.cpu.at # "IRQ0" => Len(m.waiting) + 2 <= MaxWaiting

Good(m) ==
  /\ DOMAIN m = Parts /\ Kept(m.cpu) /\ Reserved(m)
  /\ IsList(m.queue, m.waiting) /\ Alternate(m.shown, m.waiting)

CoreInv == Good(Walker) /\ input \in KeySets

\* What changes neither the CPU nor the keys keeps a good walker good.
LEMMA SameGood ==
  ASSUME NEW m, NEW n, Good(m), DOMAIN n = Parts, n.cpu = m.cpu, n.queue = m.queue,
         n.shown = m.shown, n.waiting = m.waiting, "IRQ0" \in n.irq => "IRQ0" \in m.irq
  PROVE  Good(n)
BY DEF Good, Reserved

LEMMA EnterGood ==
  ASSUME NEW m, Good(m), ~m.cpu.masked, NEW place \in Interrupts
  PROVE  Good(Enter(m, place)) /\ Enter(m, place).cpu.at = place
<1>. DEFINE c == [at |-> place, masked |-> TRUE, asleep |-> FALSE,
                  saved |-> [at |-> m.cpu.at, masked |-> m.cpu.masked]]
<1>1. m.cpu.at = "main" /\ m.cpu.masked = FALSE
  BY DEF Good, Kept, Cpus
<1>2. Kept(c)
  BY <1>1 DEF Kept, Cpus
<1>3. Enter(m, place) = [m EXCEPT !.cpu = c]
  BY DEF Enter
<1>. HIDE DEF c
<1>4. /\ DOMAIN Enter(m, place) = Parts /\ Enter(m, place).cpu = c
      /\ Enter(m, place).queue = m.queue /\ Enter(m, place).shown = m.shown
      /\ Enter(m, place).waiting = m.waiting /\ Enter(m, place).irq = m.irq
  BY <1>3 DEF Good, Parts
<1>5. "IRQ0" \in m.irq => Len(m.waiting) + 2 <= MaxWaiting
  BY <1>1 DEF Good, Reserved, Interrupts
<1>. QED
  BY <1>2, <1>4, <1>5 DEF Good, Reserved, c

LEMMA PushGood ==
  ASSUME NEW m, Good(m), NEW v \in KeySets, v # {}, Len(m.waiting) + 2 <= MaxWaiting,
         "IRQ0" \in m.irq /\ m.cpu.at # "IRQ0" => Len(m.waiting) + 4 <= MaxWaiting
  PROVE  Good(Push(m, v))
<1>. DEFINE w == m.waiting
            n == Push(m, v)
            q1 == Add(m.queue, v)
            w1 == Append(w, v)
            w2 == w \o <<v, {}>>
<1>1. IsList(m.queue, w) /\ w \in Seq(KeySets) /\ Len(w) \in Nat /\ MaxWaiting \in Nat
  BY CoreAssumption DEF Good, IsList
<1>2. Len(w1) = Len(w) + 1 /\ Len(w2) = Len(w) + 2 /\ Append(w1, {}) = w2
  BY <1>1, TwoAppends
<1>3. IsList(q1, w1)
  <2>1. Len(w) < MaxWaiting
    BY <1>1
  <2>. QED
    BY <1>1, <2>1, AddIsList
<1>4. IsList(Add(q1, {}), w2)
  <2>1. Len(w1) < MaxWaiting
    BY <1>1, <1>2
  <2>2. {} \in KeySets
    BY DEF KeySets
  <2>. HIDE DEF q1, w1
  <2>3. IsList(Add(q1, {}), Append(w1, {}))
    BY <1>3, <2>1, <2>2, AddIsList
  <2>. QED
    BY <1>2, <2>3
<1>5. Alternate(m.shown, w2)
  BY <1>1, KeyAlternates DEF Good
<1>6. /\ DOMAIN n = Parts /\ n.cpu = m.cpu /\ n.irq = m.irq /\ n.shown = m.shown
      /\ n.queue = Add(q1, {}) /\ n.waiting = w2
  BY DEF Push, Good, Parts
<1>7. Reserved(n)
  BY <1>1, <1>2, <1>6 DEF Reserved
<1>. HIDE DEF n, q1, w2
<1>. QED
  BY <1>4, <1>5, <1>6, <1>7 DEF Good, n

-----------------------------------------------------------------------------
\* The rest of a turn keeps a good walker good, one clock after the other.
LEMMA ServeGood ==
  ASSUME NEW m, Good(m)
  PROVE  Good(Serve(m))
<1>1. CASE Serve(m) = m
  BY <1>1
<1>2. CASE ~m.cpu.masked /\ "IRQ0" \in m.irq /\ Serve(m) = Push(Enter(m, "IRQ0"), {ENTER})
  <2>. DEFINE n == Enter(m, "IRQ0")
  <2>1. Good(n) /\ n.cpu.at = "IRQ0"
    BY <1>2, EnterGood DEF Interrupts
  <2>2. n.waiting = m.waiting
    BY DEF Enter, Good, Parts
  <2>3. m.cpu.at = "main"
    BY <1>2 DEF Good, Kept
  <2>4. Len(n.waiting) + 2 <= MaxWaiting
    BY <1>2, <2>2, <2>3 DEF Good, Reserved
  <2>5. {ENTER} \in KeySets /\ {ENTER} # {}
    BY CoreAssumption DEF KeySets
  <2>. HIDE DEF n
  <2>6. Good(Push(n, {ENTER}))
    BY <2>1, <2>4, <2>5, PushGood
  <2>. QED
    BY <1>2, <2>6 DEF n
<1>3. CASE ~m.cpu.masked /\ \E place \in Interrupts : Serve(m) = Enter(m, place)
  BY <1>3, EnterGood
<1>4. \/ Serve(m) = m
      \/ ~m.cpu.masked /\ "IRQ0" \in m.irq /\ Serve(m) = Push(Enter(m, "IRQ0"), {ENTER})
      \/ ~m.cpu.masked /\ Serve(m) \in {Enter(m, "QUARTER"), Enter(m, "HALF"),
                                       Enter(m, "SECOND"), Enter(m, "TB1")}
  BY DEF Serve
<1>. QED
  BY <1>1, <1>2, <1>3, <1>4 DEF Interrupts

LEMMA CountBGood ==
  ASSUME NEW m, Good(m)
  PROVE  Good(CountB(m))
<1>. DEFINE n == CountB(m)
<1>1. /\ DOMAIN n = Parts /\ n.cpu = m.cpu /\ n.queue = m.queue /\ n.shown = m.shown
      /\ n.waiting = m.waiting /\ ("IRQ0" \in n.irq => "IRQ0" \in m.irq)
  BY DEF CountB, Good, Parts
<1>. QED
  BY <1>1, SameGood

LEMMA CountWGood ==
  ASSUME NEW m, Good(m)
  PROVE  Good(CountW(m))
<1>. DEFINE count == IF "count W" \in m.on THEN (m.timer.w + 1) % Modulo ELSE m.timer.w
            match == [m EXCEPT !.timer.w = IF "CCLR" \in m.on THEN 0 ELSE count,
                               !.irq = @ \union {"TW"}]
            counted == [m EXCEPT !.timer.w = count]
<1>1. Good(match) /\ match.cpu = m.cpu
  <2>1. /\ DOMAIN match = Parts /\ match.cpu = m.cpu /\ match.queue = m.queue
        /\ match.shown = m.shown /\ match.waiting = m.waiting
        /\ ("IRQ0" \in match.irq => "IRQ0" \in m.irq)
    BY DEF Good, Parts
  <2>. QED
    BY <2>1, SameGood
<1>2. Good(counted)
  <2>1. /\ DOMAIN counted = Parts /\ counted.cpu = m.cpu /\ counted.queue = m.queue
        /\ counted.shown = m.shown /\ counted.waiting = m.waiting
        /\ counted.irq = m.irq
    BY DEF Good, Parts
  <2>. QED
    BY <2>1, SameGood
<1>3. \/ CountW(m) \in {m, match, counted}
      \/ CountW(m) = Enter(match, "TW") /\ ~m.cpu.masked
  BY DEF CountW
<1>. HIDE DEF match, counted
<1>. QED
  BY <1>1, <1>2, <1>3, EnterGood DEF Interrupts

LEMMA CycleGood ==
  ASSUME NEW m, Good(m)
  PROVE  Good(Cycle(m))
<1>. DEFINE c == [m EXCEPT !.clock.cycle = @ + 1]
            d == [c EXCEPT !.clock.sub = (@ + 1) % Prescale]
<1>1. Good(c)
  <2>1. /\ DOMAIN c = Parts /\ c.cpu = m.cpu /\ c.queue = m.queue
        /\ c.shown = m.shown /\ c.waiting = m.waiting /\ c.irq = m.irq
    BY DEF Good, Parts
  <2>. QED
    BY <2>1, SameGood
<1>2. Cycle(m) \in {c, SubClock(d)}
  BY DEF Cycle
<1>. HIDE DEF c
<1>3. Good(d)
  <2>1. /\ DOMAIN d = Parts /\ d.cpu = c.cpu /\ d.queue = c.queue
        /\ d.shown = c.shown /\ d.waiting = c.waiting /\ d.irq = c.irq
    BY <1>1 DEF Good, Parts
  <2>. QED
    BY <1>1, <2>1, SameGood
<1>. HIDE DEF d
<1>4. Good(SubClock(d))
  <2>. DEFINE e == CountW(CountB(d))
  <2>1. Good(e)
    BY <1>3, CountBGood, CountWGood
  <2>2. SubClock(d) = [e EXCEPT !.timer.onB = {"clock B", "count B"} \subseteq e.on,
                                !.timer.onW = {"clock W", "count W"} \subseteq e.on]
    BY DEF SubClock
  <2>. HIDE DEF e
  <2>3. /\ DOMAIN SubClock(d) = Parts /\ SubClock(d).cpu = e.cpu
        /\ SubClock(d).queue = e.queue /\ SubClock(d).shown = e.shown
        /\ SubClock(d).waiting = e.waiting /\ SubClock(d).irq = e.irq
    BY <2>1, <2>2 DEF Good, Parts
  <2>. QED
    BY <2>1, <2>3, SameGood
<1>. QED
  BY <1>1, <1>2, <1>4

LEMMA FrameGood ==
  ASSUME NEW m, Good(m)
  PROVE  Good(Frame(m))
<1>. DEFINE f == [m EXCEPT !.clock.cycle = @ - FrameCycles, !.clock.buffer = 1 - @]
            n == Quarter(f)
<1>1. /\ DOMAIN f = Parts /\ f.cpu = m.cpu /\ f.queue = m.queue
      /\ f.shown = m.shown /\ f.waiting = m.waiting /\ f.irq = m.irq
  BY DEF Good, Parts
<1>2. Frame(m) \in {m, n}
  BY DEF Frame
<1>. HIDE DEF f
<1>3. /\ DOMAIN n = Parts /\ n.cpu = f.cpu /\ n.queue = f.queue
      /\ n.shown = f.shown /\ n.waiting = f.waiting
      /\ ("IRQ0" \in n.irq => "IRQ0" \in f.irq)
  BY <1>1 DEF Quarter, Parts
<1>. HIDE DEF n
<1>4. Good(n)
  BY <1>1, <1>3, SameGood
<1>. QED
  BY <1>2, <1>4

\* What the variables become is the walker of the next state.
LEMMA BecomesWalker ==
  ASSUME NEW m, Good(m), Becomes(m)
  PROVE  Good(Walker)'
<1>1. /\ Walker'.cpu = m.cpu /\ Walker'.irq = m.irq /\ Walker'.queue = m.queue
      /\ Walker'.shown = m.shown /\ Walker'.waiting = m.waiting /\ DOMAIN Walker' = Parts
  BY DEF Becomes, Walker, Parts
<1>2. Good(Walker')
  BY <1>1, SameGood
<1>. QED
  BY <1>2 DEF Good, Reserved

LEMMA TurnGood ==
  ASSUME NEW m, Good(m), Turn(m)
  PROVE  CoreInv'
<1>1. Becomes(Frame(Cycle(Cycle(Serve(m))))) /\ input' = {}
  BY DEF Turn
<1>2. Good(Frame(Cycle(Cycle(Serve(m)))))
  BY ServeGood, CycleGood, FrameGood
<1>3. Good(Walker)'
  BY <1>1, <1>2, BecomesWalker
<1>. QED
  BY <1>1, <1>3 DEF CoreInv, KeySets

-----------------------------------------------------------------------------
\* A walker that has just been reset is good.
LEMMA ResetGood ==
  ASSUME NEW m, DOMAIN m = Parts
  PROVE  Good(Reset(m))
<1>. DEFINE r == Reset(m)
            c == [at |-> "main", masked |-> FALSE, asleep |-> FALSE,
                  saved |-> [at |-> "none", masked |-> FALSE]]
<1>1. /\ DOMAIN r = Parts /\ r.cpu = c /\ r.irq = {} /\ r.queue = Empty
      /\ r.shown = {} /\ r.waiting = <<>>
  BY DEF Reset, Parts
<1>2. Kept(c)
  BY DEF Kept, Cpus
<1>3. Alternate({}, <<>>)
  BY DEF Alternate
<1>. HIDE DEF r, c
<1>. QED
  BY <1>1, <1>2, <1>3, EmptyIsList DEF Good, Reserved, r

LEMMA CoreInit == Init => CoreInv
<1>. SUFFICES ASSUME Init PROVE CoreInv
  OBVIOUS
<1>. DEFINE m == [cpu |-> {}, irq |-> {}, on |-> {}, timer |-> {},
                  clock |-> [cycle |-> 0, sub |-> 0, quarters |-> 0, buffer |-> 0],
                  queue |-> Empty, shown |-> {}, waiting |-> <<>>]
            r == Reset(m)
<1>1. DOMAIN m = Parts
  BY DEF Parts
<1>2. Good(r)
  BY <1>1, ResetGood
<1>3. /\ cpu = r.cpu /\ irq = r.irq /\ queue = r.queue /\ shown = r.shown
      /\ waiting = r.waiting /\ input = {}
  BY DEF Init
<1>. HIDE DEF r
<1>4. /\ Walker.cpu = r.cpu /\ Walker.irq = r.irq /\ Walker.queue = r.queue
      /\ Walker.shown = r.shown /\ Walker.waiting = r.waiting /\ DOMAIN Walker = Parts
  BY <1>3 DEF Walker, Parts
<1>5. Good(Walker)
  BY <1>2, <1>4, SameGood
<1>. QED
  BY <1>3, <1>5 DEF CoreInv, KeySets

\* A key message leaves room for the key of the request it makes or finds.
LEMMA KeyDownGood ==
  ASSUME CoreInv, NEW key \in Keys, KeyDown(key)
  PROVE  CoreInv'
<1>. DEFINE keys == input \union {key}
            a == [Walker EXCEPT !.irq = @ \union {"IRQ0"}]
            b == [Walker EXCEPT !.cpu.asleep = FALSE]
<1>1. keys \in KeySets /\ keys # {} /\ input' = keys
  BY DEF KeyDown, CoreInv, KeySets
<1>2. /\ Len(waiting) \in Nat /\ MaxWaiting \in Nat /\ Len(waiting) + 2 <= MaxWaiting
      /\ "IRQ0" \in irq => Len(waiting) + 4 <= MaxWaiting
  BY CoreAssumption DEF KeyDown, Room, CoreInv, Good, IsList, Walker
<1>3. CASE Becomes(a)
  <2>1. /\ DOMAIN a = Parts /\ a.cpu = cpu /\ a.queue = queue /\ a.shown = shown
        /\ a.waiting = waiting
    BY DEF Walker, Parts
  <2>2. /\ Kept(cpu) /\ IsList(queue, waiting) /\ Alternate(shown, waiting)
    BY DEF CoreInv, Good, Walker
  <2>. HIDE DEF a
  <2>3. Good(a)
    BY <1>2, <2>1, <2>2 DEF Good, Reserved
  <2>. QED
    BY <1>1, <1>3, <2>3, BecomesWalker DEF CoreInv
<1>4. CASE Becomes(Push(b, keys))
  <2>1. /\ DOMAIN b = Parts /\ b.cpu = [cpu EXCEPT !.asleep = FALSE] /\ b.irq = irq
        /\ b.queue = queue /\ b.shown = shown /\ b.waiting = waiting
    BY DEF Walker, Parts
  <2>2. Kept([cpu EXCEPT !.asleep = FALSE])
    BY DEF CoreInv, Good, Kept, Cpus, Walker
  <2>3. /\ IsList(queue, waiting) /\ Alternate(shown, waiting)
    BY DEF CoreInv, Good, Walker
  <2>. HIDE DEF b
  <2>4. Good(b)
    BY <1>2, <2>1, <2>2, <2>3 DEF Good, Reserved
  <2>5. Good(Push(b, keys))
    BY <1>1, <1>2, <2>1, <2>4, PushGood
  <2>. QED
    BY <1>1, <1>4, <2>5, BecomesWalker DEF CoreInv
<1>. QED
  BY <1>3, <1>4 DEF KeyDown

\* The firmware sees the key that was queued first.
LEMMA ReadKeysGood ==
  ASSUME CoreInv, ReadKeys
  PROVE  CoreInv'
<1>. DEFINE m == [Walker EXCEPT !.shown = queue.value[queue.first], !.queue = Pop(@),
                                !.waiting = Tail(@)]
<1>1. Good(Walker) /\ IsList(queue, waiting) /\ Alternate(shown, waiting)
  BY DEF CoreInv, Good, Walker
<1>2. CASE queue.first = NULL
  BY <1>1, <1>2, TurnGood DEF ReadKeys
<1>3. CASE queue.first # NULL
  <2>1. waiting # <<>> /\ queue.value[queue.first] = waiting[1] /\ waiting \in Seq(KeySets)
    BY <1>1, <1>3, FirstOfList DEF IsList
  <2>2. /\ DOMAIN m = Parts /\ m.cpu = cpu /\ m.irq = irq /\ m.queue = Pop(queue)
        /\ m.shown = waiting[1] /\ m.waiting = Tail(waiting)
    BY <2>1 DEF Walker, Parts
  <2>3. IsList(Pop(queue), Tail(waiting)) /\ Alternate(waiting[1], Tail(waiting))
    BY <1>1, <2>1, PopIsList, TailAlternates
  <2>4. Kept(cpu) /\ Reserved(Walker)
    BY <1>1 DEF Good, Walker
  <2>5. Len(Tail(waiting)) = Len(waiting) - 1 /\ Len(waiting) \in Nat
    BY <2>1
  <2>. HIDE DEF m
  <2>6. Reserved(m)
    BY <2>2, <2>4, <2>5, CoreAssumption DEF Reserved, Walker
  <2>7. Good(m)
    BY <2>2, <2>3, <2>4, <2>6 DEF Good
  <2>. QED
    BY <1>3, <2>7, TurnGood DEF ReadKeys, m
<1>. QED
  BY <1>2, <1>3

LEMMA CoreNext == CoreInv /\ [Next]_vars => CoreInv'
<1>. SUFFICES ASSUME CoreInv, [Next]_vars PROVE CoreInv'
  OBVIOUS
<1>a. Good(Walker) /\ Kept(cpu) /\ Reserved(Walker)
  BY DEF CoreInv, Good, Walker
<1>b. ASSUME NEW m, DOMAIN m = Parts, Kept(m.cpu), Reserved(m), m.queue = queue,
             m.shown = shown, m.waiting = waiting
      PROVE  Good(m)
  BY <1>a, <1>b DEF Good, Walker
<1>1. ASSUME NEW romRead, NEW eepromRead, Load(romRead, eepromRead) PROVE CoreInv'
  <2>1. CASE Becomes(Reset(Walker)) /\ input' = input
    <3>1. Good(Reset(Walker))
      BY <1>a, ResetGood DEF Good
    <3>. QED
      BY <2>1, <3>1, BecomesWalker DEF CoreInv
  <2>2. CASE UNCHANGED <<walker, input>>
    BY <2>2 DEF walker, Walker, CoreInv, Good, Reserved
  <2>. QED
    BY <1>1, <2>1, <2>2 DEF Load
<1>2. ASSUME NEW key \in Keys, KeyDown(key) PROVE CoreInv'
  BY <1>2, KeyDownGood
<1>3. CASE Rest \/ Compute
  BY <1>3, <1>a, TurnGood DEF Rest, Compute
<1>4. CASE ReadKeys
  BY <1>4, ReadKeysGood
<1>5. CASE Skip \/ Unimplemented
  <2>1. Becomes(Frame(Walker)) /\ input' = {}
    BY <1>5 DEF Skip, Unimplemented
  <2>2. Good(Walker)'
    BY <1>a, <2>1, FrameGood, BecomesWalker
  <2>. QED
    BY <2>1, <2>2 DEF CoreInv, KeySets
<1>6. CASE Sleep
  <2>. DEFINE m == [Walker EXCEPT !.cpu.asleep = TRUE]
  <2>1. /\ DOMAIN m = Parts /\ m.cpu = [cpu EXCEPT !.asleep = TRUE] /\ m.irq = irq
        /\ m.queue = queue /\ m.shown = shown /\ m.waiting = waiting
    BY DEF Walker, Parts
  <2>2. Kept(m.cpu) /\ m.cpu.at = cpu.at
    <3>1. cpu \in Cpus /\ cpu.at = "main"
      BY <1>6, <1>a DEF Sleep, Kept
    <3>2. [cpu EXCEPT !.asleep = TRUE] \in Cpus /\ [cpu EXCEPT !.asleep = TRUE].at = cpu.at
      BY <3>1 DEF Cpus
    <3>. QED
      BY <2>1, <3>1, <3>2 DEF Kept
  <2>. HIDE DEF m
  <2>3. Good(m)
    BY <1>a, <1>b, <2>1, <2>2 DEF Reserved, Walker
  <2>. QED
    BY <1>6, <2>3, TurnGood DEF Sleep, m
<1>7. ASSUME NEW b \in BOOLEAN, SetMask(b) PROVE CoreInv'
  <2>. DEFINE m == [Walker EXCEPT !.cpu.masked = b]
  <2>1. /\ DOMAIN m = Parts /\ m.cpu = [cpu EXCEPT !.masked = b] /\ m.irq = irq
        /\ m.queue = queue /\ m.shown = shown /\ m.waiting = waiting
    BY DEF Walker, Parts
  <2>2. Kept(m.cpu) /\ m.cpu.at = cpu.at
    BY <1>7, <1>a, <2>1 DEF SetMask, Kept, Cpus
  <2>. HIDE DEF m
  <2>3. Good(m)
    BY <1>a, <1>b, <2>1, <2>2 DEF Reserved, Walker
  <2>. QED
    BY <1>7, <2>3, TurnGood DEF SetMask, m
<1>8. CASE Acknowledge
  <2>. DEFINE m == [Walker EXCEPT !.irq = @ \ {cpu.at}]
  <2>1. /\ DOMAIN m = Parts /\ m.cpu = cpu /\ m.irq = irq \ {cpu.at}
        /\ m.queue = queue /\ m.shown = shown /\ m.waiting = waiting
    BY DEF Walker, Parts
  <2>. HIDE DEF m
  <2>2. Good(m)
    BY <1>a, <1>b, <2>1 DEF Reserved, Walker
  <2>. QED
    BY <1>8, <2>2, TurnGood DEF Acknowledge, m
<1>9. CASE Return
  <2>. DEFINE m == [Walker EXCEPT !.cpu.at = cpu.saved.at, !.cpu.masked = cpu.saved.masked]
  <2>1. /\ DOMAIN m = Parts /\ m.irq = irq
        /\ m.cpu = [cpu EXCEPT !.at = cpu.saved.at, !.masked = cpu.saved.masked]
        /\ m.queue = queue /\ m.shown = shown /\ m.waiting = waiting
    BY DEF Walker, Parts
  <2>2. cpu.at # "main" /\ cpu.at \notin irq
    BY <1>9 DEF Return
  <2>3. cpu.saved.at = "main" /\ cpu.saved.masked = FALSE
    BY <1>a, <2>2 DEF Kept
  <2>4. Kept(m.cpu)
    <3>. DEFINE r == [cpu EXCEPT !.at = "main", !.masked = FALSE]
    <3>1. cpu \in Cpus
      BY <1>a DEF Kept
    <3>2. r \in Cpus /\ r.at = "main"
      BY <3>1 DEF Cpus
    <3>3. m.cpu = r
      BY <2>1, <2>3
    <3>. QED
      BY <3>2, <3>3 DEF Kept
  <2>5. Reserved(m)
    BY <1>a, <2>1, <2>2 DEF Reserved, Walker
  <2>. HIDE DEF m
  <2>6. Good(m)
    BY <1>b, <2>1, <2>4, <2>5
  <2>. QED
    BY <1>9, <2>6, TurnGood DEF Return, m
<1>10. ASSUME NEW s, Switch(s) PROVE CoreInv'
  <2>. DEFINE m == [Walker EXCEPT !.on = IF s \in @ THEN @ \ {s} ELSE @ \union {s}]
  <2>1. /\ DOMAIN m = Parts /\ m.cpu = cpu /\ m.irq = irq
        /\ m.queue = queue /\ m.shown = shown /\ m.waiting = waiting
    BY DEF Walker, Parts
  <2>. HIDE DEF m
  <2>2. Good(m)
    BY <1>a, <1>b, <2>1 DEF Reserved, Walker
  <2>. QED
    BY <1>10, <2>2, TurnGood DEF Switch, m
<1>11. CASE UNCHANGED vars
  BY <1>11 DEF vars, walker, Walker, CoreInv, Good, Reserved
<1>. QED
  BY <1>1, <1>2, <1>3, <1>4, <1>5, <1>6, <1>7, <1>8, <1>9, <1>10, <1>11 DEF Next

LEMMA CoreCorrect == Spec => []CoreInv
BY CoreInit, CoreNext, PTL DEF Spec

\* The queue of keys is a list of what was put in, in that order, and the
\* element it takes from malloc is never one it still uses.
THEOREM QueueStaysList == Spec => []QueueIsList
<1>1. CoreInv => QueueIsList
  BY DEF CoreInv, Good, Walker, IsList, Chain, QueueIsList
<1>. QED
  BY <1>1, CoreCorrect, PTL

\* What the firmware reads alternates between a key and its release.
THEOREM KeysAlternate == Spec => []NoStuckKey
<1>1. CoreInv => NoStuckKey
  BY DEF CoreInv, Good, Walker, Alternate, NoStuckKey
<1>. QED
  BY <1>1, CoreCorrect, PTL

\* The one saved context is enough: no handler is interrupted, and each goes
\* back to the code outside the handlers.
THEOREM ContextStaysKept == Spec => []ContextKept
<1>1. CoreInv => ContextKept
  BY DEF CoreInv, Good, Walker, Kept, ContextKept
<1>. QED
  BY <1>1, CoreCorrect, PTL
=============================================================================
