------------------------ MODULE LockFreeQueueProofs -------------------------
(***************************************************************************)
(* Proofs about LockFreeQueue, for any number of buffers, of enqueuers and *)
(* of dequeuers and any number of calls: in every schedule that spares     *)
(* enqueue's window the words in memory are a FIFO queue, and each CAS     *)
(* that succeeds does to it what LruQueue says.                            *)
(***************************************************************************)
EXTENDS LockFreeQueue, FiniteSetTheorems, WellFoundedInduction, TLAPS

-----------------------------------------------------------------------------
(* The inductive invariant *)

\* Where enqueue has reset its buffer's link, where tail and head have been read.
ResetLabels == LinkLabels \ {"reset"}
TailLabels == {"enq_next", "enq_check", "link", "enq_help", "swing",
               "deq_next", "deq_check", "take", "deq_help"}
HeadLabels == {"deq_tail", "deq_next", "deq_check", "take", "deq_help"}
Labels == {"idle", "none", "enq_tail", "unclaim", "deq_head", "reset"}
            \cup TailLabels \cup HeadLabels

Words == [cnt : Nat, ptr : Buffers]
Nexts == {CntPtr(0, NULL)} \cup {CntPtr(1, b) : b \in Buffers}
Locals == [b : Buffers \cup {NULL}, head : Words \cup {CntPtr(0, NULL)},
           tail : Words \cup {CntPtr(0, NULL)}, next : Nexts]

TypeOK ==
  /\ head \in Words
  /\ tail \in Words
  /\ qnext \in [Buffers -> Nexts]
  /\ in_q \in [Buffers -> BOOLEAN]
  /\ pc \in [Threads -> Labels]
  /\ loc \in [Threads -> Locals]
  /\ ops \in [Threads -> Nat]

\* The links nx lead from node h through the nodes of q, each of them once.
IsChain(h, nx, q) ==
  /\ q \in Seq(Buffers) /\ q # << >>
  /\ \A i, j \in 1..Len(q) : q[i] = q[j] => i = j
  /\ q[1] = h
  /\ \A i \in 1..Len(q) :
       nx[q[i]] = IF i = Len(q) THEN CntPtr(0, NULL) ELSE CntPtr(1, q[i + 1])

\* The queue that NodeAt walks is such a chain, and bcache.tail is a node of it.
Chained == IsChain(head.ptr, qnext, Chain)
TailQueued == Queued(tail.ptr)

\* A thread that links or has taken a buffer has it alone, off the queue.
Holds(t) == pc[t] \in LinkLabels \cup {"unclaim"}
Held ==
  /\ \A t \in Threads : Holds(t) => loc[t].b \in Buffers /\ ~Queued(loc[t].b)
  /\ \A t, u \in Threads : t # u /\ Holds(t) /\ Holds(u) => loc[t].b # loc[u].b

\* Off the queue a link is NULL only once an enqueuer has reset it: this is
\* what a CAS of the link from NULL relies on.
Fresh(b) == \E t \in Threads : pc[t] \in ResetLabels /\ loc[t].b = b
NextWords ==
  \A b \in Buffers : ~Queued(b) => 
     IF Fresh(b) THEN qnext[b] = CntPtr(0, NULL) ELSE qnext[b] # CntPtr(0, NULL)

\* in_q is set for what is queued, but for the sentinel, and for what is linked.
Claimed ==
  /\ \A b \in Buffers : Queued(b) /\ b # head.ptr => in_q[b]
  /\ \A t \in Threads : pc[t] \in LinkLabels => in_q[loc[t].b]

\* A word read earlier: the counter tells whether it has changed since.
Older(w, now) == /\ w \in Words
                 /\ w.cnt <= now.cnt
                 /\ w.cnt = now.cnt => w = now
ReadOK(t) ==
  /\ pc[t] \in TailLabels => Older(loc[t].tail, tail)
  /\ pc[t] \in HeadLabels => Older(loc[t].head, head)

(***************************************************************************)
(* While the word a thread read first is still there, what it read after   *)
(* it holds too: this is why the code reads bcache.tail or bcache.head     *)
(* again before it uses the link.                                          *)
(***************************************************************************)
NextRead(t) == tail = loc[t].tail => loc[t].next = qnext[tail.ptr]
EnqOK(t) ==
  /\ pc[t] = "enq_check" /\ loc[t].next.ptr # NULL => NextRead(t)
  /\ pc[t] = "enq_help" => loc[t].next.ptr # NULL /\ NextRead(t)
  /\ pc[t] = "link" => loc[t].next = CntPtr(0, NULL) /\ ~Fresh(loc[t].tail.ptr)
  /\ pc[t] = "swing" => /\ loc[t].b \in Buffers
                        /\ tail = loc[t].tail => qnext[tail.ptr] = CntPtr(1, loc[t].b)

\* The head is not the last node: dequeue may move it on.
Ahead(t) == head = loc[t].head /\ loc[t].head.ptr # loc[t].tail.ptr
DeqOK(t) ==
  /\ pc[t] \in {"deq_next", "deq_check", "take"} /\ Ahead(t) => tail.ptr # head.ptr
  /\ pc[t] \in {"deq_check", "take"} /\ Ahead(t) => loc[t].next = qnext[head.ptr]
  /\ pc[t] = "take" => loc[t].head.ptr # loc[t].tail.ptr
  /\ (/\ pc[t] = "deq_check" /\ loc[t].head.ptr = loc[t].tail.ptr
      /\ loc[t].next.ptr # NULL) => NextRead(t)
  /\ pc[t] = "deq_help" => loc[t].next.ptr # NULL /\ NextRead(t)

ThreadOK(t) == ReadOK(t) /\ EnqOK(t) /\ DeqOK(t)

IInv == /\ TypeOK /\ Chained /\ TailQueued /\ Held /\ NextWords /\ Claimed
        /\ \A t \in Threads : ThreadOK(t)

-----------------------------------------------------------------------------
(* The walk from the head *)

LEMMA Buf == /\ NBUF \in Nat \ {0} /\ NULL \notin Buffers
             /\ NULL = NBUF + 1 /\ Buffers = 0..NBUF /\ Buffers \subseteq Nat
BY QueueAssumption DEF Buffers, NULL

\* The link of each node of a chain.
LEMMA ChainLink ==
  ASSUME NEW h, NEW nx, NEW q, IsChain(h, nx, q), NEW i \in 1..Len(q)
  PROVE  /\ q[i] \in Buffers /\ q[i] # NULL
         /\ nx[q[i]].ptr = IF i = Len(q) THEN NULL ELSE q[i + 1]
         /\ nx[q[i]].cnt = IF i = Len(q) THEN 0 ELSE 1
<1>1. q[i] \in Buffers /\ Len(q) \in Nat
  BY DEF IsChain
<1>2. nx[q[i]] = IF i = Len(q) THEN CntPtr(0, NULL) ELSE CntPtr(1, q[i + 1])
  BY DEF IsChain
<1>3. CASE i = Len(q)
  BY <1>1, <1>2, <1>3, Buf DEF CntPtr
<1>4. CASE i # Len(q)
  BY <1>1, <1>2, <1>4, Buf DEF CntPtr
<1> QED
  BY <1>3, <1>4

\* A walk along the links from node h meets the nodes of the chain in order.
LEMMA Walk ==
  ASSUME NEW h, NEW nx, NEW q, IsChain(h, nx, q),
         NEW f, \A i \in 0..(NBUF + 1) :
                  f[i] = IF i = 0 THEN h
                         ELSE IF f[i - 1] = NULL THEN NULL ELSE nx[f[i - 1]].ptr
  PROVE  \A i \in 0..(NBUF + 1) : f[i] = IF i < Len(q) THEN q[i + 1] ELSE NULL
<1> DEFINE Ok(k) == f[k] = IF k < Len(q) THEN q[k + 1] ELSE NULL
           Bad == {k \in 0..(NBUF + 1) : ~Ok(k)}
           Less == {p \in Nat \X Nat : p[1] < p[2]}
<1> SUFFICES ASSUME Bad # {} PROVE FALSE
  OBVIOUS
<1>1. PICK k \in Bad : \A m \in Nat : m < k => m \notin Bad
  <2>1. IsWellFoundedOn(Less, Nat)
    BY NatLessThanWellFounded DEF OpToRel
  <2>2. Bad \subseteq Nat
    BY Buf
  <2>3. PICK k \in Bad : \A m \in Bad : ~(<<m, k>> \in Less)
    BY <2>1, <2>2, WFMin
  <2> QED
    BY <2>2, <2>3
<1>2. k # 0
  BY Buf DEF IsChain
<1>3. k - 1 \in 0..(NBUF + 1) /\ Ok(k - 1)
  <2>1. k \in 0..(NBUF + 1) /\ k \in Nat /\ k - 1 \in Nat /\ k - 1 < k
    BY <1>2, Buf
  <2>2. k - 1 \in 0..(NBUF + 1)
    BY <2>1, Buf
  <2> QED
    BY <1>1, <2>1, <2>2
<1>4. f[k] = IF f[k - 1] = NULL THEN NULL ELSE nx[f[k - 1]].ptr
  BY <1>2
<1>5. CASE k - 1 < Len(q)
  <2>0. Len(q) \in Nat /\ k \in Nat
    BY <1>1, Buf DEF IsChain
  <2>1. k \in 1..Len(q) /\ f[k - 1] = q[k] /\ q[k] # NULL
    <3>1. k \in 1..Len(q) /\ (k - 1) + 1 = k
      BY <1>2, <1>5, <2>0
    <3>2. q[k] # NULL
      BY <3>1, ChainLink
    <3>3. f[k - 1] = q[(k - 1) + 1]
      BY <1>3, <1>5
    <3> QED
      BY <3>1, <3>2, <3>3
  <2> QED
    <3>1. nx[q[k]].ptr = IF k = Len(q) THEN NULL ELSE q[k + 1]
      BY <2>1, ChainLink
    <3>2. k < Len(q) <=> k # Len(q)
      BY <2>1
    <3>3. f[k] = IF k < Len(q) THEN q[k + 1] ELSE NULL
      BY <1>4, <2>1, <3>1, <3>2
    <3> QED
      BY <1>1, <3>3
<1>6. CASE ~(k - 1 < Len(q))
  BY <1>1, <1>3, <1>4, <1>6, Buf DEF IsChain
<1> QED
  BY <1>5, <1>6

\* Such a walk exists: it is the chain itself.
LEMMA WalkExists ==
  ASSUME NEW h, NEW nx, NEW q, IsChain(h, nx, q)
  PROVE  \E f : f = [i \in 0..(NBUF + 1) |->
                       IF i = 0 THEN h
                       ELSE IF f[i - 1] = NULL THEN NULL ELSE nx[f[i - 1]].ptr]
<1> DEFINE g == [i \in 0..(NBUF + 1) |-> IF i < Len(q) THEN q[i + 1] ELSE NULL]
<1>1. \A i \in 0..(NBUF + 1) :
        g[i] = IF i = 0 THEN h
               ELSE IF g[i - 1] = NULL THEN NULL ELSE nx[g[i - 1]].ptr
  <2> SUFFICES ASSUME NEW i \in 0..(NBUF + 1), i # 0
               PROVE  g[i] = IF g[i - 1] = NULL THEN NULL ELSE nx[g[i - 1]].ptr
    BY Buf DEF IsChain
  <2>1. i - 1 \in 0..(NBUF + 1)
    BY Buf
  <2>2. CASE i - 1 < Len(q)
    <3>1. i \in 1..Len(q) /\ g[i - 1] = q[i] /\ q[i] # NULL
      BY <2>1, <2>2, Buf DEF IsChain
    <3> QED
      <4>1. nx[q[i]].ptr = IF i = Len(q) THEN NULL ELSE q[i + 1]
        BY <3>1, ChainLink
      <4>2. i < Len(q) <=> i # Len(q)
        BY <3>1
      <4> QED
        BY <3>1, <4>1, <4>2
  <2>3. CASE ~(i - 1 < Len(q))
    BY <2>1, <2>3, Buf DEF IsChain
  <2> QED
    BY <2>2, <2>3
<1>2. g = [i \in 0..(NBUF + 1) |->
             IF i = 0 THEN h
             ELSE IF g[i - 1] = NULL THEN NULL ELSE nx[g[i - 1]].ptr]
  BY <1>1
<1> HIDE DEF g
<1> QED
  BY <1>2

\* A chain has no more nodes than there are buffers.
LEMMA ChainFits ==
  ASSUME NEW h, NEW nx, NEW q, IsChain(h, nx, q)
  PROVE  Len(q) \in 1..(NBUF + 1)
<1>1. IsFiniteSet(Buffers) /\ Cardinality(Buffers) = NBUF + 1
  BY Buf, FS_Interval
<1>2. Len(q) \in Nat /\ Len(q) # 0 /\ q \in [1..Len(q) -> Buffers]
  BY DEF IsChain
<1>3. IsFiniteSet(1..Len(q)) /\ Cardinality(1..Len(q)) = Len(q)
  BY <1>2, FS_Interval
<1>4. q \in Injection(1..Len(q), Buffers)
  BY <1>2 DEF IsChain, Injection, IsInjective
<1>5. Cardinality(1..Len(q)) <= Cardinality(Buffers)
  BY <1>1, <1>4, FS_Injection
<1> QED
  BY <1>1, <1>2, <1>3, <1>5, Buf

\* What a recursive function such as NodeAt chooses.
LEMMA WalkIs ==
  ASSUME NEW h, NEW nx, NEW q, IsChain(h, nx, q),
         NEW w, w = CHOOSE f : f = [i \in 0..(NBUF + 1) |->
                                      IF i = 0 THEN h
                                      ELSE IF f[i - 1] = NULL THEN NULL
                                           ELSE nx[f[i - 1]].ptr]
  PROVE  \A i \in 0..(NBUF + 1) : w[i] = IF i < Len(q) THEN q[i + 1] ELSE NULL
<1> DEFINE P(f) == f = [i \in 0..(NBUF + 1) |->
                         IF i = 0 THEN h
                         ELSE IF f[i - 1] = NULL THEN NULL ELSE nx[f[i - 1]].ptr]
<1>1. \E f : P(f)
  BY WalkExists
<1>2. w = CHOOSE f : P(f)
  OBVIOUS
<1> HIDE DEF P
<1>3. P(w)
  BY <1>1, <1>2, Zenon
<1>4. \A i \in 0..(NBUF + 1) :
        w[i] = IF i = 0 THEN h
               ELSE IF w[i - 1] = NULL THEN NULL ELSE nx[w[i - 1]].ptr
  BY <1>3 DEF P
<1> QED
  BY <1>4, Walk

\* A chain from the head is the queue, in this state and in the next.
LEMMA ChainIs ==
  ASSUME NEW q, IsChain(head.ptr, qnext, q)
  PROVE  Chain = q /\ Length = Len(q)
<1>1. \A i \in 0..(NBUF + 1) : NodeAt[i] = IF i < Len(q) THEN q[i + 1] ELSE NULL
  <2> DEFINE h == head.ptr
  <2>1. NodeAt = CHOOSE f : f = [i \in 0..(NBUF + 1) |->
                                      IF i = 0 THEN h
                                      ELSE IF f[i - 1] = NULL THEN NULL
                                           ELSE qnext[f[i - 1]].ptr]
    BY DEF NodeAt
  <2>2. IsChain(h, qnext, q)
    OBVIOUS
  <2> HIDE DEF h
  <2> QED
    BY <2>1, <2>2, WalkIs
<1>2. Len(q) \in 1..(NBUF + 1)
  BY ChainFits
<1>3. \A i \in 0..(NBUF + 1) : NodeAt[i] # NULL <=> i < Len(q)
  <2>1. \A i \in 1..Len(q) : q[i] # NULL
    BY ChainLink
  <2> QED
    BY <1>1, <1>2, <2>1, Buf
<1>4. Length = Len(q)
  <2>1. {i \in 0..(NBUF + 1) : NodeAt[i] # NULL} = 0..(Len(q) - 1)
    BY <1>2, <1>3, Buf
  <2>2. Cardinality(0..(Len(q) - 1)) = Len(q)
    BY <1>2, FS_Interval
  <2> QED
    BY <2>1, <2>2 DEF Length
<1>5. q \in [1..Len(q) -> Buffers]
  BY DEF IsChain
<1>6. \A i \in 1..Len(q) : NodeAt[i - 1] = q[i]
  BY <1>1, <1>2, Buf
<1> QED
  BY <1>4, <1>5, <1>6 DEF Chain

LEMMA ChainIsPrimed ==
  ASSUME NEW q, IsChain(head'.ptr, qnext', q)
  PROVE  Chain' = q /\ Length' = Len(q)
<1>1. \A i \in 0..(NBUF + 1) : NodeAt'[i] = IF i < Len(q) THEN q[i + 1] ELSE NULL
  <2> DEFINE h == head'.ptr
  <2>1. NodeAt' = CHOOSE f : f = [i \in 0..(NBUF + 1) |->
                                      IF i = 0 THEN h
                                      ELSE IF f[i - 1] = NULL THEN NULL
                                           ELSE qnext'[f[i - 1]].ptr]
    BY DEF NodeAt
  <2>2. IsChain(h, qnext', q)
    OBVIOUS
  <2> HIDE DEF h
  <2> QED
    BY <2>1, <2>2, WalkIs
<1>2. Len(q) \in 1..(NBUF + 1)
  BY ChainFits
<1>3. \A i \in 0..(NBUF + 1) : NodeAt'[i] # NULL <=> i < Len(q)
  <2>1. \A i \in 1..Len(q) : q[i] # NULL
    BY ChainLink
  <2> QED
    BY <1>1, <1>2, <2>1, Buf
<1>4. Length' = Len(q)
  <2>1. {i \in 0..(NBUF + 1) : NodeAt'[i] # NULL} = 0..(Len(q) - 1)
    BY <1>2, <1>3, Buf
  <2>2. Cardinality(0..(Len(q) - 1)) = Len(q)
    BY <1>2, FS_Interval
  <2> QED
    BY <2>1, <2>2 DEF Length
<1>5. q \in [1..Len(q) -> Buffers]
  BY DEF IsChain
<1>6. \A i \in 1..Len(q) : NodeAt'[i - 1] = q[i]
  BY <1>1, <1>2, Buf
<1> QED
  BY <1>4, <1>5, <1>6 DEF Chain

-----------------------------------------------------------------------------
(* Chains *)

In(q, b) == \E i \in 1..Len(q) : q[i] = b

LEMMA QueuedIs ==
  ASSUME Chained
  PROVE  \A b : Queued(b) <=> In(Chain, b)
BY ChainIs DEF Chained, Queued, In

\* Links of nodes outside the chain do not matter to it.
LEMMA ChainKept ==
  ASSUME NEW h, NEW nx, NEW nx2, NEW q, IsChain(h, nx, q),
         \A b : In(q, b) => nx2[b] = nx[b]
  PROVE  IsChain(h, nx2, q)
BY DEF IsChain, In

\* A fresh node linked behind the last one lengthens the chain.
LEMMA ChainLonger ==
  ASSUME NEW h, NEW nx, NEW nx2, NEW q, IsChain(h, nx, q),
         NEW n, In(q, n), nx[n] = CntPtr(0, NULL),
         NEW b \in Buffers, ~In(q, b), nx[b] = CntPtr(0, NULL),
         nx2[n] = CntPtr(1, b), \A m \in Buffers : m # n => nx2[m] = nx[m]
  PROVE  /\ IsChain(h, nx2, Append(q, b))
         /\ \A c : In(Append(q, b), c) <=> In(q, c) \/ c = b
<1>1. /\ Len(q) \in Nat /\ Len(q) # 0 /\ q \in Seq(Buffers)
      /\ \A i \in 1..Len(q) : q[i] \in Buffers
  BY DEF IsChain
<1>2. q[Len(q)] = n
  <2>1. PICK i \in 1..Len(q) : q[i] = n
    BY DEF In
  <2>2. nx[n].ptr = NULL
    BY Buf DEF CntPtr
  <2>3. CASE i = Len(q)
    BY <2>1, <2>3
  <2>4. CASE i # Len(q)
    <3>1. i + 1 \in 1..Len(q) /\ nx[n].ptr = q[i + 1]
      BY <1>1, <2>1, <2>4, ChainLink
    <3> QED
      BY <1>1, <2>2, <3>1, Buf
  <2> QED
    BY <2>3, <2>4
<1> DEFINE r == Append(q, b)
<1>3. /\ r \in Seq(Buffers) /\ Len(r) = Len(q) + 1 /\ r[Len(q) + 1] = b
      /\ \A i \in 1..Len(q) : r[i] = q[i]
  BY <1>1
<1>4. r # << >> /\ r[1] = h
  BY <1>1, <1>3 DEF IsChain
<1> HIDE DEF r
<1>5. \A c : In(r, c) <=> In(q, c) \/ c = b
  BY <1>1, <1>3 DEF In
<1>6. \A i, j \in 1..Len(r) : r[i] = r[j] => i = j
  <2>1. \A i \in 1..Len(q) : r[i] # b
    BY <1>3 DEF In
  <2> QED
    BY <1>1, <1>3, <2>1 DEF IsChain
<1>7. \A i \in 1..Len(r) :
        nx2[r[i]] = IF i = Len(r) THEN CntPtr(0, NULL) ELSE CntPtr(1, r[i + 1])
  <2> SUFFICES ASSUME NEW i \in 1..Len(r)
               PROVE  nx2[r[i]] = IF i = Len(r) THEN CntPtr(0, NULL)
                                  ELSE CntPtr(1, r[i + 1])
    OBVIOUS
  <2>1. CASE i = Len(r)
    <3>1. b # n
      BY DEF In
    <3> QED
      BY <1>1, <1>3, <2>1, <3>1
  <2>2. CASE i = Len(q)
    BY <1>1, <1>2, <1>3, <2>2
  <2>3. CASE i # Len(q) /\ i # Len(r)
    <3>1. i \in 1..Len(q) /\ i + 1 \in 1..Len(q) /\ r[i] = q[i] /\ r[i + 1] = q[i + 1]
      BY <1>1, <1>3, <2>3
    <3>2. q[i] # n /\ q[i] \in Buffers
      BY <1>1, <1>2, <2>3, <3>1 DEF IsChain
    <3>3. nx[q[i]] = CntPtr(1, q[i + 1])
      BY <1>1, <2>3, <3>1 DEF IsChain
    <3> QED
      BY <2>3, <3>1, <3>2, <3>3
  <2> QED
    BY <2>1, <2>2, <2>3
<1>8. IsChain(h, nx2, r)
  BY <1>3, <1>4, <1>6, <1>7 DEF IsChain
<1> QED
  BY <1>5, <1>8 DEF r

\* Without its first node, when there is a second, the chain is a chain.
LEMMA ChainShorter ==
  ASSUME NEW h, NEW nx, NEW q, IsChain(h, nx, q), nx[h] # CntPtr(0, NULL)
  PROVE  /\ Len(q) > 1 /\ h = Head(q) /\ nx[h] = CntPtr(1, q[2])
         /\ IsChain(nx[h].ptr, nx, Tail(q))
         /\ \A c : In(Tail(q), c) <=> In(q, c) /\ c # h
<1>1. /\ Len(q) \in Nat /\ Len(q) # 0 /\ q \in Seq(Buffers) /\ q # << >>
      /\ h = q[1] /\ h = Head(q)
      /\ \A i \in 1..Len(q) : q[i] \in Buffers
  BY DEF IsChain
<1>2. Len(q) > 1 /\ nx[h] = CntPtr(1, q[2])
  BY <1>1 DEF IsChain
<1>3. nx[h].ptr = q[2]
  BY <1>2 DEF CntPtr
<1> DEFINE r == Tail(q)
<1>4. /\ r \in Seq(Buffers) /\ Len(r) = Len(q) - 1
      /\ \A i \in 1..Len(r) : r[i] = q[i + 1]
  BY <1>1
<1> HIDE DEF r
<1>5. r # << >> /\ r[1] = q[2]
  <2>1. Len(r) # 0 /\ 1 \in 1..Len(r)
    BY <1>1, <1>2, <1>4
  <2>2. r[1] = q[1 + 1]
    BY <1>4, <2>1
  <2> QED
    BY <2>1, <2>2
<1>6. \A c : In(r, c) <=> In(q, c) /\ c # h
  <2> SUFFICES ASSUME NEW c PROVE In(r, c) <=> In(q, c) /\ c # h
    OBVIOUS
  <2>1. ASSUME In(r, c) PROVE In(q, c) /\ c # h
    <3>1. PICK i \in 1..Len(r) : r[i] = c
      BY <2>1 DEF In
    <3>2. i + 1 \in 1..Len(q) /\ q[i + 1] = c /\ i + 1 # 1 /\ 1 \in 1..Len(q)
      BY <1>1, <1>4, <3>1
    <3> QED
      BY <1>1, <3>2 DEF In, IsChain
  <2>2. ASSUME In(q, c), c # h PROVE In(r, c)
    <3>1. PICK i \in 1..Len(q) : q[i] = c
      BY <2>2 DEF In
    <3>2. i - 1 \in 1..Len(r) /\ r[i - 1] = c
      BY <1>1, <1>4, <2>2, <3>1
    <3> QED
      BY <3>2 DEF In
  <2> QED
    BY <2>1, <2>2
<1>7. \A i, j \in 1..Len(r) : r[i] = r[j] => i = j
  <2> SUFFICES ASSUME NEW i \in 1..Len(r), NEW j \in 1..Len(r), r[i] = r[j]
               PROVE  i = j
    OBVIOUS
  <2>1. i + 1 \in 1..Len(q) /\ j + 1 \in 1..Len(q) /\ q[i + 1] = q[j + 1]
    BY <1>1, <1>4
  <2>2. i + 1 = j + 1
    BY <2>1 DEF IsChain
  <2> QED
    BY <2>2, <1>4
<1>8. \A i \in 1..Len(r) :
        nx[r[i]] = IF i = Len(r) THEN CntPtr(0, NULL) ELSE CntPtr(1, r[i + 1])
  <2> SUFFICES ASSUME NEW i \in 1..Len(r)
               PROVE  nx[r[i]] = IF i = Len(r) THEN CntPtr(0, NULL)
                                 ELSE CntPtr(1, r[i + 1])
    OBVIOUS
  <2>1. i + 1 \in 1..Len(q) /\ r[i] = q[i + 1] /\ (i = Len(r) <=> i + 1 = Len(q))
    BY <1>1, <1>4
  <2>2. nx[q[i + 1]] = IF i + 1 = Len(q) THEN CntPtr(0, NULL)
                       ELSE CntPtr(1, q[i + 1 + 1])
    BY <2>1 DEF IsChain
  <2>3. CASE i = Len(r)
    BY <2>1, <2>2, <2>3
  <2>4. CASE i # Len(r)
    <3>1. i + 1 \in 1..Len(r) /\ r[i + 1] = q[i + 1 + 1]
      BY <1>1, <1>4, <2>4
    <3> QED
      BY <2>1, <2>2, <2>4, <3>1
  <2> QED
    BY <2>3, <2>4
<1>9. IsChain(nx[h].ptr, nx, r)
  BY <1>3, <1>4, <1>5, <1>7, <1>8 DEF IsChain
<1> QED
  BY <1>1, <1>2, <1>6, <1>9 DEF r

-----------------------------------------------------------------------------
(* What the steps do to the queue. *)

LEMMA ChainFacts ==
  ASSUME Chained
  PROVE  /\ head.ptr \in Buffers /\ Queued(head.ptr)
         /\ \A b : Queued(b) => b \in Buffers
         /\ \A b : Queued(b) /\ b # head.ptr => qnext[head.ptr] # CntPtr(0, NULL)
         /\ \A b : Queued(b) /\ qnext[b] # CntPtr(0, NULL)
              => \E c \in Buffers : /\ qnext[b] = CntPtr(1, c)
                                    /\ Queued(c) /\ c # head.ptr
<1> DEFINE q == Chain
<1>1. /\ IsChain(head.ptr, qnext, q)
      /\ \A b : Queued(b) <=> In(q, b)
  BY QueuedIs DEF Chained
<1> HIDE DEF q
<1>2. /\ Len(q) \in Nat /\ 1 \in 1..Len(q) /\ q[1] = head.ptr
      /\ \A i \in 1..Len(q) : q[i] \in Buffers
  BY <1>1 DEF IsChain
<1>3. head.ptr \in Buffers /\ In(q, head.ptr) /\ \A b : In(q, b) => b \in Buffers
  BY <1>2 DEF In
<1>4. ASSUME NEW b, In(q, b), b # head.ptr
      PROVE  qnext[head.ptr] # CntPtr(0, NULL)
  <2>1. Len(q) # 1
    BY <1>2, <1>4 DEF In
  <2>2. qnext[q[1]] = CntPtr(1, q[1 + 1])
    BY <1>1, <1>2, <2>1 DEF IsChain
  <2> QED
    BY <1>2, <2>2 DEF CntPtr
<1>5. ASSUME NEW b, In(q, b), qnext[b] # CntPtr(0, NULL)
      PROVE  \E c \in Buffers : /\ qnext[b] = CntPtr(1, c)
                                /\ In(q, c) /\ c # head.ptr
  <2>1. PICK i \in 1..Len(q) : q[i] = b
    BY <1>5 DEF In
  <2>2. i # Len(q) /\ qnext[b] = CntPtr(1, q[i + 1])
    BY <1>1, <1>5, <2>1 DEF IsChain
  <2>3. i + 1 \in 1..Len(q) /\ i + 1 # 1
    BY <1>2, <2>1, <2>2
  <2>4. q[i + 1] # head.ptr
    BY <1>1, <1>2, <2>3 DEF IsChain
  <2> QED
    BY <1>2, <2>2, <2>3, <2>4 DEF In
<1> QED
  BY <1>1, <1>3, <1>4, <1>5

LEMMA QueuedIsPrimed ==
  ASSUME NEW q, IsChain(head'.ptr, qnext', q)
  PROVE  /\ Chain' = q /\ Chained'
         /\ \A b : Queued(b)' <=> In(q, b)
<1>1. Chain' = q /\ Length' = Len(q)
  BY ChainIsPrimed
<1>2. Chained'
  BY <1>1 DEF Chained
<1>3. \A b : Queued(b)' <=> In(q, b)
  BY <1>1 DEF Queued, In
<1> QED
  BY <1>1, <1>2, <1>3

LEMMA QueueKept ==
  ASSUME Chained, head'.ptr = head.ptr,
         \A b : Queued(b) => qnext'[b] = qnext[b]
  PROVE  /\ Chain' = Chain /\ Chained'
         /\ \A b : Queued(b)' <=> Queued(b)
<1> DEFINE q == Chain
<1>1. IsChain(head.ptr, qnext, q) /\ \A b : Queued(b) <=> In(q, b)
  BY QueuedIs DEF Chained
<1> HIDE DEF q
<1>2. IsChain(head'.ptr, qnext', q)
  BY <1>1, ChainKept
<1>3. Chain' = q /\ Chained' /\ \A b : Queued(b)' <=> In(q, b)
  BY <1>2, QueuedIsPrimed
<1> QED
  BY <1>1, <1>3 DEF q

LEMMA QueueLonger ==
  ASSUME Chained, head' = head,
         NEW n, Queued(n), qnext[n] = CntPtr(0, NULL),
         NEW b \in Buffers, ~Queued(b), qnext[b] = CntPtr(0, NULL),
         qnext'[n] = CntPtr(1, b), \A m \in Buffers : m # n => qnext'[m] = qnext[m]
  PROVE  /\ Chain' = Append(Chain, b) /\ Chained'
         /\ \A c : Queued(c)' <=> Queued(c) \/ c = b
<1> DEFINE q == Chain
<1>1. IsChain(head.ptr, qnext, q) /\ \A c : Queued(c) <=> In(q, c)
  BY QueuedIs DEF Chained
<1> HIDE DEF q
<1>2. /\ IsChain(head.ptr, qnext', Append(q, b))
      /\ \A c : In(Append(q, b), c) <=> In(q, c) \/ c = b
  BY <1>1, ChainLonger
<1>3. Chain' = Append(q, b) /\ Chained' /\ \A c : Queued(c)' <=> In(Append(q, b), c)
  BY <1>2, QueuedIsPrimed
<1> QED
  BY <1>1, <1>2, <1>3 DEF q

LEMMA QueueShorter ==
  ASSUME Chained, qnext' = qnext, qnext[head.ptr] # CntPtr(0, NULL),
         head'.ptr = qnext[head.ptr].ptr
  PROVE  /\ Len(Chain) > 1 /\ head.ptr = Head(Chain)
         /\ Chain' = Tail(Chain) /\ Chained'
         /\ \A c : Queued(c)' <=> Queued(c) /\ c # head.ptr
<1> DEFINE q == Chain
           h == head.ptr
<1>1. IsChain(h, qnext, q) /\ \A c : Queued(c) <=> In(q, c)
  BY QueuedIs DEF Chained
<1>2. qnext[h] # CntPtr(0, NULL) /\ head'.ptr = qnext[h].ptr /\ h = head.ptr
  OBVIOUS
<1> HIDE DEF q, h
<1>3. /\ Len(q) > 1 /\ h = Head(q)
      /\ IsChain(qnext[h].ptr, qnext, Tail(q))
      /\ \A c : In(Tail(q), c) <=> In(q, c) /\ c # h
  BY <1>1, <1>2, ChainShorter
<1>4. Chain' = Tail(q) /\ Chained' /\ \A c : Queued(c)' <=> In(Tail(q), c)
  BY <1>2, <1>3, QueuedIsPrimed
<1> QED
  BY <1>1, <1>2, <1>3, <1>4 DEF q

-----------------------------------------------------------------------------
(* The invariant. *)

\* The words a link holds: NULL with counter 0, a buffer with counter 1.
LEMMA NullNext ==
  /\ \A w \in Nexts : /\ w.ptr = NULL => w = CntPtr(0, NULL)
                      /\ w.ptr # NULL => w.ptr \in Buffers /\ w = CntPtr(1, w.ptr)
                      /\ w # CntPtr(0, NULL) => w.ptr # NULL
  /\ CntPtr(0, NULL).ptr = NULL /\ CntPtr(0, NULL).cnt = 0
  /\ \A c, p : CntPtr(c, p).cnt = c /\ CntPtr(c, p).ptr = p
BY Buf DEF Nexts, CntPtr

LEMMA InitQueue ==
  ASSUME Init
  PROVE  /\ Chained /\ TailQueued
         /\ \A b \in Buffers : Queued(b)
<1> DEFINE q == [i \in 1..(NBUF + 1) |-> IF i = 1 THEN NBUF ELSE i - 2]
<1>1. IsChain(head.ptr, qnext, q)
  <2>1. q \in [1..(NBUF + 1) -> Buffers] /\ Len(q) = NBUF + 1 /\ q \in Seq(Buffers)
    BY Buf
  <2>2. q # << >>
    BY <2>1, Buf
  <2>3. q[1] = head.ptr
    BY Buf DEF Init, CntPtr
  <2>4. \A i, j \in 1..Len(q) : q[i] = q[j] => i = j
    BY <2>1, Buf
  <2>5. \A i \in 1..Len(q) :
          qnext[q[i]] = IF i = Len(q) THEN CntPtr(0, NULL) ELSE CntPtr(1, q[i + 1])
    BY <2>1, Buf DEF Init
  <2> QED
    BY <2>1, <2>2, <2>3, <2>4, <2>5 DEF IsChain
<1>2. Chain = q /\ Chained /\ Length = Len(q) /\ Len(q) = NBUF + 1
  BY <1>1, ChainIs, Buf DEF Chained
<1>4. TailQueued
  <2>1. NBUF + 1 \in 1..Length /\ Chain[NBUF + 1] = tail.ptr
    BY <1>2, Buf DEF Init, CntPtr
  <2> QED
    BY <2>1 DEF TailQueued, Queued
<1>5. \A b \in Buffers : Queued(b)
  <2> SUFFICES ASSUME NEW b \in Buffers PROVE \E i \in 1..Length : Chain[i] = b
    BY DEF Queued
  <2>1. CASE b = NBUF
    BY <1>2, <2>1, Buf
  <2>2. CASE b # NBUF
    <3>1. b + 2 \in 1..Length /\ Chain[b + 2] = b
      BY <1>2, <2>2, Buf
    <3> QED
      BY <3>1
  <2> QED
    BY <2>1, <2>2
<1> QED
  BY <1>2, <1>4, <1>5

LEMMA InitInv == Init => IInv
<1> SUFFICES ASSUME Init PROVE IInv
  OBVIOUS
<1>2. Chained /\ TailQueued
  BY InitQueue
<1>3. TypeOK
  BY Buf DEF Init, TypeOK, Words, Nexts, Locals, Labels, NoLocals, CntPtr
<1>5. \A b \in Buffers : Queued(b)
  BY InitQueue
<1>6. \A t \in Threads : pc[t] = "idle"
  BY DEF Init
<1>7. Held /\ NextWords
  BY <1>5, <1>6 DEF Held, NextWords, Holds, LinkLabels
<1>8. Claimed
  BY <1>5, <1>6, Buf DEF Init, Claimed, LinkLabels, CntPtr
<1>9. \A t \in Threads : ThreadOK(t)
  BY <1>6 DEF ThreadOK, ReadOK, EnqOK, DeqOK, TailLabels, HeadLabels
<1> QED
  BY <1>2, <1>3, <1>7, <1>8, <1>9 DEF IInv

\* What one thread's step may do to the words another thread has read.
LEMMA Others ==
  ASSUME IInv, TypeOK', NEW u \in Threads, pc'[u] = pc[u], loc'[u] = loc[u],
         head' = head \/ head'.cnt > head.cnt,
         tail' = tail \/ tail'.cnt > tail.cnt,
         head' = head /\ tail'.ptr = head.ptr => tail.ptr = head.ptr,
         \A b : Queued(b) /\ qnext[b] # CntPtr(0, NULL) => qnext'[b] = qnext[b],
         pc[u] = "link" /\ Fresh(loc[u].tail.ptr)' => Fresh(loc[u].tail.ptr)
  PROVE  ThreadOK(u)'
<1>1. /\ Queued(tail.ptr) /\ Queued(head.ptr) /\ tail \in Words /\ head \in Words
      /\ tail' \in Words /\ head' \in Words
      /\ (tail.ptr # head.ptr => qnext[head.ptr] # CntPtr(0, NULL))
  BY ChainFacts DEF IInv, TailQueued, TypeOK
<1>2. ThreadOK(u) /\ loc[u] \in Locals
  BY DEF IInv, TypeOK
<1>3. loc[u].next \in Nexts
  BY <1>2 DEF Locals
<1>4. /\ pc[u] \in TailLabels /\ tail' # tail => tail' # loc[u].tail
      /\ pc[u] \in HeadLabels /\ head' # head => head' # loc[u].head
  BY <1>1, <1>2 DEF ThreadOK, ReadOK, Older, Words
<1>5. ReadOK(u)'
  BY <1>1, <1>2, <1>4 DEF ThreadOK, ReadOK, Older, Words
<1>6. ASSUME tail' = loc[u].tail, pc[u] \in TailLabels, NextRead(u),
             loc[u].next.ptr # NULL
      PROVE  NextRead(u)'
  <2>1. tail' = tail
    BY <1>4, <1>6
  <2>2. qnext[tail.ptr] # CntPtr(0, NULL)
    BY <1>6, <2>1, NullNext DEF NextRead
  <2> QED
    BY <1>1, <1>6, <2>1, <2>2 DEF NextRead
<1>7. EnqOK(u)'
  <2>1. pc[u] = "enq_check" /\ loc[u].next.ptr # NULL => NextRead(u)'
    BY <1>2, <1>6 DEF ThreadOK, EnqOK, TailLabels, NextRead
  <2>2. pc[u] = "enq_help" => loc[u].next.ptr # NULL /\ NextRead(u)'
    BY <1>2, <1>6 DEF ThreadOK, EnqOK, TailLabels, NextRead
  <2>3. pc[u] = "link" => loc[u].next = CntPtr(0, NULL) /\ ~Fresh(loc[u].tail.ptr)'
    BY <1>2 DEF ThreadOK, EnqOK
  <2>4. ASSUME pc[u] = "swing"
        PROVE  /\ loc[u].b \in Buffers
               /\ tail' = loc[u].tail => qnext'[tail'.ptr] = CntPtr(1, loc[u].b)
    <3>1. /\ loc[u].b \in Buffers
          /\ tail = loc[u].tail => qnext[tail.ptr] = CntPtr(1, loc[u].b)
      BY <1>2, <2>4 DEF ThreadOK, EnqOK
    <3>2. ASSUME tail' = loc[u].tail PROVE qnext'[tail'.ptr] = CntPtr(1, loc[u].b)
      <4>1. tail' = tail
        BY <1>4, <2>4, <3>2 DEF TailLabels
      <4> QED
        BY <1>1, <3>1, <3>2, <4>1, NullNext
    <3> QED
      BY <3>1, <3>2
  <2> QED
    BY <2>1, <2>2, <2>3, <2>4 DEF EnqOK
<1>8. DeqOK(u)'
  <2>1. ASSUME pc[u] \in {"deq_next", "deq_check", "take"}, Ahead(u)'
        PROVE  /\ head' = head /\ Ahead(u) /\ tail'.ptr # head'.ptr
               /\ (pc[u] \in {"deq_check", "take"} => loc[u].next = qnext'[head'.ptr])
    <3>1. head' = head /\ Ahead(u)
      BY <1>4, <2>1 DEF Ahead, HeadLabels
    <3>2. tail.ptr # head.ptr /\ qnext[head.ptr] # CntPtr(0, NULL)
      BY <1>1, <1>2, <2>1, <3>1 DEF ThreadOK, DeqOK
    <3> QED
      BY <1>1, <1>2, <2>1, <3>1, <3>2 DEF ThreadOK, DeqOK
  <2>2. pc[u] = "take" => loc[u].head.ptr # loc[u].tail.ptr
    BY <1>2 DEF ThreadOK, DeqOK
  <2>3. pc[u] = "deq_check" /\ loc[u].head.ptr = loc[u].tail.ptr
          /\ loc[u].next.ptr # NULL => NextRead(u)'
    BY <1>2, <1>6 DEF ThreadOK, DeqOK, TailLabels, NextRead
  <2>4. pc[u] = "deq_help" => loc[u].next.ptr # NULL /\ NextRead(u)'
    BY <1>2, <1>6 DEF ThreadOK, DeqOK, TailLabels, NextRead
  <2> QED
    BY <2>1, <2>2, <2>3, <2>4 DEF DeqOK, Ahead
<1> QED
  BY <1>5, <1>7, <1>8 DEF ThreadOK

\* A step of t that changes neither the links nor the head nor the claims.
LEMMA Quiet ==
  ASSUME IInv, TypeOK', NEW t \in Threads,
         \A u \in Threads : u # t => pc'[u] = pc[u] /\ loc'[u] = loc[u],
         head' = head, qnext' = qnext, in_q' = in_q,
         \/ tail' = tail
         \/ tail'.cnt > tail.cnt /\ Queued(tail'.ptr) /\ tail'.ptr # head.ptr,
         pc'[t] \in LinkLabels <=> pc[t] \in LinkLabels,
         pc'[t] \in ResetLabels <=> pc[t] \in ResetLabels,
         pc'[t] = "unclaim" <=> pc[t] = "unclaim",
         Holds(t) => loc'[t].b = loc[t].b,
         (pc'[t] = pc[t] /\ loc'[t] = loc[t]) \/ ThreadOK(t)'
  PROVE  IInv'
<1>1. Chained' /\ \A b : Queued(b)' <=> Queued(b)
  BY QueueKept DEF IInv
<1>2. TailQueued'
  BY <1>1 DEF IInv, TailQueued
<1>3. \A u \in Threads : /\ Holds(u)' <=> Holds(u)
                         /\ Holds(u) => loc'[u].b = loc[u].b
  BY DEF Holds
<1>4. Held'
  BY <1>1, <1>3 DEF IInv, Held
<1>5. \A b : Fresh(b)' <=> Fresh(b)
  BY <1>3 DEF Fresh, Holds, ResetLabels
<1>6. NextWords'
  BY <1>1, <1>5 DEF IInv, NextWords
<1>7. Claimed'
  BY <1>1, <1>3 DEF IInv, Claimed, Holds
<1>8. \A u \in Threads : ThreadOK(u)'
  <2> SUFFICES ASSUME NEW u \in Threads,
                      pc'[u] = pc[u] /\ loc'[u] = loc[u]
               PROVE  ThreadOK(u)'
    OBVIOUS
  <2> QED
    BY <1>5, Others
<1> QED
  BY <1>1, <1>2, <1>4, <1>6, <1>7, <1>8 DEF IInv

\* A pc and locals that change for one thread only.
LEMMA OneMoves ==
  ASSUME TypeOK, NEW t \in Threads, NEW l, Goto(t, l)
  PROVE  /\ pc'[t] = l /\ \A u \in Threads : u # t => pc'[u] = pc[u]
         /\ l \in Labels => pc' \in [Threads -> Labels]
BY DEF TypeOK, Goto

LEMMA OneSets ==
  ASSUME TypeOK, NEW t \in Threads, NEW v
  PROVE  /\ Set(t, "head", v) =>
              /\ \A u \in Threads : u # t => loc'[u] = loc[u]
              /\ loc'[t] = [loc[t] EXCEPT !.head = v]
              /\ loc'[t].head = v /\ loc'[t].b = loc[t].b
              /\ loc'[t].tail = loc[t].tail /\ loc'[t].next = loc[t].next
         /\ Set(t, "tail", v) =>
              /\ \A u \in Threads : u # t => loc'[u] = loc[u]
              /\ loc'[t] = [loc[t] EXCEPT !.tail = v]
              /\ loc'[t].tail = v /\ loc'[t].b = loc[t].b
              /\ loc'[t].head = loc[t].head /\ loc'[t].next = loc[t].next
         /\ Set(t, "next", v) =>
              /\ \A u \in Threads : u # t => loc'[u] = loc[u]
              /\ loc'[t] = [loc[t] EXCEPT !.next = v]
              /\ loc'[t].next = v /\ loc'[t].b = loc[t].b
              /\ loc'[t].head = loc[t].head /\ loc'[t].tail = loc[t].tail
         /\ Set(t, "b", v) =>
              /\ \A u \in Threads : u # t => loc'[u] = loc[u]
              /\ loc'[t] = [loc[t] EXCEPT !.b = v]
              /\ loc'[t].b = v /\ loc'[t].next = loc[t].next
              /\ loc'[t].head = loc[t].head /\ loc'[t].tail = loc[t].tail
BY DEF TypeOK, Locals, Set

\* The types of assignments to the locals.
LEMMA SetTypes ==
  ASSUME TypeOK, NEW t \in Threads, NEW v
  PROVE  /\ v \in Words /\ Set(t, "head", v) => loc' \in [Threads -> Locals]
         /\ v \in Words /\ Set(t, "tail", v) => loc' \in [Threads -> Locals]
         /\ v \in Nexts /\ Set(t, "next", v) => loc' \in [Threads -> Locals]
         /\ v \in Buffers /\ Set(t, "b", v) => loc' \in [Threads -> Locals]
<1>1. loc \in [Threads -> Locals]
  BY DEF TypeOK
<1>2. ASSUME v \in Words, Set(t, "head", v) PROVE loc' \in [Threads -> Locals]
  BY <1>1, <1>2 DEF Locals, Set
<1>3. ASSUME v \in Words, Set(t, "tail", v) PROVE loc' \in [Threads -> Locals]
  BY <1>1, <1>3 DEF Locals, Set
<1>4. ASSUME v \in Nexts, Set(t, "next", v) PROVE loc' \in [Threads -> Locals]
  BY <1>1, <1>4 DEF Locals, Set
<1>5. ASSUME v \in Buffers, Set(t, "b", v) PROVE loc' \in [Threads -> Locals]
  BY <1>1, <1>5 DEF Locals, Set
<1> QED
  BY <1>2, <1>3, <1>4, <1>5

LEMMA ReturnSets ==
  ASSUME TypeOK, NEW t \in Threads, Return(t)
  PROVE  /\ pc'[t] = "idle" /\ loc'[t] = NoLocals
         /\ pc' \in [Threads -> Labels] /\ loc' \in [Threads -> Locals]
         /\ \A u \in Threads : u # t => pc'[u] = pc[u] /\ loc'[u] = loc[u]
<1>1. NoLocals \in Locals
  BY DEF NoLocals, Locals, Words, Nexts
<1> QED
  BY <1>1 DEF TypeOK, Return, Goto, Labels

LEMMA CallSets ==
  ASSUME TypeOK, NEW t \in Threads, Call(t)
  PROVE  pc[t] = "idle" /\ ops' \in [Threads -> Nat]
BY DEF TypeOK, Call, At

\* A CAS of bcache.tail that moves it, if at all, to the node after it.
LEMMA TailMoves ==
  ASSUME IInv, NEW t \in Threads, NEW p, MoveTail(t, p), Older(loc[t].tail, tail),
         tail = loc[t].tail => p # NULL /\ qnext[tail.ptr].ptr = p
  PROVE  /\ tail' \in Words
         /\ \/ tail' = tail
            \/ tail'.cnt > tail.cnt /\ Queued(tail'.ptr) /\ tail'.ptr # head.ptr
<1>1. tail \in Words /\ qnext[tail.ptr] \in Nexts /\ Queued(tail.ptr) /\ tail.cnt \in Nat
  BY ChainFacts DEF IInv, TypeOK, TailQueued, Words
<1>2. CASE tail = loc[t].tail
  <2>1. tail' = CntPtr(tail.cnt + 1, p) /\ tail'.ptr = p /\ tail'.cnt = tail.cnt + 1
    BY <1>2 DEF MoveTail, CntPtr
  <2>2. qnext[tail.ptr] # CntPtr(0, NULL)
    BY <1>2, NullNext
  <2>3. PICK c \in Buffers : /\ qnext[tail.ptr] = CntPtr(1, c)
                             /\ Queued(c) /\ c # head.ptr
    BY <1>1, <2>2, ChainFacts DEF IInv
  <2>4. c = p
    BY <1>2, <2>3, NullNext
  <2>5. tail' \in Words
    BY <1>1, <2>1, <2>3, <2>4 DEF Words, CntPtr
  <2> QED
    BY <1>1, <2>1, <2>3, <2>4, <2>5
<1>3. CASE tail # loc[t].tail
  BY <1>1, <1>3 DEF MoveTail
<1> QED
  BY <1>2, <1>3

-----------------------------------------------------------------------------
(* The steps of enqueue and dequeue that leave the links and the head alone *)

LEMMA EnqReadTailInv ==
  ASSUME IInv, NEW t \in Threads, EnqReadTail(t) PROVE IInv'
<1>1. TypeOK /\ Set(t, "tail", tail) /\ Goto(t, "enq_next") /\ pc[t] = "enq_tail"
      /\ tail \in Words
  BY DEF IInv, TypeOK, EnqReadTail, At
<1>2. TypeOK'
  BY <1>1, OneMoves, SetTypes DEF TypeOK, EnqReadTail, Labels, TailLabels
<1>3. pc'[t] = "enq_next" /\ \A u \in Threads : u # t => pc'[u] = pc[u]
  BY <1>1, OneMoves
<1>4. /\ loc'[t].tail = tail /\ loc'[t].b = loc[t].b
      /\ \A u \in Threads : u # t => loc'[u] = loc[u]
  BY <1>1, OneSets
<1>5. ThreadOK(t)'
  BY <1>1, <1>3, <1>4 DEF ThreadOK, ReadOK, EnqOK, DeqOK, EnqReadTail,
       TailLabels, HeadLabels, Older, Words
<1> QED
  BY <1>1, <1>2, <1>3, <1>4, <1>5, Quiet
     DEF EnqReadTail, LinkLabels, ResetLabels, Holds

LEMMA EnqReadNextInv ==
  ASSUME IInv, NEW t \in Threads, EnqReadNext(t) PROVE IInv'
<1>1. /\ TypeOK /\ Goto(t, "enq_check") /\ pc[t] = "enq_next"
      /\ Set(t, "next", qnext[loc[t].tail.ptr]) /\ Older(loc[t].tail, tail)
      /\ qnext[loc[t].tail.ptr] \in Nexts
  BY DEF IInv, TypeOK, EnqReadNext, At, ThreadOK, ReadOK, TailLabels, Older, Words
<1>2. TypeOK'
  BY <1>1, OneMoves, SetTypes DEF TypeOK, EnqReadNext, Labels, TailLabels
<1>3. pc'[t] = "enq_check" /\ \A u \in Threads : u # t => pc'[u] = pc[u]
  BY <1>1, OneMoves
<1>4. /\ loc'[t].next = qnext[loc[t].tail.ptr] /\ loc'[t].b = loc[t].b
      /\ loc'[t].tail = loc[t].tail
      /\ \A u \in Threads : u # t => loc'[u] = loc[u]
  BY <1>1, OneSets
<1>5. ThreadOK(t)'
  BY <1>1, <1>3, <1>4 DEF ThreadOK, ReadOK, EnqOK, DeqOK, EnqReadNext,
       TailLabels, HeadLabels, NextRead
<1> QED
  BY <1>1, <1>2, <1>3, <1>4, <1>5, Quiet
     DEF EnqReadNext, LinkLabels, ResetLabels, Holds

LEMMA EnqCheckInv ==
  ASSUME IInv, NEW t \in Threads, EnqCheck(t) PROVE IInv'
<1>1. /\ TypeOK /\ pc[t] = "enq_check" /\ Older(loc[t].tail, tail) /\ EnqOK(t)
      /\ loc[t].next \in Nexts /\ loc' = loc
  BY DEF IInv, TypeOK, EnqCheck, At, ThreadOK, ReadOK, TailLabels, Locals
<1>2. PICK l \in {"enq_tail", "link", "enq_help"} :
        /\ Goto(t, l)
        /\ l = "link" => loc[t].tail = tail /\ loc[t].next.ptr = NULL
        /\ l = "enq_help" => loc[t].tail = tail /\ loc[t].next.ptr # NULL
  BY DEF EnqCheck
<1>3. TypeOK'
  BY <1>1, <1>2, OneMoves DEF TypeOK, EnqCheck, Labels, TailLabels
<1>4. ~Fresh(tail.ptr)'
  <2>1. Queued(tail.ptr)
    BY DEF IInv, TailQueued
  <2>2. ASSUME NEW u \in Threads, pc'[u] \in ResetLabels PROVE loc'[u].b # tail.ptr
    BY <1>1, <1>2, <2>1, <2>2, OneMoves
       DEF IInv, Held, Holds, LinkLabels, ResetLabels
  <2> QED
    BY <1>1, <2>2 DEF Fresh, EnqCheck
<1>5. ThreadOK(t)'
  BY <1>1, <1>2, <1>4, OneMoves, NullNext DEF ThreadOK, ReadOK, EnqOK, DeqOK,
       EnqCheck, TailLabels, HeadLabels, NextRead, Fresh
<1> QED
  BY <1>1, <1>2, <1>3, <1>5, OneMoves, Quiet
     DEF EnqCheck, LinkLabels, ResetLabels, Holds

LEMMA EnqHelpInv ==
  ASSUME IInv, NEW t \in Threads, EnqHelp(t) PROVE IInv'
<1>1. /\ TypeOK /\ pc[t] = "enq_help" /\ Older(loc[t].tail, tail) /\ EnqOK(t)
      /\ Goto(t, "enq_tail") /\ loc' = loc /\ MoveTail(t, loc[t].next.ptr)
  BY DEF IInv, TypeOK, EnqHelp, At, ThreadOK, ReadOK, TailLabels
<1>2. /\ tail' \in Words
      /\ \/ tail' = tail
         \/ tail'.cnt > tail.cnt /\ Queued(tail'.ptr) /\ tail'.ptr # head.ptr
  <2> DEFINE p == loc[t].next.ptr
  <2>1. tail = loc[t].tail => p # NULL /\ qnext[tail.ptr].ptr = p
    BY <1>1 DEF EnqOK, NextRead
  <2>2. MoveTail(t, p)
    BY <1>1
  <2> HIDE DEF p
  <2> QED
    BY <1>1, <2>1, <2>2, TailMoves
<1>3. TypeOK'
  BY <1>1, <1>2, OneMoves DEF TypeOK, EnqHelp, Labels
<1>4. ThreadOK(t)'
  BY <1>1, OneMoves DEF ThreadOK, ReadOK, EnqOK, DeqOK, TailLabels, HeadLabels
<1> QED
  BY <1>1, <1>2, <1>3, <1>4, OneMoves, Quiet
     DEF EnqHelp, LinkLabels, ResetLabels, Holds

LEMMA EnqSwingInv ==
  ASSUME IInv, NEW t \in Threads, EnqSwing(t) PROVE IInv'
<1>1. /\ TypeOK /\ pc[t] = "swing" /\ Older(loc[t].tail, tail) /\ EnqOK(t)
      /\ Return(t) /\ MoveTail(t, loc[t].b)
  BY DEF IInv, TypeOK, EnqSwing, At, ThreadOK, ReadOK, TailLabels
<1>2. /\ tail' \in Words
      /\ \/ tail' = tail
         \/ tail'.cnt > tail.cnt /\ Queued(tail'.ptr) /\ tail'.ptr # head.ptr
  <2> DEFINE p == loc[t].b
  <2>1. tail = loc[t].tail => p # NULL /\ qnext[tail.ptr].ptr = p
    BY <1>1, NullNext, Buf DEF EnqOK
  <2>2. MoveTail(t, p)
    BY <1>1
  <2> HIDE DEF p
  <2> QED
    BY <1>1, <2>1, <2>2, TailMoves
<1>3. TypeOK'
  BY <1>1, <1>2, ReturnSets DEF TypeOK, EnqSwing
<1>4. ThreadOK(t)'
  BY <1>1, ReturnSets DEF ThreadOK, ReadOK, EnqOK, DeqOK, TailLabels, HeadLabels
<1> QED
  BY <1>1, <1>2, <1>3, <1>4, ReturnSets, Quiet
     DEF EnqSwing, LinkLabels, ResetLabels, Holds

LEMMA DeqCallInv ==
  ASSUME IInv, NEW t \in Threads, DeqCall(t) PROVE IInv'
<1>1. TypeOK /\ Goto(t, "deq_head") /\ pc[t] = "idle" /\ loc' = loc
      /\ ops' \in [Threads -> Nat]
  BY CallSets DEF IInv, DeqCall
<1>2. pc'[t] = "deq_head" /\ \A u \in Threads : u # t => pc'[u] = pc[u]
  BY <1>1, OneMoves
<1>3. TypeOK'
  BY <1>1, OneMoves DEF TypeOK, DeqCall, Labels
<1>4. ThreadOK(t)'
  BY <1>1, <1>2 DEF ThreadOK, ReadOK, EnqOK, DeqOK, TailLabels, HeadLabels
<1> QED
  BY <1>1, <1>2, <1>3, <1>4, Quiet DEF DeqCall, LinkLabels, ResetLabels, Holds

LEMMA DeqReadHeadInv ==
  ASSUME IInv, NEW t \in Threads, DeqReadHead(t) PROVE IInv'
<1>1. TypeOK /\ Set(t, "head", head) /\ Goto(t, "deq_tail") /\ pc[t] = "deq_head"
      /\ head \in Words
  BY DEF IInv, TypeOK, DeqReadHead, At
<1>2. TypeOK'
  BY <1>1, OneMoves, SetTypes DEF TypeOK, DeqReadHead, Labels, HeadLabels
<1>3. pc'[t] = "deq_tail" /\ \A u \in Threads : u # t => pc'[u] = pc[u]
  BY <1>1, OneMoves
<1>4. /\ loc'[t].head = head /\ loc'[t].b = loc[t].b
      /\ \A u \in Threads : u # t => loc'[u] = loc[u]
  BY <1>1, OneSets
<1>5. ThreadOK(t)'
  BY <1>1, <1>3, <1>4 DEF ThreadOK, ReadOK, EnqOK, DeqOK, DeqReadHead,
       TailLabels, HeadLabels, Older, Words
<1> QED
  BY <1>1, <1>2, <1>3, <1>4, <1>5, Quiet
     DEF DeqReadHead, LinkLabels, ResetLabels, Holds

LEMMA DeqReadTailInv ==
  ASSUME IInv, NEW t \in Threads, DeqReadTail(t) PROVE IInv'
<1>1. /\ TypeOK /\ Set(t, "tail", tail) /\ Goto(t, "deq_next") /\ pc[t] = "deq_tail"
      /\ tail \in Words /\ Older(loc[t].head, head)
  BY DEF IInv, TypeOK, DeqReadTail, At, ThreadOK, ReadOK, HeadLabels
<1>2. TypeOK'
  BY <1>1, OneMoves, SetTypes DEF TypeOK, DeqReadTail, Labels, TailLabels
<1>3. pc'[t] = "deq_next" /\ \A u \in Threads : u # t => pc'[u] = pc[u]
  BY <1>1, OneMoves
<1>4. /\ loc'[t].tail = tail /\ loc'[t].b = loc[t].b /\ loc'[t].head = loc[t].head
      /\ \A u \in Threads : u # t => loc'[u] = loc[u]
  BY <1>1, OneSets
<1>5. ThreadOK(t)'
  BY <1>1, <1>3, <1>4 DEF ThreadOK, ReadOK, EnqOK, DeqOK, DeqReadTail,
       TailLabels, HeadLabels, Older, Words, Ahead
<1> QED
  BY <1>1, <1>2, <1>3, <1>4, <1>5, Quiet
     DEF DeqReadTail, LinkLabels, ResetLabels, Holds

LEMMA DeqReadNextInv ==
  ASSUME IInv, NEW t \in Threads, DeqReadNext(t) PROVE IInv'
<1>1. /\ TypeOK /\ Goto(t, "deq_check") /\ pc[t] = "deq_next"
      /\ Set(t, "next", qnext[loc[t].head.ptr])
      /\ Older(loc[t].head, head) /\ Older(loc[t].tail, tail) /\ DeqOK(t)
      /\ qnext[loc[t].head.ptr] \in Nexts
  BY DEF IInv, TypeOK, DeqReadNext, At, ThreadOK, ReadOK, TailLabels, HeadLabels,
         Older, Words
<1>2. TypeOK'
  BY <1>1, OneMoves, SetTypes DEF TypeOK, DeqReadNext, Labels, TailLabels
<1>3. pc'[t] = "deq_check" /\ \A u \in Threads : u # t => pc'[u] = pc[u]
  BY <1>1, OneMoves
<1>4. /\ loc'[t].next = qnext[loc[t].head.ptr] /\ loc'[t].b = loc[t].b
      /\ loc'[t].head = loc[t].head /\ loc'[t].tail = loc[t].tail
      /\ \A u \in Threads : u # t => loc'[u] = loc[u]
  BY <1>1, OneSets
<1>5. ThreadOK(t)'
  BY <1>1, <1>3, <1>4 DEF ThreadOK, ReadOK, EnqOK, DeqOK, DeqReadNext,
       TailLabels, HeadLabels, NextRead, Ahead
<1> QED
  BY <1>1, <1>2, <1>3, <1>4, <1>5, Quiet
     DEF DeqReadNext, LinkLabels, ResetLabels, Holds

LEMMA DeqCheckInv ==
  ASSUME IInv, NEW t \in Threads, DeqCheck(t) PROVE IInv'
<1>1. /\ TypeOK /\ pc[t] = "deq_check" /\ DeqOK(t) /\ loc' = loc
      /\ Older(loc[t].head, head) /\ Older(loc[t].tail, tail)
  BY DEF IInv, TypeOK, DeqCheck, At, ThreadOK, ReadOK, TailLabels, HeadLabels
<1>2. PICK l \in {"deq_head", "take", "deq_help", "none"} :
        /\ Goto(t, l)
        /\ l = "take" => loc[t].head.ptr # loc[t].tail.ptr
        /\ l = "deq_help" => /\ loc[t].head.ptr = loc[t].tail.ptr
                             /\ loc[t].next.ptr # NULL
  BY DEF DeqCheck
<1>3. pc'[t] = l /\ \A u \in Threads : u # t => pc'[u] = pc[u]
  BY <1>1, <1>2, OneMoves
<1>4. TypeOK'
  BY <1>1, <1>2, OneMoves DEF TypeOK, DeqCheck, Labels, TailLabels
<1>5. ThreadOK(t)'
  BY <1>1, <1>2, <1>3 DEF ThreadOK, ReadOK, EnqOK, DeqOK,
       DeqCheck, TailLabels, HeadLabels, NextRead, Ahead
<1> QED
  BY <1>1, <1>2, <1>3, <1>4, <1>5, Quiet
     DEF DeqCheck, LinkLabels, ResetLabels, Holds

LEMMA DeqNoneInv ==
  ASSUME IInv, NEW t \in Threads, DeqNone(t) PROVE IInv'
<1>1. TypeOK /\ pc[t] = "none" /\ Return(t)
  BY DEF IInv, DeqNone, At
<1>2. TypeOK'
  BY <1>1, ReturnSets DEF TypeOK, DeqNone
<1>3. ThreadOK(t)'
  BY <1>1, ReturnSets DEF ThreadOK, ReadOK, EnqOK, DeqOK, TailLabels, HeadLabels
<1> QED
  BY <1>1, <1>2, <1>3, ReturnSets, Quiet DEF DeqNone, LinkLabels, ResetLabels, Holds

LEMMA DeqHelpInv ==
  ASSUME IInv, NEW t \in Threads, DeqHelp(t) PROVE IInv'
<1>1. /\ TypeOK /\ pc[t] = "deq_help" /\ Older(loc[t].tail, tail) /\ DeqOK(t)
      /\ Goto(t, "deq_head") /\ loc' = loc /\ MoveTail(t, loc[t].next.ptr)
  BY DEF IInv, TypeOK, DeqHelp, At, ThreadOK, ReadOK, TailLabels
<1>2. /\ tail' \in Words
      /\ \/ tail' = tail
         \/ tail'.cnt > tail.cnt /\ Queued(tail'.ptr) /\ tail'.ptr # head.ptr
  <2> DEFINE p == loc[t].next.ptr
  <2>1. tail = loc[t].tail => p # NULL /\ qnext[tail.ptr].ptr = p
    BY <1>1 DEF DeqOK, NextRead
  <2>2. MoveTail(t, p)
    BY <1>1
  <2> HIDE DEF p
  <2> QED
    BY <1>1, <2>1, <2>2, TailMoves
<1>3. TypeOK'
  BY <1>1, <1>2, OneMoves DEF TypeOK, DeqHelp, Labels
<1>4. ThreadOK(t)'
  BY <1>1, OneMoves DEF ThreadOK, ReadOK, EnqOK, DeqOK, TailLabels, HeadLabels
<1> QED
  BY <1>1, <1>2, <1>3, <1>4, OneMoves, Quiet
     DEF DeqHelp, LinkLabels, ResetLabels, Holds

-----------------------------------------------------------------------------
(* The steps that change the links, the head or the claims *)

LEMMA EnqResetInv ==
  ASSUME IInv, ~Races, NEW t \in Threads, EnqReset(t) PROVE IInv'
<1> DEFINE b == loc[t].b
<1>1. /\ TypeOK /\ pc[t] = "reset" /\ loc' = loc /\ Goto(t, "enq_tail")
      /\ b \in Buffers /\ ~Queued(b)
      /\ qnext' = [qnext EXCEPT ![b] = CntPtr(0, NULL)]
      /\ head' = head /\ tail' = tail /\ in_q' = in_q /\ ops' = ops
  BY DEF IInv, EnqReset, At, Reset, Held, Holds, LinkLabels
<1>2. pc'[t] = "enq_tail" /\ \A u \in Threads : u # t => pc'[u] = pc[u]
  BY <1>1, OneMoves
<1>3. \A u \in Threads : pc[u] = "link" => loc[u].tail.ptr # b
  BY DEF EnqReset, MayReset, At
<1>4. qnext'[b] = CntPtr(0, NULL) /\ \A c \in Buffers : c # b => qnext'[c] = qnext[c]
  BY <1>1 DEF TypeOK
<1>5. TypeOK'
  BY <1>1, OneMoves DEF TypeOK, Labels, Nexts
<1>6. Chained' /\ \A c : Queued(c)' <=> Queued(c)
  BY <1>1, <1>4, QueueKept, ChainFacts DEF IInv
<1>7. \A c : Fresh(c)' <=> Fresh(c) \/ c = b
  BY <1>1, <1>2 DEF Fresh, ResetLabels, LinkLabels
<1> HIDE DEF b
<1>8. TailQueued'
  BY <1>1, <1>6 DEF IInv, TailQueued
<1>9. \A u \in Threads : Holds(u)' <=> Holds(u)
  BY <1>1, <1>2 DEF Holds, LinkLabels
<1>10. Held'
  BY <1>1, <1>6, <1>9 DEF IInv, Held
<1>11. NextWords'
  BY <1>4, <1>6, <1>7 DEF IInv, NextWords
<1>12. Claimed'
  BY <1>1, <1>2, <1>6 DEF IInv, Claimed, LinkLabels
<1>13. ASSUME NEW u \in Threads, u # t PROVE ThreadOK(u)'
  BY <1>1, <1>2, <1>3, <1>4, <1>5, <1>7, <1>13, Others, ChainFacts DEF IInv
<1>14. ThreadOK(t)'
  BY <1>1, <1>2 DEF ThreadOK, ReadOK, EnqOK, DeqOK, TailLabels, HeadLabels
<1> QED
  BY <1>5, <1>6, <1>8, <1>10, <1>11, <1>12, <1>13, <1>14 DEF IInv

LEMMA EnqLinkInv ==
  ASSUME IInv, NEW t \in Threads, EnqLink(t) PROVE IInv'
<1> DEFINE b == loc[t].b
           n == loc[t].tail.ptr
<1>1. /\ TypeOK /\ pc[t] = "link" /\ loc' = loc
      /\ b \in Buffers /\ ~Queued(b) /\ in_q[b]
      /\ Older(loc[t].tail, tail) /\ n \in Buffers
      /\ loc[t].next = CntPtr(0, NULL) /\ ~Fresh(n)
      /\ head' = head /\ tail' = tail /\ in_q' = in_q /\ ops' = ops
  BY DEF IInv, EnqLink, At, Held, Holds, LinkLabels, Claimed, ThreadOK, ReadOK, EnqOK,
         TailLabels, Older, Words
<1>2. CASE qnext[n] # loc[t].next
  <2>1. Goto(t, "enq_tail") /\ qnext' = qnext
    BY <1>2 DEF EnqLink
  <2>2. TypeOK'
    BY <1>1, <2>1, OneMoves DEF TypeOK, Labels
  <2>3. ThreadOK(t)'
    BY <1>1, <2>1, OneMoves DEF ThreadOK, ReadOK, EnqOK, DeqOK, TailLabels, HeadLabels
  <2> QED
    BY <1>1, <2>1, <2>2, <2>3, OneMoves, Quiet DEF LinkLabels, ResetLabels, Holds
<1>3. CASE qnext[n] = loc[t].next
  <2>1. Goto(t, "swing") /\ qnext' = [qnext EXCEPT ![n] = Linked(@.cnt, loc[t].b)]
    BY <1>3 DEF EnqLink
  <2>2. /\ qnext[n] = CntPtr(0, NULL)
        /\ qnext' = [qnext EXCEPT ![n] = CntPtr(1, b)]
    <3>1. qnext[n] = CntPtr(0, NULL) /\ qnext[n].cnt = 0
      BY <1>1, <1>3, NullNext
    <3>2. Linked(qnext[n].cnt, loc[t].b) = CntPtr(1, b)
      BY <3>1 DEF Linked
    <3> QED
      BY <2>1, <3>1, <3>2, Zenon
  <2>3. qnext'[n] = CntPtr(1, b) /\ \A m \in Buffers : m # n => qnext'[m] = qnext[m]
    BY <1>1, <2>2 DEF TypeOK
  <2>4. pc'[t] = "swing" /\ \A u \in Threads : u # t => pc'[u] = pc[u]
    BY <1>1, <2>1, OneMoves
  <2>5. TypeOK'
    BY <1>1, <2>1, <2>2, OneMoves DEF TypeOK, Labels, TailLabels, Nexts
  <2>6. Queued(n)
    BY <1>1, <2>2 DEF IInv, NextWords
  <2>7. Fresh(b)
    BY <1>1 DEF Fresh, ResetLabels, LinkLabels
  <2>8. qnext[b] = CntPtr(0, NULL)
    BY <1>1, <2>7 DEF IInv, NextWords
  <2>9. Chained' /\ \A c : Queued(c)' <=> Queued(c) \/ c = b
    BY <1>1, <2>2, <2>3, <2>6, <2>8, QueueLonger DEF IInv
  <2>10. \A u \in Threads : Holds(u)' <=> Holds(u) /\ u # t
    BY <1>1, <2>4 DEF Holds, LinkLabels
  <2>11. Holds(t)
    BY <1>1 DEF Holds, LinkLabels
  <2>12. \A u \in Threads : u # t /\ Holds(u) => loc[u].b # b
    BY <2>11 DEF IInv, Held
  <2>13. \A c : Fresh(c)' => Fresh(c)
    BY <1>1, <2>4 DEF Fresh, ResetLabels, LinkLabels
  <2>14. \A c : Fresh(c) /\ c # b => Fresh(c)'
    BY <1>1, <2>4 DEF Fresh, ResetLabels, LinkLabels
  <2> HIDE DEF b
  <2>15. TailQueued'
    BY <1>1, <2>9 DEF IInv, TailQueued
  <2>16. Held'
    BY <1>1, <2>9, <2>10, <2>12 DEF IInv, Held
  <2>17. NextWords'
    BY <1>1, <2>3, <2>6, <2>9, <2>13, <2>14 DEF IInv, NextWords
  <2>18. Claimed'
    BY <1>1, <2>4, <2>9 DEF IInv, Claimed, LinkLabels
  <2>19. ASSUME NEW u \in Threads, u # t PROVE ThreadOK(u)'
    BY <1>1, <2>2, <2>3, <2>4, <2>5, <2>13, <2>19, Others, ChainFacts DEF IInv
  <2>20. ThreadOK(t)'
    BY <1>1, <2>3, <2>4 DEF ThreadOK, ReadOK, EnqOK, DeqOK, TailLabels, HeadLabels, b
  <2> QED
    BY <2>5, <2>9, <2>15, <2>16, <2>17, <2>18, <2>19, <2>20 DEF IInv
<1> QED
  BY <1>2, <1>3

LEMMA EnqClaimInv ==
  ASSUME IInv, NEW t \in Threads, NEW b \in Buffers, EnqClaim(t, b) PROVE IInv'
<1>1. /\ TypeOK /\ pc[t] = "idle" /\ ops' \in [Threads -> Nat]
      /\ head' = head /\ tail' = tail /\ qnext' = qnext
  BY CallSets DEF IInv, EnqClaim
<1>2. CASE in_q' = in_q /\ pc' = pc /\ loc' = loc
  <2>1. TypeOK'
    BY <1>1, <1>2 DEF TypeOK
  <2> QED
    BY <1>1, <1>2, <2>1, Quiet
<1>3. CASE /\ ~in_q[b] /\ in_q' = [in_q EXCEPT ![b] = TRUE]
           /\ Goto(t, "reset") /\ Set(t, "b", b)
  <2>1. head.ptr # b /\ \A u \in Threads : ~Dequeued(u, b)
    BY <1>3 DEF EnqClaim
  <2>2. pc'[t] = "reset" /\ \A u \in Threads : u # t => pc'[u] = pc[u]
    BY <1>1, <1>3, OneMoves
  <2>3. loc'[t].b = b /\ \A u \in Threads : u # t => loc'[u] = loc[u]
    BY <1>1, <1>3, OneSets
  <2>4. TypeOK'
    BY <1>1, <1>3, OneMoves, SetTypes DEF TypeOK, Labels
  <2>5. Chained' /\ \A c : Queued(c)' <=> Queued(c)
    BY <1>1, QueueKept DEF IInv
  <2>6. TailQueued'
    BY <1>1, <2>5 DEF IInv, TailQueued
  <2>7. ~Queued(b) /\ \A u \in Threads : Holds(u) => loc[u].b # b
    BY <1>3, <2>1 DEF IInv, Claimed, Holds, Dequeued, At
  <2>8. \A u \in Threads : Holds(u)' <=> Holds(u) \/ u = t
    BY <2>2 DEF Holds, LinkLabels
  <2>9. Held'
    BY <2>3, <2>5, <2>7, <2>8 DEF IInv, Held
  <2>10. \A c : Fresh(c)' <=> Fresh(c)
    BY <1>1, <2>2, <2>3 DEF Fresh, ResetLabels, LinkLabels
  <2>11. NextWords'
    BY <1>1, <2>5, <2>10 DEF IInv, NextWords
  <2>12. Claimed'
    <3>1. in_q'[b] /\ \A c \in Buffers : in_q[c] => in_q'[c]
      BY <1>3, <1>1 DEF TypeOK
    <3>2. \A u \in Threads : pc'[u] \in LinkLabels => in_q'[loc'[u].b]
      BY <2>2, <2>3, <3>1 DEF IInv, Claimed, Held, Holds
    <3> QED
      BY <1>1, <2>5, <3>1, <3>2 DEF IInv, Claimed
  <2>13. ASSUME NEW u \in Threads, u # t PROVE ThreadOK(u)'
    BY <1>1, <2>2, <2>3, <2>4, <2>10, <2>13, Others
  <2>14. ThreadOK(t)'
    BY <2>2 DEF ThreadOK, ReadOK, EnqOK, DeqOK, TailLabels, HeadLabels
  <2> QED
    BY <2>4, <2>5, <2>6, <2>9, <2>11, <2>12, <2>13, <2>14 DEF IInv
<1> QED
  BY <1>2, <1>3 DEF EnqClaim

LEMMA DeqTakeInv ==
  ASSUME IInv, NEW t \in Threads, DeqTake(t) PROVE IInv'
<1>1. /\ TypeOK /\ pc[t] = "take" /\ DeqOK(t) /\ Older(loc[t].head, head)
      /\ tail' = tail /\ qnext' = qnext /\ in_q' = in_q /\ ops' = ops
      /\ head \in Words /\ head.cnt \in Nat
  BY DEF IInv, TypeOK, DeqTake, At, ThreadOK, ReadOK, HeadLabels, Words
<1>2. CASE ~HeadIs(loc[t].head)
  <2>1. Goto(t, "deq_head") /\ head' = head /\ loc' = loc
    BY <1>2 DEF DeqTake
  <2>2. TypeOK'
    BY <1>1, <2>1, OneMoves DEF TypeOK, Labels
  <2>3. ThreadOK(t)'
    BY <1>1, <2>1, OneMoves DEF ThreadOK, ReadOK, EnqOK, DeqOK, TailLabels, HeadLabels
  <2> QED
    BY <1>1, <2>1, <2>2, <2>3, OneMoves, Quiet DEF LinkLabels, ResetLabels, Holds
<1>3. CASE HeadIs(loc[t].head)
  <2> DEFINE b == head.ptr
  <2>1. /\ head = loc[t].head /\ Set(t, "b", head.ptr) /\ Goto(t, "unclaim")
        /\ head' = CntPtr(head.cnt + 1, loc[t].next.ptr)
    BY <1>3 DEF DeqTake, HeadIs
  <2>2. tail.ptr # b /\ loc[t].next = qnext[b]
    BY <1>1, <2>1 DEF DeqOK, Ahead
  <2>3. /\ Queued(tail.ptr) /\ Queued(b) /\ b \in Buffers
        /\ qnext[b] # CntPtr(0, NULL) /\ qnext[b] \in Nexts
    BY <2>2, ChainFacts DEF IInv, TailQueued, TypeOK
  <2>4. head'.ptr = qnext[b].ptr /\ head'.cnt = head.cnt + 1 /\ head'.cnt > head.cnt
    <3>1. head' = CntPtr(head.cnt + 1, qnext[b].ptr) /\ head.cnt \in Nat
      BY <1>1, <2>1, <2>2
    <3> QED
      BY <3>1, NullNext
  <2>5. /\ Chained' /\ \A c : Queued(c)' <=> Queued(c) /\ c # b
    <3>1. Chained /\ Queued(tail.ptr)
      BY <2>3 DEF IInv
    <3> QED
      BY <1>1, <2>3, <2>4, <3>1, QueueShorter
  <2>6. pc'[t] = "unclaim" /\ \A u \in Threads : u # t => pc'[u] = pc[u]
    BY <1>1, <2>1, OneMoves
  <2>7. loc'[t].b = b /\ \A u \in Threads : u # t => loc'[u] = loc[u]
    BY <1>1, <2>1, OneSets
  <2>8. head' \in Words
    BY <1>1, <2>1, <2>2, <2>3, NullNext DEF Words, CntPtr
  <2>9. TypeOK'
    BY <1>1, <2>1, <2>3, <2>8, OneMoves, SetTypes DEF TypeOK, Labels
  <2> HIDE DEF b
  <2>10. TailQueued'
    BY <1>1, <2>2, <2>3, <2>5 DEF TailQueued
  <2>11. \A u \in Threads : Holds(u)' <=> Holds(u) \/ u = t
    BY <2>6 DEF Holds, LinkLabels
  <2>12. ~Holds(t) /\ \A u \in Threads : Holds(u) => loc[u].b # b
    BY <1>1, <2>3 DEF IInv, Held, Holds, LinkLabels
  <2>13. Held'
    BY <2>3, <2>5, <2>7, <2>11, <2>12 DEF IInv, Held
  <2>14. \A c : Fresh(c)' <=> Fresh(c)
    BY <1>1, <2>6, <2>7 DEF Fresh, ResetLabels, LinkLabels
  <2>15. ~Fresh(b)
    BY <2>12 DEF Fresh, Holds, ResetLabels
  <2>16. NextWords'
    BY <1>1, <2>3, <2>5, <2>14, <2>15 DEF IInv, NextWords
  <2>17. Claimed'
    BY <1>1, <2>5, <2>6, <2>7 DEF IInv, Claimed, LinkLabels, b
  <2>18. ASSUME NEW u \in Threads, u # t PROVE ThreadOK(u)'
    <3>1. head' # head
      BY <1>1, <2>4
    <3> QED
      BY <1>1, <2>4, <2>6, <2>7, <2>9, <2>14, <2>18, <3>1, Others
  <2>19. ThreadOK(t)'
    BY <2>6 DEF ThreadOK, ReadOK, EnqOK, DeqOK, TailLabels, HeadLabels
  <2> QED
    BY <2>5, <2>9, <2>10, <2>13, <2>16, <2>17, <2>18, <2>19 DEF IInv
<1> QED
  BY <1>2, <1>3

LEMMA DeqUnclaimInv ==
  ASSUME IInv, NEW t \in Threads, DeqUnclaim(t) PROVE IInv'
<1> DEFINE b == loc[t].b
<1>1. /\ TypeOK /\ pc[t] = "unclaim" /\ Return(t) /\ in_q' = [in_q EXCEPT ![b] = FALSE]
      /\ head' = head /\ tail' = tail /\ qnext' = qnext /\ ops' = ops
      /\ Holds(t) /\ b \in Buffers /\ ~Queued(b)
  BY DEF IInv, DeqUnclaim, Unclaimed, At, Holds, Held
<1>2. /\ pc'[t] = "idle" /\ loc'[t] = NoLocals
      /\ \A u \in Threads : u # t => pc'[u] = pc[u] /\ loc'[u] = loc[u]
  BY <1>1, ReturnSets
<1>3. TypeOK'
  BY <1>1, ReturnSets DEF TypeOK
<1>4. Chained' /\ \A c : Queued(c)' <=> Queued(c)
  BY <1>1, QueueKept DEF IInv
<1>5. TailQueued'
  BY <1>1, <1>4 DEF IInv, TailQueued
<1>6. \A u \in Threads : Holds(u)' <=> Holds(u) /\ u # t
  BY <1>2 DEF Holds, LinkLabels
<1>7. \A u \in Threads : u # t /\ Holds(u) => loc[u].b # b
  BY <1>1 DEF IInv, Held
<1> HIDE DEF b
<1>8. Held'
  BY <1>2, <1>4, <1>6 DEF IInv, Held
<1>9. \A c : Fresh(c)' <=> Fresh(c)
  BY <1>1, <1>2 DEF Fresh, ResetLabels, LinkLabels
<1>10. NextWords'
  BY <1>1, <1>4, <1>9 DEF IInv, NextWords
<1>11. Claimed'
  <2>1. \A c \in Buffers : c # b => in_q'[c] = in_q[c]
    BY <1>1 DEF TypeOK
  <2>2. \A u \in Threads : pc'[u] \in LinkLabels => in_q'[loc'[u].b]
    BY <1>2, <1>7, <2>1 DEF IInv, Claimed, Held, Holds, LinkLabels
  <2> QED
    BY <1>1, <1>4, <2>1, <2>2 DEF IInv, Claimed
<1>12. ASSUME NEW u \in Threads, u # t PROVE ThreadOK(u)'
  BY <1>1, <1>2, <1>3, <1>9, <1>12, Others
<1>13. ThreadOK(t)'
  BY <1>2 DEF ThreadOK, ReadOK, EnqOK, DeqOK, TailLabels, HeadLabels
<1> QED
  BY <1>3, <1>4, <1>5, <1>8, <1>10, <1>11, <1>12, <1>13 DEF IInv

LEMMA NextInv == ~Races /\ IInv /\ [Next]_vars => IInv'
<1> SUFFICES ASSUME ~Races, IInv, [Next]_vars PROVE IInv'
  OBVIOUS
<1>1. ASSUME NEW t \in Enqueuers, Enqueue(t) PROVE IInv'
  BY <1>1, EnqResetInv, EnqReadTailInv, EnqReadNextInv, EnqCheckInv, EnqLinkInv,
     EnqHelpInv, EnqSwingInv DEF Enqueue, Threads
<1>2. ASSUME NEW t \in Enqueuers, NEW b \in Buffers, EnqClaim(t, b) PROVE IInv'
  BY <1>2, EnqClaimInv DEF Threads
<1>3. ASSUME NEW t \in Dequeuers, Dequeue(t) PROVE IInv'
  BY <1>3, DeqReadHeadInv, DeqReadTailInv, DeqReadNextInv, DeqCheckInv, DeqNoneInv,
     DeqHelpInv, DeqTakeInv, DeqUnclaimInv DEF Dequeue, Threads
<1>4. ASSUME NEW t \in Dequeuers, DeqCall(t) PROVE IInv'
  BY <1>4, DeqCallInv DEF Threads
<1>5. CASE UNCHANGED vars
  <2>1. Chained' /\ \A c : Queued(c)' <=> Queued(c)
    BY <1>5, QueueKept DEF IInv, vars
  <2>2. TypeOK' /\ TailQueued' /\ Held' /\ NextWords' /\ Claimed'
    BY <1>5, <2>1 DEF IInv, vars, TypeOK, TailQueued, Held, Holds, NextWords, Fresh, Claimed
  <2>3. \A u \in Threads : ThreadOK(u)'
    BY <1>5, <2>2, Others DEF vars, Fresh
  <2> QED
    BY <2>1, <2>2, <2>3 DEF IInv
<1> QED
  BY <1>1, <1>2, <1>3, <1>4, <1>5 DEF Next

-----------------------------------------------------------------------------
(* The refinement of LruQueue. *)

Phased == [b \in Buffers |-> Phase(b)]

\* A buffer is in one phase at a time.
LEMMA PhaseIs ==
  ASSUME IInv, NEW b \in Buffers
  PROVE  /\ Phased[b] = Phase(b)
         /\ Queued(b) => ~Linking(b) /\ ~Taken(b)
         /\ ~(Linking(b) /\ Taken(b))
<1>1. Linking(b) => ~Queued(b) /\ ~Taken(b)
  <2>1. ASSUME NEW t \in Threads, loc[t].b = b, pc[t] \in LinkLabels
        PROVE  ~Queued(b)
    BY <2>1 DEF IInv, Held, Holds
  <2>2. ASSUME NEW t \in Threads, loc[t].b = b, pc[t] \in LinkLabels, Taken(b)
        PROVE  FALSE
    <3>1. PICK u \in Threads : pc[u] = "unclaim" /\ loc[u].b = b
      BY <2>2 DEF Taken, Dequeued, At
    <3>2. u # t
      BY <2>2, <3>1 DEF LinkLabels
    <3> QED
      BY <2>2, <3>1, <3>2 DEF IInv, Held, Holds
  <2> QED
    BY <2>1, <2>2 DEF Linking
<1>2. Taken(b) => ~Queued(b)
  BY DEF IInv, Held, Holds, Taken, Dequeued, At
<1> QED
  BY <1>1, <1>2 DEF Phased

\* A step that changes neither who is queued nor who holds what.
LEMMA QuietMaps ==
  ASSUME IInv, NEW t \in Threads,
         \A u \in Threads : u # t => pc'[u] = pc[u] /\ loc'[u] = loc[u],
         head'.ptr = head.ptr, \A b : Queued(b) => qnext'[b] = qnext[b],
         pc'[t] \in LinkLabels <=> pc[t] \in LinkLabels,
         pc'[t] = "unclaim" <=> pc[t] = "unclaim",
         Holds(t) => loc'[t].b = loc[t].b
  PROVE  Chain' = Chain /\ Phased' = Phased
<1>1. Chain' = Chain /\ \A b : Queued(b)' <=> Queued(b)
  BY QueueKept DEF IInv
<1>2. \A b : Linking(b)' <=> Linking(b)
  BY DEF Linking, Holds
<1>3. \A b : Taken(b)' <=> Taken(b)
  BY DEF Taken, Dequeued, At, Holds
<1>4. \A b \in Buffers : Phase(b)' = Phase(b)
  BY <1>1, <1>2, <1>3 DEF Phase
<1>5. Phased' = Phased
  BY <1>4 DEF Phased
<1> QED
  BY <1>1, <1>5

\* How the phase of one buffer changes.
LEMMA PhaseChanges ==
  ASSUME NEW b \in Buffers,
         \A c \in Buffers : c # b => /\ Queued(c)' <=> Queued(c)
                                     /\ Linking(c)' <=> Linking(c)
                                     /\ Taken(c)' <=> Taken(c)
  PROVE  Phased' = [Phased EXCEPT ![b] = Phase(b)']
<1>1. \A c \in Buffers : c # b => Phase(c)' = Phase(c)
  BY DEF Phase
<1> QED
  BY <1>1 DEF Phased

\* The CAS on in_q is LruQueue's Claim, or fails and changes nothing.
LEMMA ClaimMaps ==
  ASSUME IInv, NEW t \in Threads, NEW b \in Buffers, EnqClaim(t, b)
  PROVE  \/ Abstract!Claim(b) /\ in_q' = [in_q EXCEPT ![b] = TRUE]
         \/ Chain' = Chain /\ Phased' = Phased /\ in_q' = in_q
<1>1. TypeOK /\ pc[t] = "idle" /\ head' = head /\ qnext' = qnext
  BY CallSets DEF IInv, EnqClaim
<1>2. CASE pc' = pc /\ loc' = loc /\ in_q' = in_q
  BY <1>1, <1>2, QuietMaps
<1>3. CASE /\ ~in_q[b] /\ in_q' = [in_q EXCEPT ![b] = TRUE]
           /\ Goto(t, "reset") /\ Set(t, "b", b)
  <2>1. head.ptr # b /\ ~Taken(b)
    BY <1>3 DEF EnqClaim, Taken
  <2>2. pc'[t] = "reset" /\ \A u \in Threads : u # t => pc'[u] = pc[u]
    BY <1>1, <1>3, OneMoves
  <2>3. loc'[t].b = b /\ \A u \in Threads : u # t => loc'[u] = loc[u]
    BY <1>1, <1>3, OneSets
  <2>4. Chain' = Chain /\ \A c : Queued(c)' <=> Queued(c)
    BY <1>1, QueueKept DEF IInv
  <2>5. ~Queued(b) /\ ~Linking(b)
    BY <1>3, <2>1 DEF IInv, Claimed, Linking
  <2>6. \A c : Linking(c)' <=> Linking(c) \/ c = b
    BY <1>1, <2>2, <2>3 DEF Linking, LinkLabels
  <2>7. \A c : Taken(c)' <=> Taken(c)
    BY <1>1, <2>2, <2>3 DEF Taken, Dequeued, At
  <2>8. Phase(b) = "out" /\ Phase(b)' = "linking"
    BY <2>1, <2>4, <2>5, <2>6 DEF Phase
  <2>9. Phased' = [Phased EXCEPT ![b] = "linking"]
    BY <2>4, <2>6, <2>7, <2>8, PhaseChanges
  <2>10. Phased[b] = "out"
    BY <2>8 DEF Phased
  <2> QED
    BY <1>3, <2>4, <2>9, <2>10 DEF Abstract!Claim, Phased
<1> QED
  BY <1>2, <1>3 DEF EnqClaim

\* The CAS that links is LruQueue's Link, or fails and changes nothing.
LEMMA LinkMaps ==
  ASSUME IInv, NEW t \in Threads, EnqLink(t)
  PROVE  \/ \E b \in Buffers : Abstract!Link(b)
         \/ Chain' = Chain /\ Phased' = Phased
<1> DEFINE n == loc[t].tail.ptr
<1>0. PICK b \in Buffers : b = loc[t].b
  BY DEF IInv, EnqLink, At, Held, Holds, LinkLabels
<1>1. /\ TypeOK /\ pc[t] = "link" /\ loc' = loc /\ b \in Buffers /\ ~Queued(b)
      /\ n \in Buffers /\ loc[t].next = CntPtr(0, NULL) /\ ~Fresh(n) /\ head' = head
  BY <1>0 DEF IInv, EnqLink, At, Held, Holds, LinkLabels, ThreadOK, ReadOK, EnqOK,
         TailLabels, Older, Words
<1>2. CASE qnext[n] # loc[t].next
  BY <1>0, <1>1, <1>2, OneMoves, QuietMaps DEF EnqLink, LinkLabels
<1>3. CASE qnext[n] = loc[t].next
  <2>1. Goto(t, "swing") /\ qnext' = [qnext EXCEPT ![n] = Linked(@.cnt, loc[t].b)]
    BY <1>3 DEF EnqLink
  <2>2. qnext[n] = CntPtr(0, NULL) /\ qnext' = [qnext EXCEPT ![n] = CntPtr(1, b)]
    <3>1. qnext[n] = CntPtr(0, NULL) /\ qnext[n].cnt = 0
      BY <1>0, <1>1, <1>3, NullNext
    <3>2. Linked(qnext[n].cnt, loc[t].b) = CntPtr(1, b)
      BY <1>0, <3>1 DEF Linked
    <3> QED
      BY <2>1, <3>1, <3>2, Zenon
  <2>3. qnext'[n] = CntPtr(1, b) /\ \A m \in Buffers : m # n => qnext'[m] = qnext[m]
    BY <1>0, <1>1, <2>2 DEF TypeOK
  <2>4. pc'[t] = "swing" /\ \A u \in Threads : u # t => pc'[u] = pc[u]
    BY <1>0, <1>1, <2>1, OneMoves
  <2>5. Queued(n)
    BY <1>0, <1>1, <2>2 DEF IInv, NextWords
  <2>6. Fresh(b) /\ Linking(b)
    BY <1>0, <1>1 DEF Fresh, Linking, ResetLabels, LinkLabels
  <2>7. qnext[b] = CntPtr(0, NULL)
    BY <1>0, <1>1, <2>6 DEF IInv, NextWords
  <2>8. Chain' = Append(Chain, b) /\ \A c : Queued(c)' <=> Queued(c) \/ c = b
    BY <1>0, <1>1, <2>2, <2>3, <2>5, <2>7, QueueLonger DEF IInv
  <2>9. \A c : c # b => (Linking(c)' <=> Linking(c))
    BY <1>0, <1>1, <2>4 DEF Linking, LinkLabels
  <2>10. \A c : Taken(c)' <=> Taken(c)
    BY <1>0, <1>1, <2>4 DEF Taken, Dequeued, At
  <2>11. Phase(b)' = "queued" /\ Phase(b) = "linking"
    BY <1>0, <1>1, <2>6, <2>8 DEF Phase
  <2>12. Phased' = [Phased EXCEPT ![b] = "queued"]
    BY <1>0, <1>1, <2>8, <2>9, <2>10, <2>11, PhaseChanges
  <2>13. Phased[b] = "linking"
    BY <1>0, <1>1, <2>11 DEF Phased
  <2> QED
    BY <1>0, <1>1, <2>8, <2>12, <2>13 DEF Abstract!Link, Phased
<1> QED
  BY <1>2, <1>3

\* The CAS of the head is LruQueue's Take, or fails and changes nothing.
LEMMA TakeMaps ==
  ASSUME IInv, NEW t \in Threads, DeqTake(t)
  PROVE  Abstract!Take \/ (Chain' = Chain /\ Phased' = Phased)
<1>1. /\ TypeOK /\ pc[t] = "take" /\ DeqOK(t) /\ qnext' = qnext /\ head \in Words
  BY DEF IInv, TypeOK, DeqTake, At, ThreadOK
<1>2. CASE ~HeadIs(loc[t].head)
  BY <1>1, <1>2, OneMoves, QuietMaps DEF DeqTake, LinkLabels
<1>3. CASE HeadIs(loc[t].head)
  <2>0. PICK b \in Buffers : b = head.ptr
    BY ChainFacts DEF IInv
  <2>1. /\ head = loc[t].head /\ Set(t, "b", head.ptr) /\ Goto(t, "unclaim")
        /\ head' = CntPtr(head.cnt + 1, loc[t].next.ptr)
    BY <1>3 DEF DeqTake, HeadIs
  <2>2. tail.ptr # b /\ loc[t].next = qnext[b]
    BY <1>1, <2>0, <2>1 DEF DeqOK, Ahead
  <2>3. /\ Queued(tail.ptr) /\ Queued(b) /\ b \in Buffers /\ qnext[b] # CntPtr(0, NULL)
    BY <2>0, <2>2, ChainFacts DEF IInv, TailQueued
  <2>4. head'.ptr = qnext[b].ptr
    BY <2>0, <2>1, <2>2, NullNext
  <2>5. /\ Len(Chain) > 1 /\ b = Head(Chain) /\ Chain' = Tail(Chain)
        /\ \A c : Queued(c)' <=> Queued(c) /\ c # b
    BY <1>1, <2>0, <2>3, <2>4, QueueShorter DEF IInv
  <2>6. pc'[t] = "unclaim" /\ \A u \in Threads : u # t => pc'[u] = pc[u]
    BY <1>1, <2>0, <2>1, OneMoves
  <2>7. loc'[t].b = b /\ \A u \in Threads : u # t => loc'[u] = loc[u]
    BY <1>1, <2>0, <2>1, OneSets
  <2>8. \A c : Linking(c)' <=> Linking(c)
    BY <1>1, <2>6, <2>7 DEF Linking, LinkLabels
  <2>9. \A c : Taken(c)' <=> Taken(c) \/ c = b
    BY <1>1, <2>6, <2>7 DEF Taken, Dequeued, At
  <2>10. ~Linking(b)
    BY <2>3, PhaseIs
  <2>11. Phase(b)' = "taken"
    BY <2>5, <2>8, <2>9, <2>10 DEF Phase
  <2>12. Phased' = [Phased EXCEPT ![b] = "taken"]
    BY <2>3, <2>5, <2>8, <2>9, <2>11, PhaseChanges
  <2> QED
    BY <2>5, <2>12 DEF Abstract!Take, Phased
<1> QED
  BY <1>2, <1>3

\* The store to in_q is LruQueue's Unclaim.
LEMMA UnclaimMaps ==
  ASSUME IInv, NEW t \in Threads, DeqUnclaim(t)
  PROVE  \E b \in Buffers : Abstract!Unclaim(b) /\ in_q' = [in_q EXCEPT ![b] = FALSE]
<1>0. PICK b \in Buffers : b = loc[t].b
  BY DEF IInv, DeqUnclaim, At, Holds, Held
<1>1. /\ TypeOK /\ pc[t] = "unclaim" /\ Return(t) /\ head' = head /\ qnext' = qnext
      /\ Holds(t) /\ b \in Buffers /\ ~Queued(b) /\ Taken(b)
      /\ in_q' = [in_q EXCEPT ![b] = FALSE]
  BY <1>0 DEF IInv, DeqUnclaim, Unclaimed, At, Holds, Held, Taken, Dequeued
<1>2. /\ pc'[t] = "idle"
      /\ \A u \in Threads : u # t => pc'[u] = pc[u] /\ loc'[u] = loc[u]
  BY <1>0, <1>1, ReturnSets
<1>3. Chain' = Chain /\ \A c : Queued(c)' <=> Queued(c)
  BY <1>0, <1>1, QueueKept DEF IInv
<1>4. ~Linking(b)
  BY <1>0, <1>1, PhaseIs
<1>5. \A u \in Threads : u # t /\ Holds(u) => loc[u].b # b
  BY <1>0, <1>1 DEF IInv, Held
<1>6. ~Taken(b)'
  BY <1>2, <1>5 DEF Taken, Dequeued, At, Holds
<1>7. \A c : Linking(c)' <=> Linking(c)
  BY <1>0, <1>1, <1>2 DEF Linking, LinkLabels
<1>8. \A c : c # b => (Taken(c)' <=> Taken(c))
  BY <1>0, <1>1, <1>2 DEF Taken, Dequeued, At
<1>9. Phase(b) = "taken" /\ Phase(b)' = "out"
  BY <1>0, <1>1, <1>3, <1>4, <1>6, <1>7 DEF Phase
<1>10. Phased' = [Phased EXCEPT ![b] = "out"]
  BY <1>0, <1>1, <1>3, <1>7, <1>8, <1>9, PhaseChanges
<1>11. Phased[b] = "taken"
  BY <1>0, <1>1, <1>9 DEF Phased
<1> QED
  BY <1>0, <1>1, <1>3, <1>10, <1>11 DEF Abstract!Unclaim, Phased

\* What a step does to the queue of LruQueue, and to the claims.
Maps == \/ Chain' = Chain /\ Phased' = Phased /\ in_q' = in_q
        \/ Abstract!Take /\ in_q' = in_q
        \/ \E b \in Buffers :
             \/ Abstract!Link(b) /\ in_q' = in_q
             \/ Abstract!Claim(b) /\ in_q' = [in_q EXCEPT ![b] = TRUE]
             \/ Abstract!Unclaim(b) /\ in_q' = [in_q EXCEPT ![b] = FALSE]

LEMMA StepMaps == ASSUME IInv, [Next]_vars PROVE Maps
<1>1. ASSUME NEW t \in Threads, EnqReset(t) PROVE Chain' = Chain /\ Phased' = Phased
  <2>1. pc[t] = "reset" /\ loc' = loc /\ head' = head /\ Goto(t, "enq_tail") /\ TypeOK
    BY <1>1 DEF IInv, EnqReset, At
  <2>2. ~Queued(loc[t].b)
    BY <2>1 DEF IInv, Held, Holds, LinkLabels
  <2>3. \A b : Queued(b) => qnext'[b] = qnext[b]
    BY <1>1, <2>2, ChainFacts DEF IInv, TypeOK, EnqReset
  <2> QED
    BY <2>1, <2>3, OneMoves, QuietMaps DEF LinkLabels
<1>2. ASSUME NEW t \in Threads,
             EnqReadTail(t) \/ EnqReadNext(t) \/ EnqHelp(t)
               \/ DeqReadHead(t) \/ DeqReadTail(t) \/ DeqReadNext(t) \/ DeqHelp(t)
      PROVE  Chain' = Chain /\ Phased' = Phased
  <2>1. /\ head' = head /\ qnext' = qnext /\ TypeOK
        /\ \/ loc' = loc
           \/ \E v : Set(t, "head", v) \/ Set(t, "tail", v) \/ Set(t, "next", v)
        /\ pc[t] \in {"enq_tail", "enq_next", "enq_help"}
             => Goto(t, "enq_next") \/ Goto(t, "enq_check") \/ Goto(t, "enq_tail")
        /\ pc[t] \notin {"enq_tail", "enq_next", "enq_help"}
             => /\ pc[t] \in {"deq_head", "deq_tail", "deq_next", "deq_help"}
                /\ \/ Goto(t, "deq_tail") \/ Goto(t, "deq_next")
                   \/ Goto(t, "deq_check") \/ Goto(t, "deq_head")
    BY <1>2 DEF EnqReadTail, EnqReadNext, EnqHelp, DeqReadHead, DeqReadTail,
                DeqReadNext, DeqHelp, At, IInv
  <2>2. loc'[t].b = loc[t].b /\ \A u \in Threads : u # t => loc'[u] = loc[u]
    BY <2>1, OneSets
  <2> QED
    BY <2>1, <2>2, OneMoves, QuietMaps DEF LinkLabels
<1>3. ASSUME NEW t \in Threads, EnqCheck(t) \/ DeqCheck(t) \/ DeqCall(t)
      PROVE  Chain' = Chain /\ Phased' = Phased
  <2>1. /\ head' = head /\ qnext' = qnext /\ TypeOK /\ loc' = loc
        /\ pc[t] \in {"enq_check", "deq_check", "idle"}
        /\ \E l \in Labels : /\ Goto(t, l) /\ l # "unclaim"
                             /\ l \in LinkLabels <=> pc[t] \in LinkLabels
    BY <1>3 DEF EnqCheck, DeqCheck, DeqCall, Call, At, IInv, LinkLabels, Labels,
                TailLabels
  <2> QED
    BY <2>1, OneMoves, QuietMaps
<1>4. ASSUME NEW t \in Threads, EnqSwing(t) \/ DeqNone(t)
      PROVE  Chain' = Chain /\ Phased' = Phased
  <2>1. head' = head /\ qnext' = qnext /\ TypeOK /\ Return(t)
        /\ pc[t] \in {"swing", "none"}
    BY <1>4 DEF EnqSwing, DeqNone, At, IInv
  <2> QED
    BY <2>1, ReturnSets, QuietMaps DEF LinkLabels, Holds
<1>5. ASSUME NEW t \in Threads, Enqueue(t) \/ Dequeue(t)
      PROVE  Maps
  <2>1. CASE EnqReset(t) \/ EnqReadTail(t) \/ EnqReadNext(t) \/ EnqHelp(t)
               \/ EnqCheck(t) \/ EnqSwing(t)
    <3>1. in_q' = in_q
      BY <2>1 DEF EnqReset, EnqReadTail, EnqReadNext, EnqHelp, EnqCheck, EnqSwing
    <3> QED
      BY <1>1, <1>2, <1>3, <1>4, <2>1, <3>1 DEF Maps
  <2>2. CASE DeqReadHead(t) \/ DeqReadTail(t) \/ DeqReadNext(t) \/ DeqHelp(t)
               \/ DeqCheck(t) \/ DeqNone(t)
    <3>1. in_q' = in_q
      BY <2>2 DEF DeqReadHead, DeqReadTail, DeqReadNext, DeqHelp, DeqCheck, DeqNone
    <3> QED
      BY <1>2, <1>3, <1>4, <2>2, <3>1 DEF Maps
  <2>3. CASE EnqLink(t)
    BY <2>3, LinkMaps DEF Maps, EnqLink
  <2>4. CASE DeqTake(t)
    BY <2>4, TakeMaps DEF Maps, DeqTake
  <2>5. CASE DeqUnclaim(t)
    BY <2>5, UnclaimMaps DEF Maps
  <2> QED
    BY <1>5, <2>1, <2>2, <2>3, <2>4, <2>5 DEF Enqueue, Dequeue
<1>6. ASSUME NEW t \in Threads, NEW b \in Buffers, EnqClaim(t, b)
      PROVE  Maps
  BY <1>6, ClaimMaps DEF Maps
<1>7. CASE UNCHANGED vars
  <2>1. Chain' = Chain /\ \A b : Queued(b)' <=> Queued(b)
    BY <1>7, QueueKept DEF IInv, vars
  <2>2. \A b \in Buffers : Phase(b)' = Phase(b)
    BY <1>7, <2>1 DEF Phase, Linking, Taken, Dequeued, At, vars
  <2>3. Phased' = Phased
    BY <2>2 DEF Phased
  <2> QED
    BY <1>7, <2>1, <2>3 DEF Maps, vars
<1>8. ASSUME NEW t \in Threads, DeqCall(t) PROVE Maps
  BY <1>3, <1>8 DEF Maps, DeqCall
<1> QED
  BY <1>5, <1>6, <1>7, <1>8 DEF Next, Threads

LEMMA InitMaps == Init => Abstract!Init
<1> SUFFICES ASSUME Init PROVE Abstract!Init
  OBVIOUS
<1>1. IInv
  BY InitInv
<1> DEFINE q == Chain
<1>2. IsChain(head.ptr, qnext, q) /\ \A b : Queued(b) <=> In(q, b)
  BY <1>1, QueuedIs DEF IInv, Chained
<1> HIDE DEF q
<1>3. /\ q \in Seq(Buffers) /\ Len(q) \in Nat /\ Len(q) >= 1 /\ DOMAIN q = 1..Len(q)
      /\ \A i, j \in DOMAIN q : q[i] = q[j] => i = j
  BY <1>2 DEF IsChain
<1>4. \A b : Phase(b) = IF \E i \in DOMAIN q : q[i] = b THEN "queued" ELSE "out"
  <2>1. \A b : ~Linking(b) /\ ~Taken(b)
    BY DEF Init, Linking, LinkLabels, Taken, Dequeued, At
  <2> QED
    BY <1>2, <1>3, <2>1 DEF Phase, In
<1> QED
  BY <1>3, <1>4 DEF Abstract!Init, q

\* A claim is given up only with the phase that justifies it.
LEMMA ClaimedStep ==
  ASSUME IInv, ClaimedIsQueued, [Next]_vars PROVE ClaimedIsQueued'
<1>1. in_q \in [Buffers -> BOOLEAN] /\ \A b \in Buffers : in_q[b] => Phased[b] # "out"
  BY DEF IInv, TypeOK, ClaimedIsQueued, Phased, Phase
<1>2. \A b \in Buffers : in_q'[b] => Phased'[b] # "out"
  <2>1. Phased = [b \in Buffers |-> Phase(b)]
    BY DEF Phased
  <2>2. CASE Chain' = Chain /\ Phased' = Phased /\ in_q' = in_q
    BY <1>1, <2>2
  <2>3. CASE Abstract!Take /\ in_q' = in_q
    <3>1. Phased' = [Phased EXCEPT ![Head(Chain)] = "taken"]
      BY <2>3 DEF Abstract!Take, Phased
    <3> QED
      BY <1>1, <2>1, <2>3, <3>1
  <2>4. ASSUME NEW b \in Buffers, Abstract!Link(b), in_q' = in_q
        PROVE  \A c \in Buffers : in_q'[c] => Phased'[c] # "out"
    <3>1. Phased' = [Phased EXCEPT ![b] = "queued"]
      BY <2>4 DEF Abstract!Link, Phased
    <3> QED
      BY <1>1, <2>1, <2>4, <3>1
  <2>5. ASSUME NEW b \in Buffers, Abstract!Claim(b), in_q' = [in_q EXCEPT ![b] = TRUE]
        PROVE  \A c \in Buffers : in_q'[c] => Phased'[c] # "out"
    <3>1. Phased' = [Phased EXCEPT ![b] = "linking"]
      BY <2>5 DEF Abstract!Claim, Phased
    <3> QED
      BY <1>1, <2>1, <2>5, <3>1
  <2>6. ASSUME NEW b \in Buffers, Abstract!Unclaim(b),
               in_q' = [in_q EXCEPT ![b] = FALSE]
        PROVE  \A c \in Buffers : in_q'[c] => Phased'[c] # "out"
    <3>1. Phased' = [Phased EXCEPT ![b] = "out"]
      BY <2>6 DEF Abstract!Unclaim, Phased
    <3> QED
      BY <1>1, <2>1, <2>6, <3>1
  <2> QED
    BY <2>2, <2>3, <2>4, <2>5, <2>6, StepMaps DEF Maps
<1>3. \A b \in Buffers : Phased'[b] # "out" => (Queued(b) \/ Linking(b) \/ Taken(b))'
  BY DEF Phased, Phase
<1> QED
  BY <1>2, <1>3 DEF ClaimedIsQueued

-----------------------------------------------------------------------------
(* The theorems *)

(***************************************************************************)
(* The inductive invariant of enqueue and dequeue (bio.c:47, :69).  Races  *)
(* must be FALSE: EnqReset in enqueue's window makes a link NULL that a    *)
(* stalled CAS still expects NULL, which breaks NextWords and ~Fresh.      *)
(***************************************************************************)
THEOREM Invariance == ASSUME ~Races PROVE Spec => []IInv
<1>1. IInv /\ [Next]_vars => IInv'
  BY NextInv
<1>2. Init => IInv
  BY InitInv
<1> QED
  BY <1>1, <1>2, PTL DEF Spec

(***************************************************************************)
(* enqueue and dequeue are linearizable: the CAS of a link (bio.c:59) adds *)
(* the buffer at the end, the CAS of bcache.head (bio.c:83) removes the    *)
(* first, and no other step changes the queue.                             *)
(***************************************************************************)
THEOREM Linearizable == ASSUME ~Races PROVE Spec => ImplementsLruQueue
<1>1. Init => Abstract!Init
  BY InitMaps
<1>2. IInv /\ [Next]_vars => [Abstract!Next]_<<Chain, Phased>>
  BY StepMaps DEF Maps, Abstract!Next
<1>3. Spec => []IInv
  BY Invariance
<1> QED
  BY <1>1, <1>2, <1>3, PTL DEF Spec, ImplementsLruQueue, Abstract!Spec, Phased

(***************************************************************************)
(* Outside enqueue's window no enqueue loses its buffer: what in_q says is *)
(* claimed is in the queue, on its way there or being taken out            *)
(* (bio.c:49, :84).                                                        *)
(***************************************************************************)
THEOREM ClaimsAreKept == ASSUME ~Races PROVE Spec => []ClaimedIsQueued
<1>1. Init => ClaimedIsQueued
  <2> SUFFICES ASSUME Init, NEW b \in Buffers, b # NBUF PROVE Queued(b)
    BY Buf DEF Init, ClaimedIsQueued
  <2> QED
    BY InitQueue
<1>2. IInv /\ ClaimedIsQueued /\ [Next]_vars => ClaimedIsQueued'
  BY ClaimedStep
<1>3. Spec => []IInv
  BY Invariance
<1> QED
  BY <1>1, <1>2, <1>3, PTL DEF Spec

=============================================================================
