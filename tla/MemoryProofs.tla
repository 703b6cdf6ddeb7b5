---------------------------- MODULE MemoryProofs ----------------------------
(***************************************************************************)
(* Proofs about Memory, for every number of processes, pages and CPUs, any *)
(* number of forks, and all schedules that spare kalloc_cow's window.      *)
(***************************************************************************)
EXTENDS Memory, FiniteSetTheorems, SequenceTheorems, TLAPS

-----------------------------------------------------------------------------
(* The inductive invariant *)

Allocating == {"kalloc", "steal", "refill", "count"}
Asking(p) == pc[p] \in Allocating

\* What a process at each point has: a page and a page table of its own, and
\* a child while it forks.
Alive(p) == pc[p] \in Allocating \cup {"run", "share", "map", "cow", "copy"}
Owns ==
  \A p \in Procs :
    /\ pc[p] # "panic"
    /\ Alive(p) => pte[p].pa \in Pages /\ table[p] \in Pages
    /\ pc[p] \in {"free", "push"} => table[p] \in Pages
    /\ pc[p] \in {"unused", "embryo"} => pte[p].pa = None /\ table[p] = None
    /\ pte[p].w => pte[p].pa \in Pages
Forking ==
  \A p \in Procs :
    /\ pc[p] \in {"share", "map"} => child[p] # None
    /\ child[p] # None =>
         /\ pc[p] \in Allocating \cup {"share", "map"} /\ ~pte[p].w
         /\ pc[child[p]] = "embryo"
         /\ \A q \in Procs : child[q] = child[p] => q = p

\* What is in the hands of a thread.
InHand(p) ==
  /\ pc[p] = "count" => \E g \in Pages : hand[p] = <<g>>
  /\ pc[p] = "push" => hand[p] = <<Victim(p)>>
  /\ pc[p] \in {"map", "copy"} => hand[p] = <<>> \/ \E g \in Pages : hand[p] = <<g>>
  /\ pc[p] \notin {"refill", "count", "push", "map", "copy"} => hand[p] = <<>>
Hands == \A p \in Procs : InHand(p)

\* A thread that steals keeps its CPU, whose list stays empty.
Tied ==
  \A p \in Procs :
    /\ cpu[p] # None <=> pc[p] \in {"steal", "refill"}
    /\ cpu[p] # None => free[cpu[p]] = <<>>
    /\ \A q \in Procs : cpu[q] = cpu[p] /\ cpu[p] # None => q = p

\* In the window somebody else keeps the page alive.
Protected == \A p \in Procs : InWindow(p) => ref[pte[p].pa] # 0

\* A page just allocated is in no address space.
Fresh ==
  \A p \in Procs : pc[p] \in {"map", "copy"} /\ hand[p] # <<>> =>
    /\ ref[Head(hand[p])] = 1
    /\ \A q \in Procs : pte[q].pa # Head(hand[p]) /\ table[q] # Head(hand[p])

\* Nobody reads junk or a page table.
ContentOK == \A p \in Procs : Alive(p) => mem[pte[p].pa] \in Values

IInv ==
  /\ TypeOK /\ Owns /\ Forking /\ Hands /\ Tied /\ EachPageOnce
  /\ CountIsReferences /\ Protected /\ Fresh /\ WriterIsAlone /\ ContentOK

-----------------------------------------------------------------------------
(* Lists *)

LEMMA TailOf ==
  ASSUME NEW S, NEW s \in Seq(S), s # <<>>, IsInjective(s)
  PROVE  /\ Tail(s) \in Seq(S) /\ IsInjective(Tail(s))
         /\ Head(s) \in S /\ Head(s) \notin ToSet(Tail(s))
         /\ ToSet(s) = {Head(s)} \cup ToSet(Tail(s))
<1>1. /\ Tail(s) \in Seq(S) /\ Head(s) \in S /\ Len(s) \in Nat \ {0}
      /\ Len(Tail(s)) = Len(s) - 1
      /\ \A i \in 1..Len(Tail(s)) : Tail(s)[i] = s[i + 1]
  BY HeadTailProperties, EmptySeq
<1>2. DOMAIN s = 1..Len(s) /\ DOMAIN Tail(s) = 1..Len(Tail(s))
  BY <1>1, LenProperties
<1>3. Head(s) = s[1]
  OBVIOUS
<1>4. IsInjective(Tail(s))
  BY <1>1, <1>2 DEF IsInjective
<1>5. Head(s) \notin ToSet(Tail(s))
  BY <1>1, <1>2, <1>3 DEF IsInjective, ToSet
<1>6. ToSet(s) \subseteq {Head(s)} \cup ToSet(Tail(s))
  <2>1. ASSUME NEW i \in 1..Len(s), i # 1 PROVE s[i] \in ToSet(Tail(s))
    <3>1. i - 1 \in 1..Len(Tail(s)) /\ Tail(s)[i - 1] = s[i]
      BY <1>1, <2>1
    <3>2. QED
      BY <3>1, <1>2 DEF ToSet
  <2>2. QED
    BY <2>1, <1>2, <1>3 DEF ToSet
<1>7. {Head(s)} \cup ToSet(Tail(s)) \subseteq ToSet(s)
  BY <1>1, <1>2, <1>3 DEF ToSet
<1>8. QED
  BY <1>1, <1>4, <1>5, <1>6, <1>7

LEMMA CutOf ==
  ASSUME NEW S, NEW s \in Seq(S), IsInjective(s), NEW n \in 1..Len(s)
  PROVE  LET a == SubSeq(s, 1, n)
             b == SubSeq(s, n + 1, Len(s))
         IN /\ a \in Seq(S) /\ IsInjective(a) /\ a # <<>>
            /\ b \in Seq(S) /\ IsInjective(b)
            /\ ToSet(a) \cup ToSet(b) = ToSet(s)
            /\ ToSet(a) \cap ToSet(b) = {}
<1> DEFINE a == SubSeq(s, 1, n)
           b == SubSeq(s, n + 1, Len(s))
<1>1. Len(s) \in Nat /\ DOMAIN s = 1..Len(s) /\ \A i \in 1..Len(s) : s[i] \in S
  BY LenProperties
<1>0. n \in Nat /\ 1 <= n /\ n <= Len(s) /\ Len(s) \in Nat
  BY <1>1
<1>2. /\ a \in Seq(S) /\ Len(a) = n
      /\ \A i \in 1..n : a[i] = s[i]
  <2>1. \A i \in 1..n : s[i] \in S
    BY <1>1
  <2>2. /\ SubSeq(s, 1, n) \in Seq(S)
        /\ Len(SubSeq(s, 1, n)) = IF 1 <= n THEN n - 1 + 1 ELSE 0
        /\ \A i \in 1..(n - 1 + 1) : SubSeq(s, 1, n)[i] = s[1 + i - 1]
    BY <2>1, <1>1, SubSeqProperties
  <2>3. QED
    BY <2>2, <1>1
<1>3. /\ b \in Seq(S) /\ Len(b) = Len(s) - n
      /\ \A i \in 1..(Len(s) - n) : b[i] = s[n + i]
  <2>1. \A i \in (n + 1)..Len(s) : s[i] \in S
    BY <1>1
  <2>2. /\ SubSeq(s, n + 1, Len(s)) \in Seq(S)
        /\ Len(SubSeq(s, n + 1, Len(s))) = IF n + 1 <= Len(s) THEN Len(s) - (n + 1) + 1 ELSE 0
        /\ \A i \in 1..(Len(s) - (n + 1) + 1) : SubSeq(s, n + 1, Len(s))[i] = s[n + 1 + i - 1]
    BY <2>1, <1>1, SubSeqProperties
  <2>3. Len(b) = Len(s) - n
    <3>1. CASE n + 1 <= Len(s)
      BY <2>2, <3>1, <1>0
    <3>2. CASE ~(n + 1 <= Len(s))
      <4>1. Len(s) = n
        BY <3>2, <1>0
      <4>2. QED
        BY <2>2, <3>2, <4>1, <1>0
    <3>3. QED
      BY <3>1, <3>2
  <2>4. ASSUME NEW i \in 1..(Len(s) - n) PROVE b[i] = s[n + i]
    <3>1. n + 1 + i - 1 = n + i /\ i \in 1..(Len(s) - (n + 1) + 1)
      BY <1>1, <2>4
    <3>2. b[i] = s[n + 1 + i - 1]
      BY <2>2, <3>1
    <3>3. QED
      BY <3>1, <3>2
  <2>5. b \in Seq(S)
    BY <2>2
  <2>6. QED
    BY <2>3, <2>4, <2>5
<1>4. DOMAIN a = 1..n /\ DOMAIN b = 1..(Len(s) - n)
  BY <1>2, <1>3, LenProperties
<1> HIDE DEF a, b
<1>a. \A i \in DOMAIN a : i \in DOMAIN s /\ i <= n /\ a[i] = s[i]
  BY <1>1, <1>2, <1>4
<1>b. \A i \in DOMAIN b : n + i \in DOMAIN s /\ n + i > n /\ b[i] = s[n + i]
  BY <1>1, <1>3, <1>4
<1>5. IsInjective(a) /\ IsInjective(b)
  <2>1. IsInjective(a)
    BY <1>a DEF IsInjective
  <2>2. ASSUME NEW i \in DOMAIN b, NEW j \in DOMAIN b, b[i] = b[j] PROVE i = j
    <3>1. n + i = n + j
      BY <2>2, <1>b DEF IsInjective
    <3>2. QED
      BY <3>1, <1>1, <1>4
  <2>3. QED
    BY <2>1, <2>2 DEF IsInjective
<1>6. ToSet(a) \cap ToSet(b) = {}
  <2>1. ASSUME NEW i \in DOMAIN a, NEW j \in DOMAIN b, a[i] = b[j] PROVE FALSE
    <3>1. i = n + j
      BY <2>1, <1>a, <1>b DEF IsInjective
    <3>2. QED
      BY <3>1, <1>a, <1>b, <1>1
  <2>2. QED
    BY <2>1 DEF ToSet
<1>7. ToSet(a) \cup ToSet(b) \subseteq ToSet(s)
  BY <1>a, <1>b DEF ToSet
<1>8. ToSet(s) \subseteq ToSet(a) \cup ToSet(b)
  <2>1. ASSUME NEW i \in 1..Len(s) PROVE s[i] \in ToSet(a) \cup ToSet(b)
    <3>1. CASE i <= n
      BY <3>1, <1>1, <1>2, <1>4 DEF ToSet
    <3>2. CASE i > n
      <4>1. i - n \in 1..(Len(s) - n) /\ b[i - n] = s[i]
        BY <3>2, <1>1, <1>3
      <4>2. QED
        BY <4>1, <1>4 DEF ToSet
    <3>3. QED
      BY <3>1, <3>2, <1>1
  <2>2. QED
    BY <2>1, <1>1 DEF ToSet
<1>9. a # <<>>
  BY <1>2
<1>10. QED
  BY <1>2, <1>3, <1>5, <1>6, <1>7, <1>8, <1>9 DEF a, b

LEMMA PushOn ==
  ASSUME NEW S, NEW s \in Seq(S), NEW g \in S, IsInjective(s), g \notin ToSet(s)
  PROVE  /\ <<g>> \o s \in Seq(S) /\ IsInjective(<<g>> \o s)
         /\ ToSet(<<g>> \o s) = {g} \cup ToSet(s)
<1> DEFINE t == <<g>> \o s
<1>1. Len(s) \in Nat /\ DOMAIN s = 1..Len(s) /\ <<g>> \in Seq(S) /\ Len(<<g>>) = 1
  BY LenProperties
<1>2. /\ t \in Seq(S) /\ Len(t) = 1 + Len(s)
      /\ \A i \in 1..(1 + Len(s)) : t[i] = IF i <= 1 THEN <<g>>[i] ELSE s[i - 1]
  BY <1>1, ConcatProperties
<1>3. DOMAIN t = 1..(1 + Len(s)) /\ t[1] = g
  BY <1>1, <1>2, LenProperties
<1> HIDE DEF t
<1>4. \A i \in 1..(1 + Len(s)) : i # 1 => i - 1 \in DOMAIN s /\ t[i] = s[i - 1]
  BY <1>1, <1>2
<1>5. \A i \in 1..(1 + Len(s)) : i # 1 => t[i] \in ToSet(s) /\ t[i] # g
  BY <1>4 DEF ToSet
<1>6. IsInjective(t)
  <2>1. ASSUME NEW i \in DOMAIN t, NEW j \in DOMAIN t, t[i] = t[j] PROVE i = j
    <3>1. CASE i = 1 \/ j = 1
      BY <3>1, <2>1, <1>3, <1>5
    <3>2. CASE i # 1 /\ j # 1
      <4>1. s[i - 1] = s[j - 1] /\ i - 1 \in DOMAIN s /\ j - 1 \in DOMAIN s
        BY <3>2, <2>1, <1>3, <1>4
      <4>2. i - 1 = j - 1
        BY <4>1 DEF IsInjective
      <4>3. QED
        BY <4>2, <1>1, <1>3
    <3>3. QED
      BY <3>1, <3>2
  <2>2. QED
    BY <2>1 DEF IsInjective
<1>7. \A i \in 1..Len(s) : i + 1 \in DOMAIN t /\ t[i + 1] = s[i]
  BY <1>1, <1>2, <1>3
<1>8. ToSet(t) = {g} \cup ToSet(s)
  <2>1. ToSet(t) \subseteq {g} \cup ToSet(s)
    BY <1>3, <1>5 DEF ToSet
  <2>2. {g} \cup ToSet(s) \subseteq ToSet(t)
    BY <1>1, <1>3, <1>7 DEF ToSet
  <2>3. QED
    BY <2>1, <2>2
<1>9. QED
  BY <1>2, <1>6, <1>8 DEF t

-----------------------------------------------------------------------------
(* Free pages *)

Cpu(i) == <<"cpu", i>>
Thread(p) == <<"thread", p>>

LEMMA StoresAre ==
  /\ \A i \in CPUs : Cpu(i) \in Stores /\ Stored(Cpu(i)) = free[i]
  /\ \A p \in Procs :
       /\ Thread(p) \in Stores
       /\ Stored(Thread(p)) = IF pc[p] \in {"refill", "count", "push"} THEN hand[p] ELSE <<>>
  /\ \A s \in Stores : (\E i \in CPUs : s = Cpu(i)) \/ (\E p \in Procs : s = Thread(p))
  /\ \A i \in CPUs, p \in Procs : Cpu(i) # Thread(p)
  /\ \A i, j \in CPUs : Cpu(i) = Cpu(j) => i = j
  /\ \A p, q \in Procs : Thread(p) = Thread(q) => p = q
BY DEF Stores, Stored, Cpu, Thread

LEMMA StoredType ==
  ASSUME TypeOK, NEW s \in Stores
  PROVE  Stored(s) \in Seq(Pages) /\ ToSet(Stored(s)) \subseteq Pages
<1>1. Stored(s) \in Seq(Pages)
  BY DEF TypeOK, Stores, Stored
<1>2. QED
  BY <1>1, LenProperties DEF ToSet

LEMMA OneOrNone ==
  /\ IsInjective(<<>>) /\ ToSet(<<>>) = {}
  /\ \A g : IsInjective(<<g>>) /\ ToSet(<<g>>) = {g} /\ Head(<<g>>) = g /\ <<g>> # <<>>
BY DEF IsInjective, ToSet

\* Pages that move from one place to another stay in one place.
LEMMA Moved ==
  ASSUME TypeOK, EachPageOnce, NEW s \in Stores, NEW t \in Stores, s # t,
         \A u \in Stores : u # s /\ u # t => Stored(u)' = Stored(u),
         IsInjective(Stored(s)'), IsInjective(Stored(t)'),
         ToSet(Stored(s)') \cap ToSet(Stored(t)') = {},
         ToSet(Stored(s)') \cup ToSet(Stored(t)') = ToSet(Stored(s)) \cup ToSet(Stored(t)),
         ref' = ref
  PROVE  EachPageOnce'
<1> DEFINE F(u) == ToSet(Stored(u))
           G(u) == ToSet(Stored(u)')
<1>1. \A u \in Stores : u # s /\ u # t => G(u) = F(u)
  OBVIOUS
<1>2. G(s) \cap G(t) = {} /\ G(s) \cup G(t) = F(s) \cup F(t)
  OBVIOUS
<1>3. \A u, v \in Stores : u # v => F(u) \cap F(v) = {}
  BY DEF EachPageOnce
<1>4. \A g \in Pages : ref[g] = 0 <=> \E u \in Stores : g \in F(u)
  BY DEF EachPageOnce
<1> HIDE DEF F, G
<1>5. \A u, v \in Stores : u # v => G(u) \cap G(v) = {}
  BY <1>1, <1>2, <1>3
<1>6. \A g : (\E u \in Stores : g \in G(u)) <=> (\E u \in Stores : g \in F(u))
  BY <1>1, <1>2
<1>7. \A u \in Stores : IsInjective(Stored(u)')
  BY DEF EachPageOnce
<1>8. \A g \in Pages : ref'[g] = 0 <=> \E u \in Stores : g \in G(u)
  BY <1>4, <1>6
<1>9. QED
  BY <1>5, <1>7, <1>8 DEF EachPageOnce, F, G, Stores

\* A page that no longer counts as free leaves its place, and one whose last
\* reference is gone gets one.
LEMMA TakenOut ==
  ASSUME TypeOK, EachPageOnce, NEW s \in Stores, NEW g \in Pages,
         Stored(s) = <<g>>, Stored(s)' = <<>>,
         \A u \in Stores : u # s => Stored(u)' = Stored(u),
         ref' = [ref EXCEPT ![g] = @ + 1]
  PROVE  EachPageOnce'
<1> DEFINE F(u) == ToSet(Stored(u))
           G(u) == ToSet(Stored(u)')
<1>1. F(s) = {g} /\ G(s) = {} /\ IsInjective(Stored(s)')
  BY OneOrNone
<1>2. \A u \in Stores : u # s => G(u) = F(u)
  OBVIOUS
<1>3. \A u, v \in Stores : u # v => F(u) \cap F(v) = {}
  BY DEF EachPageOnce
<1>4. \A h \in Pages : ref[h] = 0 <=> \E u \in Stores : h \in F(u)
  BY DEF EachPageOnce
<1>5. \A u \in Stores : IsInjective(Stored(u)')
  BY <1>1 DEF EachPageOnce
<1>6. \A h \in Pages : ref'[h] = IF h = g THEN ref[g] + 1 ELSE ref[h]
  BY DEF TypeOK
<1> HIDE DEF F, G
<1>7. \A u, v \in Stores : u # v => G(u) \cap G(v) = {}
  BY <1>1, <1>2, <1>3
<1>8. \A u \in Stores : g \notin G(u)
  BY <1>1, <1>2, <1>3
<1>9. ASSUME NEW h \in Pages PROVE ref'[h] = 0 <=> \E u \in Stores : h \in G(u)
  <2>1. CASE h = g
    <3>1. ref[g] \in Nat
      BY DEF TypeOK
    <3>2. QED
      BY <2>1, <3>1, <1>6, <1>8
  <2>2. CASE h # g
    BY <2>2, <1>1, <1>2, <1>4, <1>6
  <2>3. QED
    BY <2>1, <2>2
<1>10. QED
  BY <1>5, <1>7, <1>9 DEF EachPageOnce, G, Stores

LEMMA PutIn ==
  ASSUME TypeOK, EachPageOnce, NEW s \in Stores, NEW g \in Pages, ref[g] = 1,
         Stored(s) = <<>>, Stored(s)' = <<g>>,
         \A u \in Stores : u # s => Stored(u)' = Stored(u),
         ref' = [ref EXCEPT ![g] = @ - 1]
  PROVE  EachPageOnce'
<1> DEFINE F(u) == ToSet(Stored(u))
           G(u) == ToSet(Stored(u)')
<1>1. F(s) = {} /\ G(s) = {g} /\ IsInjective(Stored(s)')
  BY OneOrNone
<1>2. \A u \in Stores : u # s => G(u) = F(u)
  OBVIOUS
<1>3. \A u, v \in Stores : u # v => F(u) \cap F(v) = {}
  BY DEF EachPageOnce
<1>4. \A h \in Pages : ref[h] = 0 <=> \E u \in Stores : h \in F(u)
  BY DEF EachPageOnce
<1>5. \A u \in Stores : IsInjective(Stored(u)')
  BY <1>1 DEF EachPageOnce
<1>6. \A h \in Pages : ref'[h] = IF h = g THEN 0 ELSE ref[h]
  BY DEF TypeOK
<1> HIDE DEF F, G
<1>7. \A u \in Stores : g \notin F(u)
  BY <1>4
<1>8. \A u, v \in Stores : u # v => G(u) \cap G(v) = {}
  BY <1>1, <1>2, <1>3, <1>7
<1>9. \A h \in Pages : ref'[h] = 0 <=> \E u \in Stores : h \in G(u)
  BY <1>1, <1>2, <1>4, <1>6
<1>10. QED
  BY <1>5, <1>8, <1>9 DEF EachPageOnce, G, Stores

LEMMA NothingMoved ==
  ASSUME EachPageOnce, \A u \in Stores : Stored(u)' = Stored(u),
         \A g \in Pages : ref'[g] = 0 <=> ref[g] = 0
  PROVE  EachPageOnce'
BY DEF EachPageOnce, Stores

-----------------------------------------------------------------------------
(* References *)

Tokens == Procs \X Kinds
Refs == [t \in Tokens |-> Target(t[1], t[2])]
Bound(f, g) == Cardinality({t \in Tokens : f[t] = g})

LEMMA FiniteTokens == IsFiniteSet(Tokens)
<1>1. IsFiniteSet(Procs)
  BY MemoryAssumption DEF MemoryAssumption
<1>2. IsFiniteSet({"page", "table"}) /\ IsFiniteSet({"new", "shared"})
  <2>1. /\ IsFiniteSet({"page"} \cup {"table"})
        /\ IsFiniteSet({"new"} \cup {"shared"})
    BY FS_Singleton, FS_AddElement
  <2>2. {"page"} \cup {"table"} = {"page", "table"} /\ {"new"} \cup {"shared"} = {"new", "shared"}
    OBVIOUS
  <2>3. QED
    BY <2>1, <2>2
<1>3. IsFiniteSet(Kinds)
  <2>1. Kinds = {"page", "table"} \cup {"new", "shared"}
    BY DEF Kinds
  <2>2. QED
    BY <2>1, <1>2, FS_Union
<1>4. QED
  BY <1>1, <1>3, FS_Product DEF Tokens

LEMMA BoundType ==
  ASSUME NEW f, NEW g
  PROVE  IsFiniteSet({t \in Tokens : f[t] = g}) /\ Bound(f, g) \in Nat
<1>1. {t \in Tokens : f[t] = g} \in SUBSET Tokens
  OBVIOUS
<1>2. IsFiniteSet({t \in Tokens : f[t] = g})
  BY <1>1, FiniteTokens, FS_Subset
<1>3. QED
  BY <1>2, FS_CardinalityType DEF Bound

\* A token that gets a page adds one to its references, and to no other's.
LEMMA Bind ==
  ASSUME NEW f, NEW h, NEW x \in Tokens, NEW g \in Pages,
         f[x] = None, h[x] = g, \A t \in Tokens : t # x => h[t] = f[t]
  PROVE  \A y \in Pages : Bound(h, y) = IF y = g THEN Bound(f, y) + 1 ELSE Bound(f, y)
<1>0. None \notin Pages
  BY MemoryAssumption DEF MemoryAssumption
<1> TAKE y \in Pages
<1> DEFINE A == {t \in Tokens : f[t] = y}
           B == {t \in Tokens : h[t] = y}
<1>1. IsFiniteSet(A) /\ x \notin A
  <2>1. IsFiniteSet(A)
    BY BoundType
  <2>2. QED
    BY <2>1, <1>0
<1>2. \A t \in Tokens : h[t] = IF t = x THEN g ELSE f[t]
  OBVIOUS
<1>3. CASE y = g
  <2>1. B = A \cup {x}
    BY <1>2, <1>3
  <2> HIDE DEF A, B
  <2>2. Cardinality(B) = Cardinality(A) + 1
    BY <1>1, <2>1, FS_AddElement
  <2>3. QED
    BY <2>2, <1>3 DEF A, B, Bound
<1>4. CASE y # g
  <2>1. B = A
    BY <1>1, <1>2, <1>4
  <2>2. QED
    BY <2>1, <1>4 DEF Bound
<1>5. QED
  BY <1>3, <1>4

\* A reference that passes from one token to another is still one reference.
LEMMA Rebind ==
  ASSUME NEW f, NEW h, NEW x \in Tokens, NEW y \in Tokens, NEW g \in Pages, x # y,
         f[x] = g, f[y] = None, h[x] = None, h[y] = g,
         \A t \in Tokens : t # x /\ t # y => h[t] = f[t]
  PROVE  \A z \in Pages : Bound(h, z) = Bound(f, z)
<1> DEFINE m == [t \in Tokens |-> IF t = x THEN None ELSE f[t]]
<1>1. m[x] = None /\ m[y] = None /\ \A t \in Tokens : t # x => m[t] = f[t]
  OBVIOUS
<1> HIDE DEF m
<1>2. \A z \in Pages : Bound(f, z) = IF z = g THEN Bound(m, z) + 1 ELSE Bound(m, z)
  BY <1>1, Bind
<1>3. \A t \in Tokens : t # y => h[t] = m[t]
  BY <1>1
<1>4. \A z \in Pages : Bound(h, z) = IF z = g THEN Bound(m, z) + 1 ELSE Bound(m, z)
  BY <1>1, <1>3, Bind
<1>5. QED
  BY <1>2, <1>4

LEMMA CountIs == CountIsReferences <=> \A g \in Pages : ref[g] = Bound(Refs, g) + leaked[g]
<1>1. ASSUME NEW g PROVE {t \in Procs \X Kinds : Target(t[1], t[2]) = g} = {t \in Tokens : Refs[t] = g}
  BY DEF Tokens, Refs
<1>2. QED
  BY <1>1 DEF CountIsReferences, References, Bound

\* A page somebody refers to is counted, and one two refer to, twice.
LEMMA Referred ==
  ASSUME TypeOK, CountIsReferences, NEW g \in Pages, NEW x \in Tokens, Refs[x] = g
  PROVE  /\ ref[g] >= 1
         /\ \A y \in Tokens : Refs[y] = g /\ y # x => ref[g] >= 2
<1> DEFINE A == {t \in Tokens : Refs[t] = g}
<1>1. ref[g] = Cardinality(A) + leaked[g] /\ leaked[g] \in Nat /\ ref[g] \in Nat
  BY CountIs DEF TypeOK, Bound
<1>2. IsFiniteSet(A) /\ Cardinality(A) \in Nat
  <2>1. IsFiniteSet(A)
    BY BoundType
  <2>2. QED
    BY <2>1, FS_CardinalityType
<1>3. {x} \in SUBSET A /\ Cardinality({x}) = 1
  BY FS_Singleton
<1>4. Cardinality(A) >= 1
  BY <1>2, <1>3, FS_Subset
<1>5. ASSUME NEW y \in Tokens, Refs[y] = g, y # x PROVE Cardinality(A) >= 2
  <2>1. Cardinality({x} \cup {y}) = 2
    <3>1. IsFiniteSet({x}) /\ y \notin {x}
      BY <1>5, FS_Singleton
    <3>2. Cardinality({x} \cup {y}) = Cardinality({x}) + 1
      BY <3>1, FS_AddElement
    <3>3. QED
      BY <3>2, <1>3
  <2>2. {x} \cup {y} \in SUBSET A
    BY <1>5
  <2>3. Cardinality({x} \cup {y}) <= Cardinality(A)
    BY <2>2, <1>2, FS_Subset
  <2>4. QED
    BY <2>1, <2>3, <1>2
<1> HIDE DEF A
<1>6. QED
  BY <1>1, <1>2, <1>4, <1>5
-----------------------------------------------------------------------------
(* Steps *)

LEMMA Constants ==
  /\ NCPU \in Nat \ {0} /\ MaxForks \in Nat /\ None \notin Pages /\ None \notin Procs
  /\ None \notin CPUs /\ Values \cap {None, Junk, Table} = {} /\ CPUs \subseteq Nat
BY MemoryAssumption DEF MemoryAssumption, CPUs

\* A page in the address space of a process is counted, unless kfree has it.
LEMMA Counted ==
  ASSUME IInv, NEW q \in Procs
  PROVE  /\ pte[q].pa # None /\ ~At(q, "push") => ref[pte[q].pa] >= 1
         /\ table[q] # None /\ ~(At(q, "push") /\ pte[q].pa = None) => ref[table[q]] >= 1
<1>1. <<q, "page">> \in Tokens /\ <<q, "table">> \in Tokens
  BY DEF Tokens, Kinds
<1>2. /\ Refs[<<q, "page">>] = IF Mapped(q) THEN pte[q].pa ELSE None
      /\ Refs[<<q, "table">>] = IF At(q, "push") /\ pte[q].pa = None THEN None ELSE table[q]
  BY <1>1 DEF Refs, Target
<1>3. pte[q].pa \in Pages \cup {None} /\ table[q] \in Pages \cup {None} /\ ref \in [Pages -> Nat]
  BY DEF IInv, TypeOK
<1>4. InWindow(q) /\ pte[q].pa # None => ref[pte[q].pa] >= 1
  BY <1>3 DEF IInv, Protected
<1>5. TypeOK /\ CountIsReferences
  BY DEF IInv
<1>6. QED
  BY <1>1, <1>2, <1>3, <1>4, <1>5, Referred DEF Mapped

\* What kalloc has taken off the lists, and kfree is about to put there, is in
\* no other address space.
LEMMA NotMapped ==
  ASSUME IInv, NEW p \in Procs, pc[p] \in {"refill", "count", "push"},
         NEW g \in ToSet(hand[p])
  PROVE  /\ g \in Pages /\ ref[g] = 0
         /\ \A q \in Procs : q # p \/ ~At(p, "push") => pte[q].pa # g /\ table[q] # g
<1>0. TypeOK /\ EachPageOnce /\ Hands
  BY DEF IInv
<1>1. Stored(Thread(p)) = hand[p] /\ Thread(p) \in Stores
  BY StoresAre
<1>2. g \in Pages /\ ref[g] = 0
  BY <1>0, <1>1, StoredType DEF EachPageOnce
<1>3. ASSUME NEW q \in Procs, q # p \/ ~At(p, "push"), At(q, "push") PROVE Victim(q) # g
  <2>1. q # p
    BY <1>3
  <2>2. Stored(Thread(q)) = <<Victim(q)>> /\ Thread(q) \in Stores /\ Thread(p) # Thread(q)
    BY <1>0, <1>3, <2>1, StoresAre DEF At, Hands, InHand
  <2>3. ToSet(Stored(Thread(q))) = {Victim(q)}
    BY <2>2, OneOrNone
  <2>4. ToSet(Stored(Thread(p))) \cap ToSet(Stored(Thread(q))) = {}
    BY <1>0, <1>1, <2>2 DEF EachPageOnce
  <2>5. QED
    BY <1>1, <2>3, <2>4
<1>4. ASSUME NEW q \in Procs, q # p \/ ~At(p, "push") PROVE pte[q].pa # g /\ table[q] # g
  <2>1. ~At(q, "push") => pte[q].pa # g /\ table[q] # g
    BY <1>2, Counted, Constants
  <2>2. At(q, "push") => pte[q].pa # g
    BY <1>2, <1>3, <1>4, Constants DEF Victim
  <2>3. At(q, "push") => table[q] # g
    <3>1. At(q, "push") /\ pte[q].pa # None => table[q] # g
      BY <1>2, Counted, Constants
    <3>2. QED
      BY <1>3, <1>4, <3>1 DEF Victim
  <2>4. QED
    BY <2>1, <2>2, <2>3
<1>5. QED
  BY <1>2, <1>4

\* The panics are out of reach.
LEMMA Counting ==
  ASSUME IInv, NEW p \in Procs, KallocCount(p)
  PROVE  \E g \in Pages :
           /\ hand[p] = <<g>> /\ ref[g] = 0
           /\ \A q \in Procs : pte[q].pa # g /\ table[q] # g
           /\ ref' = [ref EXCEPT ![g] = @ + 1] /\ mem' = [mem EXCEPT ![g] = Junk]
           /\ Goto(p, Caller(p))
           /\ UNCHANGED <<poolVars, spaceVars, forkVars>>
<1>1. PICK g \in Pages : hand[p] = <<g>>
  BY DEF IInv, Hands, InHand, KallocCount, At
<1>2. Head(hand[p]) = g /\ g \in ToSet(hand[p])
  BY <1>1, OneOrNone
<1>3. ref[g] = 0 /\ \A q \in Procs : pte[q].pa # g /\ table[q] # g
  BY <1>2, NotMapped DEF KallocCount, At
<1>4. QED
  BY <1>1, <1>2, <1>3 DEF KallocCount

LEMMA Dropping ==
  ASSUME IInv, NEW p \in Procs, KfreeDrop(p)
  PROVE  LET g == Victim(p) IN
           /\ g \in Pages /\ ref[g] >= 1 /\ ref[g] \in Nat
           /\ ref[g] = 1 => MayTakeLast(g)
           /\ ref' = [ref EXCEPT ![g] = @ - 1]
           /\ \/ /\ ref[g] = 1 /\ hand' = [hand EXCEPT ![p] = <<g>>]
                 /\ Goto(p, "push") /\ UNCHANGED spaceVars
              \/ ref[g] # 1 /\ Detach(p) /\ UNCHANGED hand
           /\ UNCHANGED <<free, mem, cpu, scan, forkVars>>
<1>1. TypeOK /\ table[p] \in Pages /\ At(p, "free")
  BY DEF IInv, Owns, KfreeDrop, At
<1>2. Victim(p) \in Pages
  BY <1>1 DEF TypeOK, Victim
<1>3. ref[Victim(p)] >= 1 /\ ref[Victim(p)] \in Nat
  BY <1>1, <1>2, Counted, Constants DEF Victim, At, TypeOK
<1>4. LastRef(ref[Victim(p)] - 1) <=> ref[Victim(p)] = 1
  BY <1>3 DEF LastRef
<1>5. QED
  BY <1>2, <1>3, <1>4 DEF KfreeDrop

LEMMA TakingOver ==
  ASSUME IInv, NEW p \in Procs, CowSole(p)
  PROVE  /\ pte[p].pa \in Pages /\ ref[pte[p].pa] = 1 /\ MayTakeLast(pte[p].pa)
         /\ pte' = [pte EXCEPT ![p] = Decow(@)] /\ Goto(p, "run")
<1>1. pte[p].pa \in Pages /\ ~At(p, "push")
  BY DEF IInv, Owns, Alive, CowSole, At
<1>2. ref[pte[p].pa] >= 1
  BY <1>1, Counted, Constants
<1>3. QED
  BY <1>1, <1>2 DEF CowSole, Sole, IInv, TypeOK
-----------------------------------------------------------------------------
(* Types *)

LEMMA Lists ==
  ASSUME TypeOK, EachPageOnce
  PROVE  /\ \A i \in CPUs : free[i] \in Seq(Pages) /\ IsInjective(free[i])
         /\ \A p \in Procs : pc[p] \in {"refill", "count", "push"} =>
              hand[p] \in Seq(Pages) /\ hand[p] # <<>> /\ IsInjective(hand[p])
BY StoresAre DEF EachPageOnce, TypeOK

LEMMA HalfOf ==
  ASSUME NEW list \in Seq(Pages), list # <<>>
  PROVE  Half(list) \in 1..Len(list)
<1>1. Len(list) \in Nat \ {0}
  BY EmptySeq
<1>2. Half(list) = (Len(list) + 1) \div 2
  BY DEF Half
<1>3. QED
  BY <1>1, <1>2

LEMMA Stealing ==
  ASSUME TypeOK, EachPageOnce, NEW p \in Procs, KallocSteal(p)
  PROVE  \/ /\ scan[p] + 1 \in 0..NCPU /\ scan' = [scan EXCEPT ![p] = @ + 1]
            /\ UNCHANGED <<free, hand, pc>>
         \/ \E j \in CPUs, a, b \in Seq(Pages) :
              /\ j # cpu[p] /\ free[j] # <<>>
              /\ hand' = [hand EXCEPT ![p] = a] /\ free' = [free EXCEPT ![j] = b]
              /\ Goto(p, "refill") /\ UNCHANGED scan
              /\ a # <<>> /\ IsInjective(a) /\ IsInjective(b)
              /\ ToSet(a) \cup ToSet(b) = ToSet(free[j]) /\ ToSet(a) \cap ToSet(b) = {}
<1> DEFINE j == scan[p]
<1>1. j \in CPUs /\ scan[p] + 1 \in 0..NCPU
  BY Constants DEF TypeOK, KallocSteal, CPUs
<1>2. CASE j = cpu[p] \/ free[j] = <<>>
  BY <1>1, <1>2 DEF KallocSteal
<1>3. CASE ~(j = cpu[p] \/ free[j] = <<>>)
  <2> DEFINE a == SubSeq(free[j], 1, Half(free[j]))
             b == SubSeq(free[j], Half(free[j]) + 1, Len(free[j]))
  <2>1. free[j] \in Seq(Pages) /\ IsInjective(free[j]) /\ free[j] # <<>>
    BY <1>1, <1>3, Lists
  <2>2. Half(free[j]) \in 1..Len(free[j])
    BY <2>1, HalfOf
  <2>3. /\ a \in Seq(Pages) /\ IsInjective(a) /\ a # <<>>
        /\ b \in Seq(Pages) /\ IsInjective(b)
        /\ ToSet(a) \cup ToSet(b) = ToSet(free[j]) /\ ToSet(a) \cap ToSet(b) = {}
    BY <2>1, <2>2, CutOf
  <2>4. Rest(free[j]) = b
    BY DEF Rest
  <2>5. /\ hand' = [hand EXCEPT ![p] = a] /\ free' = [free EXCEPT ![j] = b]
        /\ Goto(p, "refill") /\ UNCHANGED scan
    BY <1>3, <2>4 DEF KallocSteal
  <2> HIDE DEF a, b, j
  <2>6. QED
    BY <1>1, <1>3, <2>3, <2>5
<1>4. QED
  BY <1>2, <1>3

\* TypeOK in two parts, of which one is about where threads are and what they
\* have in hand.
Types ==
  /\ free \in [CPUs -> Seq(Pages)]
  /\ ref \in [Pages -> Nat]
  /\ mem \in [Pages -> Values \cup {Junk, Table}]
  /\ pte \in [Procs -> [pa : Pages \cup {None}, w : BOOLEAN, cow : BOOLEAN]]
  /\ table \in [Procs -> Pages \cup {None}]
  /\ cpu \in [Procs -> CPUs \cup {None}]
  /\ scan \in [Procs -> 0..NCPU]
  /\ child \in [Procs -> Procs \cup {None}]
  /\ forks \in 0..MaxForks
  /\ leaked \in [Pages -> Nat]
HandTypes ==
  /\ pc \in [Procs -> PCs]
  /\ hand \in [Procs -> Seq(Pages)]
  /\ \A p \in Procs : pc[p] \in {"refill", "count", "push"} => hand[p] # <<>>

LEMMA TypesAre == TypeOK <=> Types /\ HandTypes
BY DEF TypeOK, Types, HandTypes

\* A thread that gets pages, and one whose hands stay as they are.
LEMMA Gets ==
  ASSUME TypeOK, NEW p \in Procs, NEW h \in Seq(Pages), hand' = [hand EXCEPT ![p] = h],
         NEW l \in PCs, Goto(p, l), l \in {"refill", "count", "push"} => h # <<>>
  PROVE  HandTypes'
BY DEF TypeOK, HandTypes, Goto

LEMMA KeepsHands ==
  ASSUME TypeOK, UNCHANGED hand, NEW p \in Procs, NEW l \in PCs, Goto(p, l),
         l \notin {"refill", "count", "push"}
  PROVE  HandTypes'
BY DEF TypeOK, HandTypes, Goto

LEMMA KeepsPlace == TypeOK /\ UNCHANGED <<hand, pc>> => HandTypes'
BY DEF TypeOK, HandTypes

LEMMA DetachTypes ==
  ASSUME Types, NEW p \in Procs, Detach(p) \/ UNCHANGED spaceVars
  PROVE  /\ pte' \in [Procs -> [pa : Pages \cup {None}, w : BOOLEAN, cow : BOOLEAN]]
         /\ table' \in [Procs -> Pages \cup {None}]
<1>1. Unmapped \in [pa : Pages \cup {None}, w : BOOLEAN, cow : BOOLEAN]
  BY DEF Unmapped
<1>2. CASE UNCHANGED spaceVars
  BY <1>2 DEF Types, spaceVars
<1>3. CASE pte' = [pte EXCEPT ![p] = Unmapped] /\ UNCHANGED table
  BY <1>1, <1>3 DEF Types
<1>4. CASE table' = [table EXCEPT ![p] = None] /\ UNCHANGED pte
  BY <1>4 DEF Types
<1>5. QED
  BY <1>2, <1>3, <1>4 DEF Detach

LEMMA Detaching ==
  ASSUME NEW p \in Procs, Detach(p)
  PROVE  \/ /\ pte[p].pa # None /\ pte' = [pte EXCEPT ![p] = Unmapped]
            /\ Goto(p, "free") /\ UNCHANGED table
         \/ /\ pte[p].pa = None /\ table' = [table EXCEPT ![p] = None]
            /\ Goto(p, "unused") /\ UNCHANGED pte
BY DEF Detach

LEMMA OnePage ==
  ASSUME NEW g \in Pages
  PROVE  <<g>> \in Seq(Pages) /\ <<g>> # <<>>
OBVIOUS

LEMMA HandsStep == ASSUME IInv, [Next]_vars PROVE HandTypes'
<1>0. TypeOK /\ EachPageOnce /\ Hands
  BY DEF IInv
<1>00. <<>> \in Seq(Pages)
  OBVIOUS
<1> USE <1>0 DEF poolVars, At
<1>1. CASE UNCHANGED vars
  BY <1>1, KeepsPlace DEF vars
<1>2. ASSUME NEW p \in Procs, NEW i \in CPUs, KallocPop(p, i) PROVE HandTypes'
  <2>1. CASE free[i] # <<>>
    <3>1. Head(free[i]) \in Pages
      BY <1>2, <2>1, HeadTailProperties DEF TypeOK
    <3> DEFINE h == <<Head(free[i])>>
    <3>2. h \in Seq(Pages) /\ h # <<>>
      BY <3>1, OnePage
    <3>3. hand' = [hand EXCEPT ![p] = h] /\ Goto(p, "count")
      BY <1>2, <2>1 DEF KallocPop
    <3> HIDE DEF h
    <3>4. QED
      BY <3>2, <3>3, Gets DEF PCs
  <2>2. CASE free[i] = <<>>
    <3>1. UNCHANGED hand /\ Goto(p, "steal")
      BY <1>2, <2>2 DEF KallocPop
    <3>2. QED
      BY <3>1, KeepsHands DEF PCs
  <2>3. QED
    BY <2>1, <2>2
<1>3. ASSUME NEW p \in Procs, KallocSteal(p) PROVE HandTypes'
  <2>1. CASE UNCHANGED <<free, hand, pc>>
    BY <2>1, KeepsPlace
  <2>2. ASSUME NEW a \in Seq(Pages), a # <<>>, hand' = [hand EXCEPT ![p] = a], Goto(p, "refill")
        PROVE  HandTypes'
    BY <2>2, Gets DEF PCs
  <2>3. QED
    BY <1>3, <2>1, <2>2, Stealing
<1>4. ASSUME NEW p \in Procs, KallocRefill(p) PROVE HandTypes'
  <2> DEFINE h == <<Head(hand[p])>>
  <2>1. hand[p] \in Seq(Pages) /\ hand[p] # <<>>
    BY <1>4 DEF KallocRefill, TypeOK
  <2>2. Head(hand[p]) \in Pages
    BY <2>1, HeadTailProperties
  <2>3. h \in Seq(Pages) /\ h # <<>>
    BY <2>2, OnePage
  <2>4. hand' = [hand EXCEPT ![p] = h] /\ Goto(p, "count")
    BY <1>4 DEF KallocRefill
  <2> HIDE DEF h
  <2>5. QED
    BY <2>3, <2>4, Gets DEF PCs
<1>5. ASSUME NEW p \in Procs, KallocFails(p) PROVE HandTypes'
  BY <1>5, KeepsHands DEF KallocFails, Caller, PCs
<1>6. ASSUME NEW p \in Procs, KallocCount(p) PROVE HandTypes'
  <2>1. Goto(p, Caller(p)) /\ UNCHANGED hand
    BY <1>6, Counting
  <2>2. QED
    BY <2>1, KeepsHands DEF Caller, PCs
<1>7. ASSUME NEW p \in Procs, KfreeDrop(p) PROVE HandTypes'
  <2> DEFINE h == <<Victim(p)>>
  <2>1. h \in Seq(Pages) /\ h # <<>>
    BY <1>7, Dropping, OnePage
  <2>2. \/ hand' = [hand EXCEPT ![p] = h] /\ Goto(p, "push")
        \/ Detach(p) /\ UNCHANGED hand
    BY <1>7, Dropping
  <2> HIDE DEF h
  <2>3. CASE hand' = [hand EXCEPT ![p] = h] /\ Goto(p, "push")
    BY <2>1, <2>3, Gets DEF PCs
  <2>4. CASE Detach(p) /\ UNCHANGED hand
    BY <2>4, KeepsHands DEF Detach, PCs
  <2>5. QED
    BY <2>2, <2>3, <2>4
<1>8. ASSUME NEW p \in Procs, NEW i \in CPUs, KfreePush(p, i) PROVE HandTypes'
  <2>1. hand' = [hand EXCEPT ![p] = <<>>] /\ \E l \in {"free", "unused"} : Goto(p, l)
    BY <1>8 DEF KfreePush, Detach
  <2>2. QED
    BY <2>1, <1>00, Gets DEF PCs
<1>9. ASSUME NEW p \in Procs, NEW q \in Procs, Fork(p, q) PROVE HandTypes'
  <2>1. "share" \in PCs /\ "embryo" \in PCs
    BY DEF PCs
  <2>2. UNCHANGED hand /\ pc' = [pc EXCEPT ![p] = "share", ![q] = "embryo"]
    BY <1>9 DEF Fork
  <2>3. QED
    BY <2>1, <2>2 DEF HandTypes, TypeOK
<1>10. ASSUME NEW p \in Procs, ForkShare(p) PROVE HandTypes'
  BY <1>10, KeepsHands DEF ForkShare, PCs
<1>11. ASSUME NEW p \in Procs, ForkMap(p) PROVE HandTypes'
  <2>1. /\ hand' = [hand EXCEPT ![p] = <<>>]
        /\ pc' = [pc EXCEPT ![p] = "run", ![child[p]] = "run"]
    BY <1>11 DEF ForkMap
  <2>2. "run" \in PCs
    BY DEF PCs
  <2>3. QED
    BY <2>1, <2>2, <1>00 DEF HandTypes, TypeOK
<1>12. ASSUME NEW p \in Procs, ForkFails(p) PROVE HandTypes'
  <2>1. "run" \in PCs /\ "unused" \in PCs
    BY DEF PCs
  <2>2. UNCHANGED hand /\ pc' = [pc EXCEPT ![p] = "run", ![child[p]] = "unused"]
    BY <1>12 DEF ForkFails
  <2>3. QED
    BY <2>1, <2>2 DEF HandTypes, TypeOK
<1>13. ASSUME NEW p \in Procs, NEW v \in Values, Store(p, v) PROVE HandTypes'
  BY <1>13, KeepsPlace DEF Store
<1>14. ASSUME NEW p \in Procs, Fault(p) PROVE HandTypes'
  BY <1>14, KeepsHands DEF Fault, PCs
<1>15. ASSUME NEW p \in Procs, CowSole(p) PROVE HandTypes'
  <2>1. Goto(p, "run") /\ UNCHANGED hand
    BY <1>15, TakingOver DEF CowSole
  <2>2. QED
    BY <2>1, KeepsHands DEF PCs
<1>16. ASSUME NEW p \in Procs, CowShared(p) PROVE HandTypes'
  BY <1>16, KeepsHands DEF CowShared, PCs
<1>17. ASSUME NEW p \in Procs, CowCopy(p) PROVE HandTypes'
  <2>1. hand' = [hand EXCEPT ![p] = <<>>] /\ Goto(p, "run")
    BY <1>17 DEF CowCopy
  <2>2. QED
    BY <2>1, <1>00, Gets DEF PCs
<1>18. ASSUME NEW p \in Procs, CowFails(p) PROVE HandTypes'
  BY <1>18, KeepsHands DEF CowFails, PCs
<1>19. ASSUME NEW p \in Procs, Exit(p) PROVE HandTypes'
  BY <1>19, KeepsHands DEF Exit, PCs
<1>20. QED
  BY <1>1, <1>2, <1>3, <1>4, <1>5, <1>6, <1>7, <1>8, <1>9, <1>10, <1>11, <1>12, <1>13, <1>14, <1>15, <1>16, <1>17, <1>18, <1>19 DEF Next, Kernel, User

LEMMA TypesStep == ASSUME IInv, [Next]_vars PROVE Types'
<1>0. Types
  BY TypesAre DEF IInv
<1>a. TypeOK /\ EachPageOnce /\ Owns /\ Forking /\ Hands
  BY DEF IInv
<1>b. \A p \in Procs : hand[p] \in Seq(Pages)
  BY <1>a DEF TypeOK
<1>c. NCPU \in Nat \ {0}
  BY Constants
<1>1. CASE UNCHANGED vars
  BY <1>0, <1>1 DEF vars, Types
<1>2. ASSUME NEW p \in Procs, NEW i \in CPUs, KallocPop(p, i) PROVE Types'
  <2>1. free[i] # <<>> => Head(free[i]) \in Pages /\ Tail(free[i]) \in Seq(Pages)
    BY <1>a, HeadTailProperties DEF TypeOK
  <2>2. CASE free[i] # <<>>
    BY <1>0, <1>2, <2>1, <2>2 DEF Types, At, poolVars, spaceVars, forkVars, KallocPop
  <2>3. CASE free[i] = <<>>
    <3>1. /\ cpu' = [cpu EXCEPT ![p] = i] /\ scan' = [scan EXCEPT ![p] = 0]
          /\ UNCHANGED <<free, ref, mem, spaceVars, forkVars>>
      BY <1>2, <2>3 DEF KallocPop
    <3>2. 0 \in 0..NCPU
      BY <1>c
    <3>3. QED
      BY <1>0, <3>1, <3>2 DEF Types, At, poolVars, spaceVars, forkVars
  <2>4. QED
    BY <2>2, <2>3
<1>3. ASSUME NEW p \in Procs, KallocSteal(p) PROVE Types'
  <2>1. CASE /\ UNCHANGED <<free, hand, pc>> /\ scan' = [scan EXCEPT ![p] = @ + 1]
             /\ scan[p] + 1 \in 0..NCPU
    BY <1>0, <1>3, <2>1 DEF Types, At, poolVars, spaceVars, forkVars, KallocSteal
  <2>2. ASSUME NEW j \in CPUs, NEW a \in Seq(Pages), NEW b \in Seq(Pages), a # <<>>,
               hand' = [hand EXCEPT ![p] = a], free' = [free EXCEPT ![j] = b],
               Goto(p, "refill"), UNCHANGED scan
        PROVE  Types'
    BY <1>0, <1>3, <2>2 DEF Types, At, poolVars, spaceVars, forkVars, KallocSteal
  <2>3. QED
    BY <1>3, <1>a, <2>1, <2>2, Stealing
<1>4. ASSUME NEW p \in Procs, KallocRefill(p) PROVE Types'
  <2>1. Head(hand[p]) \in Pages /\ Tail(hand[p]) \in Seq(Pages)
    BY <1>4, <1>a, <1>b, HeadTailProperties DEF KallocRefill, TypeOK, At
  <2>2. QED
    BY <1>0, <1>4, <2>1 DEF Types, At, poolVars, spaceVars, forkVars, KallocRefill, Refilled
<1>5. ASSUME NEW p \in Procs, KallocFails(p) PROVE Types'
  BY <1>0, <1>5 DEF Types, At, poolVars, spaceVars, forkVars, KallocFails, Caller
<1>6. ASSUME NEW p \in Procs, KallocCount(p) PROVE Types'
  <2>1. PICK g \in Pages : /\ ref' = [ref EXCEPT ![g] = @ + 1] /\ mem' = [mem EXCEPT ![g] = Junk]
                           /\ Goto(p, Caller(p)) /\ UNCHANGED <<poolVars, spaceVars, forkVars>>
    BY <1>6, <1>a, Counting
  <2>2. QED
    BY <1>0, <2>1 DEF Types, At, poolVars, spaceVars, forkVars, Caller
<1>7. ASSUME NEW p \in Procs, KfreeDrop(p) PROVE Types'
  <2> DEFINE g == Victim(p)
  <2>1. g \in Pages /\ ref[g] - 1 \in Nat
    BY <1>7, Dropping
  <2>2. QED
    <3>1. /\ ref' = [ref EXCEPT ![g] = @ - 1]
          /\ UNCHANGED spaceVars \/ Detach(p)
          /\ UNCHANGED <<free, mem, cpu, scan, forkVars>>
      BY <1>7, Dropping
    <3> HIDE DEF g
    <3>2. QED
      BY <1>0, <2>1, <3>1, DetachTypes DEF Types, forkVars
<1>8. ASSUME NEW p \in Procs, NEW i \in CPUs, KfreePush(p, i) PROVE Types'
  <2>1. hand[p] \o free[i] \in Seq(Pages)
    BY <1>a, <1>b, ConcatProperties DEF TypeOK
  <2>2. QED
    <3>1. Victim(p) \in Pages
      BY <1>8, <1>a DEF KfreePush, At, Owns, Victim, TypeOK
    <3>2. /\ mem' = [mem EXCEPT ![Victim(p)] = Junk]
          /\ free' = [free EXCEPT ![i] = hand[p] \o @]
          /\ Detach(p)
          /\ UNCHANGED <<ref, cpu, scan, forkVars>>
      BY <1>8 DEF KfreePush
    <3>3. QED
      BY <1>0, <2>1, <3>1, <3>2, DetachTypes DEF Types, forkVars
<1>9. ASSUME NEW p \in Procs, NEW q \in Procs, Fork(p, q) PROVE Types'
  <2>1. pte[p] \in [pa : Pages \cup {None}, w : BOOLEAN, cow : BOOLEAN]
    BY <1>0 DEF Types
  <2>2. Encow(pte[p]) \in [pa : Pages \cup {None}, w : BOOLEAN, cow : BOOLEAN]
    BY <2>1 DEF Encow
  <2>3. /\ forks' = forks + 1 /\ forks < MaxForks
        /\ child' = [child EXCEPT ![p] = q] /\ pte' = [pte EXCEPT ![p] = Encow(@)]
        /\ UNCHANGED <<ref, mem, table, poolVars, leaked>>
    BY <1>9 DEF Fork
  <2>4. forks + 1 \in 0..MaxForks
    BY <1>0, <2>3, Constants DEF Types
  <2>5. QED
    BY <1>0, <2>2, <2>3, <2>4 DEF Types, At, poolVars, spaceVars, forkVars
<1>10. ASSUME NEW p \in Procs, ForkShare(p) PROVE Types'
  BY <1>0, <1>10, <1>a DEF Types, At, poolVars, spaceVars, forkVars, ForkShare, Owns, Alive
<1>11. ASSUME NEW p \in Procs, ForkMap(p) PROVE Types'
  <2>1. Head(hand[p]) \in Pages /\ child[p] \in Procs
    BY <1>11, <1>a, <1>b, HeadTailProperties DEF ForkMap, Forking, TypeOK, At
  <2>2. QED
    BY <1>0, <1>11, <2>1 DEF Types, At, poolVars, spaceVars, forkVars, ForkMap
<1>12. ASSUME NEW p \in Procs, ForkFails(p) PROVE Types'
  <2>1. pte[p].pa \in Pages /\ child[p] \in Procs
    BY <1>12, <1>a DEF ForkFails, Forking, Owns, Alive, TypeOK, At
  <2>2. QED
    BY <1>0, <1>12, <2>1 DEF Types, At, poolVars, spaceVars, forkVars, ForkFails
<1>13. ASSUME NEW p \in Procs, NEW v \in Values, Store(p, v) PROVE Types'
  BY <1>0, <1>13 DEF Types, At, poolVars, spaceVars, forkVars, Store
<1>14. ASSUME NEW p \in Procs, Fault(p) PROVE Types'
  BY <1>0, <1>14 DEF Types, At, poolVars, spaceVars, forkVars, Fault
<1>15. ASSUME NEW p \in Procs, CowSole(p) PROVE Types'
  <2>1. pte' = [pte EXCEPT ![p] = Decow(@)] /\ Goto(p, "run")
    BY <1>15, TakingOver
  <2>2. QED
    BY <1>0, <1>15, <2>1 DEF Types, At, poolVars, spaceVars, forkVars, CowSole, Decow
<1>16. ASSUME NEW p \in Procs, CowShared(p) PROVE Types'
  <2>1. pte[p].pa \in Pages
    BY <1>0, <1>16, <1>a DEF Types, At, poolVars, spaceVars, forkVars, CowShared, Owns, Alive
  <2>2. ref[pte[p].pa] - 1 \in Nat
    BY <1>0, <1>16, <2>1 DEF Types, At, poolVars, spaceVars, forkVars, CowShared
  <2>3. QED
    BY <1>0, <1>16, <2>1, <2>2 DEF Types, At, poolVars, spaceVars, forkVars, CowShared, Dropped
<1>17. ASSUME NEW p \in Procs, CowCopy(p) PROVE Types'
  <2>1. Head(hand[p]) \in Pages /\ pte[p].pa \in Pages
    BY <1>17, <1>a, <1>b, HeadTailProperties DEF CowCopy, Owns, Alive, TypeOK, At
  <2>2. QED
    <3>1. mem' \in [Pages -> Values \cup {Junk, Table}]
      BY <1>0, <1>17, <2>1 DEF Types, CowCopy
    <3>2. pte' \in [Procs -> [pa : Pages \cup {None}, w : BOOLEAN, cow : BOOLEAN]]
      <4>1. pte \in [Procs -> [pa : Pages \cup {None}, w : BOOLEAN, cow : BOOLEAN]]
        BY <1>0 DEF Types
      <4>2. pte' = [pte EXCEPT ![p] = [Decow(pte[p]) EXCEPT !.pa = Head(hand[p])]]
        BY <1>17, <4>1 DEF CowCopy
      <4>3. [Decow(pte[p]) EXCEPT !.pa = Head(hand[p])]
              \in [pa : Pages \cup {None}, w : BOOLEAN, cow : BOOLEAN]
        BY <2>1, <4>1 DEF Decow
      <4>4. QED
        BY <4>1, <4>2, <4>3, Zenon
    <3>3. UNCHANGED <<ref, table, free, cpu, scan, forkVars>>
      BY <1>17 DEF CowCopy
    <3>4. QED
      BY <1>0, <3>1, <3>2, <3>3 DEF Types, forkVars
<1>18. ASSUME NEW p \in Procs, CowFails(p) PROVE Types'
  BY <1>0, <1>18, <1>a DEF Types, At, poolVars, spaceVars, forkVars, CowFails, Owns, Alive
<1>19. ASSUME NEW p \in Procs, Exit(p) PROVE Types'
  BY <1>0, <1>19 DEF Types, At, poolVars, spaceVars, forkVars, Exit
<1>20. QED
  BY <1>1, <1>2, <1>3, <1>4, <1>5, <1>6, <1>7, <1>8, <1>9, <1>10, <1>11, <1>12, <1>13, <1>14, <1>15, <1>16, <1>17, <1>18, <1>19 DEF Next, Kernel, User

-----------------------------------------------------------------------------
(* Address spaces, hands and CPUs *)

LEMMA OwnsStep == ASSUME IInv, [Next]_vars PROVE Owns'
<1>0. Types /\ Owns /\ pc \in [Procs -> PCs]
  BY TypesAre DEF IInv, HandTypes
<1>a. TypeOK /\ Forking
  BY DEF IInv
<1> USE <1>0
<1>1. CASE UNCHANGED vars
  BY <1>1 DEF vars, Owns, Alive, Allocating, At, Goto, poolVars, spaceVars, forkVars, Types
<1>2. ASSUME NEW p \in Procs, NEW i \in CPUs, KallocPop(p, i) PROVE Owns'
  BY <1>2 DEF KallocPop, Owns, Alive, Allocating, At, Goto, poolVars, spaceVars, forkVars, Types
<1>3. ASSUME NEW p \in Procs, KallocSteal(p) PROVE Owns'
  <2>1. UNCHANGED pc \/ Goto(p, "refill")
    BY <1>3 DEF KallocSteal
  <2>2. UNCHANGED spaceVars /\ At(p, "steal")
    BY <1>3 DEF KallocSteal
  <2>3. QED
    BY <2>1, <2>2 DEF Owns, Alive, Allocating, At, Goto, poolVars, spaceVars, forkVars, Types
<1>4. ASSUME NEW p \in Procs, KallocRefill(p) PROVE Owns'
  BY <1>4 DEF KallocRefill, Owns, Alive, Allocating, At, Goto, poolVars, spaceVars, forkVars, Types
<1>5. ASSUME NEW p \in Procs, KallocFails(p) PROVE Owns'
  BY <1>5 DEF KallocFails, Caller, Owns, Alive, Allocating, At, Goto, poolVars, spaceVars, forkVars, Types
<1>6. ASSUME NEW p \in Procs, KallocCount(p) PROVE Owns'
  <2>1. Goto(p, Caller(p)) /\ UNCHANGED spaceVars
    BY <1>6, Counting
  <2>2. At(p, "count")
    BY <1>6 DEF KallocCount
  <2>3. QED
    BY <2>1, <2>2 DEF Caller, Owns, Alive, Allocating, At, Goto, poolVars, spaceVars, forkVars, Types
<1>7. ASSUME NEW p \in Procs, KfreeDrop(p) PROVE Owns'
  <2>1. At(p, "free") /\ table[p] \in Pages
    BY <1>7 DEF KfreeDrop, At, Owns
  <2>2. CASE Goto(p, "push") /\ UNCHANGED spaceVars
    BY <2>1, <2>2 DEF Owns, Alive, Allocating, At, Goto, poolVars, spaceVars, forkVars, Types
  <2>3. CASE /\ pte[p].pa # None /\ pte' = [pte EXCEPT ![p] = Unmapped]
             /\ Goto(p, "free") /\ UNCHANGED table
    BY <2>1, <2>3 DEF Unmapped, Owns, Alive, Allocating, At, Goto, poolVars, spaceVars, forkVars, Types
  <2>4. CASE /\ pte[p].pa = None /\ table' = [table EXCEPT ![p] = None]
             /\ Goto(p, "unused") /\ UNCHANGED pte
    BY <2>1, <2>4 DEF Owns, Alive, Allocating, At, Goto, poolVars, spaceVars, forkVars, Types
  <2>5. QED
    BY <1>7, <2>1, <2>2, <2>3, <2>4, Dropping, Detaching
<1>8. ASSUME NEW p \in Procs, NEW i \in CPUs, KfreePush(p, i) PROVE Owns'
  <2>1. At(p, "push") /\ table[p] \in Pages /\ Detach(p)
    BY <1>8 DEF KfreePush, At, Owns
  <2>2. CASE /\ pte[p].pa # None /\ pte' = [pte EXCEPT ![p] = Unmapped]
             /\ Goto(p, "free") /\ UNCHANGED table
    BY <2>1, <2>2 DEF Unmapped, Owns, Alive, Allocating, At, Goto, poolVars, spaceVars, forkVars, Types
  <2>3. CASE /\ pte[p].pa = None /\ table' = [table EXCEPT ![p] = None]
             /\ Goto(p, "unused") /\ UNCHANGED pte
    BY <2>1, <2>3 DEF Owns, Alive, Allocating, At, Goto, poolVars, spaceVars, forkVars, Types
  <2>4. QED
    BY <2>1, <2>2, <2>3, Detaching
<1>9. ASSUME NEW p \in Procs, NEW q \in Procs, Fork(p, q) PROVE Owns'
  BY <1>9 DEF Fork, Encow, Owns, Alive, Allocating, At, Goto, poolVars, spaceVars, forkVars, Types
<1>10. ASSUME NEW p \in Procs, ForkShare(p) PROVE Owns'
  BY <1>10 DEF ForkShare, Owns, Alive, Allocating, At, Goto, poolVars, spaceVars, forkVars, Types
<1>11. ASSUME NEW p \in Procs, ForkMap(p) PROVE Owns'
  <2>1. Head(hand[p]) \in Pages /\ child[p] \in Procs /\ pc[child[p]] = "embryo"
    BY <1>11, <1>a, HeadTailProperties DEF ForkMap, Forking, TypeOK, At
  <2>2. QED
    BY <1>11, <2>1 DEF ForkMap, Owns, Alive, Allocating, At, Goto, poolVars, spaceVars, forkVars, Types
<1>12. ASSUME NEW p \in Procs, ForkFails(p) PROVE Owns'
  <2>1. child[p] \in Procs /\ pc[child[p]] = "embryo"
    BY <1>12, <1>a DEF ForkFails, Forking, TypeOK, At
  <2>2. QED
    BY <1>12, <2>1 DEF ForkFails, Owns, Alive, Allocating, At, Goto, poolVars, spaceVars, forkVars, Types
<1>13. ASSUME NEW p \in Procs, NEW v \in Values, Store(p, v) PROVE Owns'
  BY <1>13 DEF Store, Owns, Alive, Allocating, At, Goto, poolVars, spaceVars, forkVars, Types
<1>14. ASSUME NEW p \in Procs, Fault(p) PROVE Owns'
  BY <1>14 DEF Fault, Owns, Alive, Allocating, At, Goto, poolVars, spaceVars, forkVars, Types
<1>15. ASSUME NEW p \in Procs, CowSole(p) PROVE Owns'
  <2>1. /\ At(p, "cow") /\ pte[p].pa \in Pages /\ UNCHANGED table
        /\ pte' = [pte EXCEPT ![p] = Decow(@)] /\ Goto(p, "run")
    BY <1>15, TakingOver DEF CowSole
  <2>2. QED
    BY <2>1 DEF Decow, Owns, Alive, Allocating, At, Goto, poolVars, spaceVars, forkVars, Types
<1>16. ASSUME NEW p \in Procs, CowShared(p) PROVE Owns'
  BY <1>16 DEF CowShared, Owns, Alive, Allocating, At, Goto, poolVars, spaceVars, forkVars, Types
<1>17. ASSUME NEW p \in Procs, CowCopy(p) PROVE Owns'
  <2>1. Head(hand[p]) \in Pages
    BY <1>17, <1>a, HeadTailProperties DEF CowCopy, TypeOK, At
  <2>2. QED
    BY <1>17, <2>1 DEF CowCopy, Decow, Owns, Alive, Allocating, At, Goto, poolVars, spaceVars, forkVars, Types
<1>18. ASSUME NEW p \in Procs, CowFails(p) PROVE Owns'
  BY <1>18 DEF CowFails, Owns, Alive, Allocating, At, Goto, poolVars, spaceVars, forkVars, Types
<1>19. ASSUME NEW p \in Procs, Exit(p) PROVE Owns'
  BY <1>19 DEF Exit, Owns, Alive, Allocating, At, Goto, poolVars, spaceVars, forkVars, Types
<1>20. QED
  BY <1>1, <1>2, <1>3, <1>4, <1>5, <1>6, <1>7, <1>8, <1>9, <1>10, <1>11, <1>12, <1>13, <1>14, <1>15, <1>16, <1>17, <1>18, <1>19 DEF Next, Kernel, User

LEMMA ForkingStep == ASSUME IInv, [Next]_vars PROVE Forking'
<1>0. Types /\ Forking /\ Owns /\ pc \in [Procs -> PCs] /\ None \notin Procs
  BY TypesAre, Constants DEF IInv, HandTypes
<1> USE <1>0
<1>1. CASE UNCHANGED vars
  BY <1>1 DEF vars, Forking, Owns, Alive, Allocating, At, Goto, poolVars, spaceVars, forkVars, Types
<1>2. ASSUME NEW p \in Procs, NEW i \in CPUs, KallocPop(p, i) PROVE Forking'
  BY <1>2 DEF KallocPop, Forking, Owns, Alive, Allocating, At, Goto, poolVars, spaceVars, forkVars, Types
<1>3. ASSUME NEW p \in Procs, KallocSteal(p) PROVE Forking'
  <2>1. UNCHANGED pc \/ Goto(p, "refill")
    BY <1>3 DEF KallocSteal
  <2>2. UNCHANGED <<pte, child>> /\ At(p, "steal")
    BY <1>3 DEF KallocSteal, spaceVars, forkVars
  <2>3. QED
    BY <2>1, <2>2 DEF Forking, Owns, Alive, Allocating, At, Goto, poolVars, spaceVars, forkVars, Types
<1>4. ASSUME NEW p \in Procs, KallocRefill(p) PROVE Forking'
  BY <1>4 DEF KallocRefill, Forking, Owns, Alive, Allocating, At, Goto, poolVars, spaceVars, forkVars, Types
<1>5. ASSUME NEW p \in Procs, KallocFails(p) PROVE Forking'
  BY <1>5 DEF KallocFails, Caller, Forking, Owns, Alive, Allocating, At, Goto, poolVars, spaceVars, forkVars, Types
<1>6. ASSUME NEW p \in Procs, KallocCount(p) PROVE Forking'
  <2>1. Goto(p, Caller(p)) /\ UNCHANGED <<pte, child>>
    BY <1>6, Counting DEF spaceVars, forkVars
  <2>2. At(p, "count")
    BY <1>6 DEF KallocCount
  <2>3. QED
    BY <2>1, <2>2 DEF Caller, Forking, Owns, Alive, Allocating, At, Goto, poolVars, spaceVars, forkVars, Types
<1>7. ASSUME NEW p \in Procs, KfreeDrop(p) PROVE Forking'
  <2>1. At(p, "free") /\ UNCHANGED child
    BY <1>7 DEF KfreeDrop, forkVars
  <2>2. CASE Goto(p, "push") /\ UNCHANGED spaceVars
    BY <2>1, <2>2 DEF Forking, Owns, Alive, Allocating, At, Goto, poolVars, spaceVars, forkVars, Types
  <2>3. CASE /\ pte[p].pa # None /\ pte' = [pte EXCEPT ![p] = Unmapped]
             /\ Goto(p, "free") /\ UNCHANGED table
    BY <2>1, <2>3 DEF Unmapped, Forking, Owns, Alive, Allocating, At, Goto, poolVars, spaceVars, forkVars, Types
  <2>4. CASE /\ pte[p].pa = None /\ table' = [table EXCEPT ![p] = None]
             /\ Goto(p, "unused") /\ UNCHANGED pte
    BY <2>1, <2>4 DEF Forking, Owns, Alive, Allocating, At, Goto, poolVars, spaceVars, forkVars, Types
  <2>5. QED
    BY <1>7, <2>1, <2>2, <2>3, <2>4, Dropping, Detaching
<1>8. ASSUME NEW p \in Procs, NEW i \in CPUs, KfreePush(p, i) PROVE Forking'
  <2>1. At(p, "push") /\ Detach(p) /\ UNCHANGED child
    BY <1>8 DEF KfreePush, forkVars
  <2>2. CASE /\ pte[p].pa # None /\ pte' = [pte EXCEPT ![p] = Unmapped]
             /\ Goto(p, "free") /\ UNCHANGED table
    BY <2>1, <2>2 DEF Unmapped, Forking, Owns, Alive, Allocating, At, Goto, poolVars, spaceVars, forkVars, Types
  <2>3. CASE /\ pte[p].pa = None /\ table' = [table EXCEPT ![p] = None]
             /\ Goto(p, "unused") /\ UNCHANGED pte
    BY <2>1, <2>3 DEF Forking, Owns, Alive, Allocating, At, Goto, poolVars, spaceVars, forkVars, Types
  <2>4. QED
    BY <2>1, <2>2, <2>3, Detaching
<1>9. ASSUME NEW p \in Procs, NEW q \in Procs, Fork(p, q) PROVE Forking'
  <2>1. \A r \in Procs : child[r] # q
    BY <1>9 DEF Fork, At, Forking
  <2>2. /\ At(p, "run") /\ At(q, "unused") /\ p # q /\ ~Encow(pte[p]).w /\ child[p] = None
    <3>1. At(p, "run") /\ At(q, "unused") /\ p # q
      BY <1>9 DEF Fork, At
    <3>2. child[p] = None
      BY <3>1 DEF Forking, Allocating, At
    <3>3. pte[p] \in [pa : Pages \cup {None}, w : BOOLEAN, cow : BOOLEAN]
      BY DEF Types
    <3>4. ~Encow(pte[p]).w
      BY <3>3 DEF Encow
    <3>5. QED
      BY <3>1, <3>2, <3>4
  <2>3. /\ pc' = [pc EXCEPT ![p] = "share", ![q] = "embryo"]
        /\ child' = [child EXCEPT ![p] = q] /\ pte' = [pte EXCEPT ![p] = Encow(@)]
    BY <1>9 DEF Fork
  <2>4. QED
    BY <2>1, <2>2, <2>3 DEF Forking, Types, At, Allocating
<1>10. ASSUME NEW p \in Procs, ForkShare(p) PROVE Forking'
  BY <1>10 DEF ForkShare, Forking, Owns, Alive, Allocating, At, Goto, poolVars, spaceVars, forkVars, Types
<1>11. ASSUME NEW p \in Procs, ForkMap(p) PROVE Forking'
  BY <1>11 DEF ForkMap, Forking, Owns, Alive, Allocating, At, Goto, poolVars, spaceVars, forkVars, Types
<1>12. ASSUME NEW p \in Procs, ForkFails(p) PROVE Forking'
  BY <1>12 DEF ForkFails, Forking, Owns, Alive, Allocating, At, Goto, poolVars, spaceVars, forkVars, Types
<1>13. ASSUME NEW p \in Procs, NEW v \in Values, Store(p, v) PROVE Forking'
  BY <1>13 DEF Store, Forking, Owns, Alive, Allocating, At, Goto, poolVars, spaceVars, forkVars, Types
<1>14. ASSUME NEW p \in Procs, Fault(p) PROVE Forking'
  BY <1>14 DEF Fault, Forking, Owns, Alive, Allocating, At, Goto, poolVars, spaceVars, forkVars, Types
<1>15. ASSUME NEW p \in Procs, CowSole(p) PROVE Forking'
  <2>1. /\ At(p, "cow") /\ UNCHANGED child
        /\ pte' = [pte EXCEPT ![p] = Decow(@)] /\ Goto(p, "run")
    BY <1>15, TakingOver DEF CowSole, forkVars
  <2>2. QED
    BY <2>1 DEF Decow, Forking, Owns, Alive, Allocating, At, Goto, poolVars, spaceVars, forkVars, Types
<1>16. ASSUME NEW p \in Procs, CowShared(p) PROVE Forking'
  BY <1>16 DEF CowShared, Forking, Owns, Alive, Allocating, At, Goto, poolVars, spaceVars, forkVars, Types
<1>17. ASSUME NEW p \in Procs, CowCopy(p) PROVE Forking'
  <2>1. /\ At(p, "copy") /\ UNCHANGED child /\ Goto(p, "run")
        /\ pte' = [pte EXCEPT ![p] = [Decow(@) EXCEPT !.pa = Head(hand[p])]]
    BY <1>17 DEF CowCopy, forkVars
  <2>2. QED
    BY <2>1 DEF Forking, Owns, Alive, Allocating, At, Goto, poolVars, spaceVars, forkVars, Types
<1>18. ASSUME NEW p \in Procs, CowFails(p) PROVE Forking'
  BY <1>18 DEF CowFails, Forking, Owns, Alive, Allocating, At, Goto, poolVars, spaceVars, forkVars, Types
<1>19. ASSUME NEW p \in Procs, Exit(p) PROVE Forking'
  BY <1>19 DEF Exit, Forking, Owns, Alive, Allocating, At, Goto, poolVars, spaceVars, forkVars, Types
<1>20. QED
  BY <1>1, <1>2, <1>3, <1>4, <1>5, <1>6, <1>7, <1>8, <1>9, <1>10, <1>11, <1>12, <1>13, <1>14, <1>15, <1>16, <1>17, <1>18, <1>19 DEF Next, Kernel, User

-----------------------------------------------------------------------------
(* What a step leaves alone *)

Same(q) ==
  /\ pc'[q] = pc[q] /\ hand'[q] = hand[q] /\ cpu'[q] = cpu[q]
  /\ child'[q] = child[q] /\ pte'[q] = pte[q] /\ table'[q] = table[q]

LEMMA Others ==
  ASSUME IInv, NEW p \in Procs, Kernel(p) \/ User(p), NEW q \in Procs, q # p
  PROVE  \/ Same(q)
         \/ At(q, "unused") /\ Fork(p, q)
         \/ q = child[p] /\ (ForkMap(p) \/ ForkFails(p))
<1>0. Types /\ pc \in [Procs -> PCs] /\ hand \in [Procs -> Seq(Pages)]
  BY TypesAre DEF IInv, HandTypes
<1> DEFINE Goal == \/ Same(q)
                   \/ At(q, "unused") /\ Fork(p, q)
                   \/ q = child[p] /\ (ForkMap(p) \/ ForkFails(p))
<1>1. ASSUME NEW i \in CPUs, KallocPop(p, i) PROVE Goal
  BY <1>0, <1>1 DEF KallocPop, Same, Types, At, Goto, poolVars, spaceVars, forkVars
<1>2. ASSUME KallocSteal(p) PROVE Goal
  BY <1>0, <1>2 DEF KallocSteal, Same, Types, At, Goto, poolVars, spaceVars, forkVars
<1>3. ASSUME KallocRefill(p) PROVE Goal
  BY <1>0, <1>3 DEF KallocRefill, Same, Types, At, Goto, poolVars, spaceVars, forkVars
<1>4. ASSUME KallocFails(p) PROVE Goal
  BY <1>0, <1>4 DEF KallocFails, Same, Types, At, Goto, poolVars, spaceVars, forkVars
<1>5. ASSUME KallocCount(p) PROVE Goal
  <2>1. Goto(p, Caller(p)) /\ UNCHANGED <<poolVars, spaceVars, forkVars>>
    BY <1>5, Counting
  <2>2. QED
    BY <1>0, <2>1 DEF Same, Types, At, Goto, poolVars, spaceVars, forkVars
<1>6. ASSUME KfreeDrop(p) PROVE Goal
  <2>1. /\ UNCHANGED <<cpu, child>>
        /\ \/ hand' = [hand EXCEPT ![p] = <<Victim(p)>>] /\ Goto(p, "push") /\ UNCHANGED spaceVars
           \/ Detach(p) /\ UNCHANGED hand
    BY <1>6, Dropping DEF forkVars
  <2>2. QED
    BY <1>0, <2>1 DEF Detach, Same, Types, At, Goto, poolVars, spaceVars, forkVars
<1>7. ASSUME NEW i \in CPUs, KfreePush(p, i) PROVE Goal
  BY <1>0, <1>7 DEF KfreePush, Detach, Same, Types, At, Goto, poolVars, spaceVars, forkVars
<1>8. ASSUME NEW r \in Procs, Fork(p, r) PROVE Goal
  <2>1. CASE r = q
    BY <1>8, <2>1 DEF Fork
  <2>2. CASE r # q
    BY <1>0, <1>8, <2>2 DEF Fork, Same, Types, At, Goto, poolVars, spaceVars, forkVars
  <2>3. QED
    BY <2>1, <2>2
<1>9. ASSUME ForkShare(p) PROVE Goal
  BY <1>0, <1>9 DEF ForkShare, Same, Types, At, Goto, poolVars, spaceVars, forkVars
<1>10. ASSUME ForkMap(p) PROVE Goal
  <2>1. CASE q = child[p]
    BY <1>10, <2>1
  <2>2. CASE q # child[p]
    BY <1>0, <1>10, <2>2 DEF ForkMap, Same, Types, At, Goto, poolVars, spaceVars, forkVars
  <2>3. QED
    BY <2>1, <2>2
<1>11. ASSUME ForkFails(p) PROVE Goal
  <2>1. CASE q = child[p]
    BY <1>11, <2>1
  <2>2. CASE q # child[p]
    BY <1>0, <1>11, <2>2 DEF ForkFails, Same, Types, At, Goto, poolVars, spaceVars, forkVars
  <2>3. QED
    BY <2>1, <2>2
<1>12. ASSUME NEW v \in Values, Store(p, v) PROVE Goal
  BY <1>0, <1>12 DEF Store, Same, Types, At, Goto, poolVars, spaceVars, forkVars
<1>13. ASSUME Fault(p) PROVE Goal
  BY <1>0, <1>13 DEF Fault, Same, Types, At, Goto, poolVars, spaceVars, forkVars
<1>14. ASSUME CowSole(p) PROVE Goal
  <2>1. Goto(p, "run") /\ pte' = [pte EXCEPT ![p] = Decow(@)] /\ UNCHANGED <<table, poolVars, forkVars>>
    BY <1>14, TakingOver DEF CowSole
  <2>2. QED
    BY <1>0, <2>1 DEF Same, Types, At, Goto, poolVars, spaceVars, forkVars
<1>15. ASSUME CowShared(p) PROVE Goal
  BY <1>0, <1>15 DEF CowShared, Same, Types, At, Goto, poolVars, spaceVars, forkVars
<1>16. ASSUME CowCopy(p) PROVE Goal
  <2>1. /\ pte' = [pte EXCEPT ![p] = [Decow(@) EXCEPT !.pa = Head(hand[p])]] /\ Goto(p, "run")
        /\ hand' = [hand EXCEPT ![p] = <<>>] /\ UNCHANGED <<table, cpu, forkVars>>
    BY <1>16 DEF CowCopy
  <2>2. QED
    BY <1>0, <2>1 DEF Same, Types, At, Goto, poolVars, spaceVars, forkVars
<1>17. ASSUME CowFails(p) PROVE Goal
  BY <1>0, <1>17 DEF CowFails, Same, Types, At, Goto, poolVars, spaceVars, forkVars
<1>18. ASSUME Exit(p) PROVE Goal
  BY <1>0, <1>18 DEF Exit, Same, Types, At, Goto, poolVars, spaceVars, forkVars
<1>19. QED
  BY <1>1, <1>2, <1>3, <1>4, <1>5, <1>6, <1>7, <1>8, <1>9, <1>10, <1>11, <1>12, <1>13, <1>14, <1>15, <1>16, <1>17, <1>18 DEF Kernel, User

-----------------------------------------------------------------------------
(* Hands and CPUs *)

LEMMA InHandStep == ASSUME IInv, [Next]_vars PROVE Hands'
<1>0. /\ pc \in [Procs -> PCs] /\ hand \in [Procs -> Seq(Pages)] /\ Types
      /\ Hands /\ Forking /\ \A i \in CPUs : free[i] \in Seq(Pages)
  BY TypesAre DEF IInv, HandTypes, Types
<1>1. CASE UNCHANGED vars
  BY <1>0, <1>1 DEF vars, Hands, InHand, Victim
<1>2. ASSUME NEW p \in Procs, Kernel(p) \/ User(p) PROVE Hands'
  <2> DEFINE Empty == /\ hand'[p] = <<>>
                      /\ pc'[p] \notin {"refill", "count", "push"}
  <2>0. Empty => InHand(p)'
    BY DEF InHand
  <2>1. ASSUME NEW i \in CPUs, KallocPop(p, i) PROVE InHand(p)'
    <3>1. CASE free[i] # <<>>
      <4>1. Head(free[i]) \in Pages
        BY <1>0, <3>1, HeadTailProperties
      <4>2. hand'[p] = <<Head(free[i])>> /\ pc'[p] = "count"
        BY <1>0, <2>1, <3>1 DEF KallocPop, Goto
      <4>3. QED
        BY <4>1, <4>2 DEF InHand
    <3>2. CASE free[i] = <<>>
      BY <1>0, <2>0, <2>1, <3>2 DEF KallocPop, At, Goto, Hands, InHand
    <3>3. QED
      BY <3>1, <3>2
  <2>2. ASSUME KallocSteal(p) PROVE InHand(p)'
    <3>1. UNCHANGED <<hand, pc>> \/ Goto(p, "refill")
      BY <2>2 DEF KallocSteal
    <3>2. CASE UNCHANGED <<hand, pc>>
      BY <1>0, <2>0, <2>2, <3>2 DEF KallocSteal, At, Hands, InHand
    <3>3. CASE Goto(p, "refill")
      BY <1>0, <3>3 DEF Goto, InHand
    <3>4. QED
      BY <3>1, <3>2, <3>3
  <2>3. ASSUME KallocRefill(p) PROVE InHand(p)'
    <3>1. hand[p] # <<>> /\ hand[p] \in Seq(Pages)
      BY <2>3 DEF KallocRefill, At, IInv, TypeOK
    <3>2. Head(hand[p]) \in Pages
      BY <3>1, HeadTailProperties
    <3>3. hand'[p] = <<Head(hand[p])>> /\ pc'[p] = "count"
      BY <1>0, <2>3 DEF KallocRefill, Goto
    <3>4. QED
      BY <3>2, <3>3 DEF InHand
  <2>4. ASSUME KallocFails(p) PROVE InHand(p)'
    BY <1>0, <2>0, <2>4 DEF KallocFails, Caller, At, Goto, Hands, InHand
  <2>5. ASSUME KallocCount(p) PROVE InHand(p)'
    <3>1. PICK g \in Pages : hand[p] = <<g>> /\ Goto(p, Caller(p)) /\ UNCHANGED poolVars
      BY <2>5, Counting
    <3>2. hand'[p] = <<g>> /\ pc'[p] \in {"map", "copy"}
      BY <1>0, <3>1 DEF poolVars, Goto, Caller
    <3>3. QED
      BY <3>2 DEF InHand
  <2>6. ASSUME KfreeDrop(p) PROVE InHand(p)'
    <3>1. At(p, "free") /\ hand[p] = <<>>
      BY <1>0, <2>6 DEF KfreeDrop, At, Hands, InHand
    <3>2. CASE /\ hand' = [hand EXCEPT ![p] = <<Victim(p)>>]
               /\ Goto(p, "push") /\ UNCHANGED spaceVars
      <4>1. hand'[p] = <<Victim(p)>> /\ pc'[p] = "push" /\ Victim(p)' = Victim(p)
        BY <1>0, <3>2 DEF Goto, spaceVars, Victim
      <4>2. QED
        BY <4>1 DEF InHand
    <3>3. CASE Detach(p) /\ UNCHANGED hand
      BY <1>0, <2>0, <3>1, <3>3 DEF Detach, Goto
    <3>4. QED
      BY <2>6, <3>2, <3>3, Dropping
  <2>7. ASSUME NEW i \in CPUs, KfreePush(p, i) PROVE InHand(p)'
    BY <1>0, <2>0, <2>7 DEF KfreePush, Detach, Goto
  <2>8. ASSUME NEW q \in Procs, Fork(p, q) PROVE InHand(p)'
    BY <1>0, <2>0, <2>8 DEF Fork, At, poolVars, Hands, InHand
  <2>9. ASSUME ForkShare(p) PROVE InHand(p)'
    BY <1>0, <2>0, <2>9 DEF ForkShare, At, Goto, poolVars, Hands, InHand
  <2>10. ASSUME ForkMap(p) PROVE InHand(p)'
    BY <1>0, <2>0, <2>10 DEF ForkMap
  <2>11. ASSUME ForkFails(p) PROVE InHand(p)'
    BY <1>0, <2>0, <2>11 DEF ForkFails, poolVars
  <2>12. ASSUME NEW v \in Values, Store(p, v) PROVE InHand(p)'
    BY <1>0, <2>0, <2>12 DEF Store, At, poolVars, Hands, InHand
  <2>13. ASSUME Fault(p) PROVE InHand(p)'
    BY <1>0, <2>0, <2>13 DEF Fault, At, Goto, poolVars, Hands, InHand
  <2>14. ASSUME CowSole(p) PROVE InHand(p)'
    <3>1. At(p, "cow") /\ Goto(p, "run") /\ UNCHANGED hand
      BY <2>14, TakingOver DEF CowSole, poolVars
    <3>2. QED
      BY <1>0, <2>0, <3>1 DEF At, Goto, Hands, InHand
  <2>15. ASSUME CowShared(p) PROVE InHand(p)'
    BY <1>0, <2>0, <2>15 DEF CowShared, At, Goto, poolVars, Hands, InHand
  <2>16. ASSUME CowCopy(p) PROVE InHand(p)'
    BY <1>0, <2>0, <2>16 DEF CowCopy, Goto
  <2>17. ASSUME CowFails(p) PROVE InHand(p)'
    BY <1>0, <2>0, <2>17 DEF CowFails, Goto, poolVars
  <2>18. ASSUME Exit(p) PROVE InHand(p)'
    BY <1>0, <2>0, <2>18 DEF Exit, At, Goto, poolVars, Hands, InHand
  <2>19. InHand(p)'
    BY <1>2, <2>1, <2>2, <2>3, <2>4, <2>5, <2>6, <2>7, <2>8, <2>9, <2>10, <2>11, <2>12,
       <2>13, <2>14, <2>15, <2>16, <2>17, <2>18 DEF Kernel, User
  <2>20. ASSUME NEW q \in Procs, q # p PROVE InHand(q)'
    <3>1. CASE Same(q)
      <4>1. pc'[q] = pc[q] /\ hand'[q] = hand[q] /\ Victim(q)' = Victim(q)
        BY <3>1 DEF Same, Victim
      <4>2. QED
        BY <1>0, <4>1 DEF Hands, InHand
    <3>2. CASE At(q, "unused") /\ Fork(p, q)
      BY <1>0, <3>2, <2>20 DEF Fork, At, poolVars, Hands, InHand
    <3>3. CASE q = child[p] /\ (ForkMap(p) \/ ForkFails(p))
      <4>1. pc[q] = "embryo" /\ hand[q] = <<>>
        BY <1>0, <3>3, <2>20, Constants DEF Forking, Hands, InHand
      <4>2. hand'[q] = <<>> /\ pc'[q] \in {"run", "unused"}
        BY <1>0, <3>3, <2>20, <4>1 DEF ForkMap, ForkFails, poolVars
      <4>3. QED
        BY <4>2 DEF InHand
    <3>4. QED
      BY <1>2, <2>20, <3>1, <3>2, <3>3, Others
  <2>21. QED
    BY <2>19, <2>20 DEF Hands
<1>3. QED
  BY <1>1, <1>2 DEF Next

LEMMA TiedStays ==
  ASSUME Tied, UNCHANGED <<free, cpu>>,
         \A q \in Procs : pc'[q] \in {"steal", "refill"} <=> pc[q] \in {"steal", "refill"}
  PROVE  Tied'
BY DEF Tied

LEMMA TiedStep == ASSUME IInv, [Next]_vars PROVE Tied'
<1>0. /\ pc \in [Procs -> PCs] /\ cpu \in [Procs -> CPUs \cup {None}]
      /\ free \in [CPUs -> Seq(Pages)] /\ child \in [Procs -> Procs \cup {None}]
      /\ Tied /\ Forking /\ None \notin CPUs
  BY TypesAre, Constants DEF IInv, HandTypes, Types
<1>1. CASE UNCHANGED vars
  BY <1>0, <1>1, TiedStays DEF vars
<1>2. ASSUME NEW p \in Procs, Kernel(p) \/ User(p) PROVE Tied'
  <2> DEFINE Busy == {"steal", "refill"}
  \* A thread that leaves its CPU's list alone goes from one point outside
  \* of kalloc's loop to another.
  <2>a. ASSUME UNCHANGED <<free, cpu>>, NEW l \in PCs, Goto(p, l), l \notin Busy, pc[p] \notin Busy
        PROVE  Tied'
    <3>1. \A q \in Procs : pc'[q] \in Busy <=> pc[q] \in Busy
      BY <1>0, <2>a DEF Goto
    <3>2. QED
      BY <1>0, <2>a, <3>1, TiedStays
  <2>1. ASSUME NEW i \in CPUs, KallocPop(p, i) PROVE Tied'
    <3>0. At(p, "kalloc") /\ Available(i)
      BY <2>1 DEF KallocPop
    <3>1. CASE free[i] # <<>>
      <4>1. free' = [free EXCEPT ![i] = Tail(@)] /\ Goto(p, "count") /\ UNCHANGED cpu
        BY <2>1, <3>1 DEF KallocPop
      <4>2. \A q \in Procs : pc'[q] \in Busy <=> pc[q] \in Busy
        BY <1>0, <3>0, <4>1 DEF Goto, At
      <4>3. \A q \in Procs : cpu[q] # None => free'[cpu[q]] = free[cpu[q]]
        BY <1>0, <3>0, <4>1 DEF Available
      <4>4. QED
        BY <1>0, <4>1, <4>2, <4>3 DEF Tied
    <3>2. CASE free[i] = <<>>
      <4>1. cpu' = [cpu EXCEPT ![p] = i] /\ Goto(p, "steal") /\ UNCHANGED free
        BY <2>1, <3>2 DEF KallocPop
      <4>2. QED
        BY <1>0, <3>0, <3>2, <4>1 DEF Tied, Available, Goto, At
    <3>3. QED
      BY <3>1, <3>2
  <2>2. ASSUME KallocSteal(p) PROVE Tied'
    <3>0. At(p, "steal") /\ UNCHANGED cpu
      BY <2>2 DEF KallocSteal
    <3>1. CASE UNCHANGED <<free, hand, pc>>
      BY <1>0, <3>0, <3>1, TiedStays
    <3>2. ASSUME NEW j \in CPUs, NEW b, free[j] # <<>>, free' = [free EXCEPT ![j] = b],
                 Goto(p, "refill")
          PROVE  Tied'
      <4>1. \A q \in Procs : pc'[q] \in Busy <=> pc[q] \in Busy
        BY <1>0, <3>0, <3>2 DEF Goto, At
      <4>2. \A q \in Procs : cpu[q] # None => free'[cpu[q]] = free[cpu[q]]
        BY <1>0, <3>2 DEF Tied
      <4>3. QED
        BY <1>0, <3>0, <4>1, <4>2 DEF Tied
    <3>3. QED
      <4>1. TypeOK /\ EachPageOnce
        BY DEF IInv
      <4>2. QED
        BY <2>2, <3>1, <3>2, <4>1, Stealing
  <2>3. ASSUME KallocRefill(p) PROVE Tied'
    <3>1. /\ At(p, "refill") /\ cpu' = [cpu EXCEPT ![p] = None] /\ Goto(p, "count")
          /\ \E b : free' = [free EXCEPT ![cpu[p]] = b]
      BY <2>3 DEF KallocRefill
    <3>2. \A q \in Procs : pc'[q] \in Busy <=> pc[q] \in Busy /\ q # p
      BY <1>0, <3>1 DEF Goto
    <3>3. cpu[p] # None /\ \A q \in Procs : q # p => cpu[q] # cpu[p]
      BY <1>0, <3>1 DEF Tied, At
    <3>4. \A q \in Procs : cpu'[q] = IF q = p THEN None ELSE cpu[q]
      BY <1>0, <3>1
    <3>5. \A q \in Procs : q # p /\ cpu[q] # None => free'[cpu[q]] = free[cpu[q]]
      BY <1>0, <3>1, <3>3
    <3>6. QED
      BY <1>0, <3>2, <3>4, <3>5 DEF Tied
  <2>4. ASSUME KallocFails(p) PROVE Tied'
    <3>1. cpu' = [cpu EXCEPT ![p] = None] /\ Goto(p, Caller(p)) /\ UNCHANGED free
      BY <2>4 DEF KallocFails
    <3>2. \A q \in Procs : pc'[q] \in Busy <=> pc[q] \in Busy /\ q # p
      BY <1>0, <3>1 DEF Goto, Caller
    <3>3. \A q \in Procs : cpu'[q] = IF q = p THEN None ELSE cpu[q]
      BY <1>0, <3>1
    <3>4. QED
      BY <1>0, <3>1, <3>2, <3>3 DEF Tied
  <2>5. ASSUME KallocCount(p) PROVE Tied'
    <3>1. Goto(p, Caller(p)) /\ UNCHANGED <<free, cpu>> /\ At(p, "count")
      BY <2>5, Counting DEF poolVars, KallocCount
    <3>2. Caller(p) \in PCs /\ Caller(p) \notin Busy
      BY DEF Caller, PCs
    <3>3. QED
      BY <2>a, <3>1, <3>2 DEF At
  <2>6. ASSUME KfreeDrop(p) PROVE Tied'
    <3>1. At(p, "free") /\ UNCHANGED <<free, cpu>> /\ \E l \in {"push", "free", "unused"} : Goto(p, l)
      BY <2>6, Dropping DEF KfreeDrop, Detach
    <3>2. QED
      BY <2>a, <3>1 DEF At, PCs
  <2>7. ASSUME NEW i \in CPUs, KfreePush(p, i) PROVE Tied'
    <3>1. /\ At(p, "push") /\ Available(i) /\ UNCHANGED cpu
          /\ free' = [free EXCEPT ![i] = hand[p] \o @]
          /\ \E l \in {"free", "unused"} : Goto(p, l)
      BY <2>7 DEF KfreePush, Detach
    <3>2. \A q \in Procs : pc'[q] \in Busy <=> pc[q] \in Busy
      BY <1>0, <3>1 DEF Goto, At
    <3>3. \A q \in Procs : cpu[q] # None => free'[cpu[q]] = free[cpu[q]]
      BY <1>0, <3>1 DEF Available
    <3>4. QED
      BY <1>0, <3>1, <3>2, <3>3 DEF Tied
  <2>8. ASSUME NEW q \in Procs, Fork(p, q) PROVE Tied'
    <3>1. \A r \in Procs : pc'[r] \in Busy <=> pc[r] \in Busy
      BY <1>0, <2>8 DEF Fork, At
    <3>2. QED
      BY <1>0, <2>8, <3>1, TiedStays DEF Fork, poolVars
  <2>9. ASSUME ForkShare(p) PROVE Tied'
    BY <2>9, <2>a DEF ForkShare, At, poolVars, PCs
  <2>10. ASSUME ForkMap(p) \/ ForkFails(p) PROVE Tied'
    <3>1. \E l \in {"run", "unused"} : pc' = [pc EXCEPT ![p] = "run", ![child[p]] = l]
      BY <2>10 DEF ForkMap, ForkFails
    <3>2. pc[p] = "map" /\ pc[child[p]] = "embryo"
      BY <1>0, <2>10 DEF ForkMap, ForkFails, Forking, At
    <3>3. \A r \in Procs : pc'[r] \in Busy <=> pc[r] \in Busy
      BY <1>0, <3>1, <3>2
    <3>4. QED
      BY <1>0, <2>10, <3>3, TiedStays DEF ForkMap, ForkFails, poolVars
  <2>11. ASSUME NEW v \in Values, Store(p, v) PROVE Tied'
    BY <1>0, <2>11, TiedStays DEF Store, poolVars
  <2>12. ASSUME Fault(p) PROVE Tied'
    BY <2>12, <2>a DEF Fault, At, poolVars, PCs
  <2>13. ASSUME CowSole(p) PROVE Tied'
    <3>1. At(p, "cow") /\ Goto(p, "run") /\ UNCHANGED <<free, cpu>>
      BY <2>13, TakingOver DEF CowSole, poolVars
    <3>2. QED
      BY <2>a, <3>1 DEF At, PCs
  <2>14. ASSUME CowShared(p) PROVE Tied'
    BY <2>14, <2>a DEF CowShared, At, poolVars, PCs
  <2>15. ASSUME CowCopy(p) PROVE Tied'
    BY <2>15, <2>a DEF CowCopy, At, PCs
  <2>16. ASSUME CowFails(p) PROVE Tied'
    BY <2>16, <2>a DEF CowFails, At, poolVars, PCs
  <2>17. ASSUME Exit(p) PROVE Tied'
    BY <2>17, <2>a DEF Exit, At, poolVars, PCs
  <2>18. QED
    BY <1>2, <2>1, <2>2, <2>3, <2>4, <2>5, <2>6, <2>7, <2>8, <2>9, <2>10, <2>11, <2>12,
       <2>13, <2>14, <2>15, <2>16, <2>17 DEF Kernel, User
<1>3. QED
  BY <1>1, <1>2 DEF Next

-----------------------------------------------------------------------------
(* Each page once *)

Holding == {"refill", "count", "push"}

LEMMA StoresThen ==
  /\ \A i \in CPUs : Stored(Cpu(i))' = free'[i]
  /\ \A p \in Procs : Stored(Thread(p))' = IF pc'[p] \in Holding THEN hand'[p] ELSE <<>>
BY DEF Stored, Cpu, Thread, Holding

LEMMA OtherStores ==
  ASSUME IInv, NEW p \in Procs, Kernel(p) \/ User(p), NEW q \in Procs, q # p
  PROVE  Stored(Thread(q))' = Stored(Thread(q))
<1>0. pc \in [Procs -> PCs] /\ Forking /\ None \notin Procs
  BY TypesAre, Constants DEF IInv, HandTypes
<1>1. CASE Same(q)
  BY <1>1, StoresAre, StoresThen DEF Same, Holding
<1>2. CASE At(q, "unused") /\ Fork(p, q)
  <2>1. pc[q] = "unused" /\ pc'[q] = "embryo"
    BY <1>0, <1>2 DEF At, Fork
  <2>2. QED
    BY <2>1, StoresAre, StoresThen DEF Holding
<1>3. CASE q = child[p] /\ (ForkMap(p) \/ ForkFails(p))
  <2>1. pc[q] = "embryo" /\ pc'[q] \in {"run", "unused"}
    BY <1>0, <1>3 DEF Forking, ForkMap, ForkFails
  <2>2. QED
    BY <2>1, StoresAre, StoresThen DEF Holding
<1>4. QED
  BY <1>1, <1>2, <1>3, Others

\* Steps that have nothing to do with the free pages.
LEMMA NotFree ==
  ASSUME IInv, NEW p \in Procs, Kernel(p) \/ User(p), UNCHANGED free,
         pc[p] \notin Holding, pc'[p] \notin Holding,
         \A g \in Pages : ref'[g] = 0 <=> ref[g] = 0
  PROVE  EachPageOnce'
<1>1. Stored(Thread(p))' = Stored(Thread(p))
  BY StoresAre, StoresThen DEF Holding
<1>2. \A u \in Stores : Stored(u)' = Stored(u)
  BY <1>1, OtherStores, StoresAre, StoresThen
<1>3. EachPageOnce
  BY DEF IInv
<1>4. QED
  BY <1>2, <1>3, NothingMoved

\* Pages go from the list of a CPU to a thread, or back.
LEMMA Handed ==
  ASSUME IInv, NEW p \in Procs, Kernel(p) \/ User(p), NEW i \in CPUs,
         \A j \in CPUs : j # i => free'[j] = free[j],
         NEW a, a = Stored(Thread(p))', NEW b, b = free'[i],
         IsInjective(a), IsInjective(b), ToSet(a) \cap ToSet(b) = {},
         ToSet(a) \cup ToSet(b) = ToSet(Stored(Thread(p))) \cup ToSet(free[i]),
         UNCHANGED ref
  PROVE  EachPageOnce'
<1> DEFINE s == Thread(p)
           t == Cpu(i)
<1>1. s \in Stores /\ t \in Stores /\ s # t
  BY StoresAre
<1>2. Stored(t)' = b /\ Stored(t) = free[i]
  BY StoresAre, StoresThen
<1>3. \A u \in Stores : u # s /\ u # t => Stored(u)' = Stored(u)
  BY OtherStores, StoresAre, StoresThen
<1>4. TypeOK /\ EachPageOnce
  BY DEF IInv
<1> HIDE DEF s, t
<1>5. /\ IsInjective(Stored(s)') /\ IsInjective(Stored(t)')
      /\ ToSet(Stored(s)') \cap ToSet(Stored(t)') = {}
      /\ ToSet(Stored(s)') \cup ToSet(Stored(t)') = ToSet(Stored(s)) \cup ToSet(Stored(t))
  BY <1>2 DEF s
<1>6. QED
  BY <1>1, <1>3, <1>4, <1>5, Moved

LEMMA OnceStep == ASSUME IInv, [Next]_vars PROVE EachPageOnce'
<1>0. /\ pc \in [Procs -> PCs] /\ hand \in [Procs -> Seq(Pages)]
      /\ free \in [CPUs -> Seq(Pages)] /\ ref \in [Pages -> Nat]
      /\ cpu \in [Procs -> CPUs \cup {None}] /\ None \notin CPUs
  BY TypesAre, Constants DEF IInv, HandTypes, Types
<1>a. TypeOK /\ EachPageOnce /\ Hands /\ Tied /\ Owns /\ Forking
  BY DEF IInv
<1>1. CASE UNCHANGED vars
  <2>1. \A u \in Stores : Stored(u)' = Stored(u)
    BY <1>1 DEF vars, Stored
  <2>2. QED
    BY <1>1, <1>a, <2>1, NothingMoved DEF vars
<1>2. ASSUME NEW p \in Procs, Kernel(p) \/ User(p) PROVE EachPageOnce'
  <2> DEFINE s == Thread(p)
  <2>0. /\ s \in Stores /\ \A i \in CPUs : Cpu(i) \in Stores /\ Cpu(i) # s
        /\ \A u \in Stores : u # s /\ UNCHANGED free => Stored(u)' = Stored(u)
    BY <1>2, StoresAre, OtherStores, StoresThen
  <2>1. ASSUME NEW i \in CPUs, KallocPop(p, i) PROVE EachPageOnce'
    <3>0. At(p, "kalloc") /\ UNCHANGED ref
      BY <2>1 DEF KallocPop
    <3>1. CASE free[i] # <<>>
      <4>1. /\ hand' = [hand EXCEPT ![p] = <<Head(free[i])>>] /\ Goto(p, "count")
            /\ free' = [free EXCEPT ![i] = Tail(@)]
        BY <2>1, <3>1 DEF KallocPop
      <4>2. Stored(s) = <<>> /\ Stored(s)' = <<Head(free[i])>> /\ free'[i] = Tail(free[i])
        BY <1>0, <3>0, <4>1, StoresAre, StoresThen DEF At, Goto, Holding
      <4>3. /\ IsInjective(Tail(free[i])) /\ Head(free[i]) \notin ToSet(Tail(free[i]))
            /\ ToSet(free[i]) = {Head(free[i])} \cup ToSet(Tail(free[i]))
        BY <1>0, <1>a, <3>1, Lists, TailOf
      <4>4. \A j \in CPUs : j # i => free'[j] = free[j]
        BY <1>0, <4>1
      <4> DEFINE a == <<Head(free[i])>>
                 b == Tail(free[i])
      <4>5. /\ IsInjective(a) /\ ToSet(a) = {Head(free[i])}
            /\ ToSet(Stored(s)) = {}
        BY <4>2, OneOrNone
      <4>6. /\ a = Stored(Thread(p))' /\ b = free'[i] /\ IsInjective(b)
            /\ ToSet(a) \cap ToSet(b) = {}
            /\ ToSet(a) \cup ToSet(b) = ToSet(Stored(Thread(p))) \cup ToSet(free[i])
        BY <4>2, <4>3, <4>5
      <4> HIDE DEF a, b, s
      <4>7. QED
        BY <1>2, <3>0, <4>4, <4>5, <4>6, Handed
    <3>2. CASE free[i] = <<>>
      <4>1. UNCHANGED free /\ pc[p] \notin Holding /\ pc'[p] \notin Holding
        BY <1>0, <2>1, <3>2 DEF KallocPop, Goto, At, Holding
      <4>2. QED
        BY <1>2, <3>0, <4>1, NotFree
    <3>3. QED
      BY <3>1, <3>2
  <2>2. ASSUME KallocSteal(p) PROVE EachPageOnce'
    <3>0. At(p, "steal") /\ UNCHANGED ref
      BY <2>2 DEF KallocSteal
    <3>1. CASE UNCHANGED <<free, hand, pc>>
      BY <1>2, <3>0, <3>1, NotFree DEF At, Holding
    <3>2. ASSUME NEW j \in CPUs, NEW a \in Seq(Pages), NEW b \in Seq(Pages),
                 hand' = [hand EXCEPT ![p] = a], free' = [free EXCEPT ![j] = b],
                 Goto(p, "refill"), IsInjective(a), IsInjective(b),
                 ToSet(a) \cup ToSet(b) = ToSet(free[j]), ToSet(a) \cap ToSet(b) = {}
          PROVE  EachPageOnce'
      <4>1. Stored(s) = <<>> /\ Stored(s)' = a /\ free'[j] = b
        BY <1>0, <3>0, <3>2, StoresAre, StoresThen DEF At, Goto, Holding
      <4>2. \A i \in CPUs : i # j => free'[i] = free[i]
        BY <1>0, <3>2
      <4>3. ToSet(a) \cup ToSet(b) = ToSet(Stored(s)) \cup ToSet(free[j])
        BY <3>2, <4>1, OneOrNone
      <4>4. QED
        BY <1>2, <3>0, <3>2, <4>1, <4>2, <4>3, Handed
    <3>3. QED
      BY <1>a, <2>2, <3>1, <3>2, Stealing
  <2>3. ASSUME KallocRefill(p) PROVE EachPageOnce'
    <3> DEFINE i == cpu[p]
               a == <<Head(hand[p])>>
               b == Tail(hand[p])
    <3>0. /\ At(p, "refill") /\ UNCHANGED ref /\ Goto(p, "count")
          /\ hand' = [hand EXCEPT ![p] = a] /\ free' = [free EXCEPT ![i] = b]
      BY <2>3 DEF KallocRefill, Refilled
    <3>1. i \in CPUs /\ free[i] = <<>>
      BY <1>0, <1>a, <3>0 DEF Tied, At
    <3>2. hand[p] # <<>> /\ IsInjective(hand[p])
      BY <1>a, <3>0, Lists DEF At
    <3>3. /\ IsInjective(b) /\ Head(hand[p]) \notin ToSet(b)
          /\ ToSet(hand[p]) = {Head(hand[p])} \cup ToSet(b)
      BY <1>0, <3>2, TailOf
    <3>4. Stored(s) = hand[p] /\ Stored(s)' = a /\ free'[i] = b
      BY <1>0, <3>0, <3>1, StoresAre, StoresThen DEF At, Goto, Holding
    <3>5. IsInjective(a) /\ ToSet(a) = {Head(hand[p])} /\ ToSet(free[i]) = {}
      BY <3>1, OneOrNone
    <3>6. \A j \in CPUs : j # i => free'[j] = free[j]
      BY <1>0, <3>0
    <3>7. /\ a = Stored(Thread(p))' /\ ToSet(a) \cap ToSet(b) = {}
          /\ ToSet(a) \cup ToSet(b) = ToSet(Stored(Thread(p))) \cup ToSet(free[i])
      BY <3>3, <3>4, <3>5
    <3> HIDE DEF a, b, i, s
    <3>8. QED
      BY <1>2, <3>0, <3>1, <3>3, <3>4, <3>5, <3>6, <3>7, Handed
  <2>4. ASSUME KallocFails(p) PROVE EachPageOnce'
    <3>1. UNCHANGED <<free, ref>> /\ pc[p] \notin Holding /\ pc'[p] \notin Holding
      BY <1>0, <2>4 DEF KallocFails, Caller, Goto, At, Holding
    <3>2. QED
      BY <1>2, <3>1, NotFree
  <2>5. ASSUME KallocCount(p) PROVE EachPageOnce'
    <3>1. PICK g \in Pages : /\ hand[p] = <<g>> /\ ref' = [ref EXCEPT ![g] = @ + 1]
                             /\ Goto(p, Caller(p)) /\ UNCHANGED poolVars
      BY <2>5, Counting
    <3>2. Stored(s) = <<g>> /\ Stored(s)' = <<>>
      <4>1. pc[p] = "count" /\ pc'[p] \in {"map", "copy"}
        BY <1>0, <2>5, <3>1 DEF KallocCount, At, Goto, Caller
      <4>2. Stored(s) = <<g>>
        BY <3>1, <4>1, StoresAre
      <4>3. Stored(s)' = <<>>
        BY <4>1, StoresThen DEF Holding
      <4>4. QED
        BY <4>2, <4>3
    <3> HIDE DEF s
    <3>3. QED
      BY <1>a, <2>0, <3>1, <3>2, TakenOut DEF poolVars
  <2>6. ASSUME KfreeDrop(p) PROVE EachPageOnce'
    <3> DEFINE g == Victim(p)
    <3>0. /\ g \in Pages /\ ref[g] >= 1 /\ ref[g] \in Nat /\ UNCHANGED free
          /\ ref' = [ref EXCEPT ![g] = @ - 1] /\ At(p, "free")
      BY <2>6, Dropping DEF KfreeDrop
    <3>1. CASE ref[g] = 1 /\ hand' = [hand EXCEPT ![p] = <<g>>] /\ Goto(p, "push")
      <4>1. Stored(s) = <<>> /\ Stored(s)' = <<g>>
        BY <1>0, <3>0, <3>1, StoresAre, StoresThen DEF At, Goto, Holding
      <4> HIDE DEF s, g
      <4>2. QED
        BY <1>a, <2>0, <3>0, <3>1, <4>1, PutIn
    <3>2. CASE ref[g] # 1 /\ Detach(p)
      <4>1. pc[p] \notin Holding /\ pc'[p] \notin Holding
        BY <1>0, <3>0, <3>2 DEF Detach, Goto, At, Holding
      <4> HIDE DEF g
      <4>2. \A h \in Pages : ref'[h] = 0 <=> ref[h] = 0
        BY <1>0, <3>0, <3>2
      <4>3. QED
        BY <1>2, <3>0, <4>1, <4>2, NotFree
    <3>3. QED
      BY <2>6, <3>1, <3>2, Dropping
  <2>7. ASSUME NEW i \in CPUs, KfreePush(p, i) PROVE EachPageOnce'
    <3> DEFINE g == Victim(p)
               b == <<g>> \o free[i]
    <3>0. At(p, "push") /\ hand[p] = <<g>>
      BY <1>a, <2>7 DEF KfreePush, At, Hands, InHand
    <3>1. /\ hand' = [hand EXCEPT ![p] = <<>>] /\ free' = [free EXCEPT ![i] = b]
          /\ UNCHANGED ref /\ pc'[p] \notin Holding
      BY <1>0, <2>7, <3>0 DEF KfreePush, Detach, Goto, Holding
    <3>2. Stored(s) = <<g>> /\ Stored(s)' = <<>>
      BY <3>0, <3>1, StoresAre, StoresThen DEF At
    <3> HIDE DEF g
    <3>3. g \in Pages /\ g \notin ToSet(free[i])
      <4>1. ToSet(Stored(s)) = {g} /\ ToSet(Stored(s)) \subseteq Pages
        BY <1>a, <2>0, <3>2, OneOrNone, StoredType
      <4>2. ToSet(Stored(s)) \cap ToSet(Stored(Cpu(i))) = {}
        BY <1>a, <2>0 DEF EachPageOnce
      <4>3. QED
        BY <4>1, <4>2, StoresAre
    <3>4. IsInjective(b) /\ ToSet(b) = {g} \cup ToSet(free[i])
      BY <1>0, <1>a, <3>3, Lists, PushOn
    <3>5. free'[i] = b /\ \A j \in CPUs : j # i => free'[j] = free[j]
      BY <1>0, <3>1
    <3> HIDE DEF b
    <3>6. /\ IsInjective(<<>>) /\ ToSet(<<>>) = {} /\ ToSet(Stored(s)) = {g}
      BY <3>2, OneOrNone
    <3>7. /\ <<>> = Stored(Thread(p))' /\ ToSet(<<>>) \cap ToSet(b) = {}
          /\ ToSet(<<>>) \cup ToSet(b) = ToSet(Stored(Thread(p))) \cup ToSet(free[i])
      BY <3>2, <3>4, <3>6
    <3>8. QED
      BY <1>2, <3>1, <3>4, <3>5, <3>6, <3>7, Handed
  <2>8. ASSUME NEW q \in Procs, Fork(p, q) PROVE EachPageOnce'
    <3>1. UNCHANGED <<free, ref>> /\ pc[p] \notin Holding /\ pc'[p] \notin Holding
      BY <1>0, <2>8 DEF Fork, At, Holding, poolVars
    <3>2. QED
      BY <1>2, <3>1, NotFree
  \* The page ref_cnt is counted up for is somebody's already.
  <2>9. ASSUME NEW g \in Pages, ref[g] # 0, ref' = [ref EXCEPT ![g] = @ + 1] PROVE
               \A h \in Pages : ref'[h] = 0 <=> ref[h] = 0
    BY <1>0, <2>9
  <2>10. ASSUME ForkShare(p) PROVE EachPageOnce'
    <3>1. /\ UNCHANGED free /\ pc[p] \notin Holding /\ pc'[p] \notin Holding
          /\ ref' = [ref EXCEPT ![pte[p].pa] = @ + 1] /\ At(p, "share")
      BY <1>0, <2>10 DEF ForkShare, At, Goto, Holding, poolVars
    <3>2. pte[p].pa \in Pages /\ ref[pte[p].pa] # 0
      BY <1>a, <3>1, Counted, Constants DEF Owns, Alive, At
    <3>3. QED
      BY <1>2, <2>9, <3>1, <3>2, NotFree
  <2>11. ASSUME ForkMap(p) \/ ForkFails(p) PROVE EachPageOnce'
    <3>1. pc[p] = "map" /\ child[p] \in Procs /\ child[p] # p
      BY <1>a, <2>11 DEF ForkMap, ForkFails, Forking, At, TypeOK
    <3>2. UNCHANGED <<free, ref>> /\ pc[p] \notin Holding /\ pc'[p] \notin Holding
      BY <1>0, <2>11, <3>1 DEF ForkMap, ForkFails, Holding, poolVars
    <3>3. QED
      BY <1>2, <3>2, NotFree
  <2>12. ASSUME NEW v \in Values, Store(p, v) PROVE EachPageOnce'
    BY <1>2, <2>12, NotFree DEF Store, At, Holding, poolVars
  <2>13. ASSUME Fault(p) \/ Exit(p) PROVE EachPageOnce'
    <3>1. UNCHANGED <<free, ref>> /\ pc[p] \notin Holding /\ pc'[p] \notin Holding
      BY <1>0, <2>13 DEF Fault, Exit, At, Goto, Holding, poolVars
    <3>2. QED
      BY <1>2, <3>1, NotFree
  <2>14. ASSUME CowSole(p) PROVE EachPageOnce'
    <3>1. At(p, "cow") /\ Goto(p, "run") /\ UNCHANGED <<free, ref>>
      BY <2>14, TakingOver DEF CowSole, poolVars
    <3>2. QED
      BY <1>0, <1>2, <3>1, NotFree DEF At, Goto, Holding
  <2>15. ASSUME CowShared(p) PROVE EachPageOnce'
    <3>1. /\ UNCHANGED free /\ pc[p] \notin Holding /\ pc'[p] \notin Holding
          /\ ref' = [ref EXCEPT ![pte[p].pa] = @ - 1] /\ At(p, "cow")
          /\ ref[pte[p].pa] >= 1 /\ ref[pte[p].pa] # 1
      BY <1>0, <2>15 DEF CowShared, Sole, Dropped, At, Goto, Holding, poolVars
    <3>2. pte[p].pa \in Pages
      BY <1>a, <3>1 DEF Owns, Alive, At
    <3>3. \A h \in Pages : ref'[h] = 0 <=> ref[h] = 0
      BY <1>0, <3>1, <3>2
    <3>4. QED
      BY <1>2, <3>1, <3>3, NotFree
  <2>16. ASSUME CowCopy(p) PROVE EachPageOnce'
    <3>1. UNCHANGED <<free, ref>> /\ pc[p] \notin Holding /\ pc'[p] \notin Holding
      BY <1>0, <2>16 DEF CowCopy, At, Goto, Holding
    <3>2. QED
      BY <1>2, <3>1, NotFree
  <2>17. ASSUME CowFails(p) PROVE EachPageOnce'
    <3>1. /\ UNCHANGED free /\ pc[p] \notin Holding /\ pc'[p] \notin Holding
          /\ ref' = [ref EXCEPT ![pte[p].pa] = @ + 1] /\ At(p, "copy")
      BY <1>0, <2>17 DEF CowFails, At, Goto, Holding, poolVars
    <3>2. child[p] = None
      BY <1>a, <3>1 DEF Forking, Allocating, At
    <3>3. pte[p].pa \in Pages /\ ref[pte[p].pa] # 0
      BY <1>a, <3>1, <3>2 DEF IInv, Protected, InWindow, Owns, Alive, At
    <3>4. QED
      BY <1>2, <2>9, <3>1, <3>3, NotFree
  <2>18. QED
    BY <1>2, <2>1, <2>2, <2>3, <2>4, <2>5, <2>6, <2>7, <2>8, <2>10, <2>11, <2>12,
       <2>13, <2>14, <2>15, <2>16, <2>17 DEF Kernel, User
<1>3. QED
  BY <1>1, <1>2 DEF Next

-----------------------------------------------------------------------------
(* Counting references *)

LEMMA CountThen == CountIsReferences' <=> \A g \in Pages : ref'[g] = Bound(Refs', g) + leaked'[g]
<1>1. ASSUME NEW g PROVE {t \in Procs \X Kinds : Target(t[1], t[2])' = g} = {t \in Tokens : Refs'[t] = g}
  BY DEF Tokens, Refs
<1>2. QED
  BY <1>1 DEF CountIsReferences, References, Bound

LEMMA TokensOf ==
  ASSUME NEW q \in Procs
  PROVE  /\ \A k \in Kinds : <<q, k>> \in Tokens
         /\ {"page", "table", "new", "shared"} = Kinds
         /\ Refs[<<q, "page">>] = IF Mapped(q) THEN pte[q].pa ELSE None
         /\ Refs[<<q, "table">>] = IF At(q, "push") /\ pte[q].pa = None THEN None ELSE table[q]
         /\ Refs[<<q, "new">>] =
              IF pc[q] \in {"map", "copy"} /\ hand[q] # <<>> THEN Head(hand[q]) ELSE None
         /\ Refs[<<q, "shared">>] = IF child[q] # None /\ ~At(q, "share") THEN pte[q].pa ELSE None
BY DEF Refs, Tokens, Kinds, Target

LEMMA TokensThen ==
  ASSUME NEW q \in Procs
  PROVE  /\ Refs'[<<q, "page">>] = IF Mapped(q)' THEN pte'[q].pa ELSE None
         /\ Refs'[<<q, "table">>] = IF pc'[q] = "push" /\ pte'[q].pa = None THEN None ELSE table'[q]
         /\ Refs'[<<q, "new">>] =
              IF pc'[q] \in {"map", "copy"} /\ hand'[q] # <<>> THEN Head(hand'[q]) ELSE None
         /\ Refs'[<<q, "shared">>] = IF child'[q] # None /\ pc'[q] # "share" THEN pte'[q].pa ELSE None
<1>1. \A k \in Kinds : Refs'[<<q, k>>] = Target(q, k)'
  BY DEF Refs, Tokens
<1>2. Refs'[<<q, "page">>] = IF Mapped(q)' THEN pte'[q].pa ELSE None
  BY <1>1 DEF Kinds, Target
<1>3. Refs'[<<q, "table">>] = IF pc'[q] = "push" /\ pte'[q].pa = None THEN None ELSE table'[q]
  BY <1>1 DEF Kinds, Target, At
<1>4. Refs'[<<q, "new">>] =
        IF pc'[q] \in {"map", "copy"} /\ hand'[q] # <<>> THEN Head(hand'[q]) ELSE None
  BY <1>1 DEF Kinds, Target
<1>5. Refs'[<<q, "shared">>] = IF child'[q] # None /\ pc'[q] # "share" THEN pte'[q].pa ELSE None
  BY <1>1 DEF Kinds, Target, At
<1> QED
  BY <1>2, <1>3, <1>4, <1>5

\* What leaves a reference as it is.
LEMMA TokensStay ==
  ASSUME NEW q \in Procs, UNCHANGED <<pte, table>>, pc[q] # "push", pc'[q] # "push"
  PROVE  /\ (Mapped(q)' <=> Mapped(q)) => Refs'[<<q, "page">>] = Refs[<<q, "page">>]
         /\ Refs'[<<q, "table">>] = Refs[<<q, "table">>]
         /\ child'[q] = child[q] /\ pc[q] # "share" /\ pc'[q] # "share"
              => Refs'[<<q, "shared">>] = Refs[<<q, "shared">>]
<1>1. (Mapped(q)' <=> Mapped(q)) => Refs'[<<q, "page">>] = Refs[<<q, "page">>]
  BY TokensOf, TokensThen
<1>2. Refs'[<<q, "table">>] = Refs[<<q, "table">>]
  BY TokensOf, TokensThen DEF At
<1>3. child'[q] = child[q] /\ pc[q] # "share" /\ pc'[q] # "share"
        => Refs'[<<q, "shared">>] = Refs[<<q, "shared">>]
  BY TokensOf, TokensThen DEF At
<1> QED
  BY <1>1, <1>2, <1>3

\* A page is mapped and counted but in the window, and when kfree has it.
LEMMA MappedIs ==
  ASSUME NEW q
  PROVE  /\ Mapped(q) <=> /\ pte[q].pa # None /\ pc[q] # "push"
                          /\ child[q] = None => pc[q] \notin Allocating \cup {"copy"}
         /\ Mapped(q)' <=> /\ pte'[q].pa # None /\ pc'[q] # "push"
                           /\ child'[q] = None => pc'[q] \notin Allocating \cup {"copy"}
BY DEF Mapped, InWindow, At, Allocating

LEMMA OtherTokens ==
  ASSUME IInv, NEW p \in Procs, Kernel(p) \/ User(p), NEW q \in Procs, q # p,
         ~(ForkMap(p) /\ q = child[p])
  PROVE  \A k \in Kinds : Refs'[<<q, k>>] = Refs[<<q, k>>]
<1>0. /\ pc \in [Procs -> PCs] /\ Forking /\ Owns /\ Hands /\ None \notin Procs
      /\ hand \in [Procs -> Seq(Pages)] /\ Types
  BY TypesAre, Constants DEF IInv, HandTypes
<1>1. CASE Same(q)
  <2>1. /\ pc'[q] = pc[q] /\ hand'[q] = hand[q] /\ child'[q] = child[q]
        /\ pte'[q] = pte[q] /\ table'[q] = table[q]
    BY <1>1 DEF Same
  <2>2. Mapped(q)' <=> Mapped(q)
    BY <2>1, MappedIs
  <2>3. /\ Refs'[<<q, "page">>] = Refs[<<q, "page">>]
        /\ Refs'[<<q, "table">>] = Refs[<<q, "table">>]
        /\ Refs'[<<q, "new">>] = Refs[<<q, "new">>]
        /\ Refs'[<<q, "shared">>] = Refs[<<q, "shared">>]
    BY <2>1, <2>2, TokensOf, TokensThen DEF At
  <2>4. QED
    BY <2>3 DEF Kinds
<1>2. ASSUME pc[q] \in {"unused", "embryo"}, pc'[q] \in {"unused", "embryo"},
             hand'[q] = hand[q], child'[q] = child[q], pte'[q] = pte[q], table'[q] = table[q]
      PROVE  \A k \in Kinds : Refs'[<<q, k>>] = Refs[<<q, k>>]
  <2>1. pte[q].pa = None
    BY <1>0, <1>2 DEF Owns
  <2>2. QED
    <3>1. ~Mapped(q) /\ ~Mapped(q)'
      BY <1>2, <2>1, MappedIs
    <3>2. /\ Refs'[<<q, "page">>] = Refs[<<q, "page">>]
          /\ Refs'[<<q, "table">>] = Refs[<<q, "table">>]
          /\ Refs'[<<q, "new">>] = Refs[<<q, "new">>]
          /\ Refs'[<<q, "shared">>] = Refs[<<q, "shared">>]
      BY <1>2, <2>1, <3>1, TokensOf, TokensThen DEF At
    <3>3. QED
      BY <3>2 DEF Kinds
<1>3. CASE At(q, "unused") /\ Fork(p, q)
  <2>1. /\ pc'[q] = "embryo" /\ UNCHANGED <<hand, table>> /\ child'[q] = child[q] /\ pte'[q] = pte[q]
    BY <1>0, <1>3 DEF Fork, poolVars, Types
  <2>2. QED
    BY <1>2, <1>3, <2>1 DEF At
<1>4. CASE q = child[p] /\ ForkFails(p)
  <2>1. pc[q] = "embryo" /\ pc'[q] = "unused"
    BY <1>0, <1>4 DEF Forking, ForkFails
  <2>2. UNCHANGED <<hand, pte, table>> /\ child'[q] = child[q]
    BY <1>0, <1>4 DEF ForkFails, poolVars, spaceVars, Types
  <2>3. QED
    BY <1>2, <2>1, <2>2
<1>5. QED
  BY <1>1, <1>3, <1>4, Others

LEMMA TokensKept ==
  ASSUME IInv, NEW p \in Procs, Kernel(p) \/ User(p), ~ForkMap(p), NEW t \in Tokens,
         t[1] = p => Refs'[<<p, t[2]>>] = Refs[<<p, t[2]>>]
  PROVE  Refs'[t] = Refs[t]
<1>1. t[1] \in Procs /\ t[2] \in Kinds /\ t = <<t[1], t[2]>>
  BY DEF Tokens
<1>2. CASE t[1] = p
  BY <1>1, <1>2
<1>3. CASE t[1] # p
  BY <1>1, <1>3, OtherTokens
<1>4. QED
  BY <1>2, <1>3

LEMMA TokensElse ==
  ASSUME IInv, NEW p \in Procs, Kernel(p) \/ User(p), ~ForkMap(p), NEW K \in SUBSET Kinds,
         \A k \in Kinds \ K : Refs'[<<p, k>>] = Refs[<<p, k>>],
         NEW t \in Tokens, \A k \in K : t # <<p, k>>
  PROVE  Refs'[t] = Refs[t]
<1>1. t[2] \in Kinds /\ t = <<t[1], t[2]>>
  BY DEF Tokens
<1>2. t[1] = p => t[2] \in Kinds \ K
  BY <1>1
<1>3. QED
  BY <1>2, TokensKept

LEMMA CountStays ==
  ASSUME IInv, NEW p \in Procs, Kernel(p) \/ User(p), ~ForkMap(p),
         \A k \in Kinds : Refs'[<<p, k>>] = Refs[<<p, k>>], UNCHANGED <<ref, leaked>>
  PROVE  CountIsReferences'
<1> DEFINE K == {}
<1>0. \A k \in Kinds \ K : Refs'[<<p, k>>] = Refs[<<p, k>>]
  OBVIOUS
<1>1. \A t \in Tokens : Refs'[t] = Refs[t]
  BY <1>0, TokensElse
<1>2. \A g \in Pages : Bound(Refs', g) = Bound(Refs, g)
  BY <1>1 DEF Bound
<1>3. QED
  BY <1>2, CountIs, CountThen DEF IInv

LEMMA CountUp ==
  ASSUME IInv, NEW p \in Procs, Kernel(p) \/ User(p), ~ForkMap(p),
         NEW l \in Kinds, NEW g \in Pages, Refs[<<p, l>>] = None, Refs'[<<p, l>>] = g,
         \A k \in Kinds \ {l} : Refs'[<<p, k>>] = Refs[<<p, k>>],
         ref' = [ref EXCEPT ![g] = @ + 1], UNCHANGED leaked
  PROVE  CountIsReferences'
<1> DEFINE x == <<p, l>>
<1>1. x \in Tokens
  BY TokensOf
<1>2. ASSUME NEW t \in Tokens, t # x PROVE Refs'[t] = Refs[t]
  <2> DEFINE K == {l}
  <2>1. K \in SUBSET Kinds /\ \A k \in K : t # <<p, k>>
    BY <1>2
  <2>2. QED
    BY <2>1, TokensElse
<1>3. \A y \in Pages : Bound(Refs', y) = IF y = g THEN Bound(Refs, y) + 1 ELSE Bound(Refs, y)
  BY <1>1, <1>2, Bind
<1>4. \A y \in Pages : Bound(Refs, y) \in Nat /\ ref[y] \in Nat /\ leaked[y] \in Nat
  BY BoundType DEF IInv, TypeOK
<1>5. \A y \in Pages : ref'[y] = IF y = g THEN ref[y] + 1 ELSE ref[y]
  BY DEF IInv, TypeOK
<1>6. \A y \in Pages : ref[y] = Bound(Refs, y) + leaked[y]
  BY CountIs DEF IInv
<1>7. ASSUME NEW y \in Pages PROVE ref'[y] = Bound(Refs', y) + leaked[y]
  BY <1>3, <1>4, <1>5, <1>6
<1>8. QED
  BY <1>7, CountThen

LEMMA CountDown ==
  ASSUME IInv, NEW p \in Procs, Kernel(p) \/ User(p), ~ForkMap(p),
         NEW l \in Kinds, NEW g \in Pages, Refs[<<p, l>>] = g, Refs'[<<p, l>>] = None,
         \A k \in Kinds \ {l} : Refs'[<<p, k>>] = Refs[<<p, k>>],
         \/ ref' = [ref EXCEPT ![g] = @ - 1] /\ UNCHANGED leaked
         \/ leaked' = [leaked EXCEPT ![g] = @ + 1] /\ UNCHANGED ref
  PROVE  CountIsReferences'
<1> DEFINE x == <<p, l>>
<1>1. x \in Tokens
  BY TokensOf
<1>2. ASSUME NEW t \in Tokens, t # x PROVE Refs[t] = Refs'[t]
  <2> DEFINE K == {l}
  <2>1. K \in SUBSET Kinds /\ \A k \in K : t # <<p, k>>
    BY <1>2
  <2>2. QED
    BY <2>1, TokensElse
<1>3. \A y \in Pages : Bound(Refs, y) = IF y = g THEN Bound(Refs', y) + 1 ELSE Bound(Refs', y)
  BY <1>1, <1>2, Bind
<1>4. \A y \in Pages : Bound(Refs', y) \in Nat /\ ref[y] \in Nat /\ leaked[y] \in Nat
  BY BoundType DEF IInv, TypeOK
<1>5. \A y \in Pages : ref'[y] - leaked'[y] = IF y = g THEN ref[y] - leaked[y] - 1
                                              ELSE ref[y] - leaked[y]
  <2>0. ref \in [Pages -> Nat] /\ leaked \in [Pages -> Nat]
    BY DEF IInv, TypeOK
  <2>1. CASE ref' = [ref EXCEPT ![g] = @ - 1] /\ UNCHANGED leaked
    <3>1. \A y \in Pages : ref'[y] = IF y = g THEN ref[y] - 1 ELSE ref[y]
      BY <2>0, <2>1
    <3>2. QED
      BY <1>4, <2>1, <3>1
  <2>2. CASE leaked' = [leaked EXCEPT ![g] = @ + 1] /\ UNCHANGED ref
    <3>1. \A y \in Pages : leaked'[y] = IF y = g THEN leaked[y] + 1 ELSE leaked[y]
      BY <2>0, <2>2
    <3>2. QED
      BY <1>4, <2>2, <3>1
  <2>3. QED
    BY <2>1, <2>2
<1>6. \A y \in Pages : ref[y] = Bound(Refs, y) + leaked[y]
  BY CountIs DEF IInv
<1>a. \A y \in Pages : leaked'[y] \in Int /\ ref'[y] \in Int
  <2>0. ref \in [Pages -> Nat] /\ leaked \in [Pages -> Nat]
    BY DEF IInv, TypeOK
  <2>1. (ref' = ref \/ ref' = [ref EXCEPT ![g] = ref[g] - 1]) /\ ref[g] - 1 \in Int
    BY <2>0
  <2>2. (leaked' = leaked \/ leaked' = [leaked EXCEPT ![g] = leaked[g] + 1]) /\ leaked[g] + 1 \in Nat
    BY <2>0
  <2>3. QED
    BY <2>0, <2>1, <2>2
<1>7. ASSUME NEW y \in Pages PROVE ref'[y] = Bound(Refs', y) + leaked'[y]
  BY <1>3, <1>4, <1>5, <1>6, <1>a
<1>8. QED
  BY <1>7, CountThen

LEMMA CountPasses ==
  ASSUME IInv, NEW p \in Procs, Kernel(p) \/ User(p), ~ForkMap(p),
         NEW k \in Kinds, NEW l \in Kinds, k # l, NEW g \in Pages,
         Refs[<<p, k>>] = g, Refs'[<<p, k>>] = None,
         Refs[<<p, l>>] = None, Refs'[<<p, l>>] = g,
         \A j \in Kinds \ {k, l} : Refs'[<<p, j>>] = Refs[<<p, j>>],
         UNCHANGED <<ref, leaked>>
  PROVE  CountIsReferences'
<1> DEFINE x == <<p, k>>
           y == <<p, l>>
<1>1. x \in Tokens /\ y \in Tokens /\ x # y
  BY TokensOf
<1>2. ASSUME NEW t \in Tokens, t # x, t # y PROVE Refs'[t] = Refs[t]
  <2> DEFINE K == {k, l}
  <2>1. K \in SUBSET Kinds /\ \A j \in K : t # <<p, j>>
    BY <1>2
  <2>2. QED
    BY <2>1, TokensElse
<1>3. \A z \in Pages : Bound(Refs', z) = Bound(Refs, z)
  BY <1>1, <1>2, Rebind
<1>4. QED
  BY <1>3, CountIs, CountThen DEF IInv

\* A thread inside kalloc keeps what it had.
LEMMA InLoop ==
  ASSUME IInv, NEW p \in Procs, Kernel(p) \/ User(p), ~ForkMap(p),
         pc[p] \in Allocating, pc'[p] \in Allocating, UNCHANGED <<pte, table, child, ref, leaked>>
  PROVE  CountIsReferences'
<1>1. Mapped(p)' <=> Mapped(p)
  BY MappedIs DEF Allocating
<1>2. /\ Refs'[<<p, "page">>] = Refs[<<p, "page">>]
      /\ Refs'[<<p, "table">>] = Refs[<<p, "table">>]
      /\ Refs'[<<p, "new">>] = Refs[<<p, "new">>]
      /\ Refs'[<<p, "shared">>] = Refs[<<p, "shared">>]
  BY <1>1, TokensOf, TokensThen DEF At, Allocating
<1>3. QED
  BY <1>2, CountStays DEF Kinds

\* Elsewhere a step may move a thread whose page stays mapped.
LEMMA StaysMapped ==
  ASSUME IInv, NEW p \in Procs, Kernel(p) \/ User(p), ~ForkMap(p),
         pc[p] \in {"run", "cow"}, pc'[p] \in {"run", "share", "cow", "free"},
         pte'[p].pa = pte[p].pa, child'[p] # None => pc'[p] = "share",
         UNCHANGED <<table, ref, leaked>>
  PROVE  CountIsReferences'
<1>0. child[p] = None
  BY DEF IInv, Forking, Allocating
<1>1. Mapped(p)' <=> Mapped(p)
  BY <1>0, MappedIs DEF Allocating
<1>2. /\ Refs'[<<p, "page">>] = Refs[<<p, "page">>]
      /\ Refs'[<<p, "table">>] = Refs[<<p, "table">>]
      /\ Refs'[<<p, "new">>] = Refs[<<p, "new">>]
      /\ Refs'[<<p, "shared">>] = Refs[<<p, "shared">>]
  BY <1>0, <1>1, TokensOf, TokensThen DEF At, Allocating
<1>3. QED
  BY <1>2, CountStays DEF Kinds

LEMMA ForkMapCounts == ASSUME IInv, NEW p \in Procs, ForkMap(p) PROVE CountIsReferences'
<1>0. /\ pc \in [Procs -> PCs] /\ hand \in [Procs -> Seq(Pages)] /\ Types
      /\ Hands /\ Owns /\ Forking /\ None \notin Procs /\ None \notin Pages
  BY TypesAre, Constants DEF IInv, HandTypes
<1>q. PICK q \in Procs : q = child[p]
  BY <1>0 DEF ForkMap, At, Forking, Types
<1>pa. PICK pa : pa = pte[p].pa
  OBVIOUS
<1>1. /\ pc[p] = "map" /\ q \in Procs /\ q # p /\ pc[q] = "embryo" /\ pa \in Pages
      /\ child[q] = None /\ pte[q].pa = None /\ table[q] = None /\ hand[q] = <<>>
  BY <1>0, <1>q, <1>pa DEF ForkMap, At, Types, Forking, Owns, Alive, Allocating, Hands, InHand
<1>2. PICK g \in Pages : hand[p] = <<g>>
  BY <1>0, <1>1 DEF ForkMap, Hands, InHand
<1>3. /\ pc'[p] = "run" /\ pc'[q] = "run" /\ hand'[p] = <<>> /\ hand'[q] = <<>>
      /\ child'[p] = None /\ child'[q] = None /\ pte'[p] = pte[p] /\ pte'[q] = pte[p]
      /\ table'[p] = table[p] /\ table'[q] = g /\ UNCHANGED <<ref, leaked>>
  BY <1>0, <1>1, <1>2, <1>q, OneOrNone DEF ForkMap, Types
<1>4. Mapped(p) /\ Mapped(p)' /\ ~Mapped(q) /\ Mapped(q)'
  <2>1. child[p] # None /\ pa # None
    BY <1>0, <1>1, <1>q, <1>pa
  <2>2. Mapped(p) /\ ~Mapped(q)
    BY <1>1, <2>1, <1>pa, MappedIs
  <2>3. Mapped(p)' /\ Mapped(q)'
    BY <1>1, <1>3, <2>1, <1>pa, MappedIs DEF Allocating
  <2>4. QED
    BY <2>2, <2>3
<1>5. /\ Refs[<<p, "new">>] = g /\ Refs'[<<p, "new">>] = None
      /\ Refs[<<p, "shared">>] = pa /\ Refs'[<<p, "shared">>] = None
      /\ Refs[<<q, "table">>] = None /\ Refs'[<<q, "table">>] = g
      /\ Refs[<<q, "page">>] = None /\ Refs'[<<q, "page">>] = pa
  <2>1. child[p] # None /\ pa # None /\ Head(hand[p]) = g /\ hand[p] # <<>>
    BY <1>0, <1>1, <1>2, <1>q, <1>pa, OneOrNone
  <2>2. Refs[<<p, "new">>] = g /\ Refs[<<p, "shared">>] = pa
    BY <1>1, <2>1, <1>pa, TokensOf DEF At
  <2>3. Refs'[<<p, "new">>] = None /\ Refs'[<<p, "shared">>] = None
    BY <1>3, TokensThen
  <2>4. Refs[<<q, "table">>] = None /\ Refs[<<q, "page">>] = None
    BY <1>1, <1>4, TokensOf
  <2>5. Refs'[<<q, "table">>] = g /\ Refs'[<<q, "page">>] = pa
    BY <1>1, <1>3, <1>4, <1>pa, TokensThen
  <2>6. QED
    BY <2>2, <2>3, <2>4, <2>5
<1>6. /\ Refs'[<<p, "page">>] = Refs[<<p, "page">>] /\ Refs'[<<p, "table">>] = Refs[<<p, "table">>]
      /\ Refs'[<<q, "new">>] = Refs[<<q, "new">>] /\ Refs'[<<q, "shared">>] = Refs[<<q, "shared">>]
  <2>1. Refs'[<<p, "page">>] = Refs[<<p, "page">>] /\ Refs'[<<p, "table">>] = Refs[<<p, "table">>]
    <3>1. Refs[<<p, "page">>] = pte[p].pa /\ Refs'[<<p, "page">>] = pte'[p].pa
      BY <1>4, TokensOf, TokensThen
    <3>2. Refs[<<p, "table">>] = table[p]
      BY <1>1, TokensOf DEF At
    <3>3. Refs'[<<p, "table">>] = table'[p]
      BY <1>3, TokensThen
    <3>4. QED
      BY <1>3, <3>1, <3>2, <3>3
  <2>2. Refs'[<<q, "new">>] = None /\ Refs'[<<q, "shared">>] = None
    BY <1>1, <1>3, TokensThen
  <2>3. Refs[<<q, "new">>] = None /\ Refs[<<q, "shared">>] = None
    BY <1>1, TokensOf
  <2>4. QED
    BY <2>1, <2>2, <2>3
<1>7. ASSUME NEW r \in Procs, r # p, r # q, NEW k \in Kinds PROVE Refs'[<<r, k>>] = Refs[<<r, k>>]
  BY <1>7, <1>q, OtherTokens DEF Kernel
<1> DEFINE x == <<p, "new">>
           y == <<q, "table">>
           z == <<p, "shared">>
           w == <<q, "page">>
           m == [t \in Tokens |-> IF t \in {x, y} THEN Refs'[t] ELSE Refs[t]]
<1>8. x \in Tokens /\ y \in Tokens /\ z \in Tokens /\ w \in Tokens
      /\ x # y /\ z # w /\ x # z /\ x # w /\ y # z /\ y # w
  BY <1>1, TokensOf
<1>9. ASSUME NEW t \in Tokens, t \notin {x, y, z, w} PROVE Refs'[t] = Refs[t]
  <2>1. t[1] \in Procs /\ t[2] \in Kinds /\ t = <<t[1], t[2]>>
    BY DEF Tokens
  <2>2. CASE t[1] = p
    BY <2>1, <2>2, <1>6, <1>9 DEF Kinds
  <2>3. CASE t[1] = q
    BY <2>1, <2>3, <1>6, <1>9 DEF Kinds
  <2>4. CASE t[1] # p /\ t[1] # q
    BY <2>1, <2>4, <1>7
  <2>5. QED
    BY <2>2, <2>3, <2>4
<1>10. /\ Refs[x] = g /\ Refs'[x] = None /\ Refs[y] = None /\ Refs'[y] = g
       /\ Refs[z] = pa /\ Refs'[z] = None /\ Refs[w] = None /\ Refs'[w] = pa
  BY <1>5
<1> HIDE DEF x, y, z, w
<1>11. /\ m[x] = None /\ m[y] = g /\ m[z] = pa /\ m[w] = None
       /\ \A t \in Tokens : t # x /\ t # y => m[t] = Refs[t]
       /\ \A t \in Tokens : t # z /\ t # w => Refs'[t] = m[t]
  BY <1>8, <1>9, <1>10
<1> HIDE DEF m
<1>12. \A h \in Pages : Bound(m, h) = Bound(Refs, h)
  BY <1>8, <1>10, <1>11, Rebind
<1>13. pa \in Pages
  BY <1>1
<1>14. \A h \in Pages : Bound(Refs', h) = Bound(m, h)
  BY <1>8, <1>10, <1>11, <1>13, Rebind
<1>15. QED
  BY <1>3, <1>12, <1>14, CountIs, CountThen DEF IInv

LEMMA CountStep == ASSUME IInv, [Next]_vars PROVE CountIsReferences'
<1>0. /\ pc \in [Procs -> PCs] /\ hand \in [Procs -> Seq(Pages)] /\ Types
      /\ Hands /\ Owns /\ Forking /\ None \notin Procs /\ None \notin Pages
  BY TypesAre, Constants DEF IInv, HandTypes
<1>00. "page" \in Kinds /\ "table" \in Kinds /\ "new" \in Kinds /\ "shared" \in Kinds
  BY DEF Kinds
<1>1. CASE UNCHANGED vars
  <2>1. \A g : References(g)' = References(g)
    BY <1>1 DEF vars, References, Target, Mapped, InWindow, At
  <2>2. QED
    BY <1>1, <2>1 DEF vars, IInv, CountIsReferences
<1>2. ASSUME NEW p \in Procs, Kernel(p) \/ User(p) PROVE CountIsReferences'
  \* What a thread is doing tells the actions apart from ForkMap.
  <2>a. pc[p] # "map" => ~ForkMap(p)
    BY DEF ForkMap, At
  <2>1. ASSUME NEW i \in CPUs, KallocPop(p, i) PROVE CountIsReferences'
    <3>1. /\ pc[p] = "kalloc" /\ pc'[p] \in {"count", "steal"}
          /\ UNCHANGED <<pte, table, child, ref, leaked>>
      BY <1>0, <2>1 DEF KallocPop, At, Goto, spaceVars, forkVars
    <3>2. QED
      BY <1>2, <2>a, <3>1, InLoop DEF Allocating
  <2>2. ASSUME KallocSteal(p) PROVE CountIsReferences'
    <3>1. /\ pc[p] = "steal" /\ pc'[p] \in {"steal", "refill"}
          /\ UNCHANGED <<pte, table, child, ref, leaked>>
      BY <1>0, <2>2 DEF KallocSteal, At, Goto, spaceVars, forkVars
    <3>2. QED
      BY <1>2, <2>a, <3>1, InLoop DEF Allocating
  <2>3. ASSUME KallocRefill(p) PROVE CountIsReferences'
    <3>1. /\ pc[p] = "refill" /\ pc'[p] = "count"
          /\ UNCHANGED <<pte, table, child, ref, leaked>>
      BY <1>0, <2>3 DEF KallocRefill, At, Goto, spaceVars, forkVars
    <3>2. QED
      BY <1>2, <2>a, <3>1, InLoop DEF Allocating
  <2>4. ASSUME KallocFails(p) PROVE CountIsReferences'
    <3>1. /\ pc[p] = "steal" /\ pc'[p] = Caller(p) /\ UNCHANGED <<pte, table, child, hand>>
          /\ UNCHANGED <<ref, leaked>>
      BY <1>0, <2>4 DEF KallocFails, At, Goto, spaceVars, forkVars
    <3>2. hand[p] = <<>>
      BY <1>0, <3>1 DEF Hands, InHand
    <3>3. pc'[p] = IF child[p] # None THEN "map" ELSE "copy"
      BY <3>1 DEF Caller
    <3>4. Mapped(p)' <=> Mapped(p)
      BY <3>1, <3>3, MappedIs DEF Allocating
    <3>5. /\ Refs'[<<p, "page">>] = Refs[<<p, "page">>]
          /\ Refs'[<<p, "table">>] = Refs[<<p, "table">>]
          /\ Refs'[<<p, "new">>] = Refs[<<p, "new">>]
          /\ Refs'[<<p, "shared">>] = Refs[<<p, "shared">>]
      BY <3>1, <3>2, <3>3, <3>4, TokensOf, TokensThen DEF At
    <3>6. QED
      BY <1>2, <2>a, <3>1, <3>5, CountStays DEF Kinds
  <2>5. ASSUME KallocCount(p) PROVE CountIsReferences'
    <3>1. PICK g \in Pages : /\ hand[p] = <<g>> /\ ref' = [ref EXCEPT ![g] = @ + 1]
                             /\ Goto(p, Caller(p))
                             /\ UNCHANGED <<poolVars, spaceVars, forkVars>>
      BY <2>5, Counting
    <3>2. /\ pc[p] = "count" /\ pc'[p] = Caller(p) /\ UNCHANGED <<pte, table, child, hand, leaked>>
      BY <1>0, <2>5, <3>1 DEF KallocCount, At, Goto, poolVars, spaceVars, forkVars
    <3>3. pc'[p] = IF child[p] # None THEN "map" ELSE "copy"
      BY <3>2 DEF Caller
    <3>4. Mapped(p)' <=> Mapped(p)
      BY <3>2, <3>3, MappedIs DEF Allocating
    <3>5. /\ Refs'[<<p, "page">>] = Refs[<<p, "page">>]
          /\ Refs'[<<p, "table">>] = Refs[<<p, "table">>]
          /\ Refs'[<<p, "shared">>] = Refs[<<p, "shared">>]
      <4>1. /\ UNCHANGED <<pte, table>> /\ child'[p] = child[p]
            /\ pc[p] \notin {"push", "share"} /\ pc'[p] \notin {"push", "share"}
        BY <3>2, <3>3
      <4>2. QED
        BY <3>4, <4>1, TokensStay
    <3>6. Refs[<<p, "new">>] = None /\ Refs'[<<p, "new">>] = g
      <4>1. Head(hand'[p]) = g /\ hand'[p] # <<>> /\ pc'[p] \in {"map", "copy"}
        BY <3>1, <3>2, <3>3, OneOrNone
      <4>2. Refs'[<<p, "new">>] = g
        BY <4>1, TokensThen
      <4>3. Refs[<<p, "new">>] = None
        BY <3>2, TokensOf
      <4>4. QED
        BY <4>2, <4>3
    <3>7. \A k \in Kinds \ {"new"} : Refs'[<<p, k>>] = Refs[<<p, k>>]
      BY <3>5 DEF Kinds
    <3>8. QED
      BY <1>00, <1>2, <2>a, <3>1, <3>2, <3>6, <3>7, CountUp
  <2>6. ASSUME KfreeDrop(p) PROVE CountIsReferences'
    <3>1. PICK g \in Pages :
            /\ g = Victim(p) /\ ref' = [ref EXCEPT ![g] = @ - 1]
            /\ (Goto(p, "push") /\ UNCHANGED spaceVars) \/ Detach(p)
            /\ UNCHANGED <<child, leaked>>
      BY <2>6, Dropping DEF forkVars
    <3>2. pc[p] = "free" /\ child[p] = None /\ table[p] \in Pages
      BY <1>0, <2>6 DEF KfreeDrop, At, Forking, Owns, Allocating
    <3>3. /\ Refs[<<p, "new">>] = None /\ Refs[<<p, "shared">>] = None
          /\ Refs[<<p, "table">>] = table[p]
          /\ Refs[<<p, "page">>] = pte[p].pa
      BY <3>2, TokensOf, MappedIs DEF At, Allocating
    <3>4. pc'[p] \in {"push", "free", "unused"} /\ child'[p] = None
      BY <1>0, <3>1, <3>2 DEF Goto, Detach
    <3>5. Refs'[<<p, "new">>] = None /\ Refs'[<<p, "shared">>] = None
      BY <3>4, TokensThen
    <3>6. CASE pte[p].pa # None
      <4>1. /\ table'[p] = table[p]
            /\ \/ pc'[p] = "push" /\ pte'[p].pa # None
               \/ pc'[p] = "free" /\ pte'[p].pa = None
        <5>1. CASE Goto(p, "push") /\ UNCHANGED spaceVars
          BY <1>0, <3>6, <5>1 DEF Goto, spaceVars
        <5>2. CASE /\ pte' = [pte EXCEPT ![p] = Unmapped]
                   /\ Goto(p, "free") /\ UNCHANGED table
          BY <1>0, <5>2 DEF Goto, Unmapped, Types
        <5>3. QED
          BY <3>1, <3>6, <5>1, <5>2, Detaching
      <4>2. Refs'[<<p, "page">>] = None /\ Refs'[<<p, "table">>] = table[p]
        BY <4>1, TokensThen, MappedIs
      <4>3. Refs[<<p, "page">>] = g
        BY <3>1, <3>3, <3>6 DEF Victim
      <4>4. \A k \in Kinds \ {"page"} : Refs'[<<p, k>>] = Refs[<<p, k>>]
        BY <3>3, <3>5, <4>2 DEF Kinds
      <4>5. QED
        BY <1>00, <1>2, <2>a, <3>1, <3>2, <4>2, <4>3, <4>4, CountDown
    <3>7. CASE pte[p].pa = None
      <4>1. /\ pte'[p].pa = None
            /\ pc'[p] = "push" \/ (pc'[p] = "unused" /\ table'[p] = None)
        <5>1. CASE Goto(p, "push") /\ UNCHANGED spaceVars
          BY <1>0, <3>7, <5>1 DEF Goto, spaceVars
        <5>2. CASE /\ table' = [table EXCEPT ![p] = None]
                   /\ Goto(p, "unused") /\ UNCHANGED pte
          BY <1>0, <3>7, <5>2 DEF Goto, Types
        <5>3. QED
          BY <3>1, <3>7, <5>1, <5>2, Detaching
      <4>2. Refs'[<<p, "page">>] = None /\ Refs'[<<p, "table">>] = None
        BY <4>1, TokensThen, MappedIs
      <4>3. Refs[<<p, "table">>] = g
        BY <3>1, <3>3, <3>7 DEF Victim
      <4>4. \A k \in Kinds \ {"table"} : Refs'[<<p, k>>] = Refs[<<p, k>>]
        BY <3>3, <3>5, <3>7, <4>2 DEF Kinds
      <4>5. QED
        BY <1>00, <1>2, <2>a, <3>1, <3>2, <4>2, <4>3, <4>4, CountDown
    <3>8. QED
      BY <3>6, <3>7
  <2>7. ASSUME NEW i \in CPUs, KfreePush(p, i) PROVE CountIsReferences'
    <3>1. /\ pc[p] = "push" /\ Detach(p) /\ UNCHANGED <<child, leaked, ref>>
      BY <2>7 DEF KfreePush, At, forkVars
    <3>2. child[p] = None
      BY <1>0, <3>1 DEF Forking, Allocating
    <3>3. /\ Refs[<<p, "new">>] = None /\ Refs[<<p, "shared">>] = None /\ Refs[<<p, "page">>] = None
          /\ Refs[<<p, "table">>] = IF pte[p].pa = None THEN None ELSE table[p]
      BY <3>1, <3>2, TokensOf, MappedIs DEF At
    <3>4. pc'[p] \in {"free", "unused"} /\ child'[p] = None
      BY <1>0, <3>1, <3>2 DEF Goto, Detach
    <3>5. pte'[p].pa = None /\ table'[p] = IF pte[p].pa = None THEN None ELSE table[p]
      BY <1>0, <3>1 DEF Detach, Unmapped, Types
    <3>6. /\ Refs'[<<p, "new">>] = None /\ Refs'[<<p, "shared">>] = None /\ Refs'[<<p, "page">>] = None
          /\ Refs'[<<p, "table">>] = table'[p]
      BY <3>4, <3>5, TokensThen, MappedIs
    <3>7. QED
      BY <1>2, <2>a, <3>1, <3>3, <3>5, <3>6, CountStays DEF Kinds
  <2>8. ASSUME NEW q \in Procs, Fork(p, q) PROVE CountIsReferences'
    <3>1. /\ pc[p] = "run" /\ pc'[p] = "share" /\ pte'[p].pa = pte[p].pa /\ q # p
          /\ UNCHANGED <<table, ref, leaked>>
      BY <1>0, <2>8 DEF Fork, At, Encow, Types
    <3>2. QED
      BY <1>2, <2>a, <3>1, StaysMapped
  <2>9. ASSUME ForkShare(p) PROVE CountIsReferences'
    <3>1. /\ pc[p] = "share" /\ pc'[p] = "kalloc" /\ UNCHANGED <<pte, table, child, leaked>>
          /\ ref' = [ref EXCEPT ![pte[p].pa] = @ + 1] /\ child[p] # None /\ pte[p].pa \in Pages
      BY <1>0, <2>9 DEF ForkShare, At, Goto, spaceVars, forkVars, Forking, Owns, Alive
    <3>2. Mapped(p)' <=> Mapped(p)
      BY <3>1, MappedIs DEF Allocating
    <3>3. /\ Refs'[<<p, "page">>] = Refs[<<p, "page">>]
          /\ Refs'[<<p, "table">>] = Refs[<<p, "table">>]
          /\ Refs'[<<p, "new">>] = Refs[<<p, "new">>]
      BY <3>1, <3>2, TokensOf, TokensThen DEF At
    <3>4. Refs[<<p, "shared">>] = None /\ Refs'[<<p, "shared">>] = pte[p].pa
      BY <3>1, TokensOf, TokensThen DEF At
    <3>5. \A k \in Kinds \ {"shared"} : Refs'[<<p, k>>] = Refs[<<p, k>>]
      BY <3>3 DEF Kinds
    <3>6. QED
      BY <1>00, <1>2, <2>a, <3>1, <3>4, <3>5, CountUp
  <2>10. ASSUME ForkFails(p) PROVE CountIsReferences'
    <3>1. /\ pc[p] = "map" /\ hand[p] = <<>> /\ child[p] # None /\ pc[child[p]] = "embryo"
          /\ pte[p].pa \in Pages /\ ~ForkMap(p)
      BY <1>0, <2>10 DEF ForkFails, ForkMap, At, Forking, Owns, Alive
    <3>2. /\ pc'[p] = "run" /\ child'[p] = None /\ UNCHANGED <<hand, pte, table, ref>>
          /\ leaked' = [leaked EXCEPT ![pte[p].pa] = @ + 1]
      BY <1>0, <2>10, <3>1 DEF ForkFails, poolVars, spaceVars, Types
    <3>3. Mapped(p)' <=> Mapped(p)
      BY <3>1, <3>2, MappedIs DEF Allocating
    <3>4. /\ Refs'[<<p, "page">>] = Refs[<<p, "page">>]
          /\ Refs'[<<p, "table">>] = Refs[<<p, "table">>]
          /\ Refs'[<<p, "new">>] = Refs[<<p, "new">>]
      <4>1. /\ Refs'[<<p, "page">>] = Refs[<<p, "page">>]
            /\ Refs'[<<p, "table">>] = Refs[<<p, "table">>]
        <5>1. UNCHANGED <<pte, table>> /\ pc[p] # "push" /\ pc'[p] # "push"
          BY <3>1, <3>2
        <5>2. QED
          BY <3>3, <5>1, TokensStay
      <4>2. Refs[<<p, "new">>] = None
        BY <3>1, TokensOf
      <4>3. Refs'[<<p, "new">>] = None
        BY <3>2, TokensThen
      <4>4. QED
        BY <4>1, <4>2, <4>3
    <3>5. Refs[<<p, "shared">>] = pte[p].pa /\ Refs'[<<p, "shared">>] = None
      BY <3>1, <3>2, TokensOf, TokensThen DEF At
    <3>6. \A k \in Kinds \ {"shared"} : Refs'[<<p, k>>] = Refs[<<p, k>>]
      BY <3>4 DEF Kinds
    <3>7. QED
      BY <1>00, <1>2, <3>1, <3>2, <3>5, <3>6, CountDown
  <2>11. ASSUME NEW v \in Values, Store(p, v) PROVE CountIsReferences'
    <3>1. pc[p] = "run" /\ UNCHANGED <<pc, pte, table, child, hand, ref, leaked>>
      BY <2>11 DEF Store, At, poolVars, spaceVars, forkVars
    <3>2. child[p] = None
      BY <1>0, <3>1 DEF Forking, Allocating
    <3>3. QED
      BY <1>2, <2>a, <3>1, <3>2, StaysMapped
  <2>12. ASSUME Fault(p) \/ Exit(p) \/ CowSole(p) PROVE CountIsReferences'
    <3>1. CowSole(p) => Goto(p, "run") /\ pte' = [pte EXCEPT ![p] = Decow(@)]
      BY TakingOver
    <3>2. /\ pc[p] \in {"run", "cow"} /\ pc'[p] \in {"run", "cow", "free"}
          /\ pte'[p].pa = pte[p].pa /\ UNCHANGED <<table, child, ref, leaked>>
      <4>1. CASE Fault(p) \/ Exit(p)
        BY <1>0, <4>1 DEF Fault, Exit, At, Goto, spaceVars, forkVars
      <4>2. CASE CowSole(p)
        <5>1. pc[p] = "cow" /\ UNCHANGED <<table, child, ref, leaked>>
          BY <4>2 DEF CowSole, At, forkVars
        <5>2. pc'[p] = "run"
          BY <1>0, <3>1, <4>2 DEF Goto
        <5>3. pte'[p] = Decow(pte[p]) /\ Decow(pte[p]).pa = pte[p].pa
          BY <1>0, <3>1, <4>2 DEF Types, Decow
        <5>4. QED
          BY <5>1, <5>2, <5>3
      <4>3. QED
        BY <2>12, <4>1, <4>2
    <3>3. child[p] = None
      BY <1>0, <3>2 DEF Forking, Allocating
    <3>4. QED
      BY <1>2, <2>a, <3>2, <3>3, StaysMapped
  <2>13. ASSUME CowShared(p) PROVE CountIsReferences'
    <3>1. /\ pc[p] = "cow" /\ pc'[p] = "kalloc" /\ UNCHANGED <<pte, table, child, leaked>>
          /\ ref' = [ref EXCEPT ![pte[p].pa] = @ - 1] /\ pte[p].pa \in Pages
      BY <1>0, <2>13 DEF CowShared, Dropped, At, Goto, spaceVars, forkVars, Owns, Alive
    <3>2. child[p] = None
      BY <1>0, <3>1 DEF Forking, Allocating
    <3>3. Mapped(p) /\ ~Mapped(p)'
      BY <1>0, <3>1, <3>2, MappedIs DEF Allocating
    <3>4. /\ Refs'[<<p, "table">>] = Refs[<<p, "table">>]
          /\ Refs'[<<p, "new">>] = Refs[<<p, "new">>]
          /\ Refs'[<<p, "shared">>] = Refs[<<p, "shared">>]
      BY <3>1, <3>2, TokensOf, TokensThen DEF At
    <3>5. Refs[<<p, "page">>] = pte[p].pa /\ Refs'[<<p, "page">>] = None
      BY <3>3, TokensOf, TokensThen
    <3>6. \A k \in Kinds \ {"page"} : Refs'[<<p, k>>] = Refs[<<p, k>>]
      BY <3>4 DEF Kinds
    <3>7. QED
      BY <1>00, <1>2, <2>a, <3>1, <3>5, <3>6, CountDown
  <2>14. ASSUME CowCopy(p) PROVE CountIsReferences'
    <3>1. /\ pc[p] = "copy" /\ pc'[p] = "run" /\ UNCHANGED <<table, child, leaked, ref>>
          /\ hand[p] # <<>> /\ hand'[p] = <<>> /\ pte'[p].pa = Head(hand[p])
      BY <1>0, <2>14 DEF CowCopy, Decow, At, Goto, forkVars, Types
    <3>2. PICK g \in Pages : hand[p] = <<g>>
      BY <1>0, <3>1 DEF Hands, InHand
    <3>3. child[p] = None /\ Head(hand[p]) = g
      BY <1>0, <3>1, <3>2, OneOrNone DEF Forking, Allocating
    <3>4. ~Mapped(p) /\ Mapped(p)'
      BY <1>0, <3>1, <3>3, MappedIs DEF Allocating
    <3>5. /\ Refs[<<p, "page">>] = None /\ Refs'[<<p, "page">>] = g
          /\ Refs[<<p, "new">>] = g /\ Refs'[<<p, "new">>] = None
      BY <3>1, <3>3, <3>4, TokensOf, TokensThen
    <3>6. /\ Refs'[<<p, "table">>] = Refs[<<p, "table">>]
          /\ Refs'[<<p, "shared">>] = Refs[<<p, "shared">>]
      BY <3>1, <3>3, TokensOf, TokensThen DEF At
    <3>7. \A k \in Kinds \ {"new", "page"} : Refs'[<<p, k>>] = Refs[<<p, k>>]
      BY <3>6 DEF Kinds
    <3>8. QED
      BY <1>00, <1>2, <2>a, <3>1, <3>5, <3>7, CountPasses
  <2>15. ASSUME CowFails(p) PROVE CountIsReferences'
    <3>1. /\ pc[p] = "copy" /\ pc'[p] = "free" /\ UNCHANGED <<pte, table, child, leaked>>
          /\ hand[p] = <<>> /\ ref' = [ref EXCEPT ![pte[p].pa] = @ + 1] /\ pte[p].pa \in Pages
      BY <1>0, <2>15 DEF CowFails, At, Goto, spaceVars, forkVars, Owns, Alive
    <3>2. child[p] = None
      BY <1>0, <3>1 DEF Forking, Allocating
    <3>3. ~Mapped(p) /\ Mapped(p)'
      BY <1>0, <3>1, <3>2, MappedIs DEF Allocating
    <3>4. /\ Refs'[<<p, "table">>] = Refs[<<p, "table">>]
          /\ Refs'[<<p, "new">>] = Refs[<<p, "new">>]
          /\ Refs'[<<p, "shared">>] = Refs[<<p, "shared">>]
      BY <3>1, <3>2, TokensOf, TokensThen DEF At
    <3>5. Refs[<<p, "page">>] = None /\ Refs'[<<p, "page">>] = pte[p].pa
      BY <3>1, <3>3, TokensOf, TokensThen
    <3>6. \A k \in Kinds \ {"page"} : Refs'[<<p, k>>] = Refs[<<p, k>>]
      BY <3>4 DEF Kinds
    <3>7. QED
      BY <1>00, <1>2, <2>a, <3>1, <3>5, <3>6, CountUp
  <2>16. QED
    BY <1>2, <2>1, <2>2, <2>3, <2>4, <2>5, <2>6, <2>7, <2>8, <2>9, <2>10, <2>11, <2>12,
       <2>13, <2>14, <2>15, ForkMapCounts DEF Kernel, User
<1>3. QED
  BY <1>1, <1>2 DEF Next

-----------------------------------------------------------------------------
(* Who may use a page *)

\* How the steps change the counts and the address spaces.
LEMMA RefSteps ==
  ASSUME IInv, NEW p \in Procs, Kernel(p) \/ User(p)
  PROVE  \/ UNCHANGED ref
         \/ \E g \in Pages : /\ ref' = [ref EXCEPT ![g] = @ + 1]
                             /\ (KallocCount(p) /\ ref[g] = 0) \/ g = pte[p].pa
         \/ \E g \in Pages : /\ CowShared(p) /\ g = pte[p].pa /\ ref[g] > 1
                             /\ ref' = [ref EXCEPT ![g] = @ - 1]
         \/ KfreeDrop(p)
<1>0. Owns /\ Forking /\ ref \in [Pages -> Nat]
  BY DEF IInv, TypeOK
<1>1. CASE KallocCount(p)
  BY <1>1, Counting
<1>2. CASE ForkShare(p) \/ CowFails(p)
  <2>1. pte[p].pa \in Pages /\ ref' = [ref EXCEPT ![pte[p].pa] = @ + 1]
    BY <1>0, <1>2 DEF ForkShare, CowFails, At, Owns, Alive
  <2>2. QED
    BY <2>1
<1>3. CASE CowShared(p)
  <2>1. /\ pte[p].pa \in Pages /\ ref' = [ref EXCEPT ![pte[p].pa] = @ - 1]
        /\ ref[pte[p].pa] >= 1 /\ ref[pte[p].pa] # 1
    BY <1>0, <1>3 DEF CowShared, Sole, Dropped, At, Owns, Alive
  <2>2. ref[pte[p].pa] > 1
    BY <1>0, <2>1
  <2>3. QED
    BY <1>3, <2>1, <2>2
<1>4. CASE KfreeDrop(p)
  BY <1>4
<1>5. ASSUME \/ \E i \in CPUs : KallocPop(p, i) \/ KfreePush(p, i)
             \/ KallocSteal(p) \/ KallocRefill(p) \/ KallocFails(p)
             \/ ForkMap(p) \/ ForkFails(p) \/ CowSole(p) \/ CowCopy(p) \/ User(p)
      PROVE  UNCHANGED ref
  BY <1>5 DEF User, KallocPop, KfreePush, KallocSteal, KallocRefill, KallocFails, ForkMap,
       ForkFails, CowSole, CowCopy, Fault, Exit, Fork, Store
<1>6. QED
  BY <1>1, <1>2, <1>3, <1>4, <1>5 DEF Kernel

LEMMA SpaceSteps ==
  ASSUME IInv, NEW p \in Procs, Kernel(p) \/ User(p)
  PROVE  \/ UNCHANGED <<pte, table>>
         \/ /\ pte' = [pte EXCEPT ![p] = Unmapped] /\ UNCHANGED table
            /\ Goto(p, "free") /\ Detach(p)
         \/ /\ table' = [table EXCEPT ![p] = None] /\ UNCHANGED pte
            /\ Goto(p, "unused") /\ Detach(p)
         \/ /\ \E q \in Procs : Fork(p, q)
            /\ pte' = [pte EXCEPT ![p] = Encow(@)] /\ UNCHANGED table
         \/ ForkMap(p)
         \/ CowSole(p) /\ pte' = [pte EXCEPT ![p] = Decow(@)] /\ UNCHANGED table
         \/ CowCopy(p)
<1>1. CASE KfreeDrop(p)
  <2>1. UNCHANGED spaceVars \/ Detach(p)
    BY <1>1, Dropping
  <2>2. QED
    BY <2>1, Detaching DEF spaceVars
<1>2. ASSUME NEW i \in CPUs, KfreePush(p, i) PROVE Detach(p)
  BY <1>2 DEF KfreePush
<1>3. CASE CowSole(p)
  BY <1>3, TakingOver DEF CowSole
<1>4. ASSUME NEW q \in Procs, Fork(p, q)
      PROVE  pte' = [pte EXCEPT ![p] = Encow(@)] /\ UNCHANGED table
  BY <1>4 DEF Fork
<1>5. ASSUME \/ \E i \in CPUs : KallocPop(p, i)
             \/ KallocSteal(p) \/ KallocRefill(p) \/ KallocFails(p) \/ KallocCount(p)
             \/ ForkShare(p) \/ ForkFails(p) \/ CowShared(p) \/ CowFails(p)
             \/ Fault(p) \/ Exit(p) \/ \E v \in Values : Store(p, v)
      PROVE  UNCHANGED <<pte, table>>
  BY <1>5 DEF KallocPop, KallocSteal, KallocRefill, KallocFails, KallocCount, ForkShare,
       ForkFails, CowShared, CowFails, Fault, Exit, Store, spaceVars
<1>6. QED
  BY <1>1, <1>2, <1>3, <1>4, <1>5, Detaching DEF Kernel, User

\* A count goes to 0 where kfree takes the last reference, and nowhere else.
LEMMA GoesToZero ==
  ASSUME IInv, NEW p \in Procs, Kernel(p) \/ User(p), NEW g \in Pages, ref[g] # 0, ref'[g] = 0
  PROVE  KfreeDrop(p) /\ MayTakeLast(g)
<1>0. ref \in [Pages -> Nat]
  BY DEF IInv, TypeOK
<1>1. KfreeDrop(p)
  <2>1. ~UNCHANGED ref
    OBVIOUS
  <2>2. ASSUME NEW h \in Pages PROVE ref' # [ref EXCEPT ![h] = @ + 1]
    BY <1>0
  <2>3. ASSUME NEW h \in Pages, ref[h] > 1 PROVE ref' # [ref EXCEPT ![h] = @ - 1]
    BY <1>0, <2>3
  <2>4. QED
    BY <2>1, <2>2, <2>3, RefSteps
<1>2. PICK h \in Pages : /\ ref[h] = 1 => MayTakeLast(h)
                         /\ ref' = [ref EXCEPT ![h] = @ - 1] /\ ref[h] >= 1
  BY <1>1, Dropping
<1>3. h = g /\ ref[h] = 1
  BY <1>0, <1>2
<1>4. QED
  BY <1>1, <1>2, <1>3

LEMMA EntersWindow ==
  ASSUME IInv, NEW p \in Procs, Kernel(p) \/ User(p), InWindow(p)'
  PROVE  (InWindow(p) /\ pte'[p] = pte[p]) \/ CowShared(p)
<1>0. /\ pc \in [Procs -> PCs] /\ Types /\ Forking /\ None \notin Procs
  BY TypesAre, Constants DEF IInv, HandTypes
<1>1. child'[p] = None /\ pc'[p] \in {"kalloc", "steal", "refill", "count", "copy"}
  BY DEF InWindow
<1>2. ASSUME pc[p] \in {"kalloc", "steal", "refill", "count"}, UNCHANGED <<pte, child>>
      PROVE  InWindow(p) /\ pte'[p] = pte[p]
  BY <1>1, <1>2 DEF InWindow
<1>3. ASSUME \/ \E i \in CPUs : KallocPop(p, i)
             \/ KallocSteal(p) \/ KallocRefill(p) \/ KallocFails(p) \/ KallocCount(p)
      PROVE  pc[p] \in {"kalloc", "steal", "refill", "count"} /\ UNCHANGED <<pte, child>>
  BY <1>3 DEF KallocPop, KallocSteal, KallocRefill, KallocFails, KallocCount, At, spaceVars, forkVars
<1>4. ASSUME KfreeDrop(p) \/ \E i \in CPUs : KfreePush(p, i) PROVE FALSE
  <2>1. \E l \in {"free", "unused", "push"} : Goto(p, l)
    BY <1>4, Dropping DEF KfreePush, Detach
  <2>2. QED
    BY <1>0, <1>1, <2>1 DEF Goto
<1>5. ASSUME ForkShare(p) PROVE FALSE
  BY <1>0, <1>1, <1>5 DEF ForkShare, Forking, At, forkVars
<1>6. ASSUME ForkMap(p) \/ ForkFails(p) PROVE FALSE
  <2>1. pc'[p] \in {"run", "unused"}
    BY <1>0, <1>6 DEF ForkMap, ForkFails
  <2>2. QED
    BY <1>1, <2>1
<1>7. ASSUME \/ CowCopy(p) \/ CowFails(p) \/ CowSole(p) \/ Fault(p) \/ Exit(p)
      PROVE  FALSE
  <2>1. \E l \in {"run", "free", "cow"} : Goto(p, l)
    BY <1>7, TakingOver DEF CowCopy, CowFails, Fault, Exit
  <2>2. QED
    BY <1>0, <1>1, <2>1 DEF Goto
<1>8. ASSUME NEW q \in Procs, Fork(p, q) PROVE FALSE
  <2>1. pc'[p] \in {"share", "embryo"}
    BY <1>0, <1>8 DEF Fork
  <2>2. QED
    BY <1>1, <2>1
<1>9. ASSUME NEW v \in Values, Store(p, v) PROVE FALSE
  BY <1>1, <1>9 DEF Store, At
<1>10. QED
  BY <1>2, <1>3, <1>4, <1>5, <1>6, <1>7, <1>8, <1>9 DEF Kernel, User

LEMMA ProtectedStep == ASSUME IInv, Races = FALSE, [Next]_vars PROVE Protected'
<1>0. /\ pc \in [Procs -> PCs] /\ Types /\ Owns /\ Forking /\ Protected /\ None \notin Procs
  BY TypesAre, Constants DEF IInv, HandTypes
<1>a. \A q \in Procs : InWindow(q) => pte[q].pa \in Pages
  BY <1>0 DEF InWindow, Owns, Alive, Allocating
<1>1. CASE UNCHANGED vars
  BY <1>0, <1>1 DEF vars, Protected, InWindow
<1>2. ASSUME NEW p \in Procs, Kernel(p) \/ User(p) PROVE Protected'
  <2>1. ASSUME NEW q \in Procs, InWindow(q), pte'[q] = pte[q], InWindow(q)'
        PROVE  ref'[pte'[q].pa] # 0
    <3>1. pte[q].pa \in Pages /\ ref[pte[q].pa] # 0
      BY <1>0, <1>a, <2>1 DEF Protected
    <3>2. ~MayTakeLast(pte[q].pa)
      BY <2>1 DEF MayTakeLast
    <3>3. QED
      BY <1>2, <2>1, <3>1, <3>2, GoesToZero
  <2>2. ASSUME CowShared(p) PROVE ref'[pte'[p].pa] # 0
    <3>1. pte[p].pa \in Pages /\ pte' = pte
      BY <1>0, <2>2 DEF CowShared, At, Owns, Alive, spaceVars
    <3>2. ref[pte[p].pa] # 0 /\ ~KfreeDrop(p)
      BY <2>2, <3>1 DEF CowShared, KfreeDrop, At, IInv, TypeOK
    <3>3. QED
      BY <1>2, <3>1, <3>2, GoesToZero
  <2>3. ASSUME NEW q \in Procs, q # p, InWindow(q)' PROVE InWindow(q) /\ pte'[q] = pte[q]
    <3>1. CASE Same(q)
      BY <2>3, <3>1 DEF Same, InWindow
    <3>2. CASE At(q, "unused") /\ Fork(p, q)
      <4>1. pc'[q] = "embryo"
        BY <1>0, <3>2 DEF Fork
      <4>2. QED
        BY <2>3, <4>1 DEF InWindow
    <3>3. CASE q = child[p] /\ (ForkMap(p) \/ ForkFails(p))
      <4>1. pc'[q] \in {"run", "unused"}
        BY <1>0, <3>3 DEF ForkMap, ForkFails
      <4>2. QED
        BY <2>3, <4>1 DEF InWindow
    <3>4. QED
      BY <1>2, <2>3, <3>1, <3>2, <3>3, Others
  <2>4. ASSUME NEW q \in Procs, InWindow(q)' PROVE ref'[pte'[q].pa] # 0
    BY <1>2, <2>1, <2>2, <2>3, <2>4, EntersWindow
  <2>5. QED
    BY <2>4 DEF Protected
<1>3. QED
  BY <1>1, <1>2 DEF Next

LEMMA PageMoves ==
  ASSUME IInv, NEW p \in Procs, Kernel(p) \/ User(p), NEW r \in Procs
  PROVE  /\ \/ pte'[r].pa = pte[r].pa \/ pte'[r].pa = None
            \/ ForkMap(p) /\ r = child[p] /\ pte'[r] = pte[p]
            \/ CowCopy(p) /\ r = p /\ pte'[r].pa = Head(hand[p])
         /\ \/ table'[r] = table[r] \/ table'[r] = None
            \/ ForkMap(p) /\ r = child[p] /\ table'[r] = Head(hand[p])
         /\ pte'[r].w => \/ pte[r].w /\ pte'[r].pa = pte[r].pa
                         \/ CowSole(p) /\ r = p /\ pte'[r].pa = pte[r].pa
                         \/ CowCopy(p) /\ r = p
<1>0. Types /\ Forking /\ None \notin Procs /\ pc \in [Procs -> PCs]
  BY TypesAre, Constants DEF IInv, HandTypes
<1>1. CASE UNCHANGED <<pte, table>>
  BY <1>1
<1>2. CASE pte' = [pte EXCEPT ![p] = Unmapped] /\ UNCHANGED table
  BY <1>0, <1>2 DEF Types, Unmapped
<1>3. CASE table' = [table EXCEPT ![p] = None] /\ UNCHANGED pte
  BY <1>0, <1>3 DEF Types
<1>4. CASE pte' = [pte EXCEPT ![p] = Encow(@)] /\ UNCHANGED table
  <2>1. Encow(pte[p]).pa = pte[p].pa /\ (Encow(pte[p]).w => pte[p].w)
    BY <1>0 DEF Types, Encow
  <2>2. pte'[r] = IF r = p THEN Encow(pte[p]) ELSE pte[r]
    BY <1>0, <1>4 DEF Types
  <2>3. QED
    BY <1>4, <2>1, <2>2
<1>5. CASE ForkMap(p)
  <2>1. pc[p] = "map" /\ ~pte[p].w
    BY <1>0, <1>5 DEF ForkMap, At, Forking
  <2>2. /\ pte'[r] = IF r = child[p] THEN pte[p] ELSE pte[r]
        /\ table'[r] = IF r = child[p] THEN Head(hand[p]) ELSE table[r]
    BY <1>0, <1>5 DEF ForkMap, Types
  <2>3. QED
    BY <1>5, <2>1, <2>2
<1>6. CASE CowSole(p) /\ pte' = [pte EXCEPT ![p] = Decow(@)] /\ UNCHANGED table
  <2>1. Decow(pte[p]).pa = pte[p].pa
    BY <1>0 DEF Types, Decow
  <2>2. pte'[r] = IF r = p THEN Decow(pte[p]) ELSE pte[r]
    BY <1>0, <1>6 DEF Types
  <2>3. QED
    BY <1>6, <2>1, <2>2
<1>7. CASE CowCopy(p)
  <2>1. pte' = [pte EXCEPT ![p] = [Decow(@) EXCEPT !.pa = Head(hand[p])]] /\ UNCHANGED table
    BY <1>7 DEF CowCopy
  <2>2. pte[p] \in [pa : Pages \cup {None}, w : BOOLEAN, cow : BOOLEAN]
    BY <1>0 DEF Types
  <2>3. pte'[p].pa = Head(hand[p])
    BY <1>0, <2>1, <2>2 DEF Types, Decow
  <2>4. r # p => pte'[r] = pte[r]
    BY <1>0, <2>1 DEF Types
  <2>5. QED
    BY <1>7, <2>1, <2>3, <2>4
<1>8. QED
  BY <1>1, <1>2, <1>3, <1>4, <1>5, <1>6, <1>7, SpaceSteps

\* A page just allocated is counted once, for the thread that has it.
LEMMA FreshIs ==
  ASSUME IInv, NEW q \in Procs, pc[q] \in {"map", "copy"}, hand[q] # <<>>
  PROVE  LET h == Head(hand[q]) IN
           /\ h \in Pages /\ ref[h] = 1
           /\ \A r \in Procs : pte[r].pa # h /\ table[r] # h
           /\ \A r \in Procs : r # q /\ pc[r] \in {"map", "copy"} /\ hand[r] # <<>>
                                 => Head(hand[r]) # h
<1>1. PICK g \in Pages : hand[q] = <<g>>
  BY DEF IInv, Hands, InHand
<1>2. Head(hand[q]) = g
  BY <1>1, OneOrNone
<1>3. ref[g] = 1 /\ \A r \in Procs : pte[r].pa # g /\ table[r] # g
  BY <1>2 DEF IInv, Fresh
<1>4. ASSUME NEW r \in Procs, r # q, pc[r] \in {"map", "copy"}, hand[r] # <<>>, Head(hand[r]) = g
      PROVE  FALSE
  <2>1. Refs[<<q, "new">>] = g /\ Refs[<<r, "new">>] = g
    BY <1>1, <1>2, <1>4, TokensOf
  <2>2. <<q, "new">> \in Tokens /\ <<r, "new">> \in Tokens /\ <<q, "new">> # <<r, "new">>
    BY <1>4, TokensOf
  <2>3. ref[g] >= 2
    BY <2>1, <2>2, Referred DEF IInv
  <2>4. QED
    BY <1>3, <2>3
<1>5. QED
  BY <1>2, <1>3, <1>4

LEMMA Arrives ==
  ASSUME IInv, NEW p \in Procs, Kernel(p) \/ User(p), pc'[p] \in {"map", "copy"}
  PROVE  KallocCount(p) \/ KallocFails(p)
<1>0. pc \in [Procs -> PCs] /\ Types /\ Forking /\ Hands
  BY TypesAre DEF IInv, HandTypes
<1>1. ASSUME \/ \E i \in CPUs : KallocPop(p, i)
             \/ KallocSteal(p) \/ KallocRefill(p)
             \/ ForkShare(p) \/ CowShared(p) \/ CowFails(p) \/ CowCopy(p)
             \/ Fault(p) \/ Exit(p) \/ \E v \in Values : Store(p, v)
      PROVE  pc'[p] \in {"steal", "refill", "count", "kalloc", "free", "run", "cow"}
  BY <1>0, <1>1 DEF KallocPop, KallocSteal, KallocRefill, ForkShare, CowShared, CowFails, CowCopy,
       Fault, Exit, Store, At, Goto
<1>2. ASSUME KfreeDrop(p) \/ (\E i \in CPUs : KfreePush(p, i)) \/ CowSole(p)
      PROVE  pc'[p] \in {"free", "push", "unused", "run"}
  <2>1. \E l \in {"free", "unused", "push", "run"} : Goto(p, l)
    BY <1>2, Dropping, TakingOver DEF KfreePush, Detach
  <2>2. QED
    BY <1>0, <2>1 DEF Goto
<1>3. ASSUME ForkMap(p) \/ ForkFails(p) \/ \E q \in Procs : Fork(p, q)
      PROVE  pc'[p] \in {"run", "unused", "share", "embryo"}
  BY <1>0, <1>3 DEF ForkMap, ForkFails, Fork
<1>4. QED
  BY <1>1, <1>2, <1>3 DEF Kernel, User

LEMMA FreshStep == ASSUME IInv, [Next]_vars PROVE Fresh'
<1>0. /\ pc \in [Procs -> PCs] /\ hand \in [Procs -> Seq(Pages)] /\ ref \in [Pages -> Nat]
      /\ Types /\ Fresh /\ Hands /\ Forking /\ None \notin Pages
  BY TypesAre, Constants DEF IInv, HandTypes, Types
<1>1. CASE UNCHANGED vars
  BY <1>0, <1>1 DEF vars, Fresh
<1>2. ASSUME NEW p \in Procs, Kernel(p) \/ User(p) PROVE Fresh'
  <2>1. ASSUME NEW q \in Procs, q # p, pc'[q] \in {"map", "copy"}
        PROVE  pc[q] = pc'[q] /\ hand[q] = hand'[q]
    <3>1. CASE Same(q)
      BY <3>1 DEF Same
    <3>2. CASE At(q, "unused") /\ Fork(p, q)
      <4>1. pc'[q] = "embryo"
        BY <1>0, <3>2 DEF Fork
      <4>2. QED
        BY <2>1, <4>1
    <3>3. CASE q = child[p] /\ (ForkMap(p) \/ ForkFails(p))
      <4>1. pc'[q] \in {"run", "unused"}
        BY <1>0, <3>3 DEF ForkMap, ForkFails
      <4>2. QED
        BY <2>1, <4>1
    <3>4. QED
      BY <1>2, <2>1, <3>1, <3>2, <3>3, Others
  <2>2. ASSUME NEW q \in Procs, q # p, pc'[q] \in {"map", "copy"}, hand'[q] # <<>>,
               NEW h, h = Head(hand'[q])
        PROVE  ref'[h] = 1 /\ \A r \in Procs : pte'[r].pa # h /\ table'[r] # h
    <3>1. pc[q] \in {"map", "copy"} /\ hand[q] # <<>> /\ h = Head(hand[q])
      BY <2>1, <2>2
    <3>2. h \in Pages /\ ref[h] = 1 /\ \A r \in Procs : pte[r].pa # h /\ table[r] # h
      BY <3>1, FreshIs
    <3>3. pc[p] \in {"map", "copy"} /\ hand[p] # <<>> => Head(hand[p]) # h
      BY <2>2, <3>1, FreshIs
    <3>4. ref'[h] = 1
      <4>1. KfreeDrop(p) => \E g \in Pages : g # h /\ ref' = [ref EXCEPT ![g] = @ - 1]
        BY <3>2, Dropping DEF Victim
      <4>2. \/ UNCHANGED ref
            \/ \E g \in Pages : g # h /\ (\/ ref' = [ref EXCEPT ![g] = @ + 1]
                                          \/ ref' = [ref EXCEPT ![g] = @ - 1])
        BY <1>2, <3>2, <4>1, RefSteps
      <4>3. QED
        BY <1>0, <3>2, <4>2
    <3>5. ASSUME NEW r \in Procs PROVE pte'[r].pa # h /\ table'[r] # h
      <4>1. ForkMap(p) \/ CowCopy(p) => Head(hand[p]) # h
        BY <3>3 DEF ForkMap, CowCopy, At
      <4>2. h # None
        BY <1>0, <3>2
      <4>3. pte[r].pa # h /\ pte[p].pa # h /\ table[r] # h
        BY <3>2
      <4>4. QED
        BY <1>2, <4>1, <4>2, <4>3, PageMoves
    <3>6. QED
      BY <3>4, <3>5
  <2>3. ASSUME pc'[p] \in {"map", "copy"}, hand'[p] # <<>>, NEW h, h = Head(hand'[p])
        PROVE  ref'[h] = 1 /\ \A r \in Procs : pte'[r].pa # h /\ table'[r] # h
    <3>1. CASE KallocFails(p)
      BY <1>0, <2>3, <3>1 DEF KallocFails, Hands, InHand, At
    <3>2. CASE KallocCount(p)
      <4>1. PICK g \in Pages :
              /\ hand[p] = <<g>> /\ ref[g] = 0
              /\ \A q \in Procs : pte[q].pa # g /\ table[q] # g
              /\ ref' = [ref EXCEPT ![g] = @ + 1] /\ UNCHANGED <<hand, pte, table>>
        BY <3>2, Counting DEF poolVars, spaceVars
      <4>2. h = g
        BY <2>3, <4>1, OneOrNone
      <4>3. QED
        BY <1>0, <4>1, <4>2
    <3>3. QED
      BY <1>2, <2>3, <3>1, <3>2, Arrives
  <2>4. QED
    BY <2>2, <2>3 DEF Fresh
<1>3. QED
  BY <1>1, <1>2 DEF Next

\* The only reference: nobody else maps the page.
LEMMA SoleIsAlone ==
  ASSUME IInv, Races = FALSE, NEW p \in Procs, CowSole(p), NEW q \in Procs, q # p
  PROVE  pte[q].pa # pte[p].pa
<1>1. SUFFICES ASSUME pte[q].pa = pte[p].pa PROVE FALSE
  OBVIOUS
<1>2. pte[p].pa \in Pages /\ ref[pte[p].pa] = 1 /\ MayTakeLast(pte[p].pa)
  BY TakingOver
<1>3. ~InWindow(q)
  BY <1>1, <1>2 DEF MayTakeLast
<1>4. ~At(q, "push")
  <2>1. SUFFICES ASSUME At(q, "push") PROVE FALSE
    OBVIOUS
  <2>2. hand[q] = <<pte[q].pa>>
    BY <1>1, <1>2, <2>1, Constants DEF IInv, Hands, InHand, At, Victim
  <2>3. pte[q].pa \in ToSet(hand[q])
    BY <2>2, OneOrNone
  <2>4. ref[pte[q].pa] = 0
    BY <2>1, <2>3, NotMapped DEF At
  <2>5. QED
    BY <1>1, <1>2, <2>4
<1>5. Mapped(q) /\ Mapped(p)
  <2>1. child[p] = None /\ pc[p] = "cow"
    BY DEF CowSole, At, IInv, Forking, Allocating
  <2>2. QED
    BY <1>1, <1>2, <1>3, <1>4, <2>1, MappedIs, Constants DEF Mapped, Allocating
<1>6. /\ <<p, "page">> \in Tokens /\ <<q, "page">> \in Tokens /\ <<p, "page">> # <<q, "page">>
      /\ Refs[<<p, "page">>] = pte[p].pa /\ Refs[<<q, "page">>] = pte[p].pa
  BY <1>1, <1>5, TokensOf
<1>7. ref[pte[p].pa] >= 2
  BY <1>2, <1>6, Referred DEF IInv
<1>8. QED
  BY <1>2, <1>7

LEMMA AloneStep == ASSUME IInv, Races = FALSE, [Next]_vars PROVE WriterIsAlone'
<1>0. /\ WriterIsAlone /\ Owns' /\ None \notin Pages /\ Types /\ Forking
  BY TypesAre, OwnsStep, Constants DEF IInv
<1>1. CASE UNCHANGED vars
  BY <1>0, <1>1 DEF vars, WriterIsAlone
<1>2. ASSUME NEW p \in Procs, Kernel(p) \/ User(p) PROVE WriterIsAlone'
  <2>0. ASSUME ForkMap(p) \/ CowCopy(p), NEW h, h = Head(hand[p])
        PROVE  h # None /\ \A r \in Procs : pte[r].pa # h /\ table[r] # h
    <3>1. pc[p] \in {"map", "copy"} /\ hand[p] # <<>>
      BY <2>0 DEF ForkMap, CowCopy, At
    <3>2. QED
      BY <1>0, <2>0, <3>1, FreshIs
  <2>1. ASSUME NEW a \in Procs, NEW b \in Procs, a # b, pte'[a].w PROVE pte'[b].pa # pte'[a].pa
    <3>0. pte'[a].pa \in Pages
      BY <1>0, <2>1 DEF Owns
    <3>1. CASE pte[a].w /\ pte'[a].pa = pte[a].pa
      <4>1. pte[b].pa # pte[a].pa
        BY <1>0, <2>1, <3>1 DEF WriterIsAlone
      <4>2. ForkMap(p) => pte[p].pa # pte[a].pa
        <5>1. ForkMap(p) => ~pte[p].w
          BY <1>0 DEF ForkMap, At, Forking
        <5>2. QED
          BY <1>0, <3>1, <5>1 DEF WriterIsAlone
      <4>3. CowCopy(p) => Head(hand[p]) # pte[a].pa
        BY <2>0
      <4>4. QED
        BY <1>0, <1>2, <3>0, <3>1, <4>1, <4>2, <4>3, PageMoves
    <3>2. CASE CowSole(p) /\ a = p /\ pte'[a].pa = pte[a].pa
      <4>1. pte[b].pa # pte[a].pa
        BY <2>1, <3>2, SoleIsAlone
      <4>2. ~ForkMap(p) /\ ~CowCopy(p)
        BY <3>2 DEF CowSole, ForkMap, CowCopy, At
      <4>3. QED
        BY <1>0, <1>2, <3>0, <3>2, <4>1, <4>2, PageMoves
    <3>3. CASE CowCopy(p) /\ a = p
      <4>1. \A r \in Procs : pte[r].pa # Head(hand[p])
        BY <2>0, <3>3
      <4>2. ~ForkMap(p) /\ ~CowSole(p)
        BY <3>3 DEF CowSole, ForkMap, CowCopy, At
      <4>3. pte'[a].pa = Head(hand[p])
        BY <3>3, <1>0 DEF CowCopy, Types, Decow
      <4>4. pte'[b].pa = pte[b].pa \/ pte'[b].pa = None
        BY <1>2, <2>1, <3>3, <4>2, PageMoves
      <4>5. QED
        BY <1>0, <3>0, <4>1, <4>3, <4>4
    <3>4. QED
      BY <1>2, <2>1, <3>1, <3>2, <3>3, PageMoves
  <2>2. ASSUME NEW a \in Procs, NEW b \in Procs, pte'[a].pa # None PROVE pte'[a].pa # table'[b]
    <3>1. pte[a].pa # None => pte[a].pa # table[b]
      BY <1>0 DEF WriterIsAlone
    <3>2. pte[p].pa # None => pte[p].pa # table[b]
      BY <1>0 DEF WriterIsAlone
    <3>3. \/ pte'[a].pa = pte[a].pa
          \/ ForkMap(p) /\ pte'[a] = pte[p]
          \/ CowCopy(p) /\ pte'[a].pa = Head(hand[p])
      BY <1>2, <2>2, PageMoves
    <3>4. \/ table'[b] = table[b] \/ table'[b] = None
          \/ ForkMap(p) /\ table'[b] = Head(hand[p])
      BY <1>2, PageMoves
    <3>5. ForkMap(p) => ~CowCopy(p)
      BY DEF ForkMap, CowCopy, At
    <3>6. ForkMap(p) \/ CowCopy(p) =>
            /\ Head(hand[p]) # pte[a].pa /\ Head(hand[p]) # pte[p].pa /\ Head(hand[p]) # table[b]
      BY <2>0
    <3>7. QED
      BY <2>2, <3>1, <3>2, <3>3, <3>4, <3>5, <3>6
  <2>3. QED
    BY <2>1, <2>2 DEF WriterIsAlone
<1>3. QED
  BY <1>1, <1>2 DEF Next

-----------------------------------------------------------------------------
(* What is in a page *)

LEMMA MemSteps ==
  ASSUME IInv, NEW p \in Procs, Kernel(p) \/ User(p), NEW g \in Pages
  PROVE  \/ mem'[g] = mem[g]
         \/ KallocCount(p) /\ \A q \in Procs : pte[q].pa # g
         \/ /\ \E i \in CPUs : KfreePush(p, i)
            /\ \A q \in Procs : q # p => pte[q].pa # g
         \/ ForkMap(p) /\ g = Head(hand[p])
         \/ \E v \in Values : Store(p, v) /\ g = pte[p].pa /\ mem'[g] = v
         \/ CowCopy(p) /\ g = Head(hand[p]) /\ mem'[g] = mem[pte[p].pa]
<1>0. Types /\ Hands
  BY TypesAre DEF IInv
<1>a. \A h : mem' = [mem EXCEPT ![h] = mem'[h]] /\ g # h => mem'[g] = mem[g]
  BY <1>0 DEF Types
<1>1. CASE KallocCount(p)
  <2>1. PICK h \in Pages : /\ \A q \in Procs : pte[q].pa # h
                           /\ mem' = [mem EXCEPT ![h] = Junk]
    BY <1>1, Counting
  <2>2. QED
    BY <1>0, <1>1, <2>1 DEF Types
<1>2. ASSUME NEW i \in CPUs, KfreePush(p, i)
      PROVE  mem'[g] = mem[g] \/ \A q \in Procs : q # p => pte[q].pa # g
  <2>1. At(p, "push") /\ mem' = [mem EXCEPT ![Victim(p)] = Junk] /\ hand[p] = <<Victim(p)>>
    BY <1>0, <1>2 DEF KfreePush, At, Hands, InHand
  <2>2. Victim(p) \in ToSet(hand[p])
    BY <2>1, OneOrNone
  <2>3. \A q \in Procs : q # p => pte[q].pa # Victim(p)
    BY <2>1, <2>2, NotMapped DEF At
  <2>4. QED
    BY <1>0, <2>1, <2>3 DEF Types
<1>3. ASSUME ForkMap(p) PROVE mem'[g] = mem[g] \/ g = Head(hand[p])
  BY <1>0, <1>3 DEF ForkMap, Types
<1>4. ASSUME NEW v \in Values, Store(p, v)
      PROVE  mem'[g] = mem[g] \/ (g = pte[p].pa /\ mem'[g] = v)
  BY <1>0, <1>4 DEF Store, Types
<1>5. ASSUME CowCopy(p) PROVE mem'[g] = mem[g] \/ (g = Head(hand[p]) /\ mem'[g] = mem[pte[p].pa])
  BY <1>0, <1>5 DEF CowCopy, Types
<1>6. CASE \/ \E i \in CPUs : KallocPop(p, i)
           \/ KallocSteal(p) \/ KallocRefill(p) \/ KallocFails(p) \/ KfreeDrop(p)
           \/ ForkShare(p) \/ ForkFails(p) \/ CowSole(p) \/ CowShared(p) \/ CowFails(p)
           \/ Fault(p) \/ Exit(p) \/ \E q \in Procs : Fork(p, q)
  BY <1>6 DEF KallocPop, KallocSteal, KallocRefill, KallocFails, KfreeDrop, ForkShare, ForkFails,
       CowSole, CowShared, CowFails, Fault, Exit, Fork
<1>7. QED
  BY <1>1, <1>2, <1>3, <1>4, <1>5, <1>6 DEF Kernel, User

LEMMA AliveSteps ==
  ASSUME IInv, NEW p \in Procs, Kernel(p) \/ User(p), NEW q \in Procs, Alive(q)'
  PROVE  \/ Alive(q) /\ pte'[q].pa = pte[q].pa
         \/ ForkMap(p) /\ q = child[p] /\ pte'[q] = pte[p]
         \/ CowCopy(p) /\ q = p /\ pte'[q].pa = Head(hand[p])
<1>0. /\ pc \in [Procs -> PCs] /\ Types /\ Forking /\ Owns' /\ None \notin Pages /\ None \notin Procs
  BY TypesAre, OwnsStep, Constants DEF IInv, HandTypes, Next
<1>1. pte'[q].pa \in Pages
  BY <1>0 DEF Owns
<1>2. \/ pte'[q].pa = pte[q].pa
      \/ ForkMap(p) /\ q = child[p] /\ pte'[q] = pte[p]
      \/ CowCopy(p) /\ q = p /\ pte'[q].pa = Head(hand[p])
  BY <1>0, <1>1, PageMoves
<1>3. ASSUME q = p PROVE Alive(p)
  <2>1. CASE KfreeDrop(p) \/ \E i \in CPUs : KfreePush(p, i)
    <3>1. \E l \in {"free", "unused", "push"} : Goto(p, l)
      BY <2>1, Dropping DEF KfreePush, Detach
    <3>2. QED
      BY <1>0, <1>3, <3>1 DEF Goto, Alive, Allocating
  <2>2. QED
    BY <2>1 DEF Kernel, User, Alive, Allocating, KallocPop, KallocSteal, KallocRefill, KallocFails,
         KallocCount, ForkShare, ForkMap, ForkFails, CowSole, CowShared, CowCopy, CowFails,
         Fault, Exit, Fork, Store, At
<1>4. ASSUME q # p, ~(ForkMap(p) /\ q = child[p]) PROVE Alive(q)
  <2>1. CASE Same(q)
    BY <2>1 DEF Same, Alive
  <2>2. CASE At(q, "unused") /\ Fork(p, q)
    <3>1. pc'[q] = "embryo"
      BY <1>0, <2>2 DEF Fork
    <3>2. QED
      BY <3>1 DEF Alive, Allocating
  <2>3. CASE q = child[p] /\ ForkFails(p)
    <3>1. pc'[q] = "unused"
      BY <1>0, <2>3, <1>4 DEF ForkFails
    <3>2. QED
      BY <3>1 DEF Alive, Allocating
  <2>4. QED
    BY <1>4, <2>1, <2>2, <2>3, Others
<1>5. ASSUME ForkMap(p), q = child[p] PROVE pte'[q] = pte[p]
  BY <1>0, <1>5 DEF ForkMap, Types
<1>6. QED
  BY <1>2, <1>3, <1>4, <1>5

LEMMA ContentStep == ASSUME IInv, [Next]_vars PROVE ContentOK'
<1>0. /\ Types /\ Owns /\ Owns' /\ ContentOK /\ None \notin Pages
  BY TypesAre, OwnsStep, Constants DEF IInv
<1>1. CASE UNCHANGED vars
  BY <1>0, <1>1 DEF vars, ContentOK, Alive
<1>2. ASSUME NEW p \in Procs, Kernel(p) \/ User(p) PROVE ContentOK'
  <2>0. ASSUME ForkMap(p) \/ CowCopy(p)
        PROVE  /\ Alive(p) /\ \A r \in Procs : pte[r].pa # Head(hand[p])
               /\ Head(hand[p]) \in Pages
    <3>1. pc[p] \in {"map", "copy"} /\ hand[p] # <<>>
      BY <2>0 DEF ForkMap, CowCopy, At
    <3>2. QED
      BY <3>1, FreshIs DEF Alive
  <2>1. ASSUME NEW q \in Procs, Alive(q)' PROVE mem'[pte'[q].pa] \in Values
    <3>1. CASE Alive(q) /\ pte'[q].pa = pte[q].pa
      <4>1. pte[q].pa \in Pages /\ mem[pte[q].pa] \in Values
        BY <1>0, <3>1 DEF Owns, ContentOK
      <4>2. (\E i \in CPUs : KfreePush(p, i)) => q # p
        BY <3>1 DEF KfreePush, At, Alive, Allocating
      <4>3. QED
        BY <1>2, <2>0, <3>1, <4>1, <4>2, MemSteps
    <3>2. CASE ForkMap(p) /\ pte'[q] = pte[p]
      <4>1. pte[p].pa \in Pages /\ mem[pte[p].pa] \in Values
        BY <1>0, <2>0, <3>2 DEF Owns, ContentOK
      <4>2. mem'[pte[p].pa] = mem[pte[p].pa]
        BY <1>0, <2>0, <3>2 DEF ForkMap, Types
      <4>3. QED
        BY <3>2, <4>1, <4>2
    <3>3. CASE CowCopy(p) /\ pte'[q].pa = Head(hand[p])
      <4>1. mem[pte[p].pa] \in Values
        BY <1>0, <2>0, <3>3 DEF ContentOK
      <4>2. mem'[Head(hand[p])] = mem[pte[p].pa]
        BY <1>0, <2>0, <3>3 DEF CowCopy, Types
      <4>3. QED
        BY <3>3, <4>1, <4>2
    <3>4. QED
      BY <1>2, <2>1, <3>1, <3>2, <3>3, AliveSteps
  <2>2. QED
    BY <2>1 DEF ContentOK
<1>3. QED
  BY <1>1, <1>2 DEF Next

LEMMA StepIInv == ASSUME IInv, Races = FALSE, [Next]_vars PROVE IInv'
<1>1. TypeOK'
  <2>1. Types' /\ HandTypes'
    BY TypesStep, HandsStep
  <2>2. QED
    BY <2>1 DEF TypeOK, Types, HandTypes
<1>2. QED
  BY <1>1, OwnsStep, ForkingStep, InHandStep, TiedStep, OnceStep, CountStep, ProtectedStep,
     FreshStep, AloneStep, ContentStep DEF IInv

-----------------------------------------------------------------------------
(* The beginning *)

LEMMA SameUpperEnd ==
  ASSUME NEW a \in Nat, NEW b \in Nat, a >= 2, 1..b = 1..a
  PROVE  b = a
<1>1. a \in 1..b
  OBVIOUS
<1>2. b >= 1
  BY <1>1
<1>3. b \in 1..a
  BY <1>2
<1>4. QED
  BY <1>1, <1>3

LEMMA AllPages ==
  ASSUME NEW all \in SetToSeqs(Pages)
  PROVE  LET rest == SubSeq(all, 3, Len(all))
             a == all[1]
             b == all[2]
         IN /\ a \in Pages /\ b \in Pages /\ a # b
            /\ rest \in Seq(Pages) /\ IsInjective(rest)
            /\ ToSet(rest) = Pages \ {a, b}
<1> DEFINE n == Cardinality(Pages)
           rest == SubSeq(all, 3, Len(all))
           ab == SubSeq(all, 1, 2)
<1>1. IsFiniteSet(Pages) /\ n \in Nat /\ n >= 2
  BY MemoryAssumption, FS_CardinalityType DEF MemoryAssumption
<1>2. all \in [1..n -> Pages] /\ \A i, j \in 1..n : i # j => all[i] # all[j]
  BY DEF SetToSeqs
<1>3. IsInjective(all)
  BY <1>2 DEF IsInjective
<1>4. all \in Seq(Pages) /\ Len(all) = n
  <2> HIDE DEF n
  <2>1. all \in Seq(Pages)
    BY <1>1, <1>2, SeqDef
  <2>2. Len(all) \in Nat /\ DOMAIN all = 1..Len(all) /\ DOMAIN all = 1..n
    BY <1>2, <2>1, LenProperties
  <2>4. Len(all) = n
    BY <1>1, <2>2, SameUpperEnd
  <2>5. QED
    BY <2>1, <2>4
<1>5. \A g \in Pages : \E i \in 1..n : all[i] = g
  <2>1. all \in Injection(1..n, Pages)
    BY <1>2, <1>3 DEF Injection
  <2>2. IsFiniteSet(1..n) /\ Cardinality(1..n) = n
    <3> HIDE DEF n
    <3>1. Cardinality(1..n) = IF 1 > n THEN 0 ELSE n - 1 + 1
      BY <1>1, FS_Interval
    <3>2. QED
      BY <1>1, <3>1, FS_Interval
  <2>3. all \in Surjection(1..n, Pages)
    BY <1>1, <2>1, <2>2, FS_Injection
  <2>4. QED
    BY <2>3 DEF Surjection
<1>6. ToSet(all) = Pages
  BY <1>2, <1>5 DEF ToSet
<1>7. /\ 2 \in 1..Len(all) /\ 2 + 1 = 3
  <2> HIDE DEF n
  <2>1. QED
    BY <1>1, <1>4
<1>8. /\ ab \in Seq(Pages) /\ rest \in Seq(Pages) /\ IsInjective(rest)
      /\ ToSet(ab) \cup ToSet(rest) = Pages /\ ToSet(ab) \cap ToSet(rest) = {}
  BY <1>3, <1>4, <1>6, <1>7, CutOf
<1>9. ToSet(ab) = {all[1], all[2]} /\ all[1] \in Pages /\ all[2] \in Pages /\ all[1] # all[2]
  <2> HIDE DEF n
  <2>1. all[1] \in Pages /\ all[2] \in Pages /\ all[1] # all[2]
    BY <1>1, <1>2
  <2>2. /\ Len(ab) = IF 1 <= 2 THEN 2 - 1 + 1 ELSE 0
        /\ \A i \in 1..(2 - 1 + 1) : ab[i] = all[1 + i - 1]
    BY <1>1, <1>2, SubSeqProperties
  <2>3. DOMAIN ab = 1..2 /\ ab[1] = all[1] /\ ab[2] = all[2]
    BY <1>8, <2>2, LenProperties
  <2> HIDE DEF ab
  <2>4. QED
    BY <2>1, <2>3 DEF ToSet
<1>10. QED
  BY <1>8, <1>9

LEMMA NoneBound == ASSUME NEW f, \A t \in Tokens : f[t] = None PROVE \A g \in Pages : Bound(f, g) = 0
<1>1. \A g \in Pages : {t \in Tokens : f[t] = g} = {}
  BY Constants
<1>2. QED
  BY <1>1, FS_EmptySet DEF Bound

LEMMA InitIInv == Init => IInv
<1> SUFFICES ASSUME Init PROVE IInv
  OBVIOUS
<1>1. PICK p \in Procs, v \in Values, all \in SetToSeqs(Pages) :
        LET a == all[1]
            b == all[2] IN
        /\ free = [i \in CPUs |-> IF i = 0 THEN SubSeq(all, 3, Len(all)) ELSE <<>>]
        /\ ref = [g \in Pages |-> IF g \in {a, b} THEN 1 ELSE 0]
        /\ mem = [g \in Pages |-> IF g = a THEN v ELSE IF g = b THEN Table ELSE Junk]
        /\ pte = [q \in Procs |-> IF q = p THEN [pa |-> a, w |-> TRUE, cow |-> FALSE]
                                  ELSE Unmapped]
        /\ table = [q \in Procs |-> IF q = p THEN b ELSE None]
        /\ pc = [q \in Procs |-> IF q = p THEN "run" ELSE "unused"]
        /\ cpu = [q \in Procs |-> None]
        /\ hand = [q \in Procs |-> <<>>]
        /\ scan = [q \in Procs |-> 0]
        /\ child = [q \in Procs |-> None]
        /\ forks = 0
        /\ leaked = [g \in Pages |-> 0]
  BY Zenon DEF Init
<1>2. PICK a, b, rest : a = all[1] /\ b = all[2] /\ rest = SubSeq(all, 3, Len(all))
  OBVIOUS
<1>3. /\ a \in Pages /\ b \in Pages /\ a # b
      /\ rest \in Seq(Pages) /\ IsInjective(rest) /\ ToSet(rest) = Pages \ {a, b}
  BY <1>2, AllPages
<1>4. /\ free = [i \in CPUs |-> IF i = 0 THEN rest ELSE <<>>]
      /\ ref = [g \in Pages |-> IF g \in {a, b} THEN 1 ELSE 0]
      /\ mem = [g \in Pages |-> IF g = a THEN v ELSE IF g = b THEN Table ELSE Junk]
      /\ pte = [q \in Procs |-> IF q = p THEN [pa |-> a, w |-> TRUE, cow |-> FALSE]
                                ELSE Unmapped]
      /\ table = [q \in Procs |-> IF q = p THEN b ELSE None]
  BY <1>1, <1>2
<1>5. /\ pc = [q \in Procs |-> IF q = p THEN "run" ELSE "unused"]
      /\ cpu = [q \in Procs |-> None]
      /\ hand = [q \in Procs |-> <<>>]
      /\ scan = [q \in Procs |-> 0]
      /\ child = [q \in Procs |-> None]
      /\ forks = 0
      /\ leaked = [g \in Pages |-> 0]
  BY <1>1
<1>6. \A q \in Procs : pc[q] \in {"run", "unused"} /\ hand[q] = <<>> /\ cpu[q] = None /\ child[q] = None
  BY <1>5
<1>7. Types
  <2>1. free \in [CPUs -> Seq(Pages)]
    BY <1>3, <1>4
  <2>2. pte \in [Procs -> [pa : Pages \cup {None}, w : BOOLEAN, cow : BOOLEAN]]
    BY <1>3, <1>4 DEF Unmapped
  <2>3. scan \in [Procs -> 0..NCPU] /\ forks \in 0..MaxForks
    BY <1>5, Constants
  <2>4. QED
    BY <1>3, <1>4, <1>5, <2>1, <2>2, <2>3 DEF Types
<1>8. HandTypes
  <2>1. hand \in [Procs -> Seq(Pages)]
    BY <1>5
  <2>2. pc \in [Procs -> PCs]
    BY <1>5 DEF PCs
  <2>3. QED
    BY <1>6, <2>1, <2>2 DEF HandTypes
<1>9. TypeOK
  BY <1>7, <1>8, TypesAre
<1>10. Owns
  BY <1>3, <1>4, <1>5 DEF Owns, Alive, Allocating, Unmapped
<1>11. Forking /\ Hands /\ Fresh /\ Protected
  BY <1>6 DEF Forking, Hands, InHand, Fresh, Protected, InWindow
<1>12. Tied
  BY <1>6 DEF Tied
<1>13. EachPageOnce
  <2>1. \A i \in CPUs : Stored(Cpu(i)) = IF i = 0 THEN rest ELSE <<>>
    BY <1>4, StoresAre
  <2>2. \A q \in Procs : Stored(Thread(q)) = <<>>
    BY <1>6, StoresAre
  <2>3. 0 \in CPUs
    BY Constants DEF CPUs
  <2>4. \A s \in Stores : Stored(s) = IF s = Cpu(0) THEN rest ELSE <<>>
    BY <2>1, <2>2, <2>3, StoresAre
  <2>5. \A s \in Stores : IsInjective(Stored(s)) /\ ToSet(Stored(s)) = IF s = Cpu(0) THEN Pages \ {a, b} ELSE {}
    BY <1>3, <2>4, OneOrNone
  <2>6. Cpu(0) \in Stores
    BY <2>3, StoresAre
  <2>7. \A g \in Pages : ref[g] = 0 <=> g \in Pages \ {a, b}
    BY <1>4
  <2>8. \A s, t \in Stores : s # t => ToSet(Stored(s)) \cap ToSet(Stored(t)) = {}
    BY <2>5
  <2>9. \A g \in Pages : ref[g] = 0 <=> \E s \in Stores : g \in ToSet(Stored(s))
    BY <2>5, <2>6, <2>7
  <2>10. QED
    BY <2>5, <2>8, <2>9 DEF EachPageOnce
<1>14. CountIsReferences
  <2> DEFINE x == <<p, "page">>
             y == <<p, "table">>
             f == [t \in Tokens |-> None]
             m == [t \in Tokens |-> IF t = x THEN a ELSE None]
  <2>1. x \in Tokens /\ y \in Tokens /\ x # y
    BY TokensOf
  <2>2. Refs[x] = a /\ Refs[y] = b
    <3>1. pte[p].pa = a /\ table[p] = b /\ pc[p] = "run" /\ child[p] = None /\ a # None
      BY <1>3, <1>4, <1>5, Constants
    <3>2. Mapped(p)
      BY <3>1, MappedIs DEF Allocating
    <3>3. QED
      BY <3>1, <3>2, TokensOf DEF At
  <2>3. ASSUME NEW t \in Tokens, t # x, t # y PROVE Refs[t] = None
    <3>1. t[1] \in Procs /\ t[2] \in Kinds /\ t = <<t[1], t[2]>>
      BY DEF Tokens
    <3>2. Refs[<<t[1], "new">>] = None /\ Refs[<<t[1], "shared">>] = None
      BY <1>6, <3>1, TokensOf
    <3>3. t[1] # p => Refs[<<t[1], "page">>] = None /\ Refs[<<t[1], "table">>] = None
      <4>1. t[1] # p => pte[t[1]].pa = None /\ table[t[1]] = None
        BY <1>4, <3>1 DEF Unmapped
      <4>2. QED
        BY <3>1, <4>1, TokensOf, MappedIs
    <3>4. QED
      BY <2>3, <3>1, <3>2, <3>3 DEF Kinds
  <2>4. /\ \A t \in Tokens : f[t] = None
        /\ m[x] = a /\ m[y] = None /\ \A t \in Tokens : t # x => m[t] = f[t]
    BY <2>1
  <2>5. \A t \in Tokens : t # y => Refs[t] = m[t]
    BY <2>1, <2>2, <2>3
  <2> HIDE DEF x, y, f, m
  <2>6. \A g \in Pages : Bound(f, g) = 0
    BY <2>4, NoneBound
  <2>7. \A g \in Pages : Bound(m, g) = IF g = a THEN Bound(f, g) + 1 ELSE Bound(f, g)
    <3>1. /\ a \in Pages /\ f[x] = None /\ m[x] = a
          /\ \A t \in Tokens : t # x => m[t] = f[t]
      BY <1>3, <2>1, <2>4
    <3>2. QED
      BY <2>1, <3>1, Bind
  <2>8. \A g \in Pages : Bound(Refs, g) = IF g = b THEN Bound(m, g) + 1 ELSE Bound(m, g)
    <3>1. /\ b \in Pages /\ m[y] = None /\ Refs[y] = b
          /\ \A t \in Tokens : t # y => Refs[t] = m[t]
      BY <1>3, <2>2, <2>4, <2>5
    <3>2. QED
      BY <2>1, <3>1, Bind
  <2>9. \A g \in Pages : ref[g] = (IF g \in {a, b} THEN 1 ELSE 0) /\ leaked[g] = 0
    BY <1>4, <1>5
  <2>10. \A g \in Pages : ref[g] = Bound(Refs, g) + leaked[g]
    BY <1>3, <2>6, <2>7, <2>8, <2>9
  <2>11. QED
    BY <2>10, CountIs
<1>15. WriterIsAlone
  <2>1. \A q \in Procs : /\ pte[q].pa = IF q = p THEN a ELSE None
                         /\ pte[q].w => q = p
                         /\ table[q] = IF q = p THEN b ELSE None
    BY <1>4 DEF Unmapped
  <2>2. QED
    BY <1>3, <2>1, Constants DEF WriterIsAlone
<1>16. ContentOK
  <2>1. \A q \in Procs : Alive(q) => q = p
    BY <1>5 DEF Alive, Allocating
  <2>2. mem[pte[p].pa] = v
    BY <1>3, <1>4
  <2>3. QED
    BY <2>1, <2>2 DEF ContentOK
<1>17. QED
  BY <1>9, <1>10, <1>11, <1>12, <1>13, <1>14, <1>15, <1>16 DEF IInv

-----------------------------------------------------------------------------
(* The theorems *)

\* The inductive invariant of kalloc, kfree, fork and copyonwrite, under the
\* schedules that spare kalloc_cow's window.
THEOREM Invariance == ASSUME Races = FALSE PROVE Spec => []IInv
<1>1. IInv /\ [Next]_vars => IInv'
  BY StepIInv
<1>2. QED
  BY <1>1, InitIInv, PTL DEF Spec

\* The variables have their types, and a thread that is to count, to keep or to
\* push pages has some.
THEOREM TypeCorrect == ASSUME Races = FALSE PROVE Spec => []TypeOK
<1>1. IInv => TypeOK
  BY DEF IInv
<1>2. QED
  BY <1>1, Invariance, PTL

\* kalloc hands no page out twice and kfree loses none, however many CPUs steal
\* from one another's lists.
THEOREM PagesOnce == ASSUME Races = FALSE PROVE Spec => []EachPageOnce
<1>1. IInv => EachPageOnce
  BY DEF IInv
<1>2. QED
  BY <1>1, Invariance, PTL

\* kincget, kalloc_cow and kfree keep ref_cnt at the number of references,
\* also where fork and copyonwrite run out of memory half way.
THEOREM CountsAreReferences == ASSUME Races = FALSE PROVE Spec => []CountIsReferences
<1>1. IInv => CountIsReferences
  BY DEF IInv
<1>2. QED
  BY <1>1, Invariance, PTL

\* copyonwrite makes a page writable for one process only when no other one
\* maps it.
THEOREM WritersAlone == ASSUME Races = FALSE PROVE Spec => []WriterIsAlone
<1>1. IInv => WriterIsAlone
  BY DEF IInv
<1>2. QED
  BY <1>1, Invariance, PTL

-----------------------------------------------------------------------------
(* Memory of one's own *)

LEMMA ContentIs ==
  ASSUME IInv, NEW q \in Procs
  PROVE  /\ Content(q) = IF Alive(q) THEN mem[pte[q].pa] ELSE None
         /\ Content(q) # None <=> Alive(q)
<1>1. pc[q] \in PCs /\ pc[q] # "panic"
  BY DEF IInv, TypeOK, Owns
<1>2. pc[q] \in {"unused", "embryo", "free", "push"} <=> ~Alive(q)
  BY <1>1 DEF PCs, Alive, Allocating
<1>3. Content(q) = IF Alive(q) THEN mem[pte[q].pa] ELSE None
  BY <1>2 DEF Content
<1>4. Alive(q) => mem[pte[q].pa] \in Values
  BY DEF IInv, ContentOK
<1>5. QED
  BY <1>3, <1>4, Constants

\* How a step changes what one process reads.
LEMMA ContentMoves ==
  ASSUME IInv, IInv', NEW p \in Procs, Kernel(p) \/ User(p), NEW q \in Procs
  PROVE  \/ Content(q)' = Content(q)
         \/ \E v \in Values : Store(p, v) /\ q = p /\ Content(q)' = v
         \/ ForkMap(p) /\ q = child[p] /\ Content(q)' = Content(p)
         \/ q = p /\ Content(q)' = None
<1>0. /\ Types /\ Owns /\ WriterIsAlone /\ None \notin Pages
  BY TypesAre, Constants DEF IInv
<1>a. Content(q)' = IF Alive(q)' THEN mem'[pte'[q].pa] ELSE None
  <2>1. pc'[q] \in PCs /\ pc'[q] # "panic"
    BY DEF IInv, TypeOK, Owns
  <2>2. pc'[q] \in {"unused", "embryo", "free", "push"} <=> ~(Alive(q)')
    BY <2>1 DEF PCs, Alive, Allocating
  <2>3. QED
    BY <2>2 DEF Content
<1>b. \A r \in Procs : Content(r) = IF Alive(r) THEN mem[pte[r].pa] ELSE None
  BY ContentIs
<1>c. ASSUME ForkMap(p) \/ CowCopy(p)
      PROVE  /\ Alive(p) /\ \A r \in Procs : pte[r].pa # Head(hand[p])
             /\ Head(hand[p]) \in Pages
  <2>1. pc[p] \in {"map", "copy"} /\ hand[p] # <<>>
    BY <1>c DEF ForkMap, CowCopy, At
  <2>2. QED
    BY <2>1, FreshIs DEF Alive
<1>1. CASE Alive(q)' /\ Alive(q) /\ pte'[q].pa = pte[q].pa
  <2> DEFINE Goal == \/ Content(q)' = Content(q)
                     \/ \E v \in Values : Store(p, v) /\ q = p /\ Content(q)' = v
  <2>1. PICK g \in Pages : g = pte[q].pa
    BY <1>0, <1>1 DEF Owns
  <2>2. Content(q) = mem[g] /\ Content(q)' = mem'[g]
    BY <1>1, <1>a, <1>b, <2>1
  <2>3. CASE mem'[g] = mem[g]
    BY <2>2, <2>3
  <2>4. CASE KallocCount(p) /\ \A r \in Procs : pte[r].pa # g
    BY <2>1, <2>4
  <2>5. CASE /\ \E i \in CPUs : KfreePush(p, i)
             /\ \A r \in Procs : r # p => pte[r].pa # g
    <3>1. q # p
      BY <1>1, <2>5 DEF KfreePush, At, Alive, Allocating
    <3>2. QED
      BY <2>1, <2>5, <3>1
  <2>6. CASE (ForkMap(p) \/ CowCopy(p)) /\ g = Head(hand[p])
    BY <1>c, <2>1, <2>6
  <2>7. ASSUME NEW v \in Values, Store(p, v), g = pte[p].pa, mem'[g] = v PROVE Goal
    <3>1. pte[p].w
      BY <2>7 DEF Store
    <3>2. q = p
      BY <1>0, <2>1, <2>7, <3>1 DEF WriterIsAlone
    <3>3. QED
      BY <2>2, <2>7, <3>2
  <2>8. QED
    BY <2>3, <2>4, <2>5, <2>6, <2>7, MemSteps
<1>2. CASE Alive(q)' /\ ForkMap(p) /\ q = child[p] /\ pte'[q] = pte[p]
  <2>1. mem'[pte[p].pa] = mem[pte[p].pa]
    BY <1>0, <1>2, <1>c DEF ForkMap, Types, Owns
  <2>2. QED
    BY <1>2, <1>a, <1>b, <1>c, <2>1
<1>3. CASE Alive(q)' /\ CowCopy(p) /\ q = p /\ pte'[q].pa = Head(hand[p])
  <2>1. mem'[Head(hand[p])] = mem[pte[p].pa]
    BY <1>0, <1>3, <1>c DEF CowCopy, Types
  <2>2. QED
    BY <1>3, <1>a, <1>b, <1>c, <2>1
<1>4. CASE ~(Alive(q)') /\ q = p
  BY <1>4, <1>a
<1>5. CASE ~(Alive(q)') /\ q # p
  <2>1. ~Alive(q)
    <3>1. CASE Same(q)
      BY <1>5, <3>1 DEF Same, Alive
    <3>2. CASE At(q, "unused")
      BY <3>2 DEF At, Alive, Allocating
    <3>3. CASE q = child[p] /\ (ForkMap(p) \/ ForkFails(p))
      <4>1. pc[q] = "embryo"
        BY <3>3, Constants DEF IInv, Forking
      <4>2. QED
        BY <4>1 DEF Alive, Allocating
    <3>4. QED
      BY <1>5, <3>1, <3>2, <3>3, Others
  <2>2. QED
    BY <1>5, <1>a, <1>b, <2>1
<1>6. QED
  BY <1>1, <1>2, <1>3, <1>4, <1>5, AliveSteps

LEMMA ContentInit == Init => Abstract!Init
<1> SUFFICES ASSUME Init PROVE Abstract!Init
  OBVIOUS
<1>1. PICK p \in Procs, v \in Values, g \in Pages :
        /\ mem[g] = v /\ pte[p].pa = g
        /\ pc = [q \in Procs |-> IF q = p THEN "run" ELSE "unused"]
  <2>1. PICK p \in Procs, v \in Values, all \in SetToSeqs(Pages) :
          /\ mem = [g \in Pages |-> IF g = all[1] THEN v ELSE IF g = all[2] THEN Table ELSE Junk]
          /\ pte = [q \in Procs |-> IF q = p THEN [pa |-> all[1], w |-> TRUE, cow |-> FALSE]
                                    ELSE Unmapped]
          /\ pc = [q \in Procs |-> IF q = p THEN "run" ELSE "unused"]
    BY Zenon DEF Init
  <2>2. all[1] \in Pages
    BY AllPages
  <2>3. mem[all[1]] = v /\ pte[p].pa = all[1]
    BY <2>1, <2>2
  <2>4. QED
    BY <2>1, <2>2, <2>3
<1>2. \A q \in Procs : Content(q) = IF q = p THEN v ELSE None
  BY <1>1 DEF Content
<1>3. QED
  BY <1>2 DEF Abstract!Init

LEMMA ContentNext ==
  ASSUME IInv, IInv', [Next]_vars
  PROVE  [Abstract!Next]_([p \in Procs |-> Content(p)])
<1> DEFINE C == [p \in Procs |-> Content(p)]
<1>1. CASE UNCHANGED vars
  <2>1. \A q \in Procs : Content(q)' = Content(q)
    BY <1>1 DEF vars, Content
  <2>2. QED
    BY <2>1
<1>2. ASSUME NEW p \in Procs, Kernel(p) \/ User(p), C' # C PROVE Abstract!Next
  <2>1. PICK q \in Procs : Content(q)' # Content(q)
    BY <1>2
  <2>2. ASSUME NEW v \in Values, Store(p, v), q = p, Content(q)' = v PROVE Abstract!Next
    <3>1. Alive(p) /\ pc'[p] = "run" /\ ~ForkMap(p)
      BY <2>2 DEF Store, ForkMap, At, Alive
    <3>2. Content(p) # None
      BY <3>1, ContentIs
    <3>3. ASSUME NEW r \in Procs, r # p PROVE Content(r)' = Content(r)
      BY <1>2, <3>1, <3>3, ContentMoves
    <3>4. Abstract!Store(p, v)
      BY <2>2, <3>2, <3>3 DEF Abstract!Store
    <3>5. QED
      BY <3>4 DEF Abstract!Next
  <2>3. ASSUME ForkMap(p), q = child[p], Content(q)' = Content(p) PROVE Abstract!Next
    <3>1. Alive(p) /\ pc[q] = "embryo" /\ pc'[p] = "run" /\ pte'[p] = pte[p] /\ q # p
      <4>1. Types /\ Forking /\ None \notin Procs /\ pc \in [Procs -> PCs]
        BY TypesAre, Constants DEF IInv, HandTypes
      <4>2. pc[p] = "map" /\ pc[q] = "embryo"
        BY <2>3, <4>1 DEF ForkMap, At, Forking
      <4>3. pc'[p] = "run" /\ pte'[p] = pte[p]
        BY <2>3, <4>1, <4>2 DEF ForkMap, Types
      <4>4. QED
        BY <4>2, <4>3 DEF Alive
    <3>2. Content(p) # None /\ Content(q) = None
      BY <3>1, ContentIs DEF Alive, Allocating
    <3>3. Content(p)' # None
      <4>1. Alive(p)'
        BY <3>1 DEF Alive
      <4>2. mem'[pte'[p].pa] \in Values
        BY <4>1 DEF IInv, ContentOK
      <4>3. Content(p)' = mem'[pte'[p].pa]
        BY <3>1 DEF Content
      <4>4. QED
        BY <4>2, <4>3, Constants
    <3>4. \A v \in Values : ~Store(p, v)
      BY <2>3 DEF Store, ForkMap, At
    <3>5. ASSUME NEW r \in Procs, r # q PROVE Content(r)' = Content(r)
      BY <1>2, <2>3, <3>3, <3>4, <3>5, ContentMoves
    <3>6. Abstract!Fork(p, q)
      BY <2>3, <3>2, <3>5 DEF Abstract!Fork
    <3>7. QED
      BY <3>6 DEF Abstract!Next
  <2>4. ASSUME q = p, Content(q)' = None PROVE Abstract!Next
    <3>1. ~ForkMap(p) \/ child[p] # p
      <4>1. ASSUME ForkMap(p) PROVE child[p] # p
        BY <4>1, Constants DEF IInv, Forking, ForkMap, At
      <4>2. QED
        BY <4>1
    <3>2. ASSUME NEW r \in Procs, r # p PROVE Content(r)' = Content(r) \/ ForkMap(p)
      BY <1>2, <3>2, ContentMoves
    <3>3. ~ForkMap(p)
      <4>1. SUFFICES ASSUME ForkMap(p) PROVE FALSE
        OBVIOUS
      <4>2. pc \in [Procs -> PCs] /\ child[p] \in Procs /\ child[p] # p
        BY <3>1, <4>1 DEF IInv, TypeOK, Forking, ForkMap, At
      <4>3. pc'[p] = "run"
        BY <4>1, <4>2 DEF ForkMap
      <4>4. Alive(p)'
        BY <4>3 DEF Alive
      <4>5. mem'[pte'[p].pa] \in Values /\ Content(p)' = mem'[pte'[p].pa]
        BY <4>3, <4>4 DEF IInv, ContentOK, Content
      <4>6. QED
        BY <2>4, <4>5, Constants
    <3>4. Abstract!Exit(p)
      BY <2>4, <3>2, <3>3 DEF Abstract!Exit
    <3>5. QED
      BY <3>4 DEF Abstract!Next
  <2>5. QED
    BY <1>2, <2>1, <2>2, <2>3, <2>4, ContentMoves
<1>3. QED
  BY <1>1, <1>2 DEF Next

\* fork gives the child a copy of its parent's memory, and a process never sees
\* another one's stores: copy-on-write is not to be seen.
THEOREM MemoryImplementsAddressSpaces == ASSUME Races = FALSE PROVE Spec => ImplementsAddressSpaces
<1>1. Init => Abstract!Init
  BY ContentInit
<1>2. IInv /\ IInv' /\ [Next]_vars => [Abstract!Next]_([p \in Procs |-> Content(p)])
  BY ContentNext
<1>3. QED
  BY <1>1, <1>2, Invariance, PTL DEF Spec, ImplementsAddressSpaces, Abstract!Spec

=============================================================================
