------------------------- MODULE BufferCacheProofs --------------------------
(***************************************************************************)
(* Proofs about BufferCache, for any number of threads, blocks, buffers,   *)
(* calls and pins: in every schedule that spares bget's two windows a      *)
(* buffer is its user's alone and holds the block asked for, the counts    *)
(* are those of the users, and no buffer is lost but as NothingLost says.  *)
(***************************************************************************)
EXTENDS BufferCache, FiniteSetTheorems, TLAPS

-----------------------------------------------------------------------------
(* Numbers modulo a size *)

LEMMA DivMod ==
  ASSUME NEW a \in Nat, NEW n \in Nat \ {0}
  PROVE  /\ a \div n \in Nat
         /\ a % n \in 0..(n - 1)
         /\ a = n * (a \div n) + (a % n)
  OBVIOUS

LEMMA MoreTimes ==
  ASSUME NEW n \in Nat \ {0}, NEW x \in Nat, NEW y \in Nat, x < y
  PROVE  n * x + n <= n * y
<1>1. PICK d \in Nat : y = x + 1 + d
  <2>1. y - x - 1 \in Nat /\ y = x + 1 + (y - x - 1)
    OBVIOUS
  <2>2. QED
    BY <2>1
<1>2. n * y = n * x + n + n * d
  BY <1>1, Z3
<1>3. n * d >= 0 /\ n * d \in Nat /\ n * x \in Nat
  BY <1>1, Z3
<1>4. QED
  BY <1>2, <1>3, Z3

LEMMA Quotient ==
  ASSUME NEW n \in Nat \ {0}, NEW q \in Nat, NEW r \in 0..(n - 1), NEW a \in Nat, a = n * q + r
  PROVE  a % n = r
<1>1. /\ a \div n \in Nat /\ a % n \in 0..(n - 1)
      /\ a = n * (a \div n) + (a % n)
  BY DivMod
<1>2. /\ q < a \div n => n * q + n <= n * (a \div n)
      /\ a \div n < q => n * (a \div n) + n <= n * q
  BY <1>1, MoreTimes
<1>3. PICK x \in Nat, y \in Nat : x = n * q /\ y = n * (a \div n)
  BY <1>1, Z3
<1>4. q = a \div n
  BY <1>1, <1>2, <1>3, Z3
<1>5. QED
  BY <1>1, <1>3, <1>4, Z3

LEMMA ModSmall ==
  ASSUME NEW n \in Nat \ {0}, NEW i \in 0..(n - 1)
  PROVE  i % n = i
<1>1. n * 0 = 0
  BY Z3
<1>2. i = n * 0 + i /\ i \in Nat
  BY <1>1
<1>3. QED
  BY <1>2, Quotient

LEMMA ModOnce ==
  ASSUME NEW n \in Nat \ {0}, NEW i \in 0..(n - 1)
  PROVE  (i + n) % n = i
<1>1. n * 1 = n
  BY Z3
<1>2. i + n = n * 1 + i /\ i + n \in Nat
  BY <1>1
<1>3. QED
  BY <1>2, Quotient

-----------------------------------------------------------------------------
(* The inductive invariant *)

Labels == {"idle", "get", "hit", "putback", "putback_link", "dequeue", "panic",
           "unclaim", "victim", "expect", "evict", "install", "lock",
           "lock_new", "rename", "fill", "use", "bwrite", "bwrite_unpin",
           "pin", "pin_map", "unpin", "release", "rel_block", "rel_read",
           "rel_count", "enqueue", "enqueue_link", "done"}
Keys == Blocks \cup {0}
Bufs == Buffers \cup {NoBuf}
RefIdxs == [ref : 0..MaxRef, idx : Bufs]
Locals == [block : Keys, rc : RefIdxs, cand : Bufs, victim : Keys,
           expect : RefIdxs, buf : Bufs]

TypeOK ==
  /\ queue \in Seq(Buffers)
  /\ phase \in [Buffers -> Q!Phases]
  /\ hashtable \in [Keys -> RefIdxs]
  /\ blockno \in [Buffers -> Keys]
  /\ valid \in [Buffers -> BOOLEAN]
  /\ data \in [Buffers -> Nat]
  /\ lock \in [Buffers -> Threads \cup {NoThread}]
  /\ disk \in [Keys -> Nat]
  /\ content \in [Keys -> Nat]
  /\ leaked \subseteq Buffers
  /\ dropped \subseteq Buffers
  /\ pinned \subseteq Blocks
  /\ mapped \subseteq Buffers
  /\ pc \in [Threads -> Labels]
  /\ loc \in [Threads -> Locals]
  /\ ops \in Nat

\* Where bget has a buffer of its own: as long as it is new in the table, as
\* long as no block is mapped to it.
CandAt == {"get", "hit", "putback", "putback_link", "unclaim", "victim",
           "expect", "evict", "install", "lock_new", "rename"}
FreshAt == {"get", "hit", "putback", "putback_link", "install"}
NewAt == {"lock_new", "rename"}

\* Where a thread holds its buffer's sleeplock; has used the buffer's name.
HoldAt == {"rename", "fill", "use", "bwrite", "bwrite_unpin", "pin", "pin_map",
           "unpin", "release"}
FilledAt == HoldAt \ {"rename", "fill"}
NamedAt == (HoldAt \ {"rename"}) \cup {"rel_block", "rel_read", "rel_count"}

Own(t, b) == b # NoBuf /\ loc[t].cand = b /\ pc[t] \in CandAt
New(t, b) == loc[t].cand = b /\ pc[t] \in NewAt
Has(t, b) == loc[t].buf = b /\ pc[t] \in NamedAt \cup {"rename"}
Enq(t, b) == loc[t].buf = b /\ pc[t] \in {"enqueue", "enqueue_link"}
Linker(t, b) == \/ pc[t] = "putback_link" /\ loc[t].cand = b
                \/ pc[t] = "enqueue_link" /\ loc[t].buf = b
Target(t) == IF pc[t] \in {"putback", "putback_link", "lock"} THEN loc[t].rc.idx
             ELSE IF pc[t] = "lock_new" THEN loc[t].cand ELSE loc[t].buf

\* An entry without a buffer has no users; no buffer is in two entries.
Table ==
  /\ hashtable[0] = RefIdx(0, NoBuf)
  /\ \A n \in Keys : hashtable[n].idx = NoBuf => hashtable[n].ref = 0
  /\ \A m, n \in Keys : m # n /\ hashtable[m].idx # NoBuf
                           => hashtable[m].idx # hashtable[n].idx

Counts == \A n \in Blocks : hashtable[n].ref = Cardinality(Got(n)) + Pins(n)

\* The buffer of an entry is named for it, unless it is new there.
Names ==
  \A n \in Blocks : hashtable[n].idx # NoBuf =>
     \/ blockno[hashtable[n].idx] = n
     \/ \E t \in Threads : New(t, hashtable[n].idx) /\ loc[t].block = n

\* A pinned buffer is in the table, filled.
Mapped ==
  \A b \in mapped : /\ hashtable[blockno[b]].idx = b
                    /\ valid[b]
                    /\ \A t \in Threads : ~New(t, b)
Pinned ==
  \A n \in pinned : /\ hashtable[n].idx # NoBuf
                    /\ blockno[hashtable[n].idx] = n
                    /\ valid[hashtable[n].idx]
                    /\ \A t \in Threads : ~New(t, hashtable[n].idx)

\* What is queued is in the queue, once; somebody has what is neither in the
\* queue nor out of it.
Queued ==
  /\ Len(queue) >= 1
  /\ \A i, j \in 1..Len(queue) : queue[i] = queue[j] => i = j
  /\ \A i \in 1..Len(queue) : phase[queue[i]] = "queued"
  /\ \A b \in Buffers :
      /\ phase[b] = "queued" => \E i \in 1..Len(queue) : queue[i] = b
      /\ phase[b] = "taken" => \E t \in Threads : pc[t] = "unclaim" /\ loc[t].cand = b
      /\ phase[b] = "linking" => \E t \in Threads : Linker(t, b)

Locks ==
  \A b \in Buffers : lock[b] # NoThread =>
     pc[lock[b]] \in HoldAt /\ loc[lock[b]].buf = b

\* What a thread knows at its label.
BgetOK(t) ==
  /\ pc[t] \notin {"idle", "panic"} => loc[t].block \in Blocks
  /\ pc[t] \in {"idle", "dequeue"} => loc[t].cand = NoBuf
  /\ pc[t] \in CandAt \ {"get", "hit"} => loc[t].cand # NoBuf
  /\ pc[t] = "hit" => loc[t].rc.idx # NoBuf
  /\ pc[t] \in {"dequeue", "unclaim", "victim", "expect", "evict", "install"}
        => loc[t].rc = RefIdx(0, NoBuf)
  /\ pc[t] \in {"expect", "evict"} => loc[t].victim = blockno[loc[t].cand]
  /\ pc[t] = "evict" =>
       /\ loc[t].expect.ref = 0
       /\ hashtable[loc[t].victim].idx = loc[t].cand => loc[t].expect.idx = loc[t].cand
  /\ pc[t] \in FreshAt /\ loc[t].cand # NoBuf
       => \A n \in Blocks : hashtable[n].idx # loc[t].cand

PhaseOK(t) ==
  /\ pc[t] = "unclaim" => phase[loc[t].cand] = "taken"
  /\ pc[t] = "putback_link" => phase[loc[t].cand] = "linking"
  /\ pc[t] = "enqueue_link" => phase[loc[t].buf] = "linking"
  /\ pc[t] \in CandAt \ {"unclaim", "putback_link"} /\ loc[t].cand # NoBuf
       => phase[loc[t].cand] = "out"

UserOK(t) ==
  /\ Counted(t) => Target(t) # NoBuf /\ hashtable[loc[t].block].idx = Target(t)
  /\ pc[t] \in HoldAt => loc[t].buf # NoBuf /\ lock[loc[t].buf] = t
  /\ pc[t] = "rename" => loc[t].buf = loc[t].cand
  /\ pc[t] \in NamedAt => loc[t].buf # NoBuf /\ blockno[loc[t].buf] = loc[t].block
  /\ pc[t] \in FilledAt => valid[loc[t].buf]
  /\ pc[t] \in {"rel_read", "rel_count"} => loc[t].victim = loc[t].block
  /\ pc[t] \in {"enqueue", "enqueue_link"} => loc[t].buf # NoBuf
  /\ pc[t] \in {"bwrite_unpin", "unpin"} => loc[t].block \in pinned
  /\ pc[t] = "unpin" => disk[loc[t].block] = content[loc[t].block]
  /\ pc[t] = "pin" => loc[t].block \notin pinned
  /\ pc[t] = "pin_map" => loc[t].buf \notin mapped

ThreadOK(t) == BgetOK(t) /\ PhaseOK(t) /\ UserOK(t)

\* What two threads do not do with one buffer.
Apart(t, u) ==
  \A b \in Buffers :
    /\ ~(Own(t, b) /\ Own(u, b))
    /\ ~(Own(t, b) /\ Enq(u, b))
    /\ ~(New(t, b) /\ Has(u, b))
    /\ ~(Linker(t, b) /\ Linker(u, b))

\* What a filled buffer holds, and what the disk does not have yet.
DataOK ==
  \A n \in Blocks :
    /\ hashtable[n].idx # NoBuf
    /\ valid[hashtable[n].idx]
    /\ \A t \in Threads : ~New(t, hashtable[n].idx)
    => data[hashtable[n].idx] = content[n]
DiskOK ==
  \A n \in Blocks : disk[n] # content[n] =>
     \/ n \in pinned
     \/ \E t \in Threads : pc[t] \in {"bwrite", "pin"} /\ loc[t].block = n

LostOK ==
  \A b \in Buffers : phase[b] = "out" =>
     \/ \E t \in Threads : Own(t, b) \/ Enq(t, b)
     \/ InUse(b)
     \/ b \in leaked \cup dropped

Threaded == /\ \A t \in Threads : ThreadOK(t)
            /\ \A t, u \in Threads : t # u => Apart(t, u)

IInv == /\ TypeOK
        /\ Table /\ Counts /\ Names
        /\ Mapped /\ Pinned
        /\ Queued /\ Locks
        /\ Threaded
        /\ DataOK /\ DiskOK /\ LostOK

-----------------------------------------------------------------------------
(* Counters and constants *)

LEMMA MaxRefNat == MaxRef \in Nat /\ MaxRef > 0
BY SMT DEF MaxRef

LEMMA IncIs ==
  ASSUME NEW rc \in RefIdxs
  PROVE  /\ Inc(rc) \in RefIdxs /\ Inc(rc).idx = rc.idx
         /\ rc.ref + 1 <= MaxRef => Inc(rc).ref = rc.ref + 1
<1>1. rc.ref \in 0..MaxRef /\ rc.idx \in Bufs
  BY DEF RefIdxs
<1>2. Inc(rc) = [ref |-> (rc.ref + 1) % (MaxRef + 1), idx |-> rc.idx]
  BY DEF Inc, RefIdx
<1>3. MaxRef + 1 \in Nat \ {0} /\ rc.ref + 1 \in Nat /\ (MaxRef + 1) - 1 = MaxRef
  BY <1>1, MaxRefNat
<1>4. (rc.ref + 1) % (MaxRef + 1) \in 0..MaxRef
  BY <1>3, DivMod
<1>5. rc.ref + 1 <= MaxRef => (rc.ref + 1) % (MaxRef + 1) = rc.ref + 1
  <2>1. ASSUME rc.ref + 1 <= MaxRef PROVE rc.ref + 1 \in 0..(MaxRef + 1 - 1)
    BY <2>1, <1>1, MaxRefNat
  <2> QED BY <1>3, <2>1, ModSmall
<1> QED
  BY <1>1, <1>2, <1>4, <1>5 DEF RefIdxs

LEMMA DecIs ==
  ASSUME NEW rc \in RefIdxs
  PROVE  /\ Dec(rc) \in RefIdxs /\ Dec(rc).idx = rc.idx
         /\ rc.ref >= 1 => Dec(rc).ref = rc.ref - 1
<1>1. rc.ref \in 0..MaxRef /\ rc.idx \in Bufs
  BY DEF RefIdxs
<1>2. Dec(rc) = [ref |-> (rc.ref + MaxRef) % (MaxRef + 1), idx |-> rc.idx]
  BY DEF Dec, RefIdx
<1>3. MaxRef + 1 \in Nat \ {0} /\ rc.ref + MaxRef \in Nat /\ (MaxRef + 1) - 1 = MaxRef
  BY <1>1, MaxRefNat
<1>4. (rc.ref + MaxRef) % (MaxRef + 1) \in 0..MaxRef
  BY <1>3, DivMod
<1>5. rc.ref >= 1 => (rc.ref + MaxRef) % (MaxRef + 1) = rc.ref - 1
  <2>1. ASSUME rc.ref >= 1
        PROVE  rc.ref - 1 \in 0..(MaxRef + 1 - 1) /\ rc.ref + MaxRef = (rc.ref - 1) + (MaxRef + 1)
    BY <2>1, <1>1, MaxRefNat
  <2> QED BY <1>3, <2>1, ModOnce
<1> QED
  BY <1>1, <1>2, <1>4, <1>5 DEF RefIdxs

LEMMA Constants ==
  /\ NoThread \notin Threads
  /\ IsFiniteSet(Threads)
  /\ Cardinality(Threads) \in Nat /\ Cardinality(Threads) + 2 <= MaxRef
  /\ NBUF \in Nat \ {0} /\ NBLOCK \in Nat
  /\ Keys = Blocks \cup {0} /\ 0 \notin Blocks
  /\ NoBuf \notin Buffers /\ Bufs = Buffers \cup {NoBuf}
  /\ NoLocals \in Locals /\ MaxRef \in Nat
<1>1. /\ NBUF \in Nat \ {0} /\ NBLOCK \in Nat /\ IsFiniteSet(Threads)
      /\ NoThread \notin Threads /\ Cardinality(Threads) + 2 <= MaxRef
  BY CacheAssumption
<1>2. MaxRef \in Nat
  BY MaxRefNat
<1>3. Cardinality(Threads) \in Nat
  BY <1>1, FS_CardinalityType
<1>4. 0 \notin Blocks /\ NoBuf \notin Buffers
  BY <1>1 DEF Blocks, Buffers, NoBuf
<1>5. RefIdx(0, NoBuf) \in RefIdxs
  BY <1>2 DEF RefIdx, RefIdxs, Bufs
<1>6. NoLocals \in Locals
  BY <1>5 DEF NoLocals, Locals, Keys, Bufs
<1> QED
  BY <1>1, <1>2, <1>3, <1>4, <1>6 DEF Keys, Bufs

-----------------------------------------------------------------------------
(* What a step does to its thread, field by field *)

Others(t) == \A u \in Threads : u # t => pc'[u] = pc[u] /\ loc'[u] = loc[u]

LEMMA GotoIs ==
  ASSUME TypeOK, NEW t \in Threads, NEW l \in Labels, Goto(t, l)
  PROVE  /\ pc' \in [Threads -> Labels]
         /\ pc'[t] = l
         /\ \A u \in Threads : u # t => pc'[u] = pc[u]
BY DEF TypeOK, Goto

LEMMA LocIs ==
  ASSUME TypeOK, NEW t \in Threads, NEW L \in Locals, loc' = [loc EXCEPT ![t] = L]
  PROVE  /\ loc' \in [Threads -> Locals]
         /\ loc'[t] = L
         /\ \A u \in Threads : u # t => loc'[u] = loc[u]
BY DEF TypeOK

LEMMA Set_block ==
  ASSUME TypeOK, NEW t \in Threads, NEW v \in Keys, Set(t, "block", v)
  PROVE  /\ loc' \in [Threads -> Locals]
         /\ loc'[t].block = v
         /\ loc'[t].rc = loc[t].rc /\ loc'[t].cand = loc[t].cand /\ loc'[t].victim = loc[t].victim
         /\ loc'[t].expect = loc[t].expect /\ loc'[t].buf = loc[t].buf
         /\ \A u \in Threads : u # t => loc'[u] = loc[u]
BY DEF TypeOK, Set, Locals

LEMMA Set_rc ==
  ASSUME TypeOK, NEW t \in Threads, NEW v \in RefIdxs, Set(t, "rc", v)
  PROVE  /\ loc' \in [Threads -> Locals]
         /\ loc'[t].rc = v
         /\ loc'[t].block = loc[t].block /\ loc'[t].cand = loc[t].cand /\ loc'[t].victim = loc[t].victim
         /\ loc'[t].expect = loc[t].expect /\ loc'[t].buf = loc[t].buf
         /\ \A u \in Threads : u # t => loc'[u] = loc[u]
BY DEF TypeOK, Set, Locals

LEMMA Set_cand ==
  ASSUME TypeOK, NEW t \in Threads, NEW v \in Bufs, Set(t, "cand", v)
  PROVE  /\ loc' \in [Threads -> Locals]
         /\ loc'[t].cand = v
         /\ loc'[t].block = loc[t].block /\ loc'[t].rc = loc[t].rc /\ loc'[t].victim = loc[t].victim
         /\ loc'[t].expect = loc[t].expect /\ loc'[t].buf = loc[t].buf
         /\ \A u \in Threads : u # t => loc'[u] = loc[u]
BY DEF TypeOK, Set, Locals

LEMMA Set_victim ==
  ASSUME TypeOK, NEW t \in Threads, NEW v \in Keys, Set(t, "victim", v)
  PROVE  /\ loc' \in [Threads -> Locals]
         /\ loc'[t].victim = v
         /\ loc'[t].block = loc[t].block /\ loc'[t].rc = loc[t].rc /\ loc'[t].cand = loc[t].cand
         /\ loc'[t].expect = loc[t].expect /\ loc'[t].buf = loc[t].buf
         /\ \A u \in Threads : u # t => loc'[u] = loc[u]
BY DEF TypeOK, Set, Locals

LEMMA Set_expect ==
  ASSUME TypeOK, NEW t \in Threads, NEW v \in RefIdxs, Set(t, "expect", v)
  PROVE  /\ loc' \in [Threads -> Locals]
         /\ loc'[t].expect = v
         /\ loc'[t].block = loc[t].block /\ loc'[t].rc = loc[t].rc /\ loc'[t].cand = loc[t].cand
         /\ loc'[t].victim = loc[t].victim /\ loc'[t].buf = loc[t].buf
         /\ \A u \in Threads : u # t => loc'[u] = loc[u]
BY DEF TypeOK, Set, Locals

LEMMA Set_buf ==
  ASSUME TypeOK, NEW t \in Threads, NEW v \in Bufs, Set(t, "buf", v)
  PROVE  /\ loc' \in [Threads -> Locals]
         /\ loc'[t].buf = v
         /\ loc'[t].block = loc[t].block /\ loc'[t].rc = loc[t].rc /\ loc'[t].cand = loc[t].cand
         /\ loc'[t].victim = loc[t].victim /\ loc'[t].expect = loc[t].expect
         /\ \A u \in Threads : u # t => loc'[u] = loc[u]
BY DEF TypeOK, Set, Locals

-----------------------------------------------------------------------------
(* What follows from the invariant in one state *)

LEMMA PinsNat == \A n \in Blocks : Pins(n) \in {0, 1, 2}
BY DEF Pins

LEMMA GotFinite ==
  \A n \in Blocks : /\ Got(n) \subseteq Threads /\ IsFiniteSet(Got(n))
                    /\ Cardinality(Got(n)) \in Nat
                    /\ Cardinality(Got(n)) <= Cardinality(Threads)
<1> TAKE n \in Blocks
<1>1. Got(n) \subseteq Threads
  BY DEF Got
<1> QED
  BY <1>1, Constants, FS_Subset, FS_CardinalityType

\* A count is at most the number of threads and two pins.
LEMMA CountBound ==
  ASSUME TypeOK, Counts, NEW n \in Blocks
  PROVE  /\ hashtable[n].ref \in Nat
         /\ hashtable[n].ref <= MaxRef
         /\ Cardinality(Got(n)) + Pins(n) <= MaxRef
<1>1. /\ Cardinality(Got(n)) \in Nat /\ Cardinality(Got(n)) <= Cardinality(Threads)
      /\ Pins(n) \in {0, 1, 2}
      /\ Cardinality(Threads) \in Nat /\ Cardinality(Threads) + 2 <= MaxRef /\ MaxRef \in Nat
  BY GotFinite, PinsNat, Constants
<1>2. hashtable[n].ref = Cardinality(Got(n)) + Pins(n)
  BY DEF Counts
<1> QED BY <1>1, <1>2

\* A count of 0: nobody uses the buffer, nothing pins it.
LEMMA CountZero ==
  ASSUME TypeOK, Counts, NEW n \in Blocks, hashtable[n].ref = 0
  PROVE  /\ \A t \in Threads : ~(Counted(t) /\ loc[t].block = n)
         /\ n \notin pinned
         /\ hashtable[n].idx \notin mapped
<1>1. /\ Cardinality(Got(n)) \in Nat /\ IsFiniteSet(Got(n)) /\ Pins(n) \in {0, 1, 2}
  BY GotFinite, PinsNat
<1>2. Cardinality(Got(n)) = 0 /\ Pins(n) = 0
  BY <1>1 DEF Counts
<1>3. Got(n) = {}
  BY <1>1, <1>2, FS_EmptySet
<1> QED BY <1>2, <1>3 DEF Got, Pins

\* A user of a buffer counts, and so does a pin.
LEMMA CountUser ==
  ASSUME TypeOK, Counts, NEW n \in Blocks,
         \/ n \in pinned
         \/ hashtable[n].idx \in mapped
         \/ \E t \in Threads : Counted(t) /\ loc[t].block = n
  PROVE  hashtable[n].ref \in Nat /\ hashtable[n].ref >= 1
BY CountZero, CountBound

\* Two threads that hold sleeplocks use two blocks in two buffers.
LEMMA HoldersApart ==
  ASSUME TypeOK, Threaded, NEW t \in Threads, NEW u \in Threads, t # u,
         pc[t] \in HoldAt, pc[u] \in HoldAt
  PROVE  loc[t].buf # loc[u].buf /\ loc[t].block # loc[u].block
<1>1. lock[loc[t].buf] = t /\ lock[loc[u].buf] = u
  BY DEF Threaded, ThreadOK, UserOK
<1>2. /\ Counted(t) /\ Target(t) = loc[t].buf
      /\ Counted(u) /\ Target(u) = loc[u].buf
  BY DEF HoldAt, Counted, Target
<1>3. /\ hashtable[loc[t].block].idx = loc[t].buf
      /\ hashtable[loc[u].block].idx = loc[u].buf
  BY <1>2 DEF Threaded, ThreadOK, UserOK
<1> QED BY <1>1, <1>3

-----------------------------------------------------------------------------
(* How the parts of the invariant are kept *)

\* Thread u notices nothing of a step of another thread.
LEMMA OtherOK ==
  ASSUME TypeOK, NEW u \in Threads, ThreadOK(u), pc'[u] = pc[u], loc'[u] = loc[u],
         Own(u, loc[u].cand) =>
           /\ phase'[loc[u].cand] = phase[loc[u].cand]
           /\ blockno'[loc[u].cand] = blockno[loc[u].cand]
           /\ \A n \in Keys : hashtable'[n].idx = loc[u].cand => hashtable[n].idx = loc[u].cand,
         pc[u] = "enqueue_link" => phase'[loc[u].buf] = phase[loc[u].buf],
         Counted(u) => hashtable'[loc[u].block].idx = hashtable[loc[u].block].idx,
         pc[u] \in HoldAt =>
           /\ lock'[loc[u].buf] = lock[loc[u].buf]
           /\ valid[loc[u].buf] => valid'[loc[u].buf]
           /\ loc[u].block \in pinned' <=> loc[u].block \in pinned
           /\ loc[u].buf \in mapped' => loc[u].buf \in mapped,
         pc[u] \in NamedAt => blockno'[loc[u].buf] = blockno[loc[u].buf],
         pc[u] = "unpin" => /\ disk'[loc[u].block] = disk[loc[u].block]
                            /\ content'[loc[u].block] = content[loc[u].block]
  PROVE  ThreadOK(u)'
<1>0. pc[u] \in Labels /\ loc[u] \in Locals
  BY DEF TypeOK
<1>1. BgetOK(u)'
  <2>1. pc[u] \in CandAt /\ loc[u].cand # NoBuf => Own(u, loc[u].cand)
    BY DEF Own
  <2>2. loc[u].victim \in Keys /\ Blocks \subseteq Keys
    BY <1>0, Constants DEF Locals
  <2> QED BY <2>1, <2>2 DEF ThreadOK, BgetOK, CandAt, FreshAt
<1>2. PhaseOK(u)'
  <2>1. pc[u] \in CandAt /\ loc[u].cand # NoBuf => Own(u, loc[u].cand)
    BY DEF Own
  <2> QED BY <2>1 DEF ThreadOK, PhaseOK, BgetOK, CandAt
<1>3. UserOK(u)'
  <2>1. Counted(u)' = Counted(u) /\ Target(u)' = Target(u)
    BY DEF Counted, Target
  <2> QED BY <2>1 DEF ThreadOK, UserOK, FilledAt, HoldAt
<1> QED BY <1>1, <1>2, <1>3 DEF ThreadOK

\* The pairs are apart after a step of t that gives t no role another has.
LEMMA ApartKept ==
  ASSUME Threaded, NEW t \in Threads, Others(t),
         \A b \in Buffers : \A u \in Threads \ {t} :
           /\ Own(t, b)' => ~Own(u, b) /\ ~Enq(u, b)
           /\ Enq(t, b)' => ~Own(u, b)
           /\ New(t, b)' => ~Has(u, b)
           /\ Has(t, b)' => ~New(u, b)
           /\ Linker(t, b)' => ~Linker(u, b)
  PROVE  \A u, v \in Threads : u # v => Apart(u, v)'
<1> SUFFICES ASSUME NEW u \in Threads, NEW v \in Threads, u # v, NEW b \in Buffers
             PROVE  /\ ~(Own(u, b)' /\ Own(v, b)') /\ ~(Own(u, b)' /\ Enq(v, b)')
                    /\ ~(New(u, b)' /\ Has(v, b)') /\ ~(Linker(u, b)' /\ Linker(v, b)')
  BY DEF Apart
<1>1. \A w \in Threads : w # t =>
        /\ (Own(w, b)' <=> Own(w, b)) /\ (Enq(w, b)' <=> Enq(w, b)) /\ (New(w, b)' <=> New(w, b))
        /\ (Has(w, b)' <=> Has(w, b)) /\ (Linker(w, b)' <=> Linker(w, b))
  BY DEF Others, Own, Enq, New, Has, Linker
<1>2. /\ ~(Own(u, b) /\ Own(v, b)) /\ ~(Own(u, b) /\ Enq(v, b))
      /\ ~(New(u, b) /\ Has(v, b)) /\ ~(Linker(u, b) /\ Linker(v, b))
  BY DEF Threaded, Apart
<1>3. CASE u # t /\ v # t
  BY <1>1, <1>2, <1>3
<1>4. CASE u = t
  BY <1>1, <1>4
<1>5. CASE v = t
  BY <1>1, <1>5
<1> QED BY <1>3, <1>4, <1>5

LEMMA ApartSame ==
  ASSUME Threaded, NEW t \in Threads, Others(t),
         \A b \in Buffers : /\ Own(t, b)' => Own(t, b)
                            /\ Enq(t, b)' => Enq(t, b)
                            /\ New(t, b)' => New(t, b)
                            /\ Has(t, b)' => Has(t, b)
                            /\ Linker(t, b)' => Linker(t, b)
  PROVE  \A u, v \in Threads : u # v => Apart(u, v)'
<1>1. \A b \in Buffers : \A u \in Threads \ {t} :
           /\ Own(t, b) => ~Own(u, b) /\ ~Enq(u, b)
           /\ Enq(t, b) => ~Own(u, b)
           /\ New(t, b) => ~Has(u, b)
           /\ Has(t, b) => ~New(u, b)
           /\ Linker(t, b) => ~Linker(u, b)
  BY DEF Threaded, Apart
<1> QED BY <1>1, ApartKept

LEMMA CountsSame ==
  ASSUME Counts, NEW t \in Threads, Others(t), UNCHANGED <<hashtable, pinned, mapped>>,
         (Counted(t)' <=> Counted(t)),
         Counted(t) => loc'[t].block = loc[t].block
  PROVE  Counts'
<1>1. \A n \in Blocks : Got(n)' = Got(n)
  BY DEF Got, Counted, Others
<1> QED BY <1>1 DEF Counts, Pins

LEMMA QueuedSame ==
  ASSUME Queued, NEW t \in Threads, Others(t), UNCHANGED <<queue, phase>>,
         \A b \in Buffers :
           /\ Linker(t, b) => Linker(t, b)'
           /\ ~(pc[t] = "unclaim" /\ loc[t].cand = b)
  PROVE  Queued'
<1>1. \A u \in Threads, b \in Buffers : Linker(u, b) => Linker(u, b)'
  BY DEF Others, Linker
<1>2. \A u \in Threads, b \in Buffers :
        (pc[u] = "unclaim" /\ loc[u].cand = b) => (pc'[u] = "unclaim" /\ loc'[u].cand = b)
  BY DEF Others
<1>3. ASSUME NEW b \in Buffers
      PROVE  /\ phase'[b] = "queued" => \E i \in 1..Len(queue') : queue'[i] = b
             /\ phase'[b] = "taken" => \E u \in Threads : pc'[u] = "unclaim" /\ loc'[u].cand = b
             /\ phase'[b] = "linking" => \E u \in Threads : Linker(u, b)'
  BY <1>1, <1>2 DEF Queued
<1>4. /\ Len(queue') >= 1
      /\ \A i, j \in 1..Len(queue') : queue'[i] = queue'[j] => i = j
      /\ \A i \in 1..Len(queue') : phase'[queue'[i]] = "queued"
  BY DEF Queued
<1> QED BY <1>3, <1>4 DEF Queued

LEMMA LocksSame ==
  ASSUME TypeOK, Locks, NEW t \in Threads, Others(t), UNCHANGED lock,
         pc[t] \in HoldAt => pc'[t] \in HoldAt /\ loc'[t].buf = loc[t].buf
  PROVE  Locks'
<1>1. \A b \in Buffers : lock[b] \in Threads \cup {NoThread}
  BY DEF TypeOK
<1> QED BY <1>1 DEF Locks, Others

\* The parts that neither the queue nor the locks have a part in, when a step
\* leaves the rest alone.
LEMMA TableKept ==
  ASSUME IInv, NEW t \in Threads, Others(t),
         UNCHANGED <<hashtable, blockno, valid, data, disk, content, pinned, mapped>>,
         Counted(t)' <=> Counted(t),
         Counted(t) => loc'[t].block = loc[t].block,
         pc[t] \in {"bwrite", "pin"} => pc'[t] \in {"bwrite", "pin"},
         \A b \in Buffers : New(t, b)' <=> New(t, b)
  PROVE  Table' /\ Counts' /\ Names' /\ Mapped' /\ Pinned' /\ DataOK' /\ DiskOK'
<1>1. Table'
  BY DEF IInv, Table
<1>2. Counts'
  BY CountsSame DEF IInv
<1>3. \A u \in Threads : \A b \in Buffers : New(u, b)' <=> New(u, b)
  BY DEF Others, New
<1>4. \A u \in Threads : u # t => loc'[u].block = loc[u].block
  BY DEF Others
<1>5. pc[t] \in NewAt => loc'[t].block = loc[t].block
  BY DEF NewAt, Counted
<1>6. \A n \in Keys : hashtable[n].idx \in Bufs
  BY DEF IInv, TypeOK, RefIdxs
<1>7. \A n \in Blocks : hashtable[n].idx # NoBuf => hashtable[n].idx \in Buffers
  BY <1>6, Constants
<1>8. Names'
  <2> SUFFICES ASSUME NEW n \in Blocks, hashtable[n].idx # NoBuf, NEW u \in Threads,
                      New(u, hashtable[n].idx), loc[u].block = n
               PROVE  New(u, hashtable[n].idx)' /\ loc'[u].block = n
    BY <1>3, <1>7 DEF IInv, Names
  <2> QED BY <1>3, <1>4, <1>5, <1>7 DEF New
<1>9. Mapped'
  BY <1>3 DEF IInv, Mapped, TypeOK
<1>10. Pinned'
  BY <1>3, <1>7 DEF IInv, Pinned, TypeOK
<1>12. DataOK'
  BY <1>3, <1>7 DEF IInv, DataOK
<1>13. DiskOK'
  <2>1. \A u \in Threads : pc[u] \in {"bwrite", "pin"} => pc'[u] \in {"bwrite", "pin"} /\ loc'[u].block = loc[u].block
    BY DEF Others, Counted
  <2> QED BY <2>1 DEF IInv, DiskOK
<1> QED
  BY <1>1, <1>2, <1>8, <1>9, <1>10, <1>12, <1>13

LEMMA QuietKeeps ==
  ASSUME IInv, NEW t \in Threads, Others(t),
         UNCHANGED <<hashtable, blockno, valid, data, lock, disk, content, pinned, mapped>>,
         Counted(t)' <=> Counted(t),
         Counted(t) => loc'[t].block = loc[t].block,
         pc[t] \in HoldAt => pc'[t] \in HoldAt /\ loc'[t].buf = loc[t].buf,
         pc[t] \in {"bwrite", "pin"} => pc'[t] \in {"bwrite", "pin"},
         \A b \in Buffers : New(t, b)' <=> New(t, b)
  PROVE  Table' /\ Counts' /\ Names' /\ Mapped' /\ Pinned' /\ Locks' /\ DataOK' /\ DiskOK'
<1>1. Table' /\ Counts' /\ Names' /\ Mapped' /\ Pinned' /\ DataOK' /\ DiskOK'
  BY TableKept
<1>2. Locks'
  BY LocksSame DEF IInv
<1> QED BY <1>1, <1>2

\* A step of t that only changes where t is.
StepsIn(t) ==
  /\ Others(t)
  /\ UNCHANGED <<queue, phase, hashtable, blockno, valid, data, lock, disk,
                 content, pinned, mapped, leaked>>

LEMMA StepKeeps ==
  ASSUME IInv, TypeOK', NEW t \in Threads, StepsIn(t), ThreadOK(t)',
         dropped \subseteq dropped',
         (Counted(t)' <=> Counted(t)),
         Counted(t) => loc'[t].block = loc[t].block,
         pc[t] \in HoldAt => pc'[t] \in HoldAt /\ loc'[t].buf = loc[t].buf,
         pc[t] \in {"bwrite", "pin"} => pc'[t] \in {"bwrite", "pin"},
         \A b \in Buffers :
           /\ Own(t, b)' => Own(t, b)
           /\ Enq(t, b)' => Enq(t, b)
           /\ (New(t, b)' <=> New(t, b))
           /\ Has(t, b)' => Has(t, b)
           /\ (Linker(t, b)' <=> Linker(t, b))
           /\ ~(pc[t] = "unclaim" /\ loc[t].cand = b)
           /\ phase[b] = "out" =>
               /\ Own(t, b) => Own(t, b)' \/ InUse(b) \/ b \in dropped'
               /\ Enq(t, b) => Enq(t, b)'
  PROVE  IInv'
<1> USE DEF StepsIn
<1>1. Table' /\ Counts' /\ Names' /\ Mapped' /\ Pinned' /\ Locks' /\ DataOK' /\ DiskOK'
  BY QuietKeeps
<1>2. Queued'
  BY QueuedSame DEF IInv
<1>3. \A u \in Threads : ThreadOK(u)'
  <2> SUFFICES ASSUME NEW u \in Threads, u # t PROVE ThreadOK(u)'
    OBVIOUS
  <2>1. ThreadOK(u) /\ pc'[u] = pc[u] /\ loc'[u] = loc[u]
    BY DEF Others, IInv, Threaded
  <2> QED BY <2>1, OtherOK DEF IInv
<1>4. \A u, v \in Threads : u # v => Apart(u, v)'
  BY ApartSame DEF IInv
<1>5. LostOK'
  <2> SUFFICES ASSUME NEW b \in Buffers, phase[b] = "out"
               PROVE  \/ \E u \in Threads : Own(u, b)' \/ Enq(u, b)'
                      \/ InUse(b) \/ b \in leaked \cup dropped'
    BY DEF LostOK, InUse
  <2>1. \A u \in Threads : u # t => (Own(u, b)' <=> Own(u, b)) /\ (Enq(u, b)' <=> Enq(u, b))
    BY DEF Others, Own, Enq
  <2> QED BY <2>1 DEF IInv, LostOK
<1> QED
  BY <1>1, <1>2, <1>3, <1>4, <1>5 DEF IInv, Threaded

-----------------------------------------------------------------------------
(* The steps that change where their thread is, and nothing else *)

LEMMA StepType ==
  ASSUME TypeOK, NEW t \in Threads, StepsIn(t), dropped' \subseteq Buffers,
         pc' \in [Threads -> Labels], loc' \in [Threads -> Locals], ops' \in Nat
  PROVE  TypeOK'
BY DEF TypeOK, StepsIn

LEMMA GetReadKeeps ==
  ASSUME IInv, NEW t \in Threads, GetRead(t)
  PROVE  IInv'
<1> DEFINE rc == hashtable[loc[t].block]
           l == IF rc.idx # NoBuf THEN "hit"
                ELSE IF loc[t].cand = NoBuf THEN "dequeue" ELSE "install"
<1>0. TypeOK /\ pc[t] = "get" /\ loc[t] \in Locals /\ loc[t].block \in Blocks
  BY DEF IInv, TypeOK, GetRead, At, Threaded, ThreadOK, BgetOK
<1>1. rc \in RefIdxs
  BY <1>0, Constants DEF TypeOK
<1>2. Set(t, "rc", rc) /\ Goto(t, l)
  BY DEF GetRead
<1>3. /\ loc' \in [Threads -> Locals]
      /\ loc'[t].rc = rc
      /\ loc'[t].block = loc[t].block /\ loc'[t].cand = loc[t].cand
      /\ \A u \in Threads : u # t => loc'[u] = loc[u]
  BY <1>0, <1>1, <1>2, Set_rc
<1>4. /\ pc' \in [Threads -> Labels] /\ pc'[t] = l
      /\ \A u \in Threads : u # t => pc'[u] = pc[u]
  BY <1>0, <1>2, GotoIs DEF Labels
<1>5. StepsIn(t) /\ UNCHANGED <<dropped, ops>>
  BY <1>3, <1>4 DEF StepsIn, Others, GetRead, queueVars, bufVars, diskVars, pinVars
<1>6. TypeOK'
  BY <1>0, <1>3, <1>4, <1>5, StepType DEF TypeOK
<1>7. ThreadOK(t)'
  <2>1. ThreadOK(t)
    BY DEF IInv, Threaded
  <2>2. rc.idx = NoBuf => rc = RefIdx(0, NoBuf)
    BY <1>0, <1>1, Constants DEF IInv, Table, RefIdxs, RefIdx
  <2>3. BgetOK(t)'
    BY <2>1, <2>2, <1>0, <1>3, <1>4, <1>5 DEF ThreadOK, BgetOK, CandAt, FreshAt, StepsIn
  <2>4. PhaseOK(t)'
    BY <2>1, <1>0, <1>3, <1>4, <1>5 DEF ThreadOK, PhaseOK, CandAt, StepsIn
  <2>5. UserOK(t)'
    BY <1>4 DEF UserOK, Counted, HoldAt, NamedAt, FilledAt
  <2> QED BY <2>3, <2>4, <2>5 DEF ThreadOK
<1>8. \A b \in Buffers :
        /\ (Own(t, b)' <=> Own(t, b)) /\ ~Enq(t, b) /\ ~Enq(t, b)' /\ ~New(t, b) /\ ~New(t, b)'
        /\ ~Has(t, b) /\ ~Has(t, b)' /\ ~Linker(t, b) /\ ~Linker(t, b)'
  BY <1>0, <1>3, <1>4, Constants DEF Own, Enq, New, Has, Linker, CandAt, NewAt, NamedAt, HoldAt
<1>9. ~Counted(t) /\ ~Counted(t)' /\ pc[t] \notin HoldAt /\ pc[t] \notin {"bwrite", "pin", "unclaim"}
  BY <1>0, <1>4 DEF Counted, HoldAt
<1> QED
  BY <1>5, <1>6, <1>7, <1>8, <1>9, StepKeeps

\* The types of a thread's locals, and its part of the invariant.
LEMMA Mine ==
  ASSUME IInv, NEW t \in Threads
  PROVE  /\ TypeOK /\ BgetOK(t) /\ PhaseOK(t) /\ UserOK(t)
         /\ pc[t] \in Labels /\ loc[t] \in Locals
         /\ loc[t].block \in Keys /\ loc[t].rc \in RefIdxs /\ loc[t].cand \in Bufs
         /\ loc[t].victim \in Keys /\ loc[t].expect \in RefIdxs /\ loc[t].buf \in Bufs
         /\ pc[t] \notin {"idle", "panic"} => loc[t].block \in Blocks
         /\ ops \in Nat /\ dropped \subseteq Buffers
         /\ \A n \in Keys : hashtable[n] \in RefIdxs /\ hashtable[n].idx \in Bufs
         /\ \A b \in Buffers : blockno[b] \in Keys
<1>1. TypeOK /\ ThreadOK(t)
  BY DEF IInv, Threaded
<1> QED BY <1>1 DEF TypeOK, ThreadOK, BgetOK, Locals, RefIdxs

LEMMA BreadKeeps ==
  ASSUME IInv, NEW t \in Threads, NEW n \in Blocks, Bread(t, n)
  PROVE  IInv'
<1>0. pc[t] = "idle" /\ Goto(t, "get")
  BY DEF Bread, At
<1>1. TypeOK /\ BgetOK(t) /\ PhaseOK(t) /\ UserOK(t)
  BY Mine
<1>2. n \in Keys
  BY Constants
<1>3. /\ loc' \in [Threads -> Locals]
      /\ loc'[t].block = n
      /\ loc'[t].rc = loc[t].rc /\ loc'[t].cand = loc[t].cand /\ loc'[t].victim = loc[t].victim
      /\ loc'[t].expect = loc[t].expect /\ loc'[t].buf = loc[t].buf
      /\ \A u \in Threads : u # t => loc'[u] = loc[u]
  BY <1>1, <1>2, Set_block DEF Bread, At
<1>4. /\ pc' \in [Threads -> Labels] /\ pc'[t] = "get"
      /\ \A u \in Threads : u # t => pc'[u] = pc[u]
  BY <1>0, <1>1, GotoIs DEF Labels
<1>5. StepsIn(t) /\ dropped' = dropped /\ ops' = ops + 1
  BY <1>3, <1>4 DEF StepsIn, Others, Bread, At, queueVars, bufVars, diskVars, pinVars
<1>6. TypeOK'
  BY <1>1, <1>3, <1>4, <1>5, Mine, StepType
<1>7. ThreadOK(t)'
  <2>1. BgetOK(t)'
    BY <1>0, <1>1, <1>3, <1>4, <1>5, Constants DEF BgetOK, CandAt, FreshAt, StepsIn
  <2>2. PhaseOK(t)'
    BY <1>0, <1>1, <1>3, <1>4, <1>5 DEF PhaseOK, BgetOK, CandAt, StepsIn
  <2>3. UserOK(t)'
    BY <1>0, <1>1, <1>3, <1>4, <1>5 DEF UserOK, Counted, Target, HoldAt, NamedAt, FilledAt, StepsIn
  <2> QED BY <2>1, <2>2, <2>3 DEF ThreadOK
<1>8. \A b \in Buffers :
        /\ (Own(t, b)' => Own(t, b)) /\ (Enq(t, b)' => Enq(t, b))
        /\ (New(t, b)' <=> New(t, b)) /\ (Has(t, b)' <=> Has(t, b))
        /\ (Linker(t, b)' <=> Linker(t, b))
        /\ ~(pc[t] = "unclaim" /\ loc[t].cand = b)
        /\ phase[b] = "out" => 
             /\ Own(t, b) => Own(t, b)' \/ InUse(b) \/ b \in dropped'
             /\ Enq(t, b) => Enq(t, b)'
  BY <1>0, <1>3, <1>4, <1>1 DEF BgetOK, Own, Enq, New, Has, Linker, CandAt, NewAt, NamedAt, HoldAt
<1>9. /\ (Counted(t)' <=> Counted(t)) /\ (Counted(t) => loc'[t].block = loc[t].block)
      /\ pc[t] \in HoldAt => pc'[t] \in HoldAt /\ loc'[t].buf = loc[t].buf
      /\ pc[t] \notin {"bwrite", "pin"} /\ dropped \subseteq dropped'
  BY <1>0, <1>3, <1>4, <1>5 DEF Counted, HoldAt
<1> QED
  BY <1>5, <1>6, <1>7, <1>8, <1>9, StepKeeps

LEMMA GetHitFails ==
  ASSUME IInv, NEW t \in Threads, At(t, "hit"), CASFails(t, loc[t].block, loc[t].rc, "get"),
         UNCHANGED <<queueVars, bufVars, diskVars, pinVars, loc, ops>>
  PROVE  IInv'
<1>0. pc[t] = "hit" /\ Goto(t, "get")
  BY DEF At, CASFails
<1>1. TypeOK /\ BgetOK(t) /\ PhaseOK(t) /\ UserOK(t)
  BY Mine
<1>3. loc' = loc /\ loc' \in [Threads -> Locals]
  BY <1>1 DEF At, CASFails, TypeOK
<1>4. /\ pc' \in [Threads -> Labels] /\ pc'[t] = "get"
      /\ \A u \in Threads : u # t => pc'[u] = pc[u]
  BY <1>0, <1>1, GotoIs DEF Labels
<1>5. StepsIn(t) /\ dropped' = dropped /\ ops' = ops
  BY <1>3, <1>4 DEF StepsIn, Others, At, CASFails, queueVars, bufVars, diskVars, pinVars
<1>6. TypeOK'
  BY <1>1, <1>3, <1>4, <1>5, Mine, StepType
<1>7. ThreadOK(t)'
  <2>1. BgetOK(t)'
    BY <1>0, <1>1, <1>3, <1>4, <1>5 DEF BgetOK, CandAt, FreshAt, StepsIn
  <2>2. PhaseOK(t)'
    BY <1>0, <1>1, <1>3, <1>4, <1>5 DEF PhaseOK, BgetOK, CandAt, StepsIn
  <2>3. UserOK(t)'
    BY <1>0, <1>1, <1>3, <1>4, <1>5 DEF UserOK, Counted, Target, HoldAt, NamedAt, FilledAt, StepsIn
  <2> QED BY <2>1, <2>2, <2>3 DEF ThreadOK
<1>8. \A b \in Buffers :
        /\ (Own(t, b)' => Own(t, b)) /\ (Enq(t, b)' => Enq(t, b))
        /\ (New(t, b)' <=> New(t, b)) /\ (Has(t, b)' <=> Has(t, b))
        /\ (Linker(t, b)' <=> Linker(t, b))
        /\ ~(pc[t] = "unclaim" /\ loc[t].cand = b)
        /\ phase[b] = "out" => 
             /\ Own(t, b) => Own(t, b)' \/ InUse(b) \/ b \in dropped'
             /\ Enq(t, b) => Enq(t, b)'
  BY <1>0, <1>3, <1>4 DEF Own, Enq, New, Has, Linker, CandAt, NewAt, NamedAt, HoldAt
<1>9. /\ (Counted(t)' <=> Counted(t)) /\ (Counted(t) => loc'[t].block = loc[t].block)
      /\ pc[t] \in HoldAt => pc'[t] \in HoldAt /\ loc'[t].buf = loc[t].buf
      /\ pc[t] \notin {"bwrite", "pin"} /\ dropped \subseteq dropped'
  BY <1>0, <1>3, <1>4, <1>5 DEF Counted, HoldAt
<1> QED
  BY <1>5, <1>6, <1>7, <1>8, <1>9, StepKeeps

LEMMA GetPanicKeeps ==
  ASSUME IInv, NEW t \in Threads, GetPanic(t)
  PROVE  IInv'
<1>0. pc[t] = "dequeue" /\ Goto(t, "panic")
  BY DEF GetPanic, At
<1>1. TypeOK /\ BgetOK(t) /\ PhaseOK(t) /\ UserOK(t)
  BY Mine
<1>3. loc' = loc /\ loc' \in [Threads -> Locals]
  BY <1>1 DEF GetPanic, At, TypeOK
<1>4. /\ pc' \in [Threads -> Labels] /\ pc'[t] = "panic"
      /\ \A u \in Threads : u # t => pc'[u] = pc[u]
  BY <1>0, <1>1, GotoIs DEF Labels
<1>5. StepsIn(t) /\ dropped' = dropped /\ ops' = ops
  BY <1>3, <1>4 DEF StepsIn, Others, GetPanic, At, queueVars, bufVars, diskVars, pinVars
<1>6. TypeOK'
  BY <1>1, <1>3, <1>4, <1>5, Mine, StepType
<1>7. ThreadOK(t)'
  <2>1. BgetOK(t)'
    BY <1>0, <1>1, <1>3, <1>4, <1>5 DEF BgetOK, CandAt, FreshAt, StepsIn
  <2>2. PhaseOK(t)'
    BY <1>0, <1>1, <1>3, <1>4, <1>5 DEF PhaseOK, BgetOK, CandAt, StepsIn
  <2>3. UserOK(t)'
    BY <1>0, <1>1, <1>3, <1>4, <1>5 DEF UserOK, Counted, Target, HoldAt, NamedAt, FilledAt, StepsIn
  <2> QED BY <2>1, <2>2, <2>3 DEF ThreadOK
<1>8. \A b \in Buffers :
        /\ (Own(t, b)' => Own(t, b)) /\ (Enq(t, b)' => Enq(t, b))
        /\ (New(t, b)' <=> New(t, b)) /\ (Has(t, b)' <=> Has(t, b))
        /\ (Linker(t, b)' <=> Linker(t, b))
        /\ ~(pc[t] = "unclaim" /\ loc[t].cand = b)
        /\ phase[b] = "out" => 
             /\ Own(t, b) => Own(t, b)' \/ InUse(b) \/ b \in dropped'
             /\ Enq(t, b) => Enq(t, b)'
  BY <1>0, <1>3, <1>4, <1>1 DEF BgetOK, Own, Enq, New, Has, Linker, CandAt, NewAt, NamedAt, HoldAt
<1>9. /\ (Counted(t)' <=> Counted(t)) /\ (Counted(t) => loc'[t].block = loc[t].block)
      /\ pc[t] \in HoldAt => pc'[t] \in HoldAt /\ loc'[t].buf = loc[t].buf
      /\ pc[t] \notin {"bwrite", "pin"} /\ dropped \subseteq dropped'
  BY <1>0, <1>3, <1>4, <1>5 DEF Counted, HoldAt
<1> QED
  BY <1>5, <1>6, <1>7, <1>8, <1>9, StepKeeps

LEMMA GetVictimKeeps ==
  ASSUME IInv, NEW t \in Threads, GetVictim(t)
  PROVE  IInv'
<1>0. pc[t] = "victim" /\ Goto(t, "expect")
  BY DEF GetVictim, At
<1>1. TypeOK /\ BgetOK(t) /\ PhaseOK(t) /\ UserOK(t)
  BY Mine
<1>2. blockno[loc[t].cand] \in Keys
  BY <1>0, <1>1, Mine, Constants DEF BgetOK, CandAt
<1>3. /\ loc' \in [Threads -> Locals]
      /\ loc'[t].victim = blockno[loc[t].cand]
      /\ loc'[t].block = loc[t].block /\ loc'[t].rc = loc[t].rc /\ loc'[t].cand = loc[t].cand
      /\ loc'[t].expect = loc[t].expect /\ loc'[t].buf = loc[t].buf
      /\ \A u \in Threads : u # t => loc'[u] = loc[u]
  BY <1>1, <1>2, Set_victim DEF GetVictim, At
<1>4. /\ pc' \in [Threads -> Labels] /\ pc'[t] = "expect"
      /\ \A u \in Threads : u # t => pc'[u] = pc[u]
  BY <1>0, <1>1, GotoIs DEF Labels
<1>5. StepsIn(t) /\ dropped' = dropped /\ ops' = ops
  BY <1>3, <1>4 DEF StepsIn, Others, GetVictim, At, queueVars, bufVars, diskVars, pinVars
<1>6. TypeOK'
  BY <1>1, <1>3, <1>4, <1>5, Mine, StepType
<1>7. ThreadOK(t)'
  <2>1. BgetOK(t)'
    BY <1>0, <1>1, <1>3, <1>4, <1>5 DEF BgetOK, CandAt, FreshAt, StepsIn
  <2>2. PhaseOK(t)'
    BY <1>0, <1>1, <1>3, <1>4, <1>5 DEF PhaseOK, BgetOK, CandAt, StepsIn
  <2>3. UserOK(t)'
    BY <1>0, <1>1, <1>3, <1>4, <1>5 DEF UserOK, Counted, Target, HoldAt, NamedAt, FilledAt, StepsIn
  <2> QED BY <2>1, <2>2, <2>3 DEF ThreadOK
<1>8. \A b \in Buffers :
        /\ (Own(t, b)' => Own(t, b)) /\ (Enq(t, b)' => Enq(t, b))
        /\ (New(t, b)' <=> New(t, b)) /\ (Has(t, b)' <=> Has(t, b))
        /\ (Linker(t, b)' <=> Linker(t, b))
        /\ ~(pc[t] = "unclaim" /\ loc[t].cand = b)
        /\ phase[b] = "out" => 
             /\ Own(t, b) => Own(t, b)' \/ InUse(b) \/ b \in dropped'
             /\ Enq(t, b) => Enq(t, b)'
  BY <1>0, <1>3, <1>4 DEF Own, Enq, New, Has, Linker, CandAt, NewAt, NamedAt, HoldAt
<1>9. /\ (Counted(t)' <=> Counted(t)) /\ (Counted(t) => loc'[t].block = loc[t].block)
      /\ pc[t] \in HoldAt => pc'[t] \in HoldAt /\ loc'[t].buf = loc[t].buf
      /\ pc[t] \notin {"bwrite", "pin"} /\ dropped \subseteq dropped'
  BY <1>0, <1>3, <1>4, <1>5 DEF Counted, HoldAt
<1> QED
  BY <1>5, <1>6, <1>7, <1>8, <1>9, StepKeeps

LEMMA GetExpectKeeps ==
  ASSUME IInv, NEW t \in Threads, GetExpect(t)
  PROVE  IInv'
<1>0. pc[t] = "expect" /\ Goto(t, "evict")
  BY DEF GetExpect, At
<1>1. TypeOK /\ BgetOK(t) /\ PhaseOK(t) /\ UserOK(t)
  BY Mine
<1>2. RefIdx(0, hashtable[loc[t].victim].idx) \in RefIdxs
  BY Mine, Constants DEF RefIdxs, RefIdx
<1>3. /\ loc' \in [Threads -> Locals]
      /\ loc'[t].expect = RefIdx(0, hashtable[loc[t].victim].idx)
      /\ loc'[t].block = loc[t].block /\ loc'[t].rc = loc[t].rc /\ loc'[t].cand = loc[t].cand
      /\ loc'[t].victim = loc[t].victim /\ loc'[t].buf = loc[t].buf
      /\ \A u \in Threads : u # t => loc'[u] = loc[u]
  BY <1>1, <1>2, Set_expect DEF GetExpect, At
<1>4. /\ pc' \in [Threads -> Labels] /\ pc'[t] = "evict"
      /\ \A u \in Threads : u # t => pc'[u] = pc[u]
  BY <1>0, <1>1, GotoIs DEF Labels
<1>5. StepsIn(t) /\ dropped' = dropped /\ ops' = ops
  BY <1>3, <1>4 DEF StepsIn, Others, GetExpect, At, queueVars, bufVars, diskVars, pinVars
<1>6. TypeOK'
  BY <1>1, <1>3, <1>4, <1>5, Mine, StepType
<1>a. RefIdx(0, hashtable[loc[t].victim].idx).ref = 0
      /\ RefIdx(0, hashtable[loc[t].victim].idx).idx = hashtable[loc[t].victim].idx
  BY DEF RefIdx
<1>7. ThreadOK(t)'
  <2>1. BgetOK(t)'
    BY <1>0, <1>1, <1>3, <1>4, <1>5, <1>a DEF BgetOK, CandAt, FreshAt, StepsIn
  <2>2. PhaseOK(t)'
    BY <1>0, <1>1, <1>3, <1>4, <1>5 DEF PhaseOK, BgetOK, CandAt, StepsIn
  <2>3. UserOK(t)'
    BY <1>0, <1>1, <1>3, <1>4, <1>5 DEF UserOK, Counted, Target, HoldAt, NamedAt, FilledAt, StepsIn
  <2> QED BY <2>1, <2>2, <2>3 DEF ThreadOK
<1>8. \A b \in Buffers :
        /\ (Own(t, b)' => Own(t, b)) /\ (Enq(t, b)' => Enq(t, b))
        /\ (New(t, b)' <=> New(t, b)) /\ (Has(t, b)' <=> Has(t, b))
        /\ (Linker(t, b)' <=> Linker(t, b))
        /\ ~(pc[t] = "unclaim" /\ loc[t].cand = b)
        /\ phase[b] = "out" => 
             /\ Own(t, b) => Own(t, b)' \/ InUse(b) \/ b \in dropped'
             /\ Enq(t, b) => Enq(t, b)'
  BY <1>0, <1>3, <1>4 DEF Own, Enq, New, Has, Linker, CandAt, NewAt, NamedAt, HoldAt
<1>9. /\ (Counted(t)' <=> Counted(t)) /\ (Counted(t) => loc'[t].block = loc[t].block)
      /\ pc[t] \in HoldAt => pc'[t] \in HoldAt /\ loc'[t].buf = loc[t].buf
      /\ pc[t] \notin {"bwrite", "pin"} /\ dropped \subseteq dropped'
  BY <1>0, <1>3, <1>4, <1>5 DEF Counted, HoldAt
<1> QED
  BY <1>5, <1>6, <1>7, <1>8, <1>9, StepKeeps

LEMMA GetEvictFails ==
  ASSUME IInv, NEW t \in Threads, At(t, "evict"), CASFails(t, loc[t].victim, loc[t].expect, "dequeue"),
         Set(t, "cand", NoBuf),
         dropped' = IF hashtable[loc[t].victim].idx = loc[t].cand
                    THEN dropped ELSE dropped \cup {loc[t].cand},
         UNCHANGED <<queueVars, bufVars, diskVars, pinned, mapped, leaked, ops>>
  PROVE  IInv'
<1>0. pc[t] = "evict" /\ Goto(t, "dequeue")
  BY DEF At, CASFails
<1>1. TypeOK /\ BgetOK(t) /\ PhaseOK(t) /\ UserOK(t)
  BY Mine
<1>2. NoBuf \in Bufs
  BY Constants
<1>3. /\ loc' \in [Threads -> Locals]
      /\ loc'[t].cand = NoBuf
      /\ loc'[t].block = loc[t].block /\ loc'[t].rc = loc[t].rc /\ loc'[t].victim = loc[t].victim
      /\ loc'[t].expect = loc[t].expect /\ loc'[t].buf = loc[t].buf
      /\ \A u \in Threads : u # t => loc'[u] = loc[u]
  BY <1>1, <1>2, Set_cand DEF At, CASFails
<1>4. /\ pc' \in [Threads -> Labels] /\ pc'[t] = "dequeue"
      /\ \A u \in Threads : u # t => pc'[u] = pc[u]
  BY <1>0, <1>1, GotoIs DEF Labels
<1>b. dropped' \subseteq Buffers
  BY <1>0, <1>1, Mine, Constants DEF BgetOK, CandAt
<1>5. StepsIn(t) /\ dropped' \subseteq Buffers /\ ops' = ops
  BY <1>3, <1>4, <1>b DEF StepsIn, Others, At, CASFails, queueVars, bufVars, diskVars, pinVars
<1>6. TypeOK'
  BY <1>1, <1>3, <1>4, <1>5, Mine, StepType
<1>a. ASSUME hashtable[loc[t].victim].idx = loc[t].cand PROVE InUse(loc[t].cand)
  <2>1. loc[t].cand # NoBuf /\ loc[t].expect = RefIdx(0, loc[t].cand)
    BY <1>a, <1>0, <1>1, Mine DEF BgetOK, CandAt, RefIdxs, RefIdx
  <2>2. hashtable[loc[t].victim] # RefIdx(0, loc[t].cand) /\ loc[t].victim \in Keys
    BY <2>1, Mine DEF CASFails
  <2>3. hashtable[loc[t].victim].ref # 0 /\ hashtable[loc[t].victim] \in RefIdxs
    BY <2>2, <1>a, Mine DEF RefIdxs, RefIdx
  <2>4. loc[t].victim # 0
    BY <2>1, <1>a DEF IInv, Table, RefIdx
  <2>5. loc[t].victim \in Blocks
    BY <2>2, <2>4, Constants
  <2>6. hashtable[loc[t].victim].ref > 0
    BY <2>3, Constants DEF RefIdxs
  <2> QED BY <2>5, <2>6, <1>a DEF InUse
<1>7. ThreadOK(t)'
  <2>1. BgetOK(t)'
    BY <1>0, <1>1, <1>3, <1>4, <1>5 DEF BgetOK, CandAt, FreshAt, StepsIn
  <2>2. PhaseOK(t)'
    BY <1>0, <1>1, <1>3, <1>4, <1>5 DEF PhaseOK, BgetOK, CandAt, StepsIn
  <2>3. UserOK(t)'
    BY <1>0, <1>1, <1>3, <1>4, <1>5 DEF UserOK, Counted, Target, HoldAt, NamedAt, FilledAt, StepsIn
  <2> QED BY <2>1, <2>2, <2>3 DEF ThreadOK
<1>8. \A b \in Buffers :
        /\ (Own(t, b)' => Own(t, b)) /\ (Enq(t, b)' => Enq(t, b))
        /\ (New(t, b)' <=> New(t, b)) /\ (Has(t, b)' <=> Has(t, b))
        /\ (Linker(t, b)' <=> Linker(t, b))
        /\ ~(pc[t] = "unclaim" /\ loc[t].cand = b)
        /\ phase[b] = "out" => 
             /\ Own(t, b) => Own(t, b)' \/ InUse(b) \/ b \in dropped'
             /\ Enq(t, b) => Enq(t, b)'
  BY <1>0, <1>3, <1>4, <1>a DEF Own, Enq, New, Has, Linker, CandAt, NewAt, NamedAt, HoldAt
<1>9. /\ (Counted(t)' <=> Counted(t)) /\ (Counted(t) => loc'[t].block = loc[t].block)
      /\ pc[t] \in HoldAt => pc'[t] \in HoldAt /\ loc'[t].buf = loc[t].buf
      /\ pc[t] \notin {"bwrite", "pin"} /\ dropped \subseteq dropped'
  BY <1>0, <1>3, <1>4, <1>5 DEF Counted, HoldAt
<1> QED
  BY <1>5, <1>6, <1>7, <1>8, <1>9, StepKeeps

LEMMA GetInstallFails ==
  ASSUME IInv, NEW t \in Threads, At(t, "install"), CASFails(t, loc[t].block, loc[t].rc, "get"),
         UNCHANGED <<queueVars, bufVars, diskVars, pinVars, loc, ops>>
  PROVE  IInv'
<1>0. pc[t] = "install" /\ Goto(t, "get")
  BY DEF At, CASFails
<1>1. TypeOK /\ BgetOK(t) /\ PhaseOK(t) /\ UserOK(t)
  BY Mine
<1>3. loc' = loc /\ loc' \in [Threads -> Locals]
  BY <1>1 DEF At, CASFails, TypeOK
<1>4. /\ pc' \in [Threads -> Labels] /\ pc'[t] = "get"
      /\ \A u \in Threads : u # t => pc'[u] = pc[u]
  BY <1>0, <1>1, GotoIs DEF Labels
<1>5. StepsIn(t) /\ dropped' = dropped /\ ops' = ops
  BY <1>3, <1>4 DEF StepsIn, Others, At, CASFails, queueVars, bufVars, diskVars, pinVars
<1>6. TypeOK'
  BY <1>1, <1>3, <1>4, <1>5, Mine, StepType
<1>7. ThreadOK(t)'
  <2>1. BgetOK(t)'
    BY <1>0, <1>1, <1>3, <1>4, <1>5 DEF BgetOK, CandAt, FreshAt, StepsIn
  <2>2. PhaseOK(t)'
    BY <1>0, <1>1, <1>3, <1>4, <1>5 DEF PhaseOK, BgetOK, CandAt, StepsIn
  <2>3. UserOK(t)'
    BY <1>0, <1>1, <1>3, <1>4, <1>5 DEF UserOK, Counted, Target, HoldAt, NamedAt, FilledAt, StepsIn
  <2> QED BY <2>1, <2>2, <2>3 DEF ThreadOK
<1>8. \A b \in Buffers :
        /\ (Own(t, b)' => Own(t, b)) /\ (Enq(t, b)' => Enq(t, b))
        /\ (New(t, b)' <=> New(t, b)) /\ (Has(t, b)' <=> Has(t, b))
        /\ (Linker(t, b)' <=> Linker(t, b))
        /\ ~(pc[t] = "unclaim" /\ loc[t].cand = b)
        /\ phase[b] = "out" => 
             /\ Own(t, b) => Own(t, b)' \/ InUse(b) \/ b \in dropped'
             /\ Enq(t, b) => Enq(t, b)'
  BY <1>0, <1>3, <1>4 DEF Own, Enq, New, Has, Linker, CandAt, NewAt, NamedAt, HoldAt
<1>9. /\ (Counted(t)' <=> Counted(t)) /\ (Counted(t) => loc'[t].block = loc[t].block)
      /\ pc[t] \in HoldAt => pc'[t] \in HoldAt /\ loc'[t].buf = loc[t].buf
      /\ pc[t] \notin {"bwrite", "pin"} /\ dropped \subseteq dropped'
  BY <1>0, <1>3, <1>4, <1>5 DEF Counted, HoldAt
<1> QED
  BY <1>5, <1>6, <1>7, <1>8, <1>9, StepKeeps

LEMMA RelClaimFails ==
  ASSUME IInv, NEW t \in Threads, At(t, "enqueue"), phase[loc[t].buf] # "out", Goto(t, "done"),
         UNCHANGED <<queueVars, hashtable, bufVars, diskVars, pinVars, loc, ops>>
  PROVE  IInv'
<1>0. pc[t] = "enqueue" /\ Goto(t, "done")
  BY DEF At
<1>1. TypeOK /\ BgetOK(t) /\ PhaseOK(t) /\ UserOK(t)
  BY Mine
<1>3. loc' = loc /\ loc' \in [Threads -> Locals]
  BY <1>1 DEF At, TypeOK
<1>4. /\ pc' \in [Threads -> Labels] /\ pc'[t] = "done"
      /\ \A u \in Threads : u # t => pc'[u] = pc[u]
  BY <1>0, <1>1, GotoIs DEF Labels
<1>5. StepsIn(t) /\ dropped' = dropped /\ ops' = ops
  BY <1>3, <1>4 DEF StepsIn, Others, At, queueVars, bufVars, diskVars, pinVars
<1>6. TypeOK'
  BY <1>1, <1>3, <1>4, <1>5, Mine, StepType
<1>7. ThreadOK(t)'
  <2>1. BgetOK(t)'
    BY <1>0, <1>1, <1>3, <1>4, <1>5 DEF BgetOK, CandAt, FreshAt, StepsIn
  <2>2. PhaseOK(t)'
    BY <1>0, <1>1, <1>3, <1>4, <1>5 DEF PhaseOK, BgetOK, CandAt, StepsIn
  <2>3. UserOK(t)'
    BY <1>0, <1>1, <1>3, <1>4, <1>5 DEF UserOK, Counted, Target, HoldAt, NamedAt, FilledAt, StepsIn
  <2> QED BY <2>1, <2>2, <2>3 DEF ThreadOK
<1>8. \A b \in Buffers :
        /\ (Own(t, b)' => Own(t, b)) /\ (Enq(t, b)' => Enq(t, b))
        /\ (New(t, b)' <=> New(t, b)) /\ (Has(t, b)' <=> Has(t, b))
        /\ (Linker(t, b)' <=> Linker(t, b))
        /\ ~(pc[t] = "unclaim" /\ loc[t].cand = b)
        /\ phase[b] = "out" => 
             /\ Own(t, b) => Own(t, b)' \/ InUse(b) \/ b \in dropped'
             /\ Enq(t, b) => Enq(t, b)'
  BY <1>0, <1>3, <1>4 DEF Own, Enq, New, Has, Linker, CandAt, NewAt, NamedAt, HoldAt
<1>9. /\ (Counted(t)' <=> Counted(t)) /\ (Counted(t) => loc'[t].block = loc[t].block)
      /\ pc[t] \in HoldAt => pc'[t] \in HoldAt /\ loc'[t].buf = loc[t].buf
      /\ pc[t] \notin {"bwrite", "pin"} /\ dropped \subseteq dropped'
  BY <1>0, <1>3, <1>4, <1>5 DEF Counted, HoldAt
<1> QED
  BY <1>5, <1>6, <1>7, <1>8, <1>9, StepKeeps

LEMMA UseReadKeeps ==
  ASSUME IInv, NEW t \in Threads, UseRead(t)
  PROVE  IInv'
<1>0. pc[t] = "use" /\ Goto(t, "release")
  BY DEF UseRead, Use, At
<1>1. TypeOK /\ BgetOK(t) /\ PhaseOK(t) /\ UserOK(t)
  BY Mine
<1>3. loc' = loc /\ loc' \in [Threads -> Locals]
  BY <1>1 DEF UseRead, Use, At, TypeOK
<1>4. /\ pc' \in [Threads -> Labels] /\ pc'[t] = "release"
      /\ \A u \in Threads : u # t => pc'[u] = pc[u]
  BY <1>0, <1>1, GotoIs DEF Labels
<1>5. StepsIn(t) /\ dropped' = dropped /\ ops' = ops
  BY <1>3, <1>4 DEF StepsIn, Others, UseRead, Use, At, queueVars, bufVars, diskVars, pinVars
<1>6. TypeOK'
  BY <1>1, <1>3, <1>4, <1>5, Mine, StepType
<1>7. ThreadOK(t)'
  <2>1. BgetOK(t)'
    BY <1>0, <1>1, <1>3, <1>4, <1>5 DEF BgetOK, CandAt, FreshAt, StepsIn
  <2>2. PhaseOK(t)'
    BY <1>0, <1>1, <1>3, <1>4, <1>5 DEF PhaseOK, BgetOK, CandAt, StepsIn
  <2>3. UserOK(t)'
    BY <1>0, <1>1, <1>3, <1>4, <1>5 DEF UserOK, Counted, Target, HoldAt, NamedAt, FilledAt, StepsIn
  <2> QED BY <2>1, <2>2, <2>3 DEF ThreadOK
<1>8. \A b \in Buffers :
        /\ (Own(t, b)' => Own(t, b)) /\ (Enq(t, b)' => Enq(t, b))
        /\ (New(t, b)' <=> New(t, b)) /\ (Has(t, b)' <=> Has(t, b))
        /\ (Linker(t, b)' <=> Linker(t, b))
        /\ ~(pc[t] = "unclaim" /\ loc[t].cand = b)
        /\ phase[b] = "out" => 
             /\ Own(t, b) => Own(t, b)' \/ InUse(b) \/ b \in dropped'
             /\ Enq(t, b) => Enq(t, b)'
  BY <1>0, <1>3, <1>4 DEF Own, Enq, New, Has, Linker, CandAt, NewAt, NamedAt, HoldAt
<1>9. /\ (Counted(t)' <=> Counted(t)) /\ (Counted(t) => loc'[t].block = loc[t].block)
      /\ pc[t] \in HoldAt => pc'[t] \in HoldAt /\ loc'[t].buf = loc[t].buf
      /\ pc[t] \notin {"bwrite", "pin"} /\ dropped \subseteq dropped'
  BY <1>0, <1>3, <1>4, <1>5 DEF Counted, HoldAt
<1> QED
  BY <1>5, <1>6, <1>7, <1>8, <1>9, StepKeeps

LEMMA UseInstallKeeps ==
  ASSUME IInv, NEW t \in Threads, UseInstall(t)
  PROVE  IInv'
<1>0. pc[t] = "use" /\ Goto(t, "bwrite_unpin")
  BY DEF UseInstall, Use, At
<1>1. TypeOK /\ BgetOK(t) /\ PhaseOK(t) /\ UserOK(t)
  BY Mine
<1>3. loc' = loc /\ loc' \in [Threads -> Locals]
  BY <1>1 DEF UseInstall, Use, At, TypeOK
<1>4. /\ pc' \in [Threads -> Labels] /\ pc'[t] = "bwrite_unpin"
      /\ \A u \in Threads : u # t => pc'[u] = pc[u]
  BY <1>0, <1>1, GotoIs DEF Labels
<1>5. StepsIn(t) /\ dropped' = dropped /\ ops' = ops
  BY <1>3, <1>4 DEF StepsIn, Others, UseInstall, Use, At, queueVars, bufVars, diskVars, pinVars
<1>6. TypeOK'
  BY <1>1, <1>3, <1>4, <1>5, Mine, StepType
<1>7. ThreadOK(t)'
  <2>1. BgetOK(t)'
    BY <1>0, <1>1, <1>3, <1>4, <1>5 DEF BgetOK, CandAt, FreshAt, StepsIn
  <2>2. PhaseOK(t)'
    BY <1>0, <1>1, <1>3, <1>4, <1>5 DEF PhaseOK, BgetOK, CandAt, StepsIn
  <2>3. UserOK(t)'
    BY <1>0, <1>1, <1>3, <1>4, <1>5 DEF UseInstall, UserOK, Counted, Target, HoldAt, NamedAt, FilledAt, StepsIn
  <2> QED BY <2>1, <2>2, <2>3 DEF ThreadOK
<1>8. \A b \in Buffers :
        /\ (Own(t, b)' => Own(t, b)) /\ (Enq(t, b)' => Enq(t, b))
        /\ (New(t, b)' <=> New(t, b)) /\ (Has(t, b)' <=> Has(t, b))
        /\ (Linker(t, b)' <=> Linker(t, b))
        /\ ~(pc[t] = "unclaim" /\ loc[t].cand = b)
        /\ phase[b] = "out" => 
             /\ Own(t, b) => Own(t, b)' \/ InUse(b) \/ b \in dropped'
             /\ Enq(t, b) => Enq(t, b)'
  BY <1>0, <1>3, <1>4 DEF Own, Enq, New, Has, Linker, CandAt, NewAt, NamedAt, HoldAt
<1>9. /\ (Counted(t)' <=> Counted(t)) /\ (Counted(t) => loc'[t].block = loc[t].block)
      /\ pc[t] \in HoldAt => pc'[t] \in HoldAt /\ loc'[t].buf = loc[t].buf
      /\ pc[t] \notin {"bwrite", "pin"} /\ dropped \subseteq dropped'
  BY <1>0, <1>3, <1>4, <1>5 DEF Counted, HoldAt
<1> QED
  BY <1>5, <1>6, <1>7, <1>8, <1>9, StepKeeps

LEMMA UseMapKeeps ==
  ASSUME IInv, NEW t \in Threads, UseMap(t)
  PROVE  IInv'
<1>0. pc[t] = "use" /\ Goto(t, "pin_map")
  BY DEF UseMap, Use, At
<1>1. TypeOK /\ BgetOK(t) /\ PhaseOK(t) /\ UserOK(t)
  BY Mine
<1>3. loc' = loc /\ loc' \in [Threads -> Locals]
  BY <1>1 DEF UseMap, Use, At, TypeOK
<1>4. /\ pc' \in [Threads -> Labels] /\ pc'[t] = "pin_map"
      /\ \A u \in Threads : u # t => pc'[u] = pc[u]
  BY <1>0, <1>1, GotoIs DEF Labels
<1>5. StepsIn(t) /\ dropped' = dropped /\ ops' = ops
  BY <1>3, <1>4 DEF StepsIn, Others, UseMap, Use, At, queueVars, bufVars, diskVars, pinVars
<1>6. TypeOK'
  BY <1>1, <1>3, <1>4, <1>5, Mine, StepType
<1>7. ThreadOK(t)'
  <2>1. BgetOK(t)'
    BY <1>0, <1>1, <1>3, <1>4, <1>5 DEF BgetOK, CandAt, FreshAt, StepsIn
  <2>2. PhaseOK(t)'
    BY <1>0, <1>1, <1>3, <1>4, <1>5 DEF PhaseOK, BgetOK, CandAt, StepsIn
  <2>3. UserOK(t)'
    BY <1>0, <1>1, <1>3, <1>4, <1>5 DEF UseMap, UserOK, Counted, Target, HoldAt, NamedAt, FilledAt, StepsIn
  <2> QED BY <2>1, <2>2, <2>3 DEF ThreadOK
<1>8. \A b \in Buffers :
        /\ (Own(t, b)' => Own(t, b)) /\ (Enq(t, b)' => Enq(t, b))
        /\ (New(t, b)' <=> New(t, b)) /\ (Has(t, b)' <=> Has(t, b))
        /\ (Linker(t, b)' <=> Linker(t, b))
        /\ ~(pc[t] = "unclaim" /\ loc[t].cand = b)
        /\ phase[b] = "out" => 
             /\ Own(t, b) => Own(t, b)' \/ InUse(b) \/ b \in dropped'
             /\ Enq(t, b) => Enq(t, b)'
  BY <1>0, <1>3, <1>4 DEF Own, Enq, New, Has, Linker, CandAt, NewAt, NamedAt, HoldAt
<1>9. /\ (Counted(t)' <=> Counted(t)) /\ (Counted(t) => loc'[t].block = loc[t].block)
      /\ pc[t] \in HoldAt => pc'[t] \in HoldAt /\ loc'[t].buf = loc[t].buf
      /\ pc[t] \notin {"bwrite", "pin"} /\ dropped \subseteq dropped'
  BY <1>0, <1>3, <1>4, <1>5 DEF Counted, HoldAt
<1> QED
  BY <1>5, <1>6, <1>7, <1>8, <1>9, StepKeeps

LEMMA RelBlockKeeps ==
  ASSUME IInv, NEW t \in Threads, RelBlock(t)
  PROVE  IInv'
<1>0. pc[t] = "rel_block" /\ Goto(t, "rel_read")
  BY DEF RelBlock, At
<1>1. TypeOK /\ BgetOK(t) /\ PhaseOK(t) /\ UserOK(t)
  BY Mine
<1>2. blockno[loc[t].buf] \in Keys
  BY <1>0, <1>1, Mine, Constants DEF UserOK, NamedAt
<1>3. /\ loc' \in [Threads -> Locals]
      /\ loc'[t].victim = blockno[loc[t].buf]
      /\ loc'[t].block = loc[t].block /\ loc'[t].rc = loc[t].rc /\ loc'[t].cand = loc[t].cand
      /\ loc'[t].expect = loc[t].expect /\ loc'[t].buf = loc[t].buf
      /\ \A u \in Threads : u # t => loc'[u] = loc[u]
  BY <1>1, <1>2, Set_victim DEF RelBlock, At
<1>4. /\ pc' \in [Threads -> Labels] /\ pc'[t] = "rel_read"
      /\ \A u \in Threads : u # t => pc'[u] = pc[u]
  BY <1>0, <1>1, GotoIs DEF Labels
<1>5. StepsIn(t) /\ dropped' = dropped /\ ops' = ops
  BY <1>3, <1>4 DEF StepsIn, Others, RelBlock, At, queueVars, bufVars, diskVars, pinVars
<1>6. TypeOK'
  BY <1>1, <1>3, <1>4, <1>5, Mine, StepType
<1>7. ThreadOK(t)'
  <2>1. BgetOK(t)'
    BY <1>0, <1>1, <1>3, <1>4, <1>5 DEF BgetOK, CandAt, FreshAt, StepsIn
  <2>2. PhaseOK(t)'
    BY <1>0, <1>1, <1>3, <1>4, <1>5 DEF PhaseOK, BgetOK, CandAt, StepsIn
  <2>3. UserOK(t)'
    BY <1>0, <1>1, <1>3, <1>4, <1>5 DEF UserOK, Counted, Target, HoldAt, NamedAt, FilledAt, StepsIn
  <2> QED BY <2>1, <2>2, <2>3 DEF ThreadOK
<1>8. \A b \in Buffers :
        /\ (Own(t, b)' => Own(t, b)) /\ (Enq(t, b)' => Enq(t, b))
        /\ (New(t, b)' <=> New(t, b)) /\ (Has(t, b)' <=> Has(t, b))
        /\ (Linker(t, b)' <=> Linker(t, b))
        /\ ~(pc[t] = "unclaim" /\ loc[t].cand = b)
        /\ phase[b] = "out" => 
             /\ Own(t, b) => Own(t, b)' \/ InUse(b) \/ b \in dropped'
             /\ Enq(t, b) => Enq(t, b)'
  BY <1>0, <1>3, <1>4 DEF Own, Enq, New, Has, Linker, CandAt, NewAt, NamedAt, HoldAt
<1>9. /\ (Counted(t)' <=> Counted(t)) /\ (Counted(t) => loc'[t].block = loc[t].block)
      /\ pc[t] \in HoldAt => pc'[t] \in HoldAt /\ loc'[t].buf = loc[t].buf
      /\ pc[t] \notin {"bwrite", "pin"} /\ dropped \subseteq dropped'
  BY <1>0, <1>3, <1>4, <1>5 DEF Counted, HoldAt
<1> QED
  BY <1>5, <1>6, <1>7, <1>8, <1>9, StepKeeps

LEMMA RelReadKeeps ==
  ASSUME IInv, NEW t \in Threads, RelRead(t)
  PROVE  IInv'
<1>0. pc[t] = "rel_read" /\ Goto(t, "rel_count")
  BY DEF RelRead, At
<1>1. TypeOK /\ BgetOK(t) /\ PhaseOK(t) /\ UserOK(t)
  BY Mine
<1>2. hashtable[loc[t].victim] \in RefIdxs
  BY Mine
<1>3. /\ loc' \in [Threads -> Locals]
      /\ loc'[t].rc = hashtable[loc[t].victim]
      /\ loc'[t].block = loc[t].block /\ loc'[t].cand = loc[t].cand /\ loc'[t].victim = loc[t].victim
      /\ loc'[t].expect = loc[t].expect /\ loc'[t].buf = loc[t].buf
      /\ \A u \in Threads : u # t => loc'[u] = loc[u]
  BY <1>1, <1>2, Set_rc DEF RelRead, At
<1>4. /\ pc' \in [Threads -> Labels] /\ pc'[t] = "rel_count"
      /\ \A u \in Threads : u # t => pc'[u] = pc[u]
  BY <1>0, <1>1, GotoIs DEF Labels
<1>5. StepsIn(t) /\ dropped' = dropped /\ ops' = ops
  BY <1>3, <1>4 DEF StepsIn, Others, RelRead, At, queueVars, bufVars, diskVars, pinVars
<1>6. TypeOK'
  BY <1>1, <1>3, <1>4, <1>5, Mine, StepType
<1>7. ThreadOK(t)'
  <2>1. BgetOK(t)'
    BY <1>0, <1>1, <1>3, <1>4, <1>5 DEF BgetOK, CandAt, FreshAt, StepsIn
  <2>2. PhaseOK(t)'
    BY <1>0, <1>1, <1>3, <1>4, <1>5 DEF PhaseOK, BgetOK, CandAt, StepsIn
  <2>3. UserOK(t)'
    BY <1>0, <1>1, <1>3, <1>4, <1>5 DEF UserOK, Counted, Target, HoldAt, NamedAt, FilledAt, StepsIn
  <2> QED BY <2>1, <2>2, <2>3 DEF ThreadOK
<1>8. \A b \in Buffers :
        /\ (Own(t, b)' => Own(t, b)) /\ (Enq(t, b)' => Enq(t, b))
        /\ (New(t, b)' <=> New(t, b)) /\ (Has(t, b)' <=> Has(t, b))
        /\ (Linker(t, b)' <=> Linker(t, b))
        /\ ~(pc[t] = "unclaim" /\ loc[t].cand = b)
        /\ phase[b] = "out" => 
             /\ Own(t, b) => Own(t, b)' \/ InUse(b) \/ b \in dropped'
             /\ Enq(t, b) => Enq(t, b)'
  BY <1>0, <1>3, <1>4 DEF Own, Enq, New, Has, Linker, CandAt, NewAt, NamedAt, HoldAt
<1>9. /\ (Counted(t)' <=> Counted(t)) /\ (Counted(t) => loc'[t].block = loc[t].block)
      /\ pc[t] \in HoldAt => pc'[t] \in HoldAt /\ loc'[t].buf = loc[t].buf
      /\ pc[t] \notin {"bwrite", "pin"} /\ dropped \subseteq dropped'
  BY <1>0, <1>3, <1>4, <1>5 DEF Counted, HoldAt
<1> QED
  BY <1>5, <1>6, <1>7, <1>8, <1>9, StepKeeps

LEMMA RelCountFails ==
  ASSUME IInv, NEW t \in Threads, At(t, "rel_count"), CASFails(t, loc[t].victim, loc[t].rc, Retry),
         UNCHANGED <<queueVars, bufVars, diskVars, pinVars, loc, ops>>
  PROVE  IInv'
<1>0. pc[t] = "rel_count" /\ Goto(t, "rel_read")
  BY DEF At, CASFails, Retry
<1>1. TypeOK /\ BgetOK(t) /\ PhaseOK(t) /\ UserOK(t)
  BY Mine
<1>3. loc' = loc /\ loc' \in [Threads -> Locals]
  BY <1>1 DEF At, CASFails, Retry, TypeOK
<1>4. /\ pc' \in [Threads -> Labels] /\ pc'[t] = "rel_read"
      /\ \A u \in Threads : u # t => pc'[u] = pc[u]
  BY <1>0, <1>1, GotoIs DEF Labels
<1>5. StepsIn(t) /\ dropped' = dropped /\ ops' = ops
  BY <1>3, <1>4 DEF StepsIn, Others, At, CASFails, Retry, queueVars, bufVars, diskVars, pinVars
<1>6. TypeOK'
  BY <1>1, <1>3, <1>4, <1>5, Mine, StepType
<1>7. ThreadOK(t)'
  <2>1. BgetOK(t)'
    BY <1>0, <1>1, <1>3, <1>4, <1>5 DEF BgetOK, CandAt, FreshAt, StepsIn
  <2>2. PhaseOK(t)'
    BY <1>0, <1>1, <1>3, <1>4, <1>5 DEF PhaseOK, BgetOK, CandAt, StepsIn
  <2>3. UserOK(t)'
    BY <1>0, <1>1, <1>3, <1>4, <1>5 DEF UserOK, Counted, Target, HoldAt, NamedAt, FilledAt, StepsIn
  <2> QED BY <2>1, <2>2, <2>3 DEF ThreadOK
<1>8. \A b \in Buffers :
        /\ (Own(t, b)' => Own(t, b)) /\ (Enq(t, b)' => Enq(t, b))
        /\ (New(t, b)' <=> New(t, b)) /\ (Has(t, b)' <=> Has(t, b))
        /\ (Linker(t, b)' <=> Linker(t, b))
        /\ ~(pc[t] = "unclaim" /\ loc[t].cand = b)
        /\ phase[b] = "out" => 
             /\ Own(t, b) => Own(t, b)' \/ InUse(b) \/ b \in dropped'
             /\ Enq(t, b) => Enq(t, b)'
  BY <1>0, <1>3, <1>4 DEF Own, Enq, New, Has, Linker, CandAt, NewAt, NamedAt, HoldAt
<1>9. /\ (Counted(t)' <=> Counted(t)) /\ (Counted(t) => loc'[t].block = loc[t].block)
      /\ pc[t] \in HoldAt => pc'[t] \in HoldAt /\ loc'[t].buf = loc[t].buf
      /\ pc[t] \notin {"bwrite", "pin"} /\ dropped \subseteq dropped'
  BY <1>0, <1>3, <1>4, <1>5 DEF Counted, HoldAt
<1> QED
  BY <1>5, <1>6, <1>7, <1>8, <1>9, StepKeeps

LEMMA RelDoneKeeps ==
  ASSUME IInv, NEW t \in Threads, RelDone(t)
  PROVE  IInv'
<1>0. pc[t] = "done" /\ Goto(t, "idle")
  BY DEF RelDone, At
<1>1. TypeOK /\ BgetOK(t) /\ PhaseOK(t) /\ UserOK(t)
  BY Mine
<1>3. /\ loc' \in [Threads -> Locals] /\ loc'[t] = NoLocals
      /\ \A u \in Threads : u # t => loc'[u] = loc[u]
  BY <1>1, Constants, LocIs DEF RelDone, At
<1>4. /\ pc' \in [Threads -> Labels] /\ pc'[t] = "idle"
      /\ \A u \in Threads : u # t => pc'[u] = pc[u]
  BY <1>0, <1>1, GotoIs DEF Labels
<1>5. StepsIn(t) /\ dropped' = dropped /\ ops' = ops
  BY <1>3, <1>4 DEF StepsIn, Others, RelDone, At, queueVars, bufVars, diskVars, pinVars
<1>6. TypeOK'
  BY <1>1, <1>3, <1>4, <1>5, Mine, StepType
<1>7. ThreadOK(t)'
  <2>1. BgetOK(t)'
    BY <1>0, <1>1, <1>3, <1>4, <1>5 DEF NoLocals, BgetOK, CandAt, FreshAt, StepsIn
  <2>2. PhaseOK(t)'
    BY <1>0, <1>1, <1>3, <1>4, <1>5 DEF PhaseOK, BgetOK, CandAt, StepsIn
  <2>3. UserOK(t)'
    BY <1>0, <1>1, <1>3, <1>4, <1>5 DEF UserOK, Counted, Target, HoldAt, NamedAt, FilledAt, StepsIn
  <2> QED BY <2>1, <2>2, <2>3 DEF ThreadOK
<1>8. \A b \in Buffers :
        /\ (Own(t, b)' => Own(t, b)) /\ (Enq(t, b)' => Enq(t, b))
        /\ (New(t, b)' <=> New(t, b)) /\ (Has(t, b)' <=> Has(t, b))
        /\ (Linker(t, b)' <=> Linker(t, b))
        /\ ~(pc[t] = "unclaim" /\ loc[t].cand = b)
        /\ phase[b] = "out" => 
             /\ Own(t, b) => Own(t, b)' \/ InUse(b) \/ b \in dropped'
             /\ Enq(t, b) => Enq(t, b)'
  BY <1>0, <1>3, <1>4 DEF Own, Enq, New, Has, Linker, CandAt, NewAt, NamedAt, HoldAt
<1>9. /\ (Counted(t)' <=> Counted(t)) /\ (Counted(t) => loc'[t].block = loc[t].block)
      /\ pc[t] \in HoldAt => pc'[t] \in HoldAt /\ loc'[t].buf = loc[t].buf
      /\ pc[t] \notin {"bwrite", "pin"} /\ dropped \subseteq dropped'
  BY <1>0, <1>3, <1>4, <1>5 DEF Counted, HoldAt
<1> QED
  BY <1>5, <1>6, <1>7, <1>8, <1>9, StepKeeps

-----------------------------------------------------------------------------
(* The steps of the queue *)

QueueStep(t) ==
  /\ Others(t)
  /\ UNCHANGED <<hashtable, bufVars, diskVars, pinVars, ops>>

\* Another thread is not affected when the queue takes or gives a buffer that is not its own.
LEMMA QueueOthers ==
  ASSUME IInv, NEW t \in Threads, QueueStep(t), NEW b \in Buffers,
         \A c \in Buffers : c # b => phase'[c] = phase[c],
         NEW u \in Threads, u # t, ~Own(u, b), ~(pc[u] = "enqueue_link" /\ loc[u].buf = b)
  PROVE  ThreadOK(u)'
<1>1. ThreadOK(u) /\ pc'[u] = pc[u] /\ loc'[u] = loc[u] /\ TypeOK
  BY DEF QueueStep, Others, IInv, Threaded
<1>2. loc[u].cand \in Bufs /\ loc[u].buf \in Bufs
  BY Mine
<1>3. Own(u, loc[u].cand) => phase'[loc[u].cand] = phase[loc[u].cand]
  BY <1>2, Constants DEF Own
<1>4. pc[u] = "enqueue_link" => phase'[loc[u].buf] = phase[loc[u].buf]
  BY <1>1, <1>2, Constants DEF ThreadOK, UserOK
<1> QED BY <1>1, <1>3, <1>4, OtherOK DEF QueueStep, bufVars, diskVars, pinVars

\* The buffers that are not the one of the step, in the queue's invariant.
LEMMA LostOthers ==
  ASSUME IInv, NEW t \in Threads, QueueStep(t), NEW b \in Buffers,
         phase'[b] = "out" => Own(t, b)' \/ Enq(t, b)',
         \A c \in Buffers : c # b =>
           /\ phase'[c] = phase[c]
           /\ Own(t, c) => Own(t, c)'
           /\ Enq(t, c) => Enq(t, c)'
  PROVE  LostOK'
<1> SUFFICES ASSUME NEW c \in Buffers, phase'[c] = "out"
             PROVE  \/ \E u \in Threads : Own(u, c)' \/ Enq(u, c)'
                    \/ InUse(c) \/ c \in leaked \cup dropped
  BY DEF LostOK, InUse, QueueStep, pinVars
<1>1. CASE c = b
  BY <1>1
<1>2. CASE c # b
  <2>1. \A u \in Threads : u # t => (Own(u, c)' <=> Own(u, c)) /\ (Enq(u, c)' <=> Enq(u, c))
    BY DEF QueueStep, Others, Own, Enq
  <2> QED BY <1>2, <2>1 DEF IInv, LostOK
<1> QED BY <1>1, <1>2

\* The claim of enqueue, of bget's candidate or of brelse's buffer.
LEMMA ClaimKeeps ==
  ASSUME IInv, NEW t \in Threads, NEW b \in Buffers, Q!Claim(b),
         \/ Own(t, b) /\ pc[t] = "putback" /\ Goto(t, "putback_link")
         \/ Enq(t, b) /\ pc[t] = "enqueue" /\ Goto(t, "enqueue_link"),
         UNCHANGED <<hashtable, bufVars, diskVars, pinVars, loc, ops>>
  PROVE  IInv'
<1>1. TypeOK /\ BgetOK(t) /\ PhaseOK(t) /\ UserOK(t)
  BY Mine
<1>2. /\ phase[b] = "out" /\ phase' \in [Buffers -> Q!Phases] /\ queue' = queue
      /\ phase'[b] = "linking" /\ \A c \in Buffers : c # b => phase'[c] = phase[c]
  BY <1>1 DEF TypeOK, Q!Claim, Q!Phases
<1>3. /\ pc' \in [Threads -> Labels] /\ loc' = loc
      /\ \/ pc[t] = "putback" /\ pc'[t] = "putback_link" /\ loc[t].cand = b
         \/ pc[t] = "enqueue" /\ pc'[t] = "enqueue_link" /\ loc[t].buf = b
      /\ \A u \in Threads : u # t => pc'[u] = pc[u]
  BY <1>1, GotoIs DEF Labels, Own, Enq
<1>4. QueueStep(t)
  BY <1>3 DEF QueueStep, Others
<1>5. TypeOK'
  BY <1>1, <1>2, <1>3, <1>4 DEF TypeOK, QueueStep, bufVars, diskVars, pinVars
<1>6. \A u \in Threads : u # t => ~Own(u, b) /\ ~Linker(u, b)
  <2> SUFFICES ASSUME NEW u \in Threads, u # t PROVE ~Own(u, b) /\ ~Linker(u, b)
    OBVIOUS
  <2>1. ~Own(u, b)
    BY DEF IInv, Threaded, Apart
  <2>2. ~Linker(u, b)
    BY <1>2, Mine DEF Linker, PhaseOK
  <2> QED BY <2>1, <2>2
<1>7. Linker(t, b)' /\ ~Linker(t, b)
  BY <1>3 DEF Linker
<1>8. ThreadOK(t)'
  <2>1. BgetOK(t)'
    BY <1>1, <1>3, <1>4 DEF BgetOK, CandAt, FreshAt, QueueStep, bufVars
  <2>2. PhaseOK(t)'
    BY <1>2, <1>3 DEF PhaseOK, CandAt
  <2>3. UserOK(t)'
    BY <1>1, <1>3, <1>4 DEF UserOK, Counted, Target, HoldAt, NamedAt, FilledAt, QueueStep
  <2> QED BY <2>1, <2>2, <2>3 DEF ThreadOK
<1>9. \A u \in Threads : ThreadOK(u)'
  BY <1>2, <1>4, <1>6, <1>8, QueueOthers DEF Linker
<1>10. \A u, v \in Threads : u # v => Apart(u, v)'
  <2>1. \A c \in Buffers :
          /\ (Own(t, c)' <=> Own(t, c)) /\ (Enq(t, c)' <=> Enq(t, c)) /\ (New(t, c)' <=> New(t, c))
          /\ (Has(t, c)' <=> Has(t, c)) /\ (Linker(t, c)' => Linker(t, c) \/ c = b)
    BY <1>3 DEF Own, Enq, New, Has, Linker, CandAt, NewAt, NamedAt, HoldAt
  <2>2. \A c \in Buffers : \A u \in Threads \ {t} :
           /\ Own(t, c) => ~Own(u, c) /\ ~Enq(u, c)
           /\ Enq(t, c) => ~Own(u, c)
           /\ New(t, c) => ~Has(u, c)
           /\ Has(t, c) => ~New(u, c)
           /\ Linker(t, c) => ~Linker(u, c)
    BY DEF IInv, Threaded, Apart
  <2> QED BY <1>4, <1>6, <2>1, <2>2, ApartKept DEF QueueStep, IInv
<1>11. Queued'
  <2>1. ASSUME NEW c \in Buffers
        PROVE  /\ phase'[c] = "queued" => \E i \in 1..Len(queue) : queue[i] = c
               /\ phase'[c] = "taken" => \E u \in Threads : pc'[u] = "unclaim" /\ loc'[u].cand = c
               /\ phase'[c] = "linking" => \E u \in Threads : Linker(u, c)'
    <3>1. CASE c = b
      BY <3>1, <1>2, <1>7
    <3>2. CASE c # b
      <4>1. /\ phase[c] = "queued" => \E i \in 1..Len(queue) : queue[i] = c
            /\ phase[c] = "taken" => \E u \in Threads : pc[u] = "unclaim" /\ loc[u].cand = c
            /\ phase[c] = "linking" => \E u \in Threads : Linker(u, c)
        BY DEF IInv, Queued
      <4>2. \A u \in Threads : /\ Linker(u, c) => Linker(u, c)'
                               /\ pc[u] = "unclaim" => pc'[u] = "unclaim" /\ loc'[u] = loc[u]
        BY <1>3 DEF Linker
      <4> QED BY <3>2, <1>2, <4>1, <4>2
    <3> QED BY <3>1, <3>2
  <2>2. \A i \in 1..Len(queue) : phase'[queue[i]] = "queued"
    <3> TAKE i \in 1..Len(queue)
    <3>1. queue[i] \in Buffers /\ phase[queue[i]] = "queued"
      BY DEF IInv, Queued, TypeOK
    <3> QED BY <3>1, <1>2
  <2> QED BY <1>2, <2>1, <2>2 DEF IInv, Queued
<1>12. LostOK'
  <2>1. \A c \in Buffers : (Own(t, c) => Own(t, c)') /\ (Enq(t, c) => Enq(t, c)')
    BY <1>3 DEF Own, Enq, CandAt
  <2> QED BY <1>2, <1>4, <2>1, LostOthers
<1>13. Table' /\ Counts' /\ Names' /\ Mapped' /\ Pinned' /\ Locks' /\ DataOK' /\ DiskOK'
  <2>1. /\ Counted(t)' <=> Counted(t)
        /\ pc[t] \notin HoldAt /\ pc[t] \notin {"bwrite", "pin"}
        /\ \A c \in Buffers : New(t, c)' <=> New(t, c)
    BY <1>3 DEF Counted, HoldAt, New, NewAt
  <2> QED BY <1>3, <1>4, <2>1, QuietKeeps DEF QueueStep, bufVars, diskVars, pinVars
<1> QED
  BY <1>5, <1>9, <1>10, <1>11, <1>12, <1>13 DEF IInv, Threaded

\* The link of enqueue.
LEMMA LinkKeeps ==
  ASSUME IInv, NEW t \in Threads, NEW b \in Buffers, Q!Link(b),
         \/ pc[t] = "putback_link" /\ loc[t].cand = b /\ Goto(t, "lock")
         \/ pc[t] = "enqueue_link" /\ loc[t].buf = b /\ Goto(t, "done"),
         UNCHANGED <<hashtable, bufVars, diskVars, pinVars, loc, ops>>
  PROVE  IInv'
<1>1. TypeOK /\ BgetOK(t) /\ PhaseOK(t) /\ UserOK(t)
  BY Mine
<1>2. /\ phase[b] = "linking" /\ phase' \in [Buffers -> Q!Phases] /\ queue' = Append(queue, b)
      /\ phase'[b] = "queued" /\ \A c \in Buffers : c # b => phase'[c] = phase[c]
  BY <1>1 DEF TypeOK, Q!Link, Q!Phases
<1>3. /\ pc' \in [Threads -> Labels] /\ loc' = loc
      /\ \/ pc[t] = "putback_link" /\ pc'[t] = "lock" /\ loc[t].cand = b
         \/ pc[t] = "enqueue_link" /\ pc'[t] = "done" /\ loc[t].buf = b
      /\ \A u \in Threads : u # t => pc'[u] = pc[u]
  BY <1>1, GotoIs DEF Labels
<1>4. QueueStep(t)
  BY <1>3 DEF QueueStep, Others
<1>5. /\ queue \in Seq(Buffers) /\ Len(queue) \in Nat
      /\ queue' \in Seq(Buffers) /\ Len(queue') = Len(queue) + 1 /\ queue'[Len(queue) + 1] = b
      /\ \A i \in 1..Len(queue) : queue'[i] = queue[i] /\ queue[i] \in Buffers
  BY <1>1, <1>2 DEF TypeOK
<1>6. TypeOK'
  BY <1>1, <1>2, <1>3, <1>4, <1>5 DEF TypeOK, QueueStep, bufVars, diskVars, pinVars
<1>7. \A u \in Threads : u # t => ~Linker(u, b)
  <2>1. Linker(t, b)
    BY <1>3 DEF Linker
  <2> QED BY <2>1 DEF IInv, Threaded, Apart
<1>8. \A u \in Threads : u # t => ~Own(u, b) /\ ~(pc[u] = "enqueue_link" /\ loc[u].buf = b)
  <2> TAKE u \in Threads
  <2>1. Own(u, b) => pc[u] = "putback_link"
    BY <1>2, Constants, Mine DEF PhaseOK, Own, CandAt
  <2> QED BY <2>1, <1>7 DEF Linker, Own
<1>9. ThreadOK(t)'
  <2>1. BgetOK(t)'
    BY <1>1, <1>3, <1>4 DEF BgetOK, CandAt, FreshAt, QueueStep, bufVars
  <2>2. PhaseOK(t)'
    BY <1>2, <1>3 DEF PhaseOK, CandAt
  <2>3. UserOK(t)'
    BY <1>1, <1>3, <1>4 DEF UserOK, Counted, Target, HoldAt, NamedAt, FilledAt, QueueStep
  <2> QED BY <2>1, <2>2, <2>3 DEF ThreadOK
<1>10. \A u \in Threads : ThreadOK(u)'
  BY <1>2, <1>4, <1>8, <1>9, QueueOthers
<1>11. \A u, v \in Threads : u # v => Apart(u, v)'
  <2>1. \A c \in Buffers :
          /\ ~Own(t, c)' /\ ~Enq(t, c)' /\ (New(t, c)' <=> New(t, c))
          /\ (Has(t, c)' <=> Has(t, c)) /\ ~Linker(t, c)'
    BY <1>3 DEF Own, Enq, New, Has, Linker, CandAt, NewAt, NamedAt, HoldAt
  <2> QED BY <1>4, <2>1, ApartSame DEF QueueStep, IInv
<1>12. Queued'
  <2>0. /\ Len(queue) >= 1
        /\ \A i, j \in 1..Len(queue) : queue[i] = queue[j] => i = j
        /\ \A i \in 1..Len(queue) : phase[queue[i]] = "queued"
    BY DEF IInv, Queued
  <2>1. ASSUME NEW c \in Buffers
        PROVE  /\ phase'[c] = "queued" => \E i \in 1..Len(queue') : queue'[i] = c
               /\ phase'[c] = "taken" => \E u \in Threads : pc'[u] = "unclaim" /\ loc'[u].cand = c
               /\ phase'[c] = "linking" => \E u \in Threads : Linker(u, c)'
    <3>1. CASE c = b
      BY <3>1, <1>2, <1>5
    <3>2. CASE c # b
      <4>1. /\ phase[c] = "queued" => \E i \in 1..Len(queue) : queue[i] = c
            /\ phase[c] = "taken" => \E u \in Threads : pc[u] = "unclaim" /\ loc[u].cand = c
            /\ phase[c] = "linking" => \E u \in Threads : Linker(u, c)
        BY DEF IInv, Queued
      <4>2. \A u \in Threads : /\ Linker(u, c) => Linker(u, c)'
                               /\ pc[u] = "unclaim" => pc'[u] = "unclaim" /\ loc'[u] = loc[u]
        BY <1>3, <3>2 DEF Linker
      <4>3. \A i \in 1..Len(queue) : i \in 1..Len(queue')
        BY <1>5
      <4>4. phase[c] = "queued" => \E i \in 1..Len(queue') : queue'[i] = c
        BY <1>5, <4>1, <4>3
      <4> QED BY <3>2, <1>2, <4>1, <4>2, <4>4
    <3> QED BY <3>1, <3>2
  <2>2. ASSUME NEW i \in 1..Len(queue') PROVE phase'[queue'[i]] = "queued"
    <3>1. CASE i = Len(queue) + 1
      BY <3>1, <1>2, <1>5
    <3>2. CASE i # Len(queue) + 1
      <4>1. i \in 1..Len(queue)
        BY <3>2, <1>5
      <4> QED BY <4>1, <1>2, <1>5, <2>0
    <3> QED BY <3>1, <3>2
  <2>3. ASSUME NEW i \in 1..Len(queue'), NEW j \in 1..Len(queue'), queue'[i] = queue'[j]
        PROVE  i = j
    <3>1. \A k \in 1..Len(queue) : queue'[k] # b
      BY <2>0, <1>2, <1>5
    <3>2. \A k \in 1..Len(queue') : k = Len(queue) + 1 \/ k \in 1..Len(queue)
      BY <1>5
    <3> QED BY <2>3, <3>1, <3>2, <2>0, <1>5
  <2>4. Len(queue') >= 1
    BY <1>5
  <2> QED BY <2>1, <2>2, <2>3, <2>4 DEF Queued
<1>13. LostOK'
  <2>1. \A c \in Buffers : c # b => (Own(t, c) => Own(t, c)') /\ (Enq(t, c) => Enq(t, c)')
    BY <1>3 DEF Own, Enq, CandAt
  <2> QED BY <1>2, <1>4, <2>1, LostOthers
<1>14. Table' /\ Counts' /\ Names' /\ Mapped' /\ Pinned' /\ Locks' /\ DataOK' /\ DiskOK'
  <2>1. /\ Counted(t)' <=> Counted(t)
        /\ pc[t] \notin HoldAt /\ pc[t] \notin {"bwrite", "pin"}
        /\ \A c \in Buffers : New(t, c)' <=> New(t, c)
    BY <1>3 DEF Counted, HoldAt, New, NewAt
  <2> QED BY <1>3, <1>4, <2>1, QuietKeeps DEF QueueStep, bufVars, diskVars, pinVars
<1> QED
  BY <1>6, <1>10, <1>11, <1>12, <1>13, <1>14 DEF IInv, Threaded

\* dequeue: the thread has the buffer to itself, since no enqueuer has it.
LEMMA GetDequeueKeeps ==
  ASSUME IInv, ~Races, NEW t \in Threads, GetDequeue(t)
  PROVE  IInv'
<1> DEFINE b == Head(queue)
<1>1. TypeOK /\ BgetOK(t) /\ PhaseOK(t) /\ UserOK(t)
  BY Mine
<1>2. /\ queue \in Seq(Buffers) /\ Len(queue) \in Nat /\ Len(queue) > 1
      /\ b = queue[1] /\ b \in Buffers /\ queue' = Tail(queue)
      /\ queue' \in Seq(Buffers) /\ Len(queue') = Len(queue) - 1
      /\ \A i \in 1..Len(queue') : queue'[i] = queue[i + 1]
      /\ \A i \in 1..Len(queue) : queue[i] \in Buffers
  BY <1>1 DEF TypeOK, GetDequeue, Q!Take
<1> HIDE DEF b
<1>3. /\ Len(queue) >= 1
      /\ \A i, j \in 1..Len(queue) : queue[i] = queue[j] => i = j
      /\ \A i \in 1..Len(queue) : phase[queue[i]] = "queued"
  BY DEF IInv, Queued
<1>4. /\ phase[b] = "queued" /\ phase' \in [Buffers -> Q!Phases]
      /\ phase'[b] = "taken" /\ \A c \in Buffers : c # b => phase'[c] = phase[c]
  <2>1. phase' = [phase EXCEPT ![b] = "taken"]
    BY DEF GetDequeue, Q!Take, b
  <2>2. phase \in [Buffers -> Q!Phases] /\ phase[b] = "queued"
    BY <1>1, <1>2, <1>3 DEF TypeOK
  <2> QED BY <1>2, <2>1, <2>2 DEF Q!Phases
<1>5. /\ loc' \in [Threads -> Locals] /\ loc'[t].cand = b
      /\ loc'[t].block = loc[t].block /\ loc'[t].rc = loc[t].rc
      /\ loc'[t].victim = loc[t].victim /\ loc'[t].expect = loc[t].expect /\ loc'[t].buf = loc[t].buf
      /\ \A u \in Threads : u # t => loc'[u] = loc[u]
  <2>1. Set(t, "cand", b) /\ b \in Bufs
    BY <1>2, Constants DEF GetDequeue, b
  <2> QED BY <1>1, <2>1, Set_cand
<1>6. /\ pc' \in [Threads -> Labels] /\ pc[t] = "dequeue" /\ pc'[t] = "unclaim"
      /\ \A u \in Threads : u # t => pc'[u] = pc[u]
  BY <1>1, GotoIs DEF Labels, GetDequeue, At
<1>7. QueueStep(t)
  BY <1>5, <1>6 DEF QueueStep, Others, GetDequeue
<1>8. TypeOK'
  BY <1>1, <1>2, <1>4, <1>5, <1>6, <1>7 DEF TypeOK, QueueStep, bufVars, diskVars, pinVars
<1>9. \A u \in Threads : u # t => ~Own(u, b) /\ ~Enq(u, b)
  <2> TAKE u \in Threads
  <2>1. ~Own(u, b)
    BY <1>2, <1>4, Constants, Mine DEF Own, PhaseOK, CandAt
  <2>2. ~HasBuffer(b, {"enqueue", "enqueue_link"})
    BY DEF GetDequeue, MayTake, b
  <2>3. ~Enq(u, b)
    BY <2>2 DEF HasBuffer, Enq
  <2> QED BY <2>1, <2>3
<1>10. ThreadOK(t)'
  <2>1. BgetOK(t)'
    BY <1>1, <1>2, <1>5, <1>6, <1>7, Constants DEF BgetOK, CandAt, FreshAt, QueueStep, bufVars
  <2>2. PhaseOK(t)'
    BY <1>4, <1>5, <1>6 DEF PhaseOK, CandAt
  <2>3. UserOK(t)'
    BY <1>6 DEF UserOK, Counted, Target, HoldAt, NamedAt, FilledAt
  <2> QED BY <2>1, <2>2, <2>3 DEF ThreadOK
<1>11. \A u \in Threads : ThreadOK(u)'
  BY <1>2, <1>4, <1>7, <1>9, <1>10, QueueOthers DEF Enq
<1>12. \A u, v \in Threads : u # v => Apart(u, v)'
  <2>1. \A c \in Buffers :
          /\ (Own(t, c)' => c = b) /\ ~Enq(t, c)' /\ ~New(t, c)' /\ ~Has(t, c)' /\ ~Linker(t, c)'
    BY <1>5, <1>6 DEF Own, Enq, New, Has, Linker, CandAt, NewAt, NamedAt, HoldAt
  <2> QED BY <1>7, <1>9, <2>1, ApartKept DEF QueueStep, IInv
<1>13. Queued'
  <2>1. ASSUME NEW c \in Buffers
        PROVE  /\ phase'[c] = "queued" => \E i \in 1..Len(queue') : queue'[i] = c
               /\ phase'[c] = "taken" => \E u \in Threads : pc'[u] = "unclaim" /\ loc'[u].cand = c
               /\ phase'[c] = "linking" => \E u \in Threads : Linker(u, c)'
    <3>1. CASE c = b
      BY <3>1, <1>4, <1>5, <1>6
    <3>2. CASE c # b
      <4>1. /\ phase[c] = "queued" => \E i \in 1..Len(queue) : queue[i] = c
            /\ phase[c] = "taken" => \E u \in Threads : pc[u] = "unclaim" /\ loc[u].cand = c
            /\ phase[c] = "linking" => \E u \in Threads : Linker(u, c)
        BY DEF IInv, Queued
      <4>2. \A u \in Threads : /\ Linker(u, c) => Linker(u, c)'
                               /\ pc[u] = "unclaim" => pc'[u] = "unclaim" /\ loc'[u] = loc[u]
        BY <1>5, <1>6 DEF Linker
      <4>3. ASSUME NEW i \in 1..Len(queue), queue[i] = c
            PROVE  \E j \in 1..Len(queue') : queue'[j] = c
        <5>1. i # 1
          BY <4>3, <3>2, <1>2
        <5>2. i - 1 \in 1..Len(queue') /\ (i - 1) + 1 = i
          BY <5>1, <1>2
        <5> QED BY <5>2, <1>2, <4>3
      <4> QED BY <3>2, <1>4, <4>1, <4>2, <4>3
    <3> QED BY <3>1, <3>2
  <2>2. \A i \in 1..Len(queue') : i + 1 \in 1..Len(queue) /\ i + 1 # 1
    BY <1>2
  <2>3. \A i, j \in 1..Len(queue') : queue'[i] = queue'[j] => i = j
    BY <1>2, <1>3, <2>2
  <2>4. \A i \in 1..Len(queue') : phase'[queue'[i]] = "queued"
    <3> TAKE i \in 1..Len(queue')
    <3>1. queue'[i] = queue[i + 1] /\ i + 1 \in 1..Len(queue) /\ i + 1 # 1 /\ 1 \in 1..Len(queue)
      BY <1>2, <2>2
    <3>2. queue[i + 1] # b /\ queue[i + 1] \in Buffers
      BY <3>1, <1>2, <1>3
    <3> QED BY <3>1, <3>2, <1>3, <1>4
  <2>5. Len(queue') >= 1
    BY <1>2
  <2> QED BY <2>1, <2>3, <2>4, <2>5 DEF Queued
<1>14. LostOK'
  <2>1. \A c \in Buffers : ~Own(t, c) /\ ~Enq(t, c)
    BY <1>1, <1>6 DEF Own, Enq, CandAt
  <2> QED BY <1>2, <1>4, <1>7, <2>1, LostOthers
<1>15. Table' /\ Counts' /\ Names' /\ Mapped' /\ Pinned' /\ Locks' /\ DataOK' /\ DiskOK'
  <2>1. /\ Counted(t)' <=> Counted(t)
        /\ Counted(t) => loc'[t].block = loc[t].block
        /\ pc[t] \notin HoldAt /\ pc[t] \notin {"bwrite", "pin"}
        /\ \A c \in Buffers : New(t, c)' <=> New(t, c)
    BY <1>6 DEF Counted, HoldAt, New, NewAt
  <2> QED BY <1>7, <2>1, QuietKeeps DEF QueueStep, bufVars, diskVars, pinVars
<1> QED
  BY <1>8, <1>11, <1>12, <1>13, <1>14, <1>15 DEF IInv, Threaded

LEMMA GetUnclaimKeeps ==
  ASSUME IInv, NEW t \in Threads, GetUnclaim(t)
  PROVE  IInv'
<1>0. PICK b : b = loc[t].cand
  OBVIOUS
<1>1. TypeOK /\ BgetOK(t) /\ PhaseOK(t) /\ UserOK(t) /\ pc[t] = "unclaim"
  BY Mine DEF GetUnclaim, At
<1>2. b \in Buffers
  BY <1>0, <1>1, Mine, Constants DEF BgetOK, CandAt
<1>3. /\ phase[b] = "taken" /\ phase' \in [Buffers -> Q!Phases] /\ queue' = queue
      /\ phase'[b] = "out" /\ \A c \in Buffers : c # b => phase'[c] = phase[c]
  BY <1>0, <1>1, <1>2 DEF TypeOK, GetUnclaim, Q!Unclaim, Q!Phases
<1>4. /\ pc' \in [Threads -> Labels] /\ loc' = loc /\ pc'[t] = "victim"
      /\ \A u \in Threads : u # t => pc'[u] = pc[u]
  BY <1>1, GotoIs DEF Labels, GetUnclaim
<1>5. QueueStep(t)
  BY <1>4 DEF QueueStep, Others, GetUnclaim
<1>6. TypeOK'
  BY <1>1, <1>3, <1>4, <1>5 DEF TypeOK, QueueStep, bufVars, diskVars, pinVars
<1>7. \A u \in Threads : u # t => ~Own(u, b) /\ ~Enq(u, b)
  <2>1. Own(t, b)
    BY <1>0, <1>1, <1>2, Constants DEF Own, CandAt
  <2> QED BY <1>2, <2>1 DEF IInv, Threaded, Apart
<1>8. \A u \in Threads, c \in Buffers :
        (pc[u] = "unclaim" /\ loc[u].cand = c /\ c # b) => (pc'[u] = "unclaim" /\ loc'[u].cand = c)
  BY <1>0, <1>4
<1>9. ThreadOK(t)'
  <2>1. BgetOK(t)'
    BY <1>1, <1>4, <1>5 DEF BgetOK, CandAt, FreshAt, QueueStep, bufVars
  <2>2. PhaseOK(t)'
    BY <1>0, <1>3, <1>4 DEF PhaseOK, CandAt
  <2>3. UserOK(t)'
    BY <1>4 DEF UserOK, Counted, Target, HoldAt, NamedAt, FilledAt
  <2> QED BY <2>1, <2>2, <2>3 DEF ThreadOK
<1>10. \A u \in Threads : ThreadOK(u)'
  BY <1>2, <1>3, <1>5, <1>7, <1>9, QueueOthers DEF Enq
<1>11. \A c \in Buffers :
          /\ (Own(t, c)' <=> Own(t, c)) /\ ~Enq(t, c)' /\ ~New(t, c)'
          /\ ~Has(t, c)' /\ ~Linker(t, c)' /\ ~Linker(t, c) /\ ~Enq(t, c) /\ ~New(t, c)
    BY <1>1, <1>4 DEF Own, Enq, New, Has, Linker, CandAt, NewAt, NamedAt, HoldAt
<1>12. \A u, v \in Threads : u # v => Apart(u, v)'
  BY <1>5, <1>11, ApartSame DEF QueueStep, IInv
<1>13. Queued'
  <2>1. ASSUME NEW c \in Buffers
        PROVE  /\ phase'[c] = "queued" => \E i \in 1..Len(queue) : queue[i] = c
               /\ phase'[c] = "taken" => \E u \in Threads : pc'[u] = "unclaim" /\ loc'[u].cand = c
               /\ phase'[c] = "linking" => \E u \in Threads : Linker(u, c)'
    <3>1. CASE c = b
      BY <3>1, <1>3
    <3>2. CASE c # b
      <4>1. /\ phase[c] = "queued" => \E i \in 1..Len(queue) : queue[i] = c
            /\ phase[c] = "taken" => \E u \in Threads : pc[u] = "unclaim" /\ loc[u].cand = c
            /\ phase[c] = "linking" => \E u \in Threads : Linker(u, c)
        BY DEF IInv, Queued
      <4>2. \A u \in Threads : Linker(u, c) => Linker(u, c)'
        BY <1>1, <1>4 DEF Linker
      <4> QED BY <3>2, <1>3, <1>8, <4>1, <4>2
    <3> QED BY <3>1, <3>2
  <2>2. \A i \in 1..Len(queue) : phase'[queue[i]] = "queued"
    <3> TAKE i \in 1..Len(queue)
    <3>1. queue[i] \in Buffers /\ phase[queue[i]] = "queued"
      BY DEF IInv, Queued, TypeOK
    <3> QED BY <3>1, <1>3
  <2> QED BY <1>3, <2>1, <2>2 DEF IInv, Queued
<1>14. LostOK'
  <2>1. Own(t, b)'
    BY <1>0, <1>2, <1>4, Constants DEF Own, CandAt
  <2> QED BY <1>2, <1>3, <1>5, <1>11, <2>1, LostOthers
<1>15. Table' /\ Counts' /\ Names' /\ Mapped' /\ Pinned' /\ Locks' /\ DataOK' /\ DiskOK'
  <2>1. /\ Counted(t)' <=> Counted(t)
        /\ Counted(t) => loc'[t].block = loc[t].block
        /\ pc[t] \notin HoldAt /\ pc[t] \notin {"bwrite", "pin"}
    BY <1>1, <1>4 DEF Counted, HoldAt
  <2> QED BY <1>5, <1>11, <2>1, QuietKeeps DEF QueueStep, bufVars, diskVars, pinVars
<1> QED
  BY <1>6, <1>10, <1>12, <1>13, <1>14, <1>15 DEF IInv, Threaded

-----------------------------------------------------------------------------
(* The steps that change a count *)

LEMMA GotJoins ==
  ASSUME NEW t \in Threads, Others(t), NEW n \in Blocks, ~Counted(t), Counted(t)', loc'[t].block = n
  PROVE  /\ Cardinality(Got(n)') = Cardinality(Got(n)) + 1
         /\ \A m \in Blocks : m # n => Got(m)' = Got(m)
<1>1. Got(n)' = Got(n) \cup {t} /\ t \notin Got(n)
  BY DEF Got, Others, Counted
<1>2. \A m \in Blocks : m # n => Got(m)' = Got(m)
  BY DEF Got, Others, Counted
<1>3. IsFiniteSet(Got(n))
  BY GotFinite, Zenon
<1>4. Cardinality(Got(n) \cup {t}) = Cardinality(Got(n)) + 1
  BY <1>1, <1>3, FS_AddElement
<1> QED BY <1>1, <1>2, <1>4, Zenon

LEMMA GotLeaves ==
  ASSUME NEW t \in Threads, Others(t), NEW n \in Blocks, Counted(t), ~Counted(t)', loc[t].block = n
  PROVE  /\ Cardinality(Got(n)') = Cardinality(Got(n)) - 1
         /\ \A m \in Blocks : m # n => Got(m)' = Got(m)
<1>1. Got(n)' = Got(n) \ {t} /\ t \in Got(n)
  BY DEF Got, Others, Counted
<1>2. \A m \in Blocks : m # n => Got(m)' = Got(m)
  BY DEF Got, Others, Counted
<1>3. IsFiniteSet(Got(n))
  BY GotFinite, Zenon
<1>4. Cardinality(Got(n) \ {t}) = Cardinality(Got(n)) - 1
  BY <1>1, <1>3, FS_RemoveElement
<1> QED BY <1>1, <1>2, <1>4, Zenon

LEMMA GotSame ==
  ASSUME NEW t \in Threads, Others(t), Counted(t)' <=> Counted(t),
         Counted(t) => loc'[t].block = loc[t].block
  PROVE  \A n \in Blocks : Got(n)' = Got(n)
BY DEF Got, Others, Counted

\* A step of t that counts block n's users anew, to rc, and keeps its buffer.
Recounts(t, n, rc) ==
  /\ Others(t)
  /\ UNCHANGED <<queue, phase, blockno, valid, data, lock, disk, content>>
  /\ hashtable' = [hashtable EXCEPT ![n] = rc]
  /\ rc.idx = hashtable[n].idx

LEMMA RecountIs ==
  ASSUME TypeOK, NEW t \in Threads, NEW n \in Blocks, NEW rc \in RefIdxs, Recounts(t, n, rc)
  PROVE  /\ hashtable' \in [Keys -> RefIdxs]
         /\ hashtable'[n] = rc
         /\ \A m \in Keys : m # n => hashtable'[m] = hashtable[m]
         /\ \A m \in Keys : hashtable'[m].idx = hashtable[m].idx
BY Constants DEF TypeOK, Recounts

LEMMA RecountOthers ==
  ASSUME IInv, NEW t \in Threads, NEW n \in Blocks, NEW rc \in RefIdxs, Recounts(t, n, rc),
         NEW u \in Threads, u # t,
         pc[u] \in HoldAt => /\ loc[u].block \in pinned' <=> loc[u].block \in pinned
                             /\ loc[u].buf \in mapped' => loc[u].buf \in mapped
  PROVE  ThreadOK(u)'
<1>1. TypeOK /\ ThreadOK(u) /\ pc'[u] = pc[u] /\ loc'[u] = loc[u]
  BY DEF Recounts, Others, IInv, Threaded
<1>2. \A m \in Keys : hashtable'[m].idx = hashtable[m].idx
  BY <1>1, RecountIs
<1>3. Counted(u) => hashtable'[loc[u].block].idx = hashtable[loc[u].block].idx
  BY <1>2, Mine
<1> QED BY <1>1, <1>2, <1>3, OtherOK DEF Recounts

LEMMA RecountKeeps ==
  ASSUME IInv, NEW t \in Threads, NEW n \in Blocks, NEW rc \in RefIdxs, Recounts(t, n, rc),
         hashtable[n].idx # NoBuf,
         pc[t] # "unclaim",
         pc[t] \in HoldAt => pc'[t] \in HoldAt /\ loc'[t].buf = loc[t].buf,
         \A b \in Buffers : /\ ~New(t, b) /\ ~New(t, b)'
                            /\ Linker(t, b) => Linker(t, b)'
  PROVE  Table' /\ Names' /\ Queued' /\ Locks' /\ DataOK'
<1>1. /\ hashtable'[n] = rc
      /\ \A m \in Keys : m # n => hashtable'[m] = hashtable[m]
      /\ \A m \in Keys : hashtable'[m].idx = hashtable[m].idx
      /\ Others(t) /\ UNCHANGED <<queue, phase, blockno, valid, data, lock, disk, content>>
  BY RecountIs DEF IInv, Recounts
<1>2. \A u \in Threads : \A b \in Buffers : New(u, b)' <=> New(u, b)
  BY <1>1 DEF Others, New
<1>3. \A m \in Blocks : m \in Keys /\ hashtable[m].idx \in Bufs
  BY Constants, Mine
<1>4. \A m \in Blocks : hashtable[m].idx # NoBuf => hashtable[m].idx \in Buffers
  BY <1>3, Constants
<1>5. Table'
  <2>1. n # 0
    BY Constants
  <2> QED BY <1>1, <2>1, Constants DEF IInv, Table
<1>6. Names'
  <2> SUFFICES ASSUME NEW m \in Blocks, hashtable[m].idx # NoBuf
               PROVE  \/ blockno[hashtable[m].idx] = m
                      \/ \E u \in Threads : New(u, hashtable[m].idx)' /\ loc'[u].block = m
    BY <1>1, <1>3 DEF Names, New
  <2>1. \/ blockno[hashtable[m].idx] = m
        \/ \E u \in Threads : New(u, hashtable[m].idx) /\ loc[u].block = m
    BY DEF IInv, Names
  <2>2. \A u \in Threads : New(u, hashtable[m].idx) => u # t
    BY <1>4
  <2>3. \A u \in Threads : New(u, hashtable[m].idx) /\ loc[u].block = m
           => New(u, hashtable[m].idx)' /\ loc'[u].block = m
    BY <2>2, <1>1, <1>3 DEF New, Others
  <2> QED BY <2>1, <2>3
<1>7. Queued'
  BY <1>1, QueuedSame DEF IInv
<1>8. Locks'
  BY <1>1, LocksSame DEF IInv
<1>9. DataOK'
  <2> SUFFICES ASSUME NEW m \in Blocks, hashtable[m].idx # NoBuf, valid[hashtable[m].idx],
                      \A u \in Threads : ~New(u, hashtable[m].idx)'
               PROVE  data[hashtable[m].idx] = content[m]
    BY <1>1, <1>3 DEF DataOK, New
  <2>1. PICK b : b = hashtable[m].idx /\ b \in Buffers
    BY <1>4
  <2>2. \A u \in Threads : ~New(u, b)'
    BY <2>1, <1>1, <1>3 DEF New
  <2> QED BY <1>2, <2>1, <2>2 DEF IInv, DataOK
<1> QED BY <1>5, <1>6, <1>7, <1>8, <1>9

\* bget finds the block cached.
LEMMA GetHitCounts ==
  ASSUME IInv, NEW t \in Threads, pc[t] = "hit",
         CAS(t, loc[t].block, loc[t].rc, Inc(loc[t].rc),
             IF loc[t].cand = NoBuf THEN "lock" ELSE "putback"),
         leaked' = leaked \ {loc[t].rc.idx},
         UNCHANGED <<queueVars, bufVars, diskVars, pinned, mapped, dropped, loc, ops>>
  PROVE  IInv'
<1>0. PICK n : n = loc[t].block
  OBVIOUS
<1>1. TypeOK /\ BgetOK(t) /\ PhaseOK(t) /\ UserOK(t) /\ n \in Blocks /\ n \in Keys
  BY <1>0, Mine
<1>2. PICK rc : rc = hashtable[n]
  OBVIOUS
<1>3. rc \in RefIdxs /\ rc = loc[t].rc /\ rc.idx # NoBuf /\ rc.idx \in Bufs
  BY <1>0, <1>1, <1>2, Mine DEF CAS, BgetOK
<1>4. Inc(rc) \in RefIdxs /\ Inc(rc).idx = rc.idx /\ (rc.ref + 1 <= MaxRef => Inc(rc).ref = rc.ref + 1)
  BY <1>3, IncIs
<1>5. /\ pc' \in [Threads -> Labels] /\ loc' = loc
      /\ pc'[t] = IF loc[t].cand = NoBuf THEN "lock" ELSE "putback"
      /\ \A u \in Threads : u # t => pc'[u] = pc[u]
  BY <1>1, GotoIs DEF Labels, CAS
<1>6. Recounts(t, n, Inc(rc))
  BY <1>0, <1>2, <1>3, <1>4, <1>5 DEF Recounts, Others, CAS, queueVars, bufVars, diskVars
<1>7. /\ hashtable' \in [Keys -> RefIdxs] /\ hashtable'[n] = Inc(rc)
      /\ \A m \in Keys : m # n => hashtable'[m] = hashtable[m]
      /\ \A m \in Keys : hashtable'[m].idx = hashtable[m].idx
  BY <1>1, <1>4, <1>6, RecountIs
<1>8. TypeOK'
  BY <1>1, <1>5, <1>6, <1>7 DEF TypeOK, Recounts
<1>9. /\ ~Counted(t) /\ Counted(t)' /\ pc[t] \notin HoldAt /\ pc'[t] \notin HoldAt
  BY <1>5 DEF Counted, HoldAt
<1>10. \A b \in Buffers :
        /\ (Own(t, b)' <=> Own(t, b)) /\ ~Enq(t, b) /\ ~Enq(t, b)' /\ ~New(t, b) /\ ~New(t, b)'
        /\ ~Has(t, b) /\ ~Has(t, b)' /\ ~Linker(t, b) /\ ~Linker(t, b)'
  BY <1>5, Constants DEF Own, Enq, New, Has, Linker, CandAt, NewAt, NamedAt, HoldAt
<1>11. Table' /\ Names' /\ Queued' /\ Locks' /\ DataOK'
  BY <1>1, <1>2, <1>3, <1>4, <1>6, <1>9, <1>10, RecountKeeps
<1>12. /\ rc.ref + 1 <= MaxRef /\ hashtable'[n].ref = rc.ref + 1
       /\ Counts'
  <2>1. /\ Cardinality(Got(n)') = Cardinality(Got(n)) + 1
        /\ \A m \in Blocks : m # n => Got(m)' = Got(m)
    BY <1>0, <1>1, <1>5, <1>6, <1>9, GotJoins DEF Recounts
  <2>2. \A m \in Blocks : Pins(m)' = Pins(m)
    BY <1>7, Constants DEF Pins
  <2>3. /\ Cardinality(Got(n)') \in Nat /\ Cardinality(Got(n)') <= Cardinality(Threads)
        /\ Pins(n) \in {0, 1, 2}
        /\ Cardinality(Threads) \in Nat /\ Cardinality(Threads) + 2 <= MaxRef /\ MaxRef \in Nat
        /\ Cardinality(Got(n)) \in Nat
    <3>1. Got(n)' \subseteq Threads
      BY DEF Got
    <3> QED BY <3>1, <1>1, GotFinite, PinsNat, Constants, FS_Subset, FS_CardinalityType
  <2>4. rc.ref = Cardinality(Got(n)) + Pins(n)
    BY <1>1, <1>2 DEF IInv, Counts
  <2>5. rc.ref + 1 <= MaxRef
    BY <2>1, <2>3, <2>4
  <2>6. hashtable'[n].ref = rc.ref + 1
    BY <2>5, <1>4, <1>7
  <2>7. ASSUME NEW m \in Blocks PROVE hashtable'[m].ref = Cardinality(Got(m)') + Pins(m)'
    <3>1. CASE m = n
      BY <3>1, <2>1, <2>2, <2>3, <2>4, <2>6
    <3>2. CASE m # n
      BY <3>2, <2>1, <2>2, <1>7, Constants DEF IInv, Counts
    <3> QED BY <3>1, <3>2
  <2> QED BY <2>5, <2>6, <2>7 DEF Counts
<1>13. \A u \in Threads : \A b \in Buffers : New(u, b)' <=> New(u, b)
  BY <1>6, <1>10 DEF Others, New, Recounts
<1>14. Mapped' /\ Pinned'
  <2>1. \A m \in Blocks : m \in Keys /\ (hashtable[m].idx # NoBuf => hashtable[m].idx \in Buffers)
    BY <1>1, Constants, Mine
  <2>2. Mapped'
    BY <1>1, <1>6, <1>7, <1>13 DEF IInv, Mapped, TypeOK, Recounts
  <2>3. Pinned'
    BY <1>1, <1>6, <1>7, <1>13, <2>1 DEF IInv, Pinned, TypeOK, Recounts
  <2> QED BY <2>2, <2>3
<1>15. \A u \in Threads : ThreadOK(u)'
  <2>1. BgetOK(t)'
    BY <1>1, <1>5, <1>7, Constants DEF BgetOK, CandAt, FreshAt
  <2>2. PhaseOK(t)'
    BY <1>1, <1>5, <1>6 DEF PhaseOK, CandAt, Recounts
  <2>3. UserOK(t)'
    BY <1>0, <1>1, <1>2, <1>3, <1>4, <1>5, <1>7 DEF UserOK, Counted, Target, HoldAt, NamedAt, FilledAt
  <2>4. \A u \in Threads : u # t => ThreadOK(u)'
    BY <1>1, <1>4, <1>6, RecountOthers
  <2> QED BY <2>1, <2>2, <2>3, <2>4 DEF ThreadOK
<1>16. \A u, v \in Threads : u # v => Apart(u, v)'
  BY <1>6, <1>10, ApartSame DEF Recounts, IInv
<1>17. DiskOK'
  BY <1>5, <1>6 DEF IInv, DiskOK, Recounts
<1>18. LostOK'
  <2> SUFFICES ASSUME NEW b \in Buffers, phase[b] = "out"
               PROVE  \/ \E u \in Threads : Own(u, b)' \/ Enq(u, b)'
                      \/ InUse(b)' \/ b \in (leaked \cup dropped)'
    BY <1>6 DEF LostOK, Recounts
  <2>1. \A u \in Threads : (Own(u, b)' <=> Own(u, b)) /\ (Enq(u, b)' <=> Enq(u, b))
    BY <1>6, <1>10 DEF Recounts, Others, Own, Enq
  <2>2. rc.ref \in Nat
    BY <1>3, Constants DEF RefIdxs
  <2>3. InUse(b) => InUse(b)'
    <3> SUFFICES ASSUME NEW m \in Blocks, hashtable[m].idx = b, hashtable[m].ref > 0 PROVE hashtable'[m].idx = b /\ hashtable'[m].ref > 0
      BY DEF InUse
    <3>1. m \in Keys /\ hashtable'[m].idx = b
      BY <1>7, Constants
    <3>2. hashtable'[m].ref > 0
      BY <3>1, <1>7, <1>12, <2>2
    <3> QED BY <3>1, <3>2
  <2>4. b = rc.idx => InUse(b)'
    <3>1. hashtable'[n].ref > 0 /\ hashtable'[n].idx = rc.idx
      BY <1>4, <1>7, <1>12, <2>2
    <3> QED BY <3>1, <1>1 DEF InUse
  <2> QED BY <2>1, <2>3, <2>4, <1>3 DEF IInv, LostOK
<1> QED
  BY <1>8, <1>11, <1>12, <1>14, <1>15, <1>16, <1>17, <1>18 DEF IInv, Threaded

LEMMA NewSame ==
  ASSUME NEW t \in Threads, Others(t), \A b \in Buffers : ~New(t, b) /\ ~New(t, b)'
  PROVE  \A u \in Threads : \A b \in Buffers : New(u, b)' <=> New(u, b)
BY DEF Others, New

\* The buffer a thread has named is in the table for its block and for no other.
LEMMA NamedIs ==
  ASSUME IInv, NEW t \in Threads, pc[t] \in NamedAt
  PROVE  /\ loc[t].buf \in Buffers /\ loc[t].block \in Blocks
         /\ blockno[loc[t].buf] = loc[t].block
         /\ hashtable[loc[t].block].idx = loc[t].buf
         /\ \A m \in Blocks : m # loc[t].block => hashtable[m].idx # loc[t].buf
         /\ \A u \in Threads : ~New(u, loc[t].buf)
         /\ Counted(t) /\ Has(t, loc[t].buf)
<1>1. TypeOK /\ BgetOK(t) /\ PhaseOK(t) /\ UserOK(t) /\ loc[t].buf \in Bufs
  BY Mine
<1>2. Counted(t) /\ Target(t) = loc[t].buf /\ pc[t] \notin {"idle", "panic"}
  BY DEF Counted, Target, NamedAt, HoldAt
<1>3. /\ loc[t].buf \in Buffers /\ loc[t].block \in Blocks /\ loc[t].buf # NoBuf
      /\ blockno[loc[t].buf] = loc[t].block
      /\ hashtable[loc[t].block].idx = loc[t].buf
  BY <1>1, <1>2, Constants DEF UserOK, BgetOK
<1>4. \A m \in Blocks : m # loc[t].block => hashtable[m].idx # loc[t].buf
  BY <1>3, Constants DEF IInv, Table
<1>5. Has(t, loc[t].buf)
  BY DEF Has
<1>6. \A u \in Threads : ~New(u, loc[t].buf)
  <2> TAKE u \in Threads
  <2>1. CASE u = t
    BY <2>1 DEF New, NewAt, NamedAt, HoldAt
  <2>2. CASE u # t
    BY <2>2, <1>3, <1>5 DEF IInv, Threaded, Apart
  <2> QED BY <2>1, <2>2
<1> QED BY <1>2, <1>3, <1>4, <1>5, <1>6

\* Who is in the way of what t does to its block has the block's sleeplock.
LEMMA HoldersElsewhere ==
  ASSUME IInv, NEW t \in Threads, pc[t] \in HoldAt
  PROVE  \A u \in Threads : u # t /\ pc[u] \in HoldAt =>
            loc[u].buf # loc[t].buf /\ loc[u].block # loc[t].block
BY HoldersApart DEF IInv

LEMMA PinKeeps ==
  ASSUME IInv, NEW t \in Threads, Pin(t)
  PROVE  IInv'
<1>0. PICK n, b : n = loc[t].block /\ b = loc[t].buf
  OBVIOUS
<1>1. TypeOK /\ BgetOK(t) /\ PhaseOK(t) /\ UserOK(t) /\ pc[t] \in {"pin", "pin_map"}
  BY Mine DEF Pin
<1>2. /\ b \in Buffers /\ n \in Blocks /\ n \in Keys /\ blockno[b] = n /\ hashtable[n].idx = b
      /\ \A m \in Blocks : m # n => hashtable[m].idx # b
      /\ \A u \in Threads : ~New(u, b)
      /\ Counted(t) /\ b # NoBuf
  BY <1>0, <1>1, NamedIs, Constants DEF NamedAt, HoldAt
<1>3. PICK rc : rc = hashtable[n]
  OBVIOUS
<1>4. rc \in RefIdxs /\ rc.idx = b /\ valid[b]
  BY <1>0, <1>1, <1>2, <1>3, Mine DEF UserOK, FilledAt, HoldAt
<1>5. Inc(rc) \in RefIdxs /\ Inc(rc).idx = rc.idx /\ (rc.ref + 1 <= MaxRef => Inc(rc).ref = rc.ref + 1)
  BY <1>4, IncIs
<1>6. /\ pc' \in [Threads -> Labels] /\ loc' = loc /\ pc'[t] = "release"
      /\ \A u \in Threads : u # t => pc'[u] = pc[u]
  BY <1>1, GotoIs DEF Labels, Pin
<1>7. Recounts(t, n, Inc(rc))
  BY <1>0, <1>2, <1>3, <1>4, <1>5, <1>6 DEF Recounts, Others, Pin, queueVars, bufVars, diskVars
<1>8. /\ hashtable' \in [Keys -> RefIdxs] /\ hashtable'[n] = Inc(rc)
      /\ \A m \in Keys : m # n => hashtable'[m] = hashtable[m]
      /\ \A m \in Keys : hashtable'[m].idx = hashtable[m].idx
  BY <1>1, <1>2, <1>5, <1>7, RecountIs
<1>9. /\ leaked' = leaked /\ dropped' = dropped /\ ops' = ops
      /\ \/ /\ n \notin pinned /\ pinned' = pinned \cup {n} /\ mapped' = mapped /\ pc[t] = "pin"
         \/ /\ b \notin mapped /\ mapped' = mapped \cup {b} /\ pinned' = pinned /\ pc[t] = "pin_map"
  BY <1>0, <1>1, <1>2 DEF Pin, At, UserOK
<1>10. TypeOK'
  BY <1>1, <1>2, <1>6, <1>7, <1>8, <1>9 DEF TypeOK, Recounts
<1>11. Counted(t)' /\ pc[t] \in HoldAt /\ pc'[t] \in HoldAt
  BY <1>1, <1>6 DEF Counted, HoldAt
<1>12. \A c \in Buffers :
        /\ ~Own(t, c) /\ ~Own(t, c)' /\ ~Enq(t, c) /\ ~Enq(t, c)' /\ ~New(t, c) /\ ~New(t, c)'
        /\ (Has(t, c)' <=> Has(t, c)) /\ ~Linker(t, c) /\ ~Linker(t, c)'
  BY <1>1, <1>6 DEF Own, Enq, New, Has, Linker, CandAt, NewAt, NamedAt, HoldAt
<1>13. Table' /\ Names' /\ Queued' /\ Locks' /\ DataOK'
  BY <1>1, <1>2, <1>3, <1>5, <1>6, <1>7, <1>11, <1>12, RecountKeeps
<1>14. hashtable'[n].ref = rc.ref + 1 /\ Counts'
  <2>1. \A m \in Blocks : Got(m)' = Got(m)
    BY <1>2, <1>6, <1>7, <1>11, GotSame DEF Recounts
  <2>2. Pins(n)' = Pins(n) + 1 /\ \A m \in Blocks : m # n => Pins(m)' = Pins(m)
    BY <1>2, <1>8, <1>9, Constants DEF Pins
  <2>3. /\ Cardinality(Got(n)) \in Nat /\ Cardinality(Got(n)) <= Cardinality(Threads)
        /\ Pins(n) \in {0, 1, 2} /\ Pins(n)' \in {0, 1, 2}
        /\ Cardinality(Threads) \in Nat /\ Cardinality(Threads) + 2 <= MaxRef /\ MaxRef \in Nat
    BY <1>2, GotFinite, PinsNat, Constants DEF Pins
  <2>4. rc.ref = Cardinality(Got(n)) + Pins(n)
    BY <1>2, <1>3 DEF IInv, Counts
  <2>5. rc.ref + 1 <= MaxRef
    BY <2>2, <2>3, <2>4
  <2>6. hashtable'[n].ref = rc.ref + 1
    BY <2>5, <1>5, <1>8
  <2>7. ASSUME NEW m \in Blocks PROVE hashtable'[m].ref = Cardinality(Got(m)') + Pins(m)'
    <3>1. CASE m = n
      BY <3>1, <2>1, <2>2, <2>3, <2>4, <2>6
    <3>2. CASE m # n
      BY <3>2, <2>1, <2>2, <1>8, Constants DEF IInv, Counts
    <3> QED BY <3>1, <3>2
  <2> QED BY <2>6, <2>7 DEF Counts
<1>15. \A u \in Threads : \A c \in Buffers : New(u, c)' <=> New(u, c)
  BY <1>7, <1>12, NewSame DEF Recounts
<1>16. Mapped'
  <2>1. ASSUME NEW c \in mapped'
        PROVE  hashtable[blockno[c]].idx = c /\ valid[c] /\ (\A u \in Threads : ~New(u, c)) /\ c \in Buffers /\ blockno[c] \in Keys
    <3>1. CASE c \in mapped
      BY <3>1, <1>1 DEF IInv, Mapped, TypeOK
    <3>2. CASE c = b
      BY <3>2, <1>2, <1>4
    <3> QED BY <2>1, <3>1, <3>2, <1>9
  <2> QED BY <2>1, <1>7, <1>8, <1>15 DEF Mapped, Recounts
<1>17. Pinned'
  <2> SUFFICES ASSUME NEW m \in pinned'
               PROVE  /\ hashtable[m].idx # NoBuf /\ blockno[hashtable[m].idx] = m
                      /\ valid[hashtable[m].idx] /\ \A u \in Threads : ~New(u, hashtable[m].idx)'
                      /\ m \in Keys
    BY <1>7, <1>8 DEF Pinned, Recounts, New
  <2>1. PICK c : c = hashtable[m].idx
    OBVIOUS
  <2>2. m \in Keys /\ c # NoBuf /\ c \in Buffers /\ blockno[c] = m /\ valid[c] /\ \A u \in Threads : ~New(u, c)
    <3>1. CASE m \in pinned
      BY <3>1, <2>1, <1>1, Mine, Constants DEF IInv, Pinned, TypeOK
    <3>2. CASE m = n
      BY <3>2, <2>1, <1>2, <1>4
    <3> QED BY <3>1, <3>2, <1>9
  <2>3. \A u \in Threads : ~New(u, c)'
    BY <2>2, <1>15
  <2>4. \A u \in Threads : ~New(u, hashtable[m].idx)'
    BY <2>1, <2>2, <2>3, <1>8 DEF New
  <2> QED BY <2>1, <2>2, <2>4
<1>18. \A u \in Threads : ThreadOK(u)'
  <2>1. BgetOK(t)'
    BY <1>1, <1>6 DEF BgetOK, CandAt, FreshAt
  <2>2. PhaseOK(t)'
    BY <1>6 DEF PhaseOK, CandAt
  <2>3. UserOK(t)'
    BY <1>0, <1>1, <1>2, <1>4, <1>6, <1>7, <1>8 DEF UserOK, Counted, Target, HoldAt, NamedAt, FilledAt, Recounts
  <2>4. ASSUME NEW u \in Threads, u # t PROVE ThreadOK(u)'
    <3>1. pc[u] \in HoldAt => loc[u].buf # b /\ loc[u].block # n
      BY <2>4, <1>0, <1>11, HoldersElsewhere
    <3> QED BY <2>4, <3>1, <1>2, <1>5, <1>7, <1>9, RecountOthers
  <2> QED BY <2>1, <2>2, <2>3, <2>4 DEF ThreadOK
<1>19. \A u, v \in Threads : u # v => Apart(u, v)'
  BY <1>7, <1>12, ApartSame DEF Recounts, IInv
<1>20. DiskOK'
  <2> SUFFICES ASSUME NEW m \in Blocks, disk[m] # content[m], m \notin pinned'
               PROVE  \E u \in Threads : pc'[u] \in {"bwrite", "pin"} /\ loc'[u].block = m
    BY <1>7 DEF DiskOK, Recounts
  <2>1. m \notin pinned
    BY <1>9
  <2>2. PICK u \in Threads : pc[u] \in {"bwrite", "pin"} /\ loc[u].block = m
    BY <2>1 DEF IInv, DiskOK
  <2>3. u # t
    BY <2>2, <1>0, <1>9
  <2> QED BY <2>2, <2>3, <1>6
<1>21. LostOK'
  <2> SUFFICES ASSUME NEW c \in Buffers, phase[c] = "out"
               PROVE  \/ \E u \in Threads : Own(u, c)' \/ Enq(u, c)'
                      \/ InUse(c)' \/ c \in (leaked \cup dropped)'
    BY <1>7 DEF LostOK, Recounts
  <2>1. \A u \in Threads : (Own(u, c)' <=> Own(u, c)) /\ (Enq(u, c)' <=> Enq(u, c))
    BY <1>7, <1>12 DEF Recounts, Others, Own, Enq
  <2>2. rc.ref \in Nat
    BY <1>4, Constants DEF RefIdxs
  <2>3. InUse(c) => InUse(c)'
    <3> SUFFICES ASSUME NEW m \in Blocks, hashtable[m].idx = c, hashtable[m].ref > 0 PROVE hashtable'[m].idx = c /\ hashtable'[m].ref > 0
      BY DEF InUse
    <3>1. m \in Keys /\ hashtable'[m].idx = c
      BY <1>8, Constants
    <3>2. hashtable'[m].ref > 0
      BY <3>1, <1>8, <1>14, <2>2
    <3> QED BY <3>1, <3>2
  <2> QED BY <2>1, <2>3, <1>9 DEF IInv, LostOK
<1> QED
  BY <1>10, <1>13, <1>14, <1>16, <1>17, <1>18, <1>19, <1>20, <1>21 DEF IInv, Threaded

LEMMA GotOne ==
  ASSUME NEW t \in Threads, NEW n \in Blocks, Counted(t), loc[t].block = n
  PROVE  Cardinality(Got(n)) \in Nat /\ Cardinality(Got(n)) >= 1
<1>1. t \in Got(n) /\ IsFiniteSet(Got(n)) /\ Cardinality(Got(n)) \in Nat
  BY GotFinite DEF Got
<1>2. Cardinality(Got(n)) # 0
  BY <1>1, FS_EmptySet
<1> QED BY <1>1, <1>2

LEMMA UnpinKeeps ==
  ASSUME IInv, NEW t \in Threads, Unpin(t)
  PROVE  IInv'
<1>0. PICK n, b : n = loc[t].block /\ b = loc[t].buf
  OBVIOUS
<1>1. TypeOK /\ BgetOK(t) /\ PhaseOK(t) /\ UserOK(t) /\ pc[t] = "unpin"
  BY Mine DEF Unpin, At
<1>2. /\ b \in Buffers /\ n \in Blocks /\ n \in Keys /\ blockno[b] = n /\ hashtable[n].idx = b
      /\ \A m \in Blocks : m # n => hashtable[m].idx # b
      /\ Counted(t) /\ b # NoBuf
  BY <1>0, <1>1, NamedIs, Constants DEF NamedAt, HoldAt
<1>3. PICK rc : rc = hashtable[n]
  OBVIOUS
<1>4. rc \in RefIdxs /\ rc.idx = b
  BY <1>0, <1>1, <1>2, <1>3, Mine
<1>5. Dec(rc) \in RefIdxs /\ Dec(rc).idx = rc.idx /\ (rc.ref >= 1 => Dec(rc).ref = rc.ref - 1)
  BY <1>4, DecIs
<1>6. /\ pc' \in [Threads -> Labels] /\ loc' = loc /\ pc'[t] = "release"
      /\ \A u \in Threads : u # t => pc'[u] = pc[u]
  BY <1>1, GotoIs DEF Labels, Unpin
<1>7. Recounts(t, n, Dec(rc))
  BY <1>0, <1>2, <1>3, <1>4, <1>5, <1>6 DEF Recounts, Others, Unpin, queueVars, bufVars, diskVars
<1>8. /\ hashtable' \in [Keys -> RefIdxs] /\ hashtable'[n] = Dec(rc)
      /\ \A m \in Keys : m # n => hashtable'[m] = hashtable[m]
      /\ \A m \in Keys : hashtable'[m].idx = hashtable[m].idx
  BY <1>1, <1>2, <1>5, <1>7, RecountIs
<1>9. /\ leaked' = leaked /\ dropped' = dropped /\ ops' = ops /\ mapped' = mapped
      /\ n \in pinned /\ pinned' = pinned \ {n} /\ disk[n] = content[n]
  BY <1>0, <1>1, <1>2 DEF Unpin, At, UserOK
<1>10. TypeOK'
  BY <1>1, <1>2, <1>6, <1>7, <1>8, <1>9 DEF TypeOK, Recounts
<1>11. Counted(t)' /\ pc[t] \in HoldAt /\ pc'[t] \in HoldAt
  BY <1>1, <1>6 DEF Counted, HoldAt
<1>12. \A c \in Buffers :
        /\ ~Own(t, c) /\ ~Own(t, c)' /\ ~Enq(t, c) /\ ~Enq(t, c)' /\ ~New(t, c) /\ ~New(t, c)'
        /\ (Has(t, c)' <=> Has(t, c)) /\ ~Linker(t, c) /\ ~Linker(t, c)'
  BY <1>1, <1>6 DEF Own, Enq, New, Has, Linker, CandAt, NewAt, NamedAt, HoldAt
<1>13. Table' /\ Names' /\ Queued' /\ Locks' /\ DataOK'
  BY <1>1, <1>2, <1>3, <1>5, <1>6, <1>7, <1>11, <1>12, RecountKeeps
<1>14. hashtable'[n].ref > 0 /\ Counts'
  <2>1. \A m \in Blocks : Got(m)' = Got(m)
    BY <1>2, <1>6, <1>7, <1>11, GotSame DEF Recounts
  <2>2. Pins(n)' = Pins(n) - 1 /\ \A m \in Blocks : m # n => Pins(m)' = Pins(m)
    BY <1>2, <1>8, <1>9, Constants DEF Pins
  <2>3. Cardinality(Got(n)) \in Nat /\ Cardinality(Got(n)) >= 1 /\ Pins(n) \in {1, 2}
    BY <1>0, <1>2, <1>9, GotOne DEF Pins
  <2>4. rc.ref = Cardinality(Got(n)) + Pins(n)
    BY <1>2, <1>3 DEF IInv, Counts
  <2>5. rc.ref >= 2 /\ rc.ref \in Nat
    BY <2>3, <2>4
  <2>6. hashtable'[n].ref = rc.ref - 1
    BY <2>5, <1>5, <1>8
  <2>7. ASSUME NEW m \in Blocks PROVE hashtable'[m].ref = Cardinality(Got(m)') + Pins(m)'
    <3>1. CASE m = n
      BY <3>1, <2>1, <2>2, <2>3, <2>4, <2>6
    <3>2. CASE m # n
      BY <3>2, <2>1, <2>2, <1>8, Constants DEF IInv, Counts
    <3> QED BY <3>1, <3>2
  <2> QED BY <2>5, <2>6, <2>7 DEF Counts
<1>15. \A u \in Threads : \A c \in Buffers : New(u, c)' <=> New(u, c)
  BY <1>7, <1>12, NewSame DEF Recounts
<1>16. Mapped'
  BY <1>1, <1>7, <1>8, <1>9, <1>15 DEF IInv, Mapped, TypeOK, Recounts
<1>17. Pinned'
  <2> SUFFICES ASSUME NEW m \in pinned'
               PROVE  /\ hashtable[m].idx # NoBuf /\ blockno[hashtable[m].idx] = m
                      /\ valid[hashtable[m].idx] /\ \A u \in Threads : ~New(u, hashtable[m].idx)'
                      /\ m \in Keys
    BY <1>7, <1>8 DEF Pinned, Recounts, New
  <2>1. PICK c : c = hashtable[m].idx
    OBVIOUS
  <2>2. m \in Keys /\ c # NoBuf /\ c \in Buffers /\ blockno[c] = m /\ valid[c] /\ \A u \in Threads : ~New(u, c)
    BY <2>1, <1>1, <1>9, Mine, Constants DEF IInv, Pinned, TypeOK
  <2>3. \A u \in Threads : ~New(u, c)'
    BY <2>2, <1>15
  <2>4. \A u \in Threads : ~New(u, hashtable[m].idx)'
    BY <2>1, <2>2, <2>3, <1>8 DEF New
  <2> QED BY <2>1, <2>2, <2>4
<1>18. \A u \in Threads : ThreadOK(u)'
  <2>1. BgetOK(t)'
    BY <1>1, <1>6 DEF BgetOK, CandAt, FreshAt
  <2>2. PhaseOK(t)'
    BY <1>6 DEF PhaseOK, CandAt
  <2>3. UserOK(t)'
    BY <1>0, <1>1, <1>2, <1>4, <1>6, <1>7, <1>8 DEF UserOK, Counted, Target, HoldAt, NamedAt, FilledAt, Recounts
  <2>4. ASSUME NEW u \in Threads, u # t PROVE ThreadOK(u)'
    <3>1. pc[u] \in HoldAt => loc[u].buf # b /\ loc[u].block # n
      BY <2>4, <1>0, <1>11, HoldersElsewhere
    <3> QED BY <2>4, <3>1, <1>2, <1>5, <1>7, <1>9, RecountOthers
  <2> QED BY <2>1, <2>2, <2>3, <2>4 DEF ThreadOK
<1>19. \A u, v \in Threads : u # v => Apart(u, v)'
  BY <1>7, <1>12, ApartSame DEF Recounts, IInv
<1>20. DiskOK'
  <2> SUFFICES ASSUME NEW m \in Blocks, disk[m] # content[m], m \notin pinned'
               PROVE  \E u \in Threads : pc'[u] \in {"bwrite", "pin"} /\ loc'[u].block = m
    BY <1>7 DEF DiskOK, Recounts
  <2>1. m \notin pinned
    BY <1>9
  <2>2. PICK u \in Threads : pc[u] \in {"bwrite", "pin"} /\ loc[u].block = m
    BY <2>1 DEF IInv, DiskOK
  <2>3. u # t
    BY <2>2, <1>1
  <2> QED BY <2>2, <2>3, <1>6
<1>21. LostOK'
  <2> SUFFICES ASSUME NEW c \in Buffers, phase[c] = "out"
               PROVE  \/ \E u \in Threads : Own(u, c)' \/ Enq(u, c)'
                      \/ InUse(c)' \/ c \in (leaked \cup dropped)'
    BY <1>7 DEF LostOK, Recounts
  <2>1. \A u \in Threads : (Own(u, c)' <=> Own(u, c)) /\ (Enq(u, c)' <=> Enq(u, c))
    BY <1>7, <1>12 DEF Recounts, Others, Own, Enq
  <2>2. InUse(c) => InUse(c)'
    <3> SUFFICES ASSUME NEW m \in Blocks, hashtable[m].idx = c, hashtable[m].ref > 0 PROVE hashtable'[m].idx = c /\ hashtable'[m].ref > 0
      BY DEF InUse
    <3>1. m \in Keys /\ hashtable'[m].idx = c
      BY <1>8, Constants
    <3>2. hashtable'[m].ref > 0
      BY <3>1, <1>8, <1>14
    <3> QED BY <3>1, <3>2
  <2> QED BY <2>1, <2>2, <1>9 DEF IInv, LostOK
<1> QED
  BY <1>10, <1>13, <1>14, <1>16, <1>17, <1>18, <1>19, <1>20, <1>21 DEF IInv, Threaded

LEMMA UnmapKeeps ==
  ASSUME IInv, NEW t \in Threads, Unmap(t)
  PROVE  IInv'
<1>a. PICK b \in mapped :
        /\ hashtable' = [hashtable EXCEPT ![blockno[b]] = Dec(@)]
        /\ mapped' = mapped \ {b}
        /\ leaked' = IF hashtable'[blockno[b]].ref = 0 /\ phase[b] = "out"
                     THEN leaked \cup {b} ELSE leaked
  BY DEF Unmap
<1>b. PICK n : n = blockno[b]
  OBVIOUS
<1>0. /\ b \in mapped /\ n = blockno[b]
      /\ hashtable' = [hashtable EXCEPT ![n] = Dec(hashtable[n])]
      /\ mapped' = mapped \ {b}
      /\ leaked' = IF hashtable'[n].ref = 0 /\ phase[b] = "out"
                   THEN leaked \cup {b} ELSE leaked
  BY <1>a, <1>b
<1>1. TypeOK /\ BgetOK(t) /\ PhaseOK(t) /\ UserOK(t) /\ pc[t] = "idle"
  BY Mine DEF Unmap, At
<1>2. /\ b \in Buffers /\ n \in Blocks /\ n \in Keys /\ hashtable[n].idx = b /\ b # NoBuf
      /\ \A m \in Blocks : m # n => hashtable[m].idx # b
  <2>1. b \in Buffers /\ n \in Keys /\ hashtable[n].idx = b /\ b # NoBuf
    BY <1>0, <1>1, Constants DEF IInv, Mapped, TypeOK
  <2>2. n # 0
    BY <2>1 DEF IInv, Table, RefIdx
  <2>3. n \in Blocks
    BY <2>1, <2>2, Constants
  <2>4. \A m \in Blocks : m # n => hashtable[m].idx # b
    BY <2>1, <2>3, Constants DEF IInv, Table
  <2> QED BY <2>1, <2>3, <2>4
<1>3. PICK rc : rc = hashtable[n]
  OBVIOUS
<1>4. rc \in RefIdxs /\ rc.idx = b
  BY <1>1, <1>2, <1>3, Mine
<1>5. Dec(rc) \in RefIdxs /\ Dec(rc).idx = rc.idx /\ (rc.ref >= 1 => Dec(rc).ref = rc.ref - 1)
  BY <1>4, DecIs
<1>6. UNCHANGED <<queueVars, bufVars, diskVars, pinned, dropped, pc, loc, ops>>
  BY DEF Unmap
<1>7. Recounts(t, n, Dec(rc))
  BY <1>0, <1>2, <1>3, <1>4, <1>5, <1>6 DEF Recounts, Others, queueVars, bufVars, diskVars
<1>8. /\ hashtable' \in [Keys -> RefIdxs] /\ hashtable'[n] = Dec(rc)
      /\ \A m \in Keys : m # n => hashtable'[m] = hashtable[m]
      /\ \A m \in Keys : hashtable'[m].idx = hashtable[m].idx
  BY <1>1, <1>2, <1>5, <1>7, RecountIs
<1>10. TypeOK'
  BY <1>0, <1>1, <1>2, <1>6, <1>7, <1>8 DEF TypeOK, Recounts
<1>11. ~Counted(t) /\ pc[t] \notin HoldAt
  BY <1>1 DEF Counted, HoldAt
<1>12. \A c \in Buffers : ~Own(t, c) /\ ~Enq(t, c) /\ ~New(t, c) /\ ~Has(t, c) /\ ~Linker(t, c)
  BY <1>1 DEF Own, Enq, New, Has, Linker, CandAt, NewAt, NamedAt, HoldAt
<1>12a. \A c \in Buffers : ~Own(t, c)' /\ ~Enq(t, c)' /\ ~New(t, c)' /\ ~Has(t, c)' /\ ~Linker(t, c)'
  BY <1>1, <1>6 DEF Own, Enq, New, Has, Linker, CandAt, NewAt, NamedAt, HoldAt
<1>13. Table' /\ Names' /\ Queued' /\ Locks' /\ DataOK'
  BY <1>1, <1>2, <1>3, <1>5, <1>6, <1>7, <1>11, <1>12, <1>12a, RecountKeeps
<1>14. Counts'
  <2>1. \A m \in Blocks : Got(m)' = Got(m)
    BY <1>6 DEF Got, Counted
  <2>2. Pins(n)' = Pins(n) - 1 /\ \A m \in Blocks : m # n => Pins(m)' = Pins(m)
    BY <1>0, <1>2, <1>6, <1>8, Constants DEF Pins
  <2>3. Cardinality(Got(n)) \in Nat /\ Pins(n) \in {1, 2}
    BY <1>0, <1>2, GotFinite DEF Pins
  <2>4. rc.ref = Cardinality(Got(n)) + Pins(n)
    BY <1>2, <1>3 DEF IInv, Counts
  <2>5. rc.ref >= 1 /\ rc.ref \in Nat
    BY <2>3, <2>4
  <2>6. hashtable'[n].ref = rc.ref - 1
    BY <2>5, <1>5, <1>8
  <2>7. ASSUME NEW m \in Blocks PROVE hashtable'[m].ref = Cardinality(Got(m)') + Pins(m)'
    <3>1. CASE m = n
      BY <3>1, <2>1, <2>2, <2>3, <2>4, <2>6
    <3>2. CASE m # n
      BY <3>2, <2>1, <2>2, <1>8, Constants DEF IInv, Counts
    <3> QED BY <3>1, <3>2
  <2> QED BY <2>7 DEF Counts
<1>15. \A u \in Threads : \A c \in Buffers : New(u, c)' <=> New(u, c)
  BY <1>7, <1>12, <1>12a, NewSame DEF Recounts
<1>16. Mapped'
  BY <1>0, <1>1, <1>7, <1>8, <1>15 DEF IInv, Mapped, TypeOK, Recounts
<1>17. Pinned'
  <2> SUFFICES ASSUME NEW m \in pinned
               PROVE  /\ hashtable[m].idx # NoBuf /\ blockno[hashtable[m].idx] = m
                      /\ valid[hashtable[m].idx] /\ \A u \in Threads : ~New(u, hashtable[m].idx)'
                      /\ m \in Keys
    BY <1>6, <1>7, <1>8 DEF Pinned, Recounts, New
  <2>1. PICK c : c = hashtable[m].idx
    OBVIOUS
  <2>2. m \in Keys /\ c # NoBuf /\ c \in Buffers /\ blockno[c] = m /\ valid[c] /\ \A u \in Threads : ~New(u, c)
    BY <2>1, <1>1, Mine, Constants DEF IInv, Pinned, TypeOK
  <2>3. \A u \in Threads : ~New(u, c)'
    BY <2>2, <1>15
  <2>4. \A u \in Threads : ~New(u, hashtable[m].idx)'
    BY <2>1, <2>2, <2>3, <1>8 DEF New
  <2> QED BY <2>1, <2>2, <2>4
<1>18. \A u \in Threads : ThreadOK(u)'
  <2>1. BgetOK(t)'
    BY <1>1, <1>6 DEF BgetOK, CandAt, FreshAt
  <2>2. PhaseOK(t)'
    BY <1>1, <1>6 DEF PhaseOK, CandAt
  <2>3. UserOK(t)'
    BY <1>1, <1>6 DEF UserOK, Counted, HoldAt, NamedAt, FilledAt
  <2>4. \A u \in Threads : u # t => ThreadOK(u)'
    BY <1>0, <1>2, <1>5, <1>6, <1>7, RecountOthers
  <2> QED BY <2>1, <2>2, <2>3, <2>4 DEF ThreadOK
<1>19. \A u, v \in Threads : u # v => Apart(u, v)'
  BY <1>7, <1>12a, ApartSame DEF Recounts, IInv
<1>20. DiskOK'
  BY <1>6 DEF IInv, DiskOK, diskVars
<1>21. LostOK'
  <2> SUFFICES ASSUME NEW c \in Buffers, phase[c] = "out"
               PROVE  \/ \E u \in Threads : Own(u, c)' \/ Enq(u, c)'
                      \/ InUse(c)' \/ c \in (leaked \cup dropped)'
    BY <1>7 DEF LostOK, Recounts
  <2>1. \A u \in Threads : (Own(u, c)' <=> Own(u, c)) /\ (Enq(u, c)' <=> Enq(u, c))
    BY <1>6 DEF Own, Enq
  <2>2. hashtable'[n].ref \in Nat
    BY <1>2, <1>8, Constants DEF RefIdxs
  <2>3. InUse(c) => InUse(c)' \/ c \in leaked'
    <3> SUFFICES ASSUME NEW m \in Blocks, hashtable[m].idx = c, hashtable[m].ref > 0, c \notin leaked'
                 PROVE  hashtable'[m].idx = c /\ hashtable'[m].ref > 0
      BY DEF InUse
    <3>1. m \in Keys /\ hashtable'[m].idx = c
      BY <1>8, Constants
    <3>2. hashtable'[m].ref > 0
      <4>1. CASE m = n
        BY <4>1, <2>2, <1>0, <1>2
      <4>2. CASE m # n
        BY <4>2, <3>1, <1>8
      <4> QED BY <4>1, <4>2
    <3> QED BY <3>1, <3>2
  <2>4. leaked \subseteq leaked' /\ dropped' = dropped
    BY <1>0, <1>6
  <2> QED BY <2>1, <2>3, <2>4 DEF IInv, LostOK
<1> QED
  BY <1>10, <1>13, <1>14, <1>16, <1>17, <1>18, <1>19, <1>20, <1>21 DEF IInv, Threaded

\* brelse gives its count up: nobody is evicting the buffer if it is the last one.
LEMMA RelCountCounts ==
  ASSUME IInv, ~Races, NEW t \in Threads, pc[t] = "rel_count",
         loc[t].rc.ref = 1 => MayFree(loc[t].buf),
         CAS(t, loc[t].victim, loc[t].rc, Dec(loc[t].rc),
             IF LastUser(loc[t].rc) THEN "enqueue" ELSE "done"),
         UNCHANGED <<queueVars, bufVars, diskVars, pinVars, loc, ops>>
  PROVE  IInv'
<1>0. PICK n, b : n = loc[t].block /\ b = loc[t].buf
  OBVIOUS
<1>1. TypeOK /\ BgetOK(t) /\ PhaseOK(t) /\ UserOK(t)
  BY Mine
<1>2. /\ b \in Buffers /\ n \in Blocks /\ n \in Keys /\ blockno[b] = n /\ hashtable[n].idx = b
      /\ \A m \in Blocks : m # n => hashtable[m].idx # b
      /\ \A u \in Threads : ~New(u, b)
      /\ Counted(t) /\ b # NoBuf /\ loc[t].victim = n
  BY <1>0, <1>1, NamedIs, Constants DEF NamedAt, HoldAt, UserOK
<1>3. PICK rc : rc = hashtable[n]
  OBVIOUS
<1>4. rc \in RefIdxs /\ rc.idx = b /\ rc = loc[t].rc
  BY <1>0, <1>1, <1>2, <1>3, Mine DEF CAS
<1>5. Dec(rc) \in RefIdxs /\ Dec(rc).idx = rc.idx /\ (rc.ref >= 1 => Dec(rc).ref = rc.ref - 1)
  BY <1>4, DecIs
<1>6. /\ pc' \in [Threads -> Labels] /\ loc' = loc
      /\ pc'[t] = IF rc.ref = 1 THEN "enqueue" ELSE "done"
      /\ \A u \in Threads : u # t => pc'[u] = pc[u]
  BY <1>1, <1>4, GotoIs DEF Labels, CAS, LastUser
<1>7. Recounts(t, n, Dec(rc))
  BY <1>0, <1>2, <1>3, <1>4, <1>5, <1>6 DEF Recounts, Others, CAS, queueVars, bufVars, diskVars
<1>8. /\ hashtable' \in [Keys -> RefIdxs] /\ hashtable'[n] = Dec(rc)
      /\ \A m \in Keys : m # n => hashtable'[m] = hashtable[m]
      /\ \A m \in Keys : hashtable'[m].idx = hashtable[m].idx
  BY <1>1, <1>2, <1>5, <1>7, RecountIs
<1>9. leaked' = leaked /\ dropped' = dropped /\ ops' = ops /\ mapped' = mapped /\ pinned' = pinned
  BY DEF pinVars
<1>10. TypeOK'
  BY <1>1, <1>2, <1>6, <1>7, <1>8, <1>9 DEF TypeOK, Recounts
<1>11. ~Counted(t)' /\ pc[t] \notin HoldAt
  BY <1>1, <1>6 DEF Counted, HoldAt
<1>12. \A c \in Buffers :
        /\ ~Own(t, c) /\ ~Own(t, c)' /\ ~Enq(t, c) /\ ~New(t, c) /\ ~New(t, c)'
        /\ ~Has(t, c)' /\ ~Linker(t, c) /\ ~Linker(t, c)'
        /\ (Enq(t, c)' <=> (c = b /\ rc.ref = 1))
  BY <1>0, <1>1, <1>6 DEF Own, Enq, New, Has, Linker, CandAt, NewAt, NamedAt, HoldAt
<1>13. Table' /\ Names' /\ Queued' /\ Locks' /\ DataOK'
  BY <1>1, <1>2, <1>3, <1>5, <1>6, <1>7, <1>11, <1>12, RecountKeeps
<1>14. rc.ref \in Nat /\ rc.ref >= 1 /\ hashtable'[n].ref = rc.ref - 1 /\ Counts'
  <2>1. /\ Cardinality(Got(n)') = Cardinality(Got(n)) - 1
        /\ \A m \in Blocks : m # n => Got(m)' = Got(m)
    BY <1>0, <1>2, <1>7, <1>11, GotLeaves DEF Recounts
  <2>2. \A m \in Blocks : Pins(m)' = Pins(m)
    BY <1>8, <1>9, Constants DEF Pins
  <2>3. Cardinality(Got(n)) \in Nat /\ Cardinality(Got(n)) >= 1 /\ Pins(n) \in {0, 1, 2}
    BY <1>0, <1>2, GotOne, PinsNat
  <2>4. rc.ref = Cardinality(Got(n)) + Pins(n)
    BY <1>2, <1>3 DEF IInv, Counts
  <2>5. rc.ref >= 1 /\ rc.ref \in Nat
    BY <2>3, <2>4
  <2>6. hashtable'[n].ref = rc.ref - 1
    BY <2>5, <1>5, <1>8
  <2>7. ASSUME NEW m \in Blocks PROVE hashtable'[m].ref = Cardinality(Got(m)') + Pins(m)'
    <3>1. CASE m = n
      BY <3>1, <2>1, <2>2, <2>3, <2>4, <2>6
    <3>2. CASE m # n
      BY <3>2, <2>1, <2>2, <1>8, Constants DEF IInv, Counts
    <3> QED BY <3>1, <3>2
  <2> QED BY <2>5, <2>6, <2>7 DEF Counts
<1>15. \A u \in Threads : \A c \in Buffers : New(u, c)' <=> New(u, c)
  BY <1>7, <1>12, NewSame DEF Recounts
<1>16. Mapped'
  BY <1>1, <1>7, <1>8, <1>9, <1>15 DEF IInv, Mapped, TypeOK, Recounts
<1>17. Pinned'
  <2> SUFFICES ASSUME NEW m \in pinned
               PROVE  /\ hashtable[m].idx # NoBuf /\ blockno[hashtable[m].idx] = m
                      /\ valid[hashtable[m].idx] /\ \A u \in Threads : ~New(u, hashtable[m].idx)'
                      /\ m \in Keys
    BY <1>7, <1>8, <1>9 DEF Pinned, Recounts, New
  <2>1. PICK c : c = hashtable[m].idx
    OBVIOUS
  <2>2. m \in Keys /\ c # NoBuf /\ c \in Buffers /\ blockno[c] = m /\ valid[c] /\ \A u \in Threads : ~New(u, c)
    BY <2>1, <1>1, Mine, Constants DEF IInv, Pinned, TypeOK
  <2>3. \A u \in Threads : ~New(u, c)'
    BY <2>2, <1>15
  <2>4. \A u \in Threads : ~New(u, hashtable[m].idx)'
    BY <2>1, <2>2, <2>3, <1>8 DEF New
  <2> QED BY <2>1, <2>2, <2>4
<1>18. \A u \in Threads : ThreadOK(u)'
  <2>1. BgetOK(t)'
    BY <1>1, <1>6 DEF BgetOK, CandAt, FreshAt
  <2>2. PhaseOK(t)'
    BY <1>6 DEF PhaseOK, CandAt
  <2>3. UserOK(t)'
    BY <1>0, <1>2, <1>6 DEF UserOK, Counted, HoldAt, NamedAt, FilledAt
  <2>4. \A u \in Threads : u # t => ThreadOK(u)'
    BY <1>2, <1>5, <1>7, <1>9, RecountOthers
  <2> QED BY <2>1, <2>2, <2>3, <2>4 DEF ThreadOK
<1>19. ASSUME rc.ref = 1, NEW u \in Threads PROVE ~Own(u, b)
  <2>1. pc[u] \in FreshAt => ~Own(u, b)
    BY <1>2, Mine DEF BgetOK, Own
  <2>2. pc[u] \in NewAt => ~Own(u, b)
    BY <1>2 DEF New, Own
  <2>3. ~HasCandidate(b, {"unclaim", "victim", "expect", "evict"})
    BY <1>0, <1>4, <1>19 DEF MayFree
  <2>4. pc[u] \in {"unclaim", "victim", "expect", "evict"} => ~Own(u, b)
    BY <2>3 DEF HasCandidate, Own
  <2> QED BY <2>1, <2>2, <2>4 DEF Own, CandAt, FreshAt, NewAt
<1>20. \A u, v \in Threads : u # v => Apart(u, v)'
  BY <1>7, <1>12, <1>19, ApartKept DEF Recounts, IInv
<1>21. DiskOK'
  <2>1. \A u \in Threads : pc[u] \in {"bwrite", "pin"} => pc'[u] \in {"bwrite", "pin"} /\ loc'[u] = loc[u]
    BY <1>6
  <2> QED BY <2>1, <1>7, <1>9 DEF IInv, DiskOK, Recounts
<1>22. LostOK'
  <2> SUFFICES ASSUME NEW c \in Buffers, phase[c] = "out"
               PROVE  \/ \E u \in Threads : Own(u, c)' \/ Enq(u, c)'
                      \/ InUse(c)' \/ c \in (leaked \cup dropped)'
    BY <1>7 DEF LostOK, Recounts
  <2>1. \A u \in Threads : u # t => (Own(u, c)' <=> Own(u, c)) /\ (Enq(u, c)' <=> Enq(u, c))
    BY <1>7 DEF Recounts, Others, Own, Enq
  <2>2. (\E u \in Threads : Own(u, c) \/ Enq(u, c)) => \E u \in Threads : Own(u, c)' \/ Enq(u, c)'
    BY <2>1, <1>12
  <2>3. InUse(c) => InUse(c)' \/ Enq(t, c)'
    <3> SUFFICES ASSUME NEW m \in Blocks, hashtable[m].idx = c, hashtable[m].ref > 0, ~Enq(t, c)'
                 PROVE  hashtable'[m].idx = c /\ hashtable'[m].ref > 0
      BY DEF InUse
    <3>1. m \in Keys /\ hashtable'[m].idx = c
      BY <1>8, Constants
    <3>2. hashtable'[m].ref > 0
      <4>1. CASE m = n
        <5>1. c = b /\ rc.ref # 1
          BY <4>1, <1>2, <1>12
        <5> QED BY <4>1, <5>1, <1>14
      <4>2. CASE m # n
        BY <4>2, <3>1, <1>8
      <4> QED BY <4>1, <4>2
    <3> QED BY <3>1, <3>2
  <2> QED BY <2>2, <2>3, <1>9 DEF IInv, LostOK
<1> QED
  BY <1>10, <1>13, <1>14, <1>16, <1>17, <1>18, <1>20, <1>21, <1>22 DEF IInv, Threaded

-----------------------------------------------------------------------------
(* The steps that change whose buffer an entry is *)

LEMMA EvictKeeps ==
  ASSUME IInv, NEW t \in Threads, At(t, "evict"),
         CAS(t, loc[t].victim, loc[t].expect, Unmapped(loc[t].expect), "install"),
         UNCHANGED <<queueVars, bufVars, diskVars, pinVars, loc, ops>>
  PROVE  IInv'
<1>0. PICK v, c : v = loc[t].victim /\ c = loc[t].cand
  OBVIOUS
<1>1. TypeOK /\ BgetOK(t) /\ PhaseOK(t) /\ UserOK(t) /\ pc[t] = "evict" /\ v \in Keys
  BY <1>0, Mine DEF At
<1>2. /\ c \in Buffers /\ c # NoBuf /\ v = blockno[c] /\ Own(t, c)
      /\ \A u \in Threads : u # t => ~Own(u, c)
  <2>1. c \in Buffers /\ c # NoBuf /\ v = blockno[c]
    BY <1>0, <1>1, Mine, Constants DEF BgetOK, CandAt
  <2>2. Own(t, c)
    BY <2>1, <1>0, <1>1 DEF Own, CandAt
  <2>3. \A u \in Threads : u # t => ~Own(u, c)
    BY <2>1, <2>2 DEF IInv, Threaded, Apart
  <2> QED BY <2>1, <2>2, <2>3
<1>3. hashtable[v].ref = 0 /\ hashtable[v].idx \in Bufs
  BY <1>0, <1>1, Mine DEF CAS, BgetOK
<1>4. /\ pc' \in [Threads -> Labels] /\ loc' = loc /\ pc'[t] = "install"
      /\ \A u \in Threads : u # t => pc'[u] = pc[u]
  BY <1>1, GotoIs DEF Labels, CAS
<1>5. /\ hashtable' \in [Keys -> RefIdxs] /\ hashtable'[v] = RefIdx(0, NoBuf)
      /\ hashtable'[v].ref = 0 /\ hashtable'[v].idx = NoBuf
      /\ \A m \in Keys : m # v => hashtable'[m] = hashtable[m]
  <2>1. RefIdx(0, NoBuf) \in RefIdxs /\ RefIdx(0, NoBuf).ref = 0 /\ RefIdx(0, NoBuf).idx = NoBuf
    BY Constants DEF RefIdx, RefIdxs
  <2>2. hashtable' = [hashtable EXCEPT ![v] = RefIdx(0, NoBuf)]
    BY <1>0 DEF CAS, Unmapped
  <2> QED BY <2>1, <2>2, <1>1 DEF TypeOK
<1>6. UNCHANGED <<queue, phase, blockno, valid, data, lock, disk, content, leaked, dropped,
                  pinned, mapped, ops>> /\ Others(t)
  BY <1>4 DEF queueVars, bufVars, diskVars, pinVars, Others
<1>7. TypeOK'
  BY <1>1, <1>4, <1>5, <1>6 DEF TypeOK
<1>8. /\ \A u \in Threads : Counted(u) => loc[u].block # v
      /\ v \notin pinned /\ hashtable[v].idx \notin mapped
  <2>1. CASE v = 0
    <3>1. hashtable[v].idx = NoBuf
      BY <2>1 DEF IInv, Table, RefIdx
    <3>2. \A u \in Threads : Counted(u) => loc[u].block \in Blocks
      BY Mine DEF Counted
    <3> QED BY <2>1, <3>1, <3>2, <1>1, Constants DEF TypeOK
  <2>2. CASE v # 0
    <3>1. v \in Blocks
      BY <2>2, <1>1, Constants
    <3> QED BY <3>1, <1>1, <1>3, CountZero DEF IInv
  <2> QED BY <2>1, <2>2
<1>9. \A u \in Threads : \A b \in Buffers : ~New(t, b) /\ ~New(t, b)' /\ (New(u, b)' <=> New(u, b))
  BY <1>1, <1>4 DEF New, NewAt
<1>10. \A m \in Blocks : m # v => hashtable[m].idx # c
  <2> SUFFICES ASSUME NEW m \in Blocks, m # v, hashtable[m].idx = c PROVE FALSE
    OBVIOUS
  <2>1. blockno[c] # m
    BY <1>2
  <2>2. PICK u \in Threads : New(u, c)
    BY <2>1, <1>2 DEF IInv, Names
  <2>3. u # t /\ Own(u, c)
    BY <2>2, <1>2, <1>9 DEF New, Own, CandAt, NewAt
  <2> QED BY <2>3, <1>2
<1>11. \A m \in Blocks : m \in Keys /\ (hashtable[m].idx # NoBuf => hashtable[m].idx \in Buffers)
  BY Constants, Mine
<1>12. Table'
  <2>1. hashtable'[0] = RefIdx(0, NoBuf)
    BY <1>5, Constants DEF IInv, Table
  <2> QED BY <2>1, <1>5 DEF IInv, Table
<1>13. Counts'
  <2>1. \A m \in Blocks : Got(m)' = Got(m)
    BY <1>1, <1>4, <1>6, GotSame DEF Counted
  <2> SUFFICES ASSUME NEW m \in Blocks PROVE hashtable'[m].ref = Cardinality(Got(m)) + Pins(m)'
    BY <2>1 DEF Counts
  <2>2. hashtable[m].ref = Cardinality(Got(m)) + Pins(m) /\ m \in Keys
    BY <1>11 DEF IInv, Counts
  <2>3. CASE m = v
    <3>1. Pins(m)' = 0 /\ Pins(m) = 0
      BY <2>3, <1>1, <1>5, <1>6, <1>8, Constants DEF Pins, TypeOK
    <3> QED BY <2>2, <2>3, <3>1, <1>3, <1>5
  <2>4. CASE m # v
    BY <2>2, <2>4, <1>5, <1>6 DEF Pins
  <2> QED BY <2>3, <2>4
<1>14. Names'
  <2> SUFFICES ASSUME NEW m \in Blocks, hashtable'[m].idx # NoBuf
               PROVE  \/ blockno[hashtable'[m].idx] = m
                      \/ \E u \in Threads : New(u, hashtable[m].idx)' /\ loc[u].block = m
    BY <1>4, <1>6 DEF Names, New
  <2>1. PICK b : b = hashtable[m].idx
    OBVIOUS
  <2>2. m # v /\ b = hashtable'[m].idx /\ b \in Buffers /\ b # NoBuf
    BY <2>1, <1>5, <1>11
  <2>3. blockno[b] = m \/ \E u \in Threads : New(u, b) /\ loc[u].block = m
    BY <2>1, <2>2 DEF IInv, Names
  <2>4. \A u \in Threads : New(u, b) => New(u, hashtable[m].idx)'
    BY <2>2, <1>4, <1>9 DEF New
  <2> QED BY <2>2, <2>3, <2>4
<1>15. Mapped'
  <2> SUFFICES ASSUME NEW b \in mapped
               PROVE  hashtable'[blockno[b]].idx = b /\ valid[b] /\ \A u \in Threads : ~New(u, b)'
    BY <1>6 DEF Mapped, New
  <2>1. b \in Buffers /\ blockno[b] \in Keys
    BY <1>1 DEF TypeOK
  <2>2. hashtable[blockno[b]].idx = b /\ valid[b] /\ \A u \in Threads : ~New(u, b)
    BY DEF IInv, Mapped
  <2>3. blockno[b] # v
    BY <2>2, <1>8
  <2> QED BY <2>1, <2>2, <2>3, <1>5, <1>9
<1>16. Pinned'
  <2> SUFFICES ASSUME NEW m \in pinned
               PROVE  /\ hashtable'[m].idx # NoBuf /\ blockno[hashtable'[m].idx] = m
                      /\ valid[hashtable'[m].idx] /\ \A u \in Threads : ~New(u, hashtable[m].idx)'
    BY <1>6 DEF Pinned, New
  <2>1. PICK b : b = hashtable[m].idx
    OBVIOUS
  <2>2. m \in Blocks /\ b # NoBuf /\ b \in Buffers /\ blockno[b] = m /\ valid[b] /\ \A u \in Threads : ~New(u, b)
    BY <2>1, <1>1, <1>11 DEF IInv, Pinned, TypeOK
  <2>3. hashtable'[m].idx = b
    BY <2>1, <2>2, <1>5, <1>8, <1>11
  <2>4. \A u \in Threads : ~New(u, hashtable[m].idx)'
    BY <2>2, <2>3, <1>4, <1>9 DEF New
  <2> QED BY <2>2, <2>3, <2>4
<1>17. \A b \in Buffers :
        /\ (Own(t, b)' <=> Own(t, b)) /\ ~Enq(t, b) /\ ~Enq(t, b)'
        /\ ~Has(t, b)' /\ ~Linker(t, b) /\ ~Linker(t, b)'
  BY <1>1, <1>4 DEF Own, Enq, Has, Linker, CandAt, NamedAt, HoldAt
<1>18. Queued' /\ Locks'
  <2>1. pc[t] # "unclaim" /\ pc[t] \notin HoldAt
    BY <1>1 DEF HoldAt
  <2> QED BY <2>1, <1>1, <1>6, <1>17, QueuedSame, LocksSame DEF IInv
<1>19. \A u \in Threads : ThreadOK(u)'
  <2>1. BgetOK(t)'
    BY <1>0, <1>1, <1>2, <1>4, <1>5, <1>10, <1>11 DEF BgetOK, CandAt, FreshAt
  <2>2. PhaseOK(t)'
    BY <1>1, <1>4, <1>6 DEF PhaseOK, CandAt
  <2>3. UserOK(t)'
    BY <1>4 DEF UserOK, Counted, HoldAt, NamedAt, FilledAt
  <2>4. ASSUME NEW u \in Threads, u # t PROVE ThreadOK(u)'
    <3>1. ThreadOK(u) /\ pc'[u] = pc[u] /\ loc'[u] = loc[u] /\ loc[u].block \in Keys
      BY <2>4, <1>6, Mine DEF Others, IInv, Threaded
    <3>2. Own(u, loc[u].cand) => \A m \in Keys : hashtable'[m].idx = loc[u].cand => hashtable[m].idx = loc[u].cand
      BY <1>5 DEF Own
    <3>3. Counted(u) => hashtable'[loc[u].block].idx = hashtable[loc[u].block].idx
      BY <3>1, <1>5, <1>8
    <3> QED BY <3>1, <3>2, <3>3, <1>1, <1>6, OtherOK
  <2> QED BY <2>1, <2>2, <2>3, <2>4 DEF ThreadOK
<1>20. \A u, w \in Threads : u # w => Apart(u, w)'
  BY <1>6, <1>9, <1>17, ApartSame DEF IInv
<1>21. DataOK'
  <2> SUFFICES ASSUME NEW m \in Blocks, hashtable'[m].idx # NoBuf, valid[hashtable'[m].idx],
                      \A u \in Threads : ~New(u, hashtable[m].idx)'
               PROVE  data[hashtable'[m].idx] = content[m]
    BY <1>6 DEF DataOK, New
  <2>1. PICK b : b = hashtable[m].idx
    OBVIOUS
  <2>2. m # v /\ b = hashtable'[m].idx /\ b \in Buffers /\ b # NoBuf
    BY <2>1, <1>5, <1>11
  <2>3. \A u \in Threads : ~New(u, b)
    BY <2>2, <1>4, <1>9 DEF New
  <2> QED BY <2>1, <2>2, <2>3 DEF IInv, DataOK
<1>22. DiskOK'
  BY <1>1, <1>4, <1>6 DEF IInv, DiskOK
<1>23. LostOK'
  <2> SUFFICES ASSUME NEW b \in Buffers, phase[b] = "out"
               PROVE  \/ \E u \in Threads : Own(u, b)' \/ Enq(u, b)'
                      \/ InUse(b)' \/ b \in leaked \cup dropped
    BY <1>6 DEF LostOK
  <2>1. \A u \in Threads : (Own(u, b)' <=> Own(u, b)) /\ (Enq(u, b)' <=> Enq(u, b))
    BY <1>6, <1>17 DEF Others, Own, Enq
  <2>2. InUse(b) => InUse(b)'
    <3> SUFFICES ASSUME NEW m \in Blocks, hashtable[m].idx = b, hashtable[m].ref > 0
                 PROVE  hashtable'[m].idx = b /\ hashtable'[m].ref > 0
      BY DEF InUse
    <3>1. m # v /\ m \in Keys
      BY <1>3, <1>11
    <3> QED BY <3>1, <1>5
  <2> QED BY <2>1, <2>2 DEF IInv, LostOK
<1> QED
  BY <1>7, <1>12, <1>13, <1>14, <1>15, <1>16, <1>18, <1>19, <1>20, <1>21, <1>22, <1>23 DEF IInv, Threaded

\* The candidate, which no block is cached in, becomes the block's buffer.
LEMMA InstallKeeps ==
  ASSUME IInv, NEW t \in Threads, At(t, "install"),
         CAS(t, loc[t].block, loc[t].rc, RefIdx(1, loc[t].cand), "lock_new"),
         UNCHANGED <<queueVars, bufVars, diskVars, pinVars, loc, ops>>
  PROVE  IInv'
<1>0. PICK n, c : n = loc[t].block /\ c = loc[t].cand
  OBVIOUS
<1>1. TypeOK /\ BgetOK(t) /\ PhaseOK(t) /\ UserOK(t) /\ pc[t] = "install" /\ n \in Blocks /\ n \in Keys
  BY <1>0, Mine, Constants DEF At
<1>2. /\ c \in Buffers /\ c # NoBuf /\ Own(t, c)
      /\ \A u \in Threads : u # t => ~Own(u, c) /\ ~Enq(u, c)
      /\ \A m \in Keys : hashtable[m].idx # c
  <2>1. c \in Buffers /\ c # NoBuf
    BY <1>0, <1>1, Mine, Constants DEF BgetOK, CandAt
  <2>2. Own(t, c)
    BY <2>1, <1>0, <1>1 DEF Own, CandAt
  <2>3. \A u \in Threads : u # t => ~Own(u, c) /\ ~Enq(u, c)
    BY <2>1, <2>2 DEF IInv, Threaded, Apart
  <2>4. \A m \in Blocks : hashtable[m].idx # c
    BY <2>1, <1>0, <1>1 DEF BgetOK, FreshAt
  <2>5. hashtable[0].idx # c
    BY <2>1 DEF IInv, Table, RefIdx
  <2> QED BY <2>1, <2>2, <2>3, <2>4, <2>5, Constants
<1>3. hashtable[n].ref = 0 /\ hashtable[n].idx = NoBuf
  BY <1>0, <1>1 DEF CAS, BgetOK, RefIdx
<1>4. /\ pc' \in [Threads -> Labels] /\ loc' = loc /\ pc'[t] = "lock_new"
      /\ \A u \in Threads : u # t => pc'[u] = pc[u]
  BY <1>1, GotoIs DEF Labels, CAS
<1>5. /\ hashtable' \in [Keys -> RefIdxs]
      /\ hashtable'[n].ref = 1 /\ hashtable'[n].idx = c
      /\ \A m \in Keys : m # n => hashtable'[m] = hashtable[m]
  <2>1. RefIdx(1, c) \in RefIdxs /\ RefIdx(1, c).ref = 1 /\ RefIdx(1, c).idx = c
    BY <1>2, MaxRefNat, Constants DEF RefIdx, RefIdxs
  <2>2. hashtable' = [hashtable EXCEPT ![n] = RefIdx(1, c)]
    BY <1>0 DEF CAS
  <2> QED BY <2>1, <2>2, <1>1 DEF TypeOK
<1>6. UNCHANGED <<queue, phase, blockno, valid, data, lock, disk, content, leaked, dropped,
                  pinned, mapped, ops>> /\ Others(t)
  BY <1>4 DEF queueVars, bufVars, diskVars, pinVars, Others
<1>7. TypeOK'
  BY <1>1, <1>4, <1>5, <1>6 DEF TypeOK
<1>8. /\ \A u \in Threads : Counted(u) => loc[u].block # n
      /\ n \notin pinned /\ c \notin mapped /\ NoBuf \notin mapped
  <2>1. c \notin mapped
    BY <1>1, <1>2 DEF IInv, Mapped, TypeOK
  <2> QED BY <2>1, <1>1, <1>3, CountZero, Constants DEF IInv, TypeOK
<1>9. /\ \A b \in Buffers : ~New(t, b) /\ (New(t, b)' <=> b = c)
      /\ \A u \in Threads : u # t => \A b \in Buffers : New(u, b)' <=> New(u, b)
  BY <1>0, <1>1, <1>4 DEF New, NewAt
<1>10. \A m \in Blocks : m \in Keys /\ (hashtable[m].idx # NoBuf => hashtable[m].idx \in Buffers)
  BY Constants, Mine
<1>11. \A u \in Threads : \A b \in Buffers : b # c => (New(u, b)' <=> New(u, b))
  BY <1>9
<1>12. Table'
  <2>1. n # 0
    BY <1>1, Constants
  <2> QED BY <2>1, <1>2, <1>5, Constants DEF IInv, Table
<1>13. Counts'
  <2>1. /\ Cardinality(Got(n)') = Cardinality(Got(n)) + 1
        /\ \A m \in Blocks : m # n => Got(m)' = Got(m)
    <3>1. ~Counted(t) /\ Counted(t)' /\ loc'[t].block = n
      BY <1>0, <1>1, <1>4 DEF Counted
    <3> QED BY <3>1, <1>1, <1>6, GotJoins
  <2> SUFFICES ASSUME NEW m \in Blocks PROVE hashtable'[m].ref = Cardinality(Got(m)') + Pins(m)'
    BY DEF Counts
  <2>2. hashtable[m].ref = Cardinality(Got(m)) + Pins(m) /\ m \in Keys /\ Cardinality(Got(m)) \in Nat
    BY <1>10, GotFinite DEF IInv, Counts
  <2>3. CASE m = n
    <3>1. Pins(m)' = 0 /\ Pins(m) = 0
      BY <2>3, <1>3, <1>5, <1>6, <1>8 DEF Pins
    <3> QED BY <2>1, <2>2, <2>3, <3>1, <1>3, <1>5
  <2>4. CASE m # n
    <3>1. Pins(m)' = Pins(m)
      BY <2>2, <2>4, <1>5, <1>6 DEF Pins
    <3> QED BY <3>1, <2>1, <2>2, <2>4, <1>5
  <2> QED BY <2>3, <2>4
<1>14. Names'
  <2> SUFFICES ASSUME NEW m \in Blocks, hashtable'[m].idx # NoBuf
               PROVE  \/ blockno[hashtable'[m].idx] = m
                      \/ \E u \in Threads : New(u, hashtable[m].idx)' /\ loc[u].block = m
    BY <1>4, <1>6 DEF Names, New
  <2>1. CASE m = n
    <3>1. New(t, hashtable[n].idx)'
      BY <1>0, <1>4, <1>5 DEF New, NewAt
    <3> QED BY <3>1, <2>1, <1>0
  <2>2. CASE m # n
    <3>1. PICK b : b = hashtable[m].idx
      OBVIOUS
    <3>2. b = hashtable'[m].idx /\ b \in Buffers /\ b # NoBuf /\ b # c
      BY <2>2, <3>1, <1>2, <1>5, <1>10
    <3>3. blockno[b] = m \/ \E u \in Threads : New(u, b) /\ loc[u].block = m
      BY <3>1, <3>2 DEF IInv, Names
    <3>4. \A u \in Threads : New(u, b) => New(u, hashtable[m].idx)'
      BY <3>2, <1>4, <1>11 DEF New
    <3> QED BY <3>2, <3>3, <3>4
  <2> QED BY <2>1, <2>2
<1>15. Mapped'
  <2> SUFFICES ASSUME NEW b \in mapped
               PROVE  hashtable'[blockno[b]].idx = b /\ valid[b] /\ \A u \in Threads : ~New(u, b)'
    BY <1>6 DEF Mapped, New
  <2>1. b \in Buffers /\ blockno[b] \in Keys /\ b # c /\ b # NoBuf
    BY <1>1, <1>8 DEF TypeOK
  <2>2. hashtable[blockno[b]].idx = b /\ valid[b] /\ \A u \in Threads : ~New(u, b)
    BY DEF IInv, Mapped
  <2>3. blockno[b] # n
    BY <2>1, <2>2, <1>3
  <2> QED BY <2>1, <2>2, <2>3, <1>5, <1>11
<1>16. Pinned'
  <2> SUFFICES ASSUME NEW m \in pinned
               PROVE  /\ hashtable'[m].idx # NoBuf /\ blockno[hashtable'[m].idx] = m
                      /\ valid[hashtable'[m].idx] /\ \A u \in Threads : ~New(u, hashtable[m].idx)'
    BY <1>6 DEF Pinned, New
  <2>1. PICK b : b = hashtable[m].idx
    OBVIOUS
  <2>2. m \in Blocks /\ b # NoBuf /\ b \in Buffers /\ blockno[b] = m /\ valid[b] /\ \A u \in Threads : ~New(u, b)
    BY <2>1, <1>1, <1>10 DEF IInv, Pinned, TypeOK
  <2>3. hashtable'[m].idx = b /\ b # c
    BY <2>1, <2>2, <1>2, <1>5, <1>8, <1>10
  <2>4. \A u \in Threads : ~New(u, hashtable[m].idx)'
    BY <2>2, <2>3, <1>4, <1>11 DEF New
  <2> QED BY <2>2, <2>3, <2>4
<1>17. \A b \in Buffers :
        /\ (Own(t, b)' <=> Own(t, b)) /\ ~Enq(t, b) /\ ~Enq(t, b)'
        /\ ~Has(t, b)' /\ ~Linker(t, b) /\ ~Linker(t, b)'
  BY <1>1, <1>4 DEF Own, Enq, Has, Linker, CandAt, NamedAt, HoldAt
<1>18. Queued' /\ Locks'
  <2>1. pc[t] # "unclaim" /\ pc[t] \notin HoldAt
    BY <1>1 DEF HoldAt
  <2> QED BY <2>1, <1>1, <1>6, <1>17, QueuedSame, LocksSame DEF IInv
<1>19. \A u \in Threads : ThreadOK(u)'
  <2>1. BgetOK(t)'
    BY <1>1, <1>4 DEF BgetOK, CandAt, FreshAt
  <2>2. PhaseOK(t)'
    BY <1>1, <1>4, <1>6 DEF PhaseOK, CandAt
  <2>3. UserOK(t)'
    BY <1>0, <1>2, <1>4, <1>5 DEF UserOK, Counted, Target, HoldAt, NamedAt, FilledAt
  <2>4. ASSUME NEW u \in Threads, u # t PROVE ThreadOK(u)'
    <3>1. ThreadOK(u) /\ pc'[u] = pc[u] /\ loc'[u] = loc[u] /\ loc[u].block \in Keys
      BY <2>4, <1>6, Mine DEF Others, IInv, Threaded
    <3>2. Own(u, loc[u].cand) => loc[u].cand # c
      BY <2>4, <1>2
    <3>3. Own(u, loc[u].cand) => \A m \in Keys : hashtable'[m].idx = loc[u].cand => hashtable[m].idx = loc[u].cand
      BY <3>2, <1>5
    <3>4. Counted(u) => hashtable'[loc[u].block].idx = hashtable[loc[u].block].idx
      BY <3>1, <1>5, <1>8
    <3> QED BY <3>1, <3>3, <3>4, <1>1, <1>6, OtherOK
  <2> QED BY <2>1, <2>2, <2>3, <2>4 DEF ThreadOK
<1>20. \A u, w \in Threads : u # w => Apart(u, w)'
  <2>1. \A u \in Threads : u # t => ~Has(u, c)
    <3> SUFFICES ASSUME NEW u \in Threads, u # t, Has(u, c) PROVE FALSE
      OBVIOUS
    <3>1. CASE pc[u] \in NamedAt
      BY <3>1, NamedIs, <1>2, <1>10 DEF Has
    <3>2. CASE pc[u] = "rename"
      <4>1. Own(u, c)
        BY <3>2, <1>2, Mine DEF UserOK, Has, Own, CandAt
      <4> QED BY <4>1, <1>2
    <3> QED BY <3>1, <3>2 DEF Has
  <2>2. \A b \in Buffers : \A u \in Threads \ {t} :
           /\ Own(t, b)' => ~Own(u, b) /\ ~Enq(u, b)
           /\ New(t, b)' => ~Has(u, b)
    BY <2>1, <1>9, <1>17 DEF IInv, Threaded, Apart
  <2> QED BY <2>2, <1>6, <1>17, ApartKept DEF IInv
<1>21. DataOK'
  <2> SUFFICES ASSUME NEW m \in Blocks, hashtable'[m].idx # NoBuf, valid[hashtable'[m].idx],
                      \A u \in Threads : ~New(u, hashtable[m].idx)'
               PROVE  data[hashtable'[m].idx] = content[m]
    BY <1>6 DEF DataOK, New
  <2>1. m # n
    <3>1. New(t, hashtable[n].idx)'
      BY <1>0, <1>4, <1>5 DEF New, NewAt
    <3> QED BY <3>1
  <2>2. PICK b : b = hashtable[m].idx
    OBVIOUS
  <2>3. b = hashtable'[m].idx /\ b \in Buffers /\ b # NoBuf /\ b # c
    BY <2>1, <2>2, <1>2, <1>5, <1>10
  <2>4. \A u \in Threads : ~New(u, b)
    BY <2>3, <1>4, <1>11 DEF New
  <2> QED BY <2>2, <2>3, <2>4 DEF IInv, DataOK
<1>22. DiskOK'
  BY <1>1, <1>4, <1>6 DEF IInv, DiskOK
<1>23. LostOK'
  <2> SUFFICES ASSUME NEW b \in Buffers, phase[b] = "out"
               PROVE  \/ \E u \in Threads : Own(u, b)' \/ Enq(u, b)'
                      \/ InUse(b)' \/ b \in leaked \cup dropped
    BY <1>6 DEF LostOK
  <2>1. \A u \in Threads : (Own(u, b)' <=> Own(u, b)) /\ (Enq(u, b)' <=> Enq(u, b))
    BY <1>6, <1>17 DEF Others, Own, Enq
  <2>2. InUse(b) => InUse(b)'
    <3> SUFFICES ASSUME NEW m \in Blocks, hashtable[m].idx = b, hashtable[m].ref > 0
                 PROVE  hashtable'[m].idx = b /\ hashtable'[m].ref > 0
      BY DEF InUse
    <3>1. m # n /\ m \in Keys
      BY <1>3, <1>10
    <3> QED BY <3>1, <1>5
  <2> QED BY <2>1, <2>2 DEF IInv, LostOK
<1> QED
  BY <1>7, <1>12, <1>13, <1>14, <1>15, <1>16, <1>18, <1>19, <1>20, <1>21, <1>22, <1>23 DEF IInv, Threaded

-----------------------------------------------------------------------------
(* The steps that take and give back a sleeplock *)

LEMMA LockStepKeeps ==
  ASSUME IInv, TypeOK', NEW t \in Threads, Others(t),
         UNCHANGED <<queue, phase, hashtable, blockno, valid, data, disk, content,
                     pinned, mapped, leaked, dropped>>,
         ThreadOK(t)', Locks',
         \A u \in Threads \ {t} : pc[u] \in HoldAt => lock'[loc[u].buf] = lock[loc[u].buf],
         Counted(t) /\ Counted(t)', loc'[t].block = loc[t].block,
         pc[t] \notin {"bwrite", "pin", "unclaim"},
         \A b \in Buffers :
           /\ (Own(t, b)' <=> Own(t, b)) /\ (New(t, b)' <=> New(t, b))
           /\ ~Enq(t, b) /\ ~Enq(t, b)' /\ ~Linker(t, b) /\ ~Linker(t, b)'
           /\ Has(t, b)' => \A u \in Threads \ {t} : ~New(u, b)
  PROVE  IInv'
<1>1. Table' /\ Counts' /\ Names' /\ Mapped' /\ Pinned' /\ DataOK' /\ DiskOK'
  BY TableKept
<1>2. Queued'
  BY QueuedSame DEF IInv
<1>3. \A u \in Threads : ThreadOK(u)'
  <2> SUFFICES ASSUME NEW u \in Threads, u # t PROVE ThreadOK(u)'
    OBVIOUS
  <2>1. ThreadOK(u) /\ pc'[u] = pc[u] /\ loc'[u] = loc[u]
    BY DEF Others, IInv, Threaded
  <2> QED BY <2>1, OtherOK DEF IInv
<1>4. \A u, v \in Threads : u # v => Apart(u, v)'
  <2>1. \A b \in Buffers : \A u \in Threads \ {t} :
           /\ Own(t, b)' => ~Own(u, b) /\ ~Enq(u, b)
           /\ New(t, b)' => ~Has(u, b)
    BY DEF IInv, Threaded, Apart
  <2> QED BY <2>1, ApartKept DEF IInv
<1>5. LostOK'
  <2> SUFFICES ASSUME NEW b \in Buffers, phase[b] = "out"
               PROVE  \/ \E u \in Threads : Own(u, b)' \/ Enq(u, b)'
                      \/ InUse(b) \/ b \in leaked \cup dropped
    BY DEF LostOK, InUse
  <2>1. \A u \in Threads : (Own(u, b)' <=> Own(u, b)) /\ (Enq(u, b)' <=> Enq(u, b))
    BY DEF Others, Own, Enq
  <2> QED BY <2>1 DEF IInv, LostOK
<1> QED BY <1>1, <1>2, <1>3, <1>4, <1>5 DEF IInv, Threaded

\* The lock of the buffer t takes was free.
LEMMA LockTaken ==
  ASSUME IInv, NEW t \in Threads, Others(t), NEW b \in Buffers, AcquireSleep(t, b),
         pc'[t] \in HoldAt, loc'[t].buf = b, pc[t] \notin HoldAt
  PROVE  /\ lock' \in [Buffers -> Threads \cup {NoThread}] /\ lock'[b] = t
         /\ \A u \in Threads \ {t} : pc[u] \in HoldAt => lock'[loc[u].buf] = lock[loc[u].buf]
         /\ Locks'
<1>1. /\ lock' \in [Buffers -> Threads \cup {NoThread}] /\ lock'[b] = t
      /\ \A c \in Buffers : c # b => lock'[c] = lock[c]
      /\ lock[b] = NoThread
  BY DEF IInv, TypeOK, AcquireSleep
<1>2. \A u \in Threads \ {t} : pc[u] \in HoldAt => lock'[loc[u].buf] = lock[loc[u].buf]
  <2> SUFFICES ASSUME NEW u \in Threads \ {t}, pc[u] \in HoldAt PROVE lock'[loc[u].buf] = lock[loc[u].buf]
    OBVIOUS
  <2>1. loc[u].buf \in Buffers /\ lock[loc[u].buf] = u
    BY Mine, Constants DEF UserOK
  <2>2. loc[u].buf # b
    BY <2>1, <1>1, Constants
  <2> QED BY <2>1, <2>2, <1>1
<1>3. Locks'
  <2> SUFFICES ASSUME NEW c \in Buffers, lock'[c] # NoThread
               PROVE  pc'[lock'[c]] \in HoldAt /\ loc'[lock'[c]].buf = c
    BY DEF Locks
  <2>1. CASE c = b
    BY <2>1, <1>1
  <2>2. CASE c # b
    <3>1. PICK u : u = lock[c]
      OBVIOUS
    <3>2. lock'[c] = u /\ u \in Threads /\ pc[u] \in HoldAt /\ loc[u].buf = c
      BY <2>2, <3>1, <1>1 DEF IInv, Locks, TypeOK
    <3>3. u # t
      BY <3>2
    <3> QED BY <3>2, <3>3 DEF Others
  <2> QED BY <2>1, <2>2
<1> QED BY <1>1, <1>2, <1>3

LEMMA GetLockKeeps ==
  ASSUME IInv, ~Races, NEW t \in Threads, GetLock(t)
  PROVE  IInv'
<1>0. PICK n, b : n = loc[t].block /\ b = loc[t].rc.idx
  OBVIOUS
<1>1. TypeOK /\ BgetOK(t) /\ PhaseOK(t) /\ UserOK(t) /\ pc[t] = "lock" /\ loc[t] \in Locals
  BY Mine DEF GetLock, At
<1>2. Counted(t) /\ Target(t) = b /\ b \in Buffers /\ hashtable[n].idx = b /\ n \in Blocks
  <2>1. Counted(t) /\ Target(t) = b
    BY <1>0, <1>1 DEF Counted, Target
  <2>2. b # NoBuf /\ hashtable[n].idx = b /\ b \in Bufs /\ n \in Blocks
    BY <2>1, <1>0, <1>1, Mine DEF UserOK, RefIdxs
  <2> QED BY <2>1, <2>2, Constants
<1>3. /\ lock[b] = NoThread /\ AcquireSleep(t, b)
      /\ loc' = [loc EXCEPT ![t].buf = b, ![t].cand = NoBuf]
      /\ Goto(t, "fill")
      /\ ~HasCandidate(b, {"lock_new"})
  BY <1>0 DEF GetLock, AcquireSleep, MayLock
<1>4. /\ pc' \in [Threads -> Labels] /\ pc'[t] = "fill"
      /\ \A u \in Threads : u # t => pc'[u] = pc[u]
  BY <1>1, <1>3, GotoIs DEF Labels
<1>5. /\ loc' \in [Threads -> Locals] /\ loc'[t].buf = b /\ loc'[t].cand = NoBuf /\ loc'[t].block = n
      /\ \A u \in Threads : u # t => loc'[u] = loc[u]
  BY <1>0, <1>1, <1>2, <1>3, Constants DEF TypeOK, Locals
<1>6. /\ UNCHANGED <<queue, phase, hashtable, blockno, valid, data, disk, content,
                     pinned, mapped, leaked, dropped, ops>>
      /\ Others(t)
  BY <1>4, <1>5 DEF GetLock, queueVars, diskVars, pinVars, Others
<1>7. \A u \in Threads : ~New(u, b)
  <2> SUFFICES ASSUME NEW u \in Threads, New(u, b) PROVE FALSE
    OBVIOUS
  <2>1. CASE pc[u] = "lock_new"
    BY <2>1, <1>3 DEF HasCandidate, New
  <2>2. CASE pc[u] = "rename"
    <3>1. lock[b] = u
      BY <2>2, Mine DEF UserOK, New, HoldAt
    <3> QED BY <3>1, <1>3, Constants
  <2> QED BY <2>1, <2>2 DEF New, NewAt
<1>8. blockno[b] = n /\ b # NoBuf
  <2>1. b # NoBuf
    BY <1>2, Constants
  <2> QED BY <2>1, <1>2, <1>7 DEF IInv, Names
<1>9. /\ lock' \in [Buffers -> Threads \cup {NoThread}] /\ lock'[b] = t /\ Locks'
      /\ \A u \in Threads \ {t} : pc[u] \in HoldAt => lock'[loc[u].buf] = lock[loc[u].buf]
  BY <1>1, <1>2, <1>3, <1>4, <1>5, <1>6, LockTaken DEF HoldAt
<1>10. TypeOK'
  BY <1>1, <1>4, <1>5, <1>6, <1>9 DEF TypeOK
<1>11. ThreadOK(t)'
  <2>1. BgetOK(t)'
    BY <1>2, <1>4, <1>5 DEF BgetOK, CandAt, FreshAt
  <2>2. PhaseOK(t)'
    BY <1>4 DEF PhaseOK, CandAt
  <2>3. UserOK(t)'
    BY <1>2, <1>4, <1>5, <1>6, <1>8, <1>9 DEF UserOK, Target, HoldAt, NamedAt, FilledAt
  <2> QED BY <2>1, <2>2, <2>3 DEF ThreadOK
<1>12. \A c \in Buffers :
        /\ ~Own(t, c) /\ ~Own(t, c)' /\ ~New(t, c) /\ ~New(t, c)'
        /\ ~Enq(t, c) /\ ~Enq(t, c)' /\ ~Linker(t, c) /\ ~Linker(t, c)'
        /\ (Has(t, c)' => c = b)
  BY <1>1, <1>4, <1>5 DEF Own, New, Enq, Linker, Has, CandAt, NewAt
<1>13. Counted(t)'
  BY <1>4 DEF Counted
<1> QED
  BY <1>0, <1>1, <1>2, <1>5, <1>6, <1>7, <1>9, <1>10, <1>11, <1>12, <1>13, LockStepKeeps

LEMMA GetLockNewKeeps ==
  ASSUME IInv, NEW t \in Threads, GetLockNew(t)
  PROVE  IInv'
<1>0. PICK n, b : n = loc[t].block /\ b = loc[t].cand
  OBVIOUS
<1>1. TypeOK /\ BgetOK(t) /\ PhaseOK(t) /\ UserOK(t) /\ pc[t] = "lock_new" /\ loc[t] \in Locals
  BY Mine DEF GetLockNew, At
<1>2. Counted(t) /\ Target(t) = b /\ b \in Buffers /\ b # NoBuf /\ hashtable[n].idx = b /\ n \in Blocks
  <2>1. Counted(t) /\ Target(t) = b
    BY <1>0, <1>1 DEF Counted, Target
  <2>2. b # NoBuf /\ hashtable[n].idx = b /\ b \in Bufs /\ n \in Blocks
    BY <2>1, <1>0, <1>1, Mine DEF UserOK
  <2> QED BY <2>1, <2>2, Constants
<1>3. AcquireSleep(t, b) /\ Set(t, "buf", b) /\ Goto(t, "rename")
  BY <1>0 DEF GetLockNew
<1>4. /\ pc' \in [Threads -> Labels] /\ pc'[t] = "rename"
      /\ \A u \in Threads : u # t => pc'[u] = pc[u]
  BY <1>1, <1>3, GotoIs DEF Labels
<1>5. /\ loc' \in [Threads -> Locals] /\ loc'[t].buf = b /\ loc'[t].cand = b /\ loc'[t].block = n
      /\ \A u \in Threads : u # t => loc'[u] = loc[u]
  BY <1>0, <1>1, <1>2, <1>3, Set_buf, Constants
<1>6. /\ UNCHANGED <<queue, phase, hashtable, blockno, valid, data, disk, content,
                     pinned, mapped, leaked, dropped, ops>>
      /\ Others(t)
  BY <1>4, <1>5 DEF GetLockNew, queueVars, diskVars, pinVars, Others
<1>7. Own(t, b)
  BY <1>0, <1>1, <1>2 DEF Own, CandAt
<1>8. \A u \in Threads \ {t} : ~New(u, b)
  <2>1. \A u \in Threads : New(u, b) => Own(u, b)
    BY <1>2 DEF New, Own, NewAt, CandAt
  <2> QED BY <2>1, <1>2, <1>7 DEF IInv, Threaded, Apart
<1>9. /\ lock' \in [Buffers -> Threads \cup {NoThread}] /\ lock'[b] = t /\ Locks'
      /\ \A u \in Threads \ {t} : pc[u] \in HoldAt => lock'[loc[u].buf] = lock[loc[u].buf]
  BY <1>1, <1>2, <1>3, <1>4, <1>5, <1>6, LockTaken DEF HoldAt
<1>10. TypeOK'
  BY <1>1, <1>4, <1>5, <1>6, <1>9 DEF TypeOK
<1>11. ThreadOK(t)'
  <2>1. BgetOK(t)'
    BY <1>2, <1>4, <1>5 DEF BgetOK, CandAt, FreshAt
  <2>2. PhaseOK(t)'
    BY <1>0, <1>1, <1>4, <1>5, <1>6 DEF PhaseOK, CandAt
  <2>3. UserOK(t)'
    BY <1>2, <1>4, <1>5, <1>6, <1>9 DEF UserOK, Target, HoldAt, NamedAt, FilledAt
  <2> QED BY <2>1, <2>2, <2>3 DEF ThreadOK
<1>12. \A c \in Buffers :
        /\ (Own(t, c)' <=> Own(t, c)) /\ (New(t, c)' <=> New(t, c))
        /\ ~Enq(t, c) /\ ~Enq(t, c)' /\ ~Linker(t, c) /\ ~Linker(t, c)'
        /\ (Has(t, c)' => c = b)
  BY <1>0, <1>1, <1>4, <1>5 DEF Own, New, Enq, Linker, Has, CandAt, NewAt
<1>13. Counted(t)'
  BY <1>4 DEF Counted
<1> QED
  BY <1>0, <1>1, <1>2, <1>5, <1>6, <1>8, <1>9, <1>10, <1>11, <1>12, <1>13, LockStepKeeps

LEMMA ReleaseKeeps ==
  ASSUME IInv, NEW t \in Threads, Release(t)
  PROVE  IInv'
<1>0. PICK n, b : n = loc[t].block /\ b = loc[t].buf
  OBVIOUS
<1>1. TypeOK /\ BgetOK(t) /\ PhaseOK(t) /\ UserOK(t) /\ pc[t] = "release" /\ loc[t] \in Locals
  BY Mine DEF Release, At
<1>2. /\ b \in Buffers /\ n \in Blocks /\ blockno[b] = n /\ hashtable[n].idx = b /\ b # NoBuf
      /\ \A u \in Threads : ~New(u, b)
      /\ Counted(t)
  BY <1>0, <1>1, NamedIs, Constants DEF NamedAt, HoldAt
<1>3. lock[b] = t /\ lock' = [lock EXCEPT ![b] = NoThread] /\ Goto(t, "rel_block") /\ loc' = loc
  BY <1>0 DEF Release
<1>4. /\ pc' \in [Threads -> Labels] /\ pc'[t] = "rel_block"
      /\ \A u \in Threads : u # t => pc'[u] = pc[u]
  BY <1>1, <1>3, GotoIs DEF Labels
<1>6. /\ UNCHANGED <<queue, phase, hashtable, blockno, valid, data, disk, content,
                     pinned, mapped, leaked, dropped, ops>>
      /\ Others(t)
  BY <1>3, <1>4 DEF Release, queueVars, diskVars, pinVars, Others
<1>7. /\ lock' \in [Buffers -> Threads \cup {NoThread}] /\ lock'[b] = NoThread
      /\ \A c \in Buffers : c # b => lock'[c] = lock[c]
  BY <1>1, <1>2, <1>3 DEF TypeOK
<1>8. \A u \in Threads \ {t} : pc[u] \in HoldAt => lock'[loc[u].buf] = lock[loc[u].buf]
  <2> SUFFICES ASSUME NEW u \in Threads \ {t}, pc[u] \in HoldAt PROVE lock'[loc[u].buf] = lock[loc[u].buf]
    OBVIOUS
  <2>1. loc[u].buf \in Buffers /\ lock[loc[u].buf] = u
    BY Mine, Constants DEF UserOK
  <2> QED BY <2>1, <1>3, <1>7
<1>9. Locks'
  <2> SUFFICES ASSUME NEW c \in Buffers, lock'[c] # NoThread
               PROVE  pc'[lock'[c]] \in HoldAt /\ loc'[lock'[c]].buf = c
    BY DEF Locks
  <2>1. PICK u : u = lock[c]
    OBVIOUS
  <2>2. c # b /\ lock'[c] = u /\ u \in Threads /\ pc[u] \in HoldAt /\ loc[u].buf = c
    BY <2>1, <1>1, <1>7 DEF IInv, Locks, TypeOK
  <2>3. u # t
    BY <2>2, <1>0
  <2> QED BY <2>2, <2>3, <1>3, <1>4
<1>10. TypeOK'
  BY <1>1, <1>3, <1>4, <1>6, <1>7 DEF TypeOK
<1>11. ThreadOK(t)'
  <2>1. BgetOK(t)'
    BY <1>0, <1>2, <1>3, <1>4 DEF BgetOK, CandAt, FreshAt
  <2>2. PhaseOK(t)'
    BY <1>4 DEF PhaseOK, CandAt
  <2>3. UserOK(t)'
    BY <1>0, <1>2, <1>3, <1>4, <1>6 DEF UserOK, Target, HoldAt, NamedAt, FilledAt
  <2> QED BY <2>1, <2>2, <2>3 DEF ThreadOK
<1>12. \A c \in Buffers :
        /\ ~Own(t, c) /\ ~Own(t, c)' /\ ~New(t, c) /\ ~New(t, c)'
        /\ ~Enq(t, c) /\ ~Enq(t, c)' /\ ~Linker(t, c) /\ ~Linker(t, c)'
        /\ (Has(t, c)' => c = b)
  BY <1>0, <1>1, <1>3, <1>4 DEF Own, New, Enq, Linker, Has, CandAt, NewAt
<1>13. Counted(t)'
  BY <1>4 DEF Counted
<1> QED
  BY <1>0, <1>1, <1>2, <1>3, <1>6, <1>8, <1>9, <1>10, <1>11, <1>12, <1>13, LockStepKeeps

-----------------------------------------------------------------------------
(* The steps of the thread that holds a buffer's sleeplock *)

\* bget gives its new buffer the block's number: it is a buffer like the others.
LEMMA GetRenameKeeps ==
  ASSUME IInv, NEW t \in Threads, GetRename(t)
  PROVE  IInv'
<1>0. PICK n, b : n = loc[t].block /\ b = loc[t].buf
  OBVIOUS
<1>1. TypeOK /\ BgetOK(t) /\ PhaseOK(t) /\ UserOK(t) /\ pc[t] = "rename" /\ n \in Keys
  BY <1>0, Mine DEF GetRename, At
<1>2. /\ b \in Buffers /\ b # NoBuf /\ b = loc[t].cand /\ n \in Blocks /\ hashtable[n].idx = b
      /\ lock[b] = t /\ Own(t, b) /\ New(t, b) /\ Counted(t)
  <2>1. Counted(t) /\ Target(t) = b
    BY <1>0, <1>1 DEF Counted, Target
  <2>2. b # NoBuf /\ b \in Buffers /\ hashtable[n].idx = b /\ n \in Blocks /\ b = loc[t].cand
    BY <2>1, <1>0, <1>1, Mine, Constants DEF UserOK
  <2> QED BY <2>1, <2>2, <1>0, <1>1 DEF UserOK, HoldAt, Own, New, CandAt, NewAt
<1>3. /\ valid' = [valid EXCEPT ![b] = FALSE] /\ blockno' = [blockno EXCEPT ![b] = n]
      /\ Set(t, "cand", NoBuf) /\ Goto(t, "fill")
  BY <1>0 DEF GetRename, Invalidate
<1>4. /\ pc' \in [Threads -> Labels] /\ pc'[t] = "fill"
      /\ \A u \in Threads : u # t => pc'[u] = pc[u]
  BY <1>1, <1>3, GotoIs DEF Labels
<1>5. /\ loc' \in [Threads -> Locals] /\ loc'[t].buf = b /\ loc'[t].cand = NoBuf /\ loc'[t].block = n
      /\ \A u \in Threads : u # t => loc'[u] = loc[u]
  BY <1>0, <1>1, <1>3, Set_cand, Constants
<1>6. /\ UNCHANGED <<queue, phase, hashtable, data, lock, disk, content,
                     pinned, mapped, leaked, dropped, ops>>
      /\ Others(t)
  BY <1>4, <1>5 DEF GetRename, queueVars, diskVars, pinVars, Others
<1>7. /\ valid' \in [Buffers -> BOOLEAN] /\ blockno' \in [Buffers -> Keys]
      /\ ~valid'[b] /\ blockno'[b] = n
      /\ \A c \in Buffers : c # b => valid'[c] = valid[c] /\ blockno'[c] = blockno[c]
  BY <1>1, <1>2, <1>3 DEF TypeOK
<1>8. TypeOK'
  BY <1>1, <1>4, <1>5, <1>6, <1>7 DEF TypeOK
<1>9. \A u \in Threads : u # t => ~Own(u, b) /\ ~New(u, b) /\ ~Has(u, b)
  <2>1. \A u \in Threads : New(u, b) => Own(u, b)
    BY <1>2 DEF New, Own, NewAt, CandAt
  <2> QED BY <2>1, <1>2 DEF IInv, Threaded, Apart
<1>10. /\ \A c \in Buffers : New(t, c) <=> c = b
       /\ \A u \in Threads : u # t => \A c \in Buffers : New(u, c)' <=> New(u, c)
       /\ \A c \in Buffers : ~New(t, c)' /\ ~Own(t, c)' /\ (Own(t, c) <=> c = b)
       /\ \A c \in Buffers : ~Enq(t, c) /\ ~Enq(t, c)' /\ ~Linker(t, c) /\ ~Linker(t, c)'
       /\ \A c \in Buffers : Has(t, c)' => c = b
  BY <1>1, <1>2, <1>4, <1>5, <1>6 DEF Others, New, Own, Enq, Linker, Has, CandAt, NewAt
<1>11. \A m \in Blocks : /\ m \in Keys /\ (hashtable[m].idx # NoBuf => hashtable[m].idx \in Buffers)
                         /\ m # n => hashtable[m].idx # b
  BY <1>1, <1>2, Constants, Mine DEF IInv, Table
<1>12. \A u \in Threads : \A c \in Buffers : c # b => (New(u, c)' <=> New(u, c))
  BY <1>10
<1>13. Table' /\ Counts'
  <2>1. Counted(t)'
    BY <1>4 DEF Counted
  <2>2. Counts'
    BY <2>1, <1>0, <1>2, <1>5, <1>6, CountsSame DEF IInv
  <2> QED BY <2>2, <1>6 DEF IInv, Table
<1>14. Names'
  <2> SUFFICES ASSUME NEW m \in Blocks, hashtable[m].idx # NoBuf
               PROVE  \/ blockno'[hashtable[m].idx] = m
                      \/ \E u \in Threads : New(u, hashtable[m].idx)' /\ loc'[u].block = m
    BY <1>6 DEF Names, New
  <2>1. CASE m = n
    BY <2>1, <1>2, <1>7
  <2>2. CASE m # n
    <3>1. PICK c : c = hashtable[m].idx
      OBVIOUS
    <3>2. c \in Buffers /\ c # b
      BY <2>2, <3>1, <1>11
    <3>3. CASE blockno[c] = m
      BY <3>1, <3>2, <3>3, <1>7
    <3>4. CASE \E u \in Threads : New(u, c) /\ loc[u].block = m
      <4>1. PICK u \in Threads : New(u, c) /\ loc[u].block = m
        BY <3>4
      <4>2. u # t
        BY <4>1, <3>2, <1>10
      <4>3. New(u, hashtable[m].idx)' /\ loc'[u].block = m
        BY <4>1, <4>2, <3>1, <1>5, <1>6 DEF New, Others
      <4> QED BY <4>3
    <3> QED BY <3>1, <3>3, <3>4 DEF IInv, Names
  <2> QED BY <2>1, <2>2
<1>15. Mapped'
  <2> SUFFICES ASSUME NEW c \in mapped
               PROVE  hashtable[blockno'[c]].idx = c /\ valid'[c] /\ \A u \in Threads : ~New(u, c)'
    BY <1>6 DEF Mapped, New
  <2>1. c \in Buffers /\ hashtable[blockno[c]].idx = c /\ valid[c] /\ \A u \in Threads : ~New(u, c)
    BY <1>1 DEF IInv, Mapped, TypeOK
  <2>2. c # b
    BY <2>1, <1>2
  <2> QED BY <2>1, <2>2, <1>7, <1>12
<1>16. Pinned'
  <2> SUFFICES ASSUME NEW m \in pinned
               PROVE  /\ hashtable[m].idx # NoBuf /\ blockno'[hashtable[m].idx] = m
                      /\ valid'[hashtable[m].idx] /\ \A u \in Threads : ~New(u, hashtable[m].idx)'
    BY <1>6 DEF Pinned, New
  <2>1. PICK c : c = hashtable[m].idx
    OBVIOUS
  <2>2. m \in Blocks /\ c # NoBuf /\ c \in Buffers /\ blockno[c] = m /\ valid[c] /\ \A u \in Threads : ~New(u, c)
    BY <2>1, <1>1, <1>11 DEF IInv, Pinned, TypeOK
  <2>3. c # b
    BY <2>2, <1>2
  <2>4. \A u \in Threads : ~New(u, hashtable[m].idx)'
    BY <2>1, <2>2, <2>3, <1>6, <1>12 DEF New
  <2> QED BY <2>1, <2>2, <2>3, <2>4, <1>7
<1>17. Queued' /\ Locks'
  <2>1. pc[t] # "unclaim" /\ pc'[t] \in HoldAt
    BY <1>1, <1>4 DEF HoldAt
  <2> QED BY <2>1, <1>0, <1>1, <1>5, <1>6, <1>10, QueuedSame, LocksSame DEF IInv
<1>18. \A u \in Threads : ThreadOK(u)'
  <2>1. BgetOK(t)'
    BY <1>2, <1>4, <1>5 DEF BgetOK, CandAt, FreshAt
  <2>2. PhaseOK(t)'
    BY <1>4 DEF PhaseOK, CandAt
  <2>3. UserOK(t)'
    BY <1>2, <1>4, <1>5, <1>6, <1>7 DEF UserOK, Target, HoldAt, NamedAt, FilledAt
  <2>4. ASSUME NEW u \in Threads, u # t PROVE ThreadOK(u)'
    <3>1. ThreadOK(u) /\ pc'[u] = pc[u] /\ loc'[u] = loc[u]
      BY <2>4, <1>6 DEF Others, IInv, Threaded
    <3>2. Own(u, loc[u].cand) => blockno'[loc[u].cand] = blockno[loc[u].cand]
      <4>1. Own(u, loc[u].cand) => loc[u].cand # b /\ loc[u].cand \in Buffers
        BY <2>4, <1>9, Mine, Constants DEF Own
      <4> QED BY <4>1, <1>7
    <3>3. pc[u] \in NamedAt \cup HoldAt => loc[u].buf # b /\ loc[u].buf \in Buffers
      <4>1. pc[u] \in NamedAt \cup HoldAt => Has(u, loc[u].buf)
        BY DEF Has, NamedAt
      <4>2. pc[u] \in NamedAt \cup HoldAt => loc[u].buf \in Buffers
        BY Mine, Constants DEF UserOK, NamedAt
      <4> QED BY <4>1, <4>2, <2>4, <1>9
    <3>4. pc[u] \in HoldAt => (valid[loc[u].buf] => valid'[loc[u].buf])
      BY <3>3, <1>7
    <3>5. pc[u] \in NamedAt => blockno'[loc[u].buf] = blockno[loc[u].buf]
      BY <3>3, <1>7
    <3> QED BY <3>1, <3>2, <3>4, <3>5, <1>1, <1>6, OtherOK
  <2> QED BY <2>1, <2>2, <2>3, <2>4 DEF ThreadOK
<1>19. \A u, v \in Threads : u # v => Apart(u, v)'
  <2>1. \A c \in Buffers : \A u \in Threads \ {t} : Has(t, c)' => ~New(u, c)
    BY <1>9, <1>10
  <2> QED BY <2>1, <1>6, <1>10, ApartKept DEF IInv
<1>20. DataOK'
  <2> SUFFICES ASSUME NEW m \in Blocks, hashtable[m].idx # NoBuf, valid'[hashtable[m].idx],
                      \A u \in Threads : ~New(u, hashtable[m].idx)'
               PROVE  data[hashtable[m].idx] = content[m]
    BY <1>6 DEF DataOK, New
  <2>1. PICK c : c = hashtable[m].idx
    OBVIOUS
  <2>2. m # n
    BY <1>2, <1>7
  <2>3. c \in Buffers /\ c # b
    BY <2>1, <2>2, <1>11
  <2>4. \A u \in Threads : ~New(u, c)
    BY <2>1, <2>3, <1>6, <1>12 DEF New
  <2> QED BY <2>1, <2>3, <2>4, <1>7 DEF IInv, DataOK
<1>21. DiskOK'
  <2>1. \A u \in Threads : pc[u] \in {"bwrite", "pin"} => pc'[u] \in {"bwrite", "pin"} /\ loc'[u].block = loc[u].block
    BY <1>1, <1>4, <1>5
  <2> QED BY <2>1, <1>6 DEF IInv, DiskOK
<1>22. LostOK'
  <2> SUFFICES ASSUME NEW c \in Buffers, phase[c] = "out"
               PROVE  \/ \E u \in Threads : Own(u, c)' \/ Enq(u, c)'
                      \/ InUse(c) \/ c \in leaked \cup dropped
    BY <1>6 DEF LostOK, InUse
  <2>1. InUse(b)
    <3>1. hashtable[n].ref \in Nat /\ hashtable[n].ref >= 1
      BY <1>0, <1>1, <1>2, CountUser DEF IInv
    <3> QED BY <3>1, <1>2 DEF InUse
  <2>2. \A u \in Threads : u # t => (Own(u, c)' <=> Own(u, c)) /\ (Enq(u, c)' <=> Enq(u, c))
    BY <1>6 DEF Others, Own, Enq
  <2> QED BY <2>1, <2>2, <1>10 DEF IInv, LostOK
<1> QED
  BY <1>8, <1>13, <1>14, <1>15, <1>16, <1>17, <1>18, <1>19, <1>20, <1>21, <1>22 DEF IInv, Threaded

\* t reads, modifies or writes the block in its buffer.
LEMMA DataStepKeeps ==
  ASSUME IInv, TypeOK', NEW t \in Threads, Others(t), pc[t] \in HoldAt \ {"rename"},
         pc'[t] \in HoldAt \ {"rename"},
         UNCHANGED <<queue, phase, hashtable, blockno, lock, pinned, mapped, leaked, dropped, loc>>,
         \A b \in Buffers : valid[b] => valid'[b],
         \A m \in Keys : m # loc[t].block => disk'[m] = disk[m] /\ content'[m] = content[m],
         UserOK(t)', DataOK', DiskOK'
  PROVE  IInv'
<1>1. /\ TypeOK /\ BgetOK(t) /\ pc[t] \in NamedAt /\ Counted(t) /\ Counted(t)' /\ loc[t].block \in Blocks
      /\ pc[t] \notin {"idle", "panic", "unclaim"}
  BY Mine, NamedIs DEF NamedAt, HoldAt, Counted
<1>2. \A c \in Buffers :
        /\ ~Own(t, c) /\ ~Own(t, c)' /\ ~New(t, c) /\ ~New(t, c)'
        /\ ~Enq(t, c) /\ ~Enq(t, c)' /\ ~Linker(t, c) /\ ~Linker(t, c)'
        /\ (Has(t, c)' <=> Has(t, c))
  BY DEF Own, New, Enq, Linker, Has, CandAt, NewAt, HoldAt, NamedAt
<1>3. \A u \in Threads : \A c \in Buffers : New(u, c)' <=> New(u, c)
  BY <1>2, NewSame
<1>4. \A m \in Blocks : m \in Keys /\ (hashtable[m].idx # NoBuf => hashtable[m].idx \in Buffers)
  BY Constants, Mine
<1>5. Table'
  BY DEF IInv, Table
<1>6. Counts'
  BY <1>1, CountsSame DEF IInv
<1>7. Names'
  BY <1>3, <1>4 DEF IInv, Names, New
<1>8. Mapped'
  BY <1>1, <1>3 DEF IInv, Mapped, TypeOK
<1>9. Pinned'
  BY <1>1, <1>3, <1>4 DEF IInv, Pinned, TypeOK
<1>10. Queued' /\ Locks'
  BY <1>1, <1>2, QueuedSame, LocksSame DEF IInv
<1>11. \A u \in Threads : ThreadOK(u)'
  <2>1. BgetOK(t)' /\ PhaseOK(t)'
    BY <1>1 DEF BgetOK, PhaseOK, CandAt, FreshAt, HoldAt
  <2>2. ASSUME NEW u \in Threads, u # t PROVE ThreadOK(u)'
    <3>1. ThreadOK(u) /\ pc'[u] = pc[u] /\ loc'[u] = loc[u]
      BY <2>2 DEF Others, IInv, Threaded
    <3>2. pc[u] \in HoldAt => loc[u].buf \in Buffers
      BY Mine, Constants DEF UserOK
    <3>3. pc[u] = "unpin" => /\ disk'[loc[u].block] = disk[loc[u].block]
                             /\ content'[loc[u].block] = content[loc[u].block]
      BY <2>2, Mine, HoldersElsewhere DEF HoldAt
    <3> QED BY <3>1, <3>2, <3>3, <1>1, OtherOK
  <2> QED BY <2>1, <2>2 DEF ThreadOK
<1>12. \A u, v \in Threads : u # v => Apart(u, v)'
  BY <1>2, ApartSame DEF IInv
<1>13. LostOK'
  <2> SUFFICES ASSUME NEW b \in Buffers, phase[b] = "out"
               PROVE  \/ \E u \in Threads : Own(u, b)' \/ Enq(u, b)'
                      \/ InUse(b) \/ b \in leaked \cup dropped
    BY DEF LostOK, InUse
  <2>1. \A u \in Threads : (Own(u, b)' <=> Own(u, b)) /\ (Enq(u, b)' <=> Enq(u, b))
    BY <1>2 DEF Others, Own, Enq
  <2> QED BY <2>1 DEF IInv, LostOK
<1> QED BY <1>5, <1>6, <1>7, <1>8, <1>9, <1>10, <1>11, <1>12, <1>13 DEF IInv, Threaded

\* The disk has the latest version of a block whose buffer is not filled.
LEMMA FillKeeps ==
  ASSUME IInv, NEW t \in Threads, Fill(t)
  PROVE  IInv'
<1>0. PICK n, b : n = loc[t].block /\ b = loc[t].buf
  OBVIOUS
<1>1. TypeOK /\ BgetOK(t) /\ PhaseOK(t) /\ UserOK(t) /\ pc[t] = "fill"
  BY Mine DEF Fill, At
<1>2. /\ b \in Buffers /\ n \in Blocks /\ n \in Keys /\ blockno[b] = n /\ hashtable[n].idx = b /\ b # NoBuf
      /\ \A m \in Blocks : m # n => hashtable[m].idx # b
      /\ \A u \in Threads : ~New(u, b)
      /\ Counted(t)
  BY <1>0, <1>1, NamedIs, Constants DEF NamedAt, HoldAt
<1>3. /\ valid' = [valid EXCEPT ![b] = TRUE]
      /\ data' = IF valid[b] THEN data ELSE [data EXCEPT ![b] = disk[n]]
      /\ Goto(t, "use")
      /\ UNCHANGED <<queue, phase, hashtable, blockno, lock, disk, content, pinned, mapped, leaked,
                     dropped, loc, ops>>
  BY <1>0, <1>2 DEF Fill, queueVars, diskVars, pinVars
<1>4. /\ pc' \in [Threads -> Labels] /\ pc'[t] = "use"
      /\ \A u \in Threads : u # t => pc'[u] = pc[u]
  BY <1>1, <1>3, GotoIs DEF Labels
<1>5. Others(t)
  BY <1>3, <1>4 DEF Others
<1>6. /\ valid' \in [Buffers -> BOOLEAN] /\ data' \in [Buffers -> Nat] /\ valid'[b]
      /\ data'[b] = IF valid[b] THEN data[b] ELSE disk[n]
      /\ \A c \in Buffers : c # b => valid'[c] = valid[c] /\ data'[c] = data[c]
  BY <1>1, <1>2, <1>3 DEF TypeOK
<1>7. TypeOK'
  BY <1>1, <1>3, <1>4, <1>6 DEF TypeOK
<1>8. data'[b] = content[n]
  <2>1. CASE valid[b]
    BY <2>1, <1>2, <1>6 DEF IInv, DataOK
  <2>2. CASE ~valid[b]
    <3>1. n \notin pinned
      BY <2>2, <1>2 DEF IInv, Pinned
    <3>2. \A u \in Threads : ~(pc[u] \in {"bwrite", "pin"} /\ loc[u].block = n)
      BY <1>0, <1>1, HoldersElsewhere DEF HoldAt
    <3>3. disk[n] = content[n]
      BY <3>1, <3>2, <1>2 DEF IInv, DiskOK
    <3> QED BY <2>2, <3>3, <1>6
  <2> QED BY <2>1, <2>2
<1>9. \A u \in Threads : \A c \in Buffers : New(u, c)' <=> New(u, c)
  <2>1. \A c \in Buffers : ~New(t, c) /\ ~New(t, c)'
    BY <1>1, <1>4 DEF New, NewAt
  <2> QED BY <2>1, <1>5, NewSame
<1>10. DataOK'
  <2> SUFFICES ASSUME NEW m \in Blocks, hashtable[m].idx # NoBuf, valid'[hashtable[m].idx],
                      \A u \in Threads : ~New(u, hashtable[m].idx)'
               PROVE  data'[hashtable[m].idx] = content[m]
    BY <1>3 DEF DataOK, New
  <2>1. PICK c : c = hashtable[m].idx
    OBVIOUS
  <2>2. m \in Keys /\ c \in Buffers
    BY <2>1, Mine, Constants
  <2>3. \A u \in Threads : ~New(u, c)
    BY <2>1, <2>2, <1>3, <1>9 DEF New
  <2>4. CASE m = n
    BY <2>4, <1>2, <1>8
  <2>5. CASE m # n
    <3>1. c # b
      BY <2>1, <2>5, <1>2
    <3> QED BY <3>1, <2>1, <2>2, <2>3, <1>6 DEF IInv, DataOK
  <2> QED BY <2>4, <2>5
<1>11. DiskOK'
  BY <1>1, <1>3, <1>4 DEF IInv, DiskOK
<1>12. UserOK(t)'
  BY <1>0, <1>1, <1>2, <1>3, <1>4, <1>6 DEF UserOK, Counted, Target, HoldAt, NamedAt, FilledAt
<1> QED
  BY <1>1, <1>3, <1>4, <1>5, <1>6, <1>7, <1>10, <1>11, <1>12, DataStepKeeps DEF HoldAt

LEMMA BwriteKeeps ==
  ASSUME IInv, NEW t \in Threads, Bwrite(t)
  PROVE  IInv'
<1>0. PICK n, b : n = loc[t].block /\ b = loc[t].buf
  OBVIOUS
<1>1. TypeOK /\ BgetOK(t) /\ PhaseOK(t) /\ UserOK(t) /\ pc[t] \in {"bwrite", "bwrite_unpin"}
  BY Mine DEF Bwrite
<1>2. /\ b \in Buffers /\ n \in Blocks /\ n \in Keys /\ blockno[b] = n /\ hashtable[n].idx = b /\ b # NoBuf
      /\ \A u \in Threads : ~New(u, b)
      /\ Counted(t) /\ valid[b]
  BY <1>0, <1>1, NamedIs, Constants DEF NamedAt, HoldAt, UserOK, FilledAt
<1>3. /\ disk' = [disk EXCEPT ![n] = data[b]]
      /\ Goto(t, IF pc[t] = "bwrite" THEN "release" ELSE "unpin")
      /\ UNCHANGED <<queue, phase, hashtable, blockno, valid, data, lock, content, pinned, mapped, leaked,
                     dropped, loc, ops>>
  BY <1>0, <1>2 DEF Bwrite, At, queueVars, bufVars, pinVars
<1>4. /\ pc' \in [Threads -> Labels] /\ pc'[t] = (IF pc[t] = "bwrite" THEN "release" ELSE "unpin")
      /\ \A u \in Threads : u # t => pc'[u] = pc[u]
  BY <1>1, <1>3, GotoIs DEF Labels
<1>5. Others(t)
  BY <1>3, <1>4 DEF Others
<1>6. data[b] = content[n]
  BY <1>2 DEF IInv, DataOK
<1>7. /\ disk' \in [Keys -> Nat] /\ disk'[n] = content[n]
      /\ \A m \in Keys : m # n => disk'[m] = disk[m]
  BY <1>1, <1>2, <1>3, <1>6 DEF TypeOK
<1>8. TypeOK'
  BY <1>1, <1>3, <1>4, <1>7 DEF TypeOK
<1>9. DataOK'
  <2>1. \A u \in Threads : \A c \in Buffers : New(u, c)' <=> New(u, c)
    <3>1. \A c \in Buffers : ~New(t, c) /\ ~New(t, c)'
      BY <1>1, <1>4 DEF New, NewAt
    <3> QED BY <3>1, <1>5, NewSame
  <2>2. \A m \in Blocks : hashtable[m].idx # NoBuf => hashtable[m].idx \in Buffers
    BY Mine, Constants
  <2> QED BY <2>1, <2>2, <1>3 DEF IInv, DataOK, New
<1>10. DiskOK'
  <2> SUFFICES ASSUME NEW m \in Blocks, disk'[m] # content[m], m \notin pinned
               PROVE  \E u \in Threads : pc'[u] \in {"bwrite", "pin"} /\ loc[u].block = m
    BY <1>3 DEF DiskOK
  <2>1. m # n /\ disk[m] # content[m]
    BY <1>7, Constants
  <2>2. PICK u \in Threads : pc[u] \in {"bwrite", "pin"} /\ loc[u].block = m
    BY <2>1 DEF IInv, DiskOK
  <2>3. u # t
    BY <2>1, <2>2, <1>0
  <2> QED BY <2>2, <2>3, <1>4
<1>11. UserOK(t)'
  <2>1. pc'[t] \in {"release", "unpin"} /\ (pc'[t] = "unpin" => n \in pinned)
    BY <1>0, <1>1, <1>4 DEF UserOK
  <2> QED BY <2>1, <1>0, <1>1, <1>2, <1>3, <1>7 DEF UserOK, Counted, Target, HoldAt, NamedAt, FilledAt
<1>12. pc[t] \in HoldAt \ {"rename"} /\ pc'[t] \in HoldAt \ {"rename"}
  BY <1>1, <1>4 DEF HoldAt
<1> QED
  BY <1>0, <1>3, <1>5, <1>7, <1>8, <1>9, <1>10, <1>11, <1>12, DataStepKeeps

\* A modification makes the version in the buffer the latest.
LEMMA ModifyKeeps ==
  ASSUME IInv, NEW t \in Threads, pc[t] = "use", Modify(t), NEW l \in {"bwrite", "pin", "release"},
         Goto(t, l),
         l = "release" => loc[t].block \in pinned,
         l = "pin" => loc[t].block \notin pinned,
         UNCHANGED <<queueVars, hashtable, blockno, valid, lock, disk, pinVars, loc, ops>>
  PROVE  IInv'
<1>0. PICK n, b : n = loc[t].block /\ b = loc[t].buf
  OBVIOUS
<1>1. TypeOK /\ BgetOK(t) /\ PhaseOK(t) /\ UserOK(t)
  BY Mine
<1>2. /\ b \in Buffers /\ n \in Blocks /\ n \in Keys /\ blockno[b] = n /\ hashtable[n].idx = b /\ b # NoBuf
      /\ \A m \in Blocks : m # n => hashtable[m].idx # b
      /\ \A u \in Threads : ~New(u, b)
      /\ Counted(t)
  BY <1>0, <1>1, NamedIs, Constants DEF NamedAt, HoldAt
<1>3. /\ content' = [content EXCEPT ![n] = content[n] + 1]
      /\ data' = [data EXCEPT ![b] = content[n] + 1]
      /\ UNCHANGED <<queue, phase, hashtable, blockno, valid, lock, disk, pinned, mapped, leaked,
                     dropped, loc, ops>>
  BY <1>0 DEF Modify, queueVars, pinVars
<1>4. /\ pc' \in [Threads -> Labels] /\ pc'[t] = l
      /\ \A u \in Threads : u # t => pc'[u] = pc[u]
  BY <1>1, GotoIs DEF Labels
<1>5. Others(t)
  BY <1>3, <1>4 DEF Others
<1>6. /\ content' \in [Keys -> Nat] /\ data' \in [Buffers -> Nat]
      /\ content'[n] = content[n] + 1 /\ data'[b] = content[n] + 1
      /\ \A m \in Keys : m # n => content'[m] = content[m]
      /\ \A c \in Buffers : c # b => data'[c] = data[c]
  BY <1>1, <1>2, <1>3 DEF TypeOK
<1>7. TypeOK'
  BY <1>1, <1>3, <1>4, <1>6 DEF TypeOK
<1>8. \A u \in Threads : \A c \in Buffers : New(u, c)' <=> New(u, c)
  <2>1. \A c \in Buffers : ~New(t, c) /\ ~New(t, c)'
    BY <1>4 DEF New, NewAt
  <2> QED BY <2>1, <1>5, NewSame
<1>9. DataOK'
  <2> SUFFICES ASSUME NEW m \in Blocks, hashtable[m].idx # NoBuf, valid[hashtable[m].idx],
                      \A u \in Threads : ~New(u, hashtable[m].idx)'
               PROVE  data'[hashtable[m].idx] = content'[m]
    BY <1>3 DEF DataOK, New
  <2>1. PICK c : c = hashtable[m].idx
    OBVIOUS
  <2>2. m \in Keys /\ c \in Buffers
    BY <2>1, Mine, Constants
  <2>3. \A u \in Threads : ~New(u, c)
    BY <2>1, <2>2, <1>3, <1>8 DEF New
  <2>4. CASE m = n
    BY <2>4, <1>2, <1>6
  <2>5. CASE m # n
    <3>1. c # b
      BY <2>1, <2>5, <1>2
    <3> QED BY <3>1, <2>1, <2>2, <2>3, <2>5, <1>6 DEF IInv, DataOK
  <2> QED BY <2>4, <2>5
<1>10. DiskOK'
  <2> SUFFICES ASSUME NEW m \in Blocks, disk[m] # content'[m], m \notin pinned
               PROVE  \E u \in Threads : pc'[u] \in {"bwrite", "pin"} /\ loc[u].block = m
    BY <1>3 DEF DiskOK
  <2>1. CASE m = n
    BY <2>1, <1>0, <1>4
  <2>2. CASE m # n
    <3>1. disk[m] # content[m]
      BY <2>2, <1>6, Constants
    <3>2. PICK u \in Threads : pc[u] \in {"bwrite", "pin"} /\ loc[u].block = m
      BY <3>1 DEF IInv, DiskOK
    <3>3. u # t
      BY <3>2
    <3> QED BY <3>2, <3>3, <1>4
  <2> QED BY <2>1, <2>2
<1>11. UserOK(t)'
  BY <1>0, <1>1, <1>2, <1>3, <1>4 DEF UserOK, Counted, Target, HoldAt, NamedAt, FilledAt
<1>12. pc[t] \in HoldAt \ {"rename"} /\ pc'[t] \in HoldAt \ {"rename"}
  BY <1>4 DEF HoldAt
<1> QED
  BY <1>0, <1>3, <1>5, <1>6, <1>7, <1>9, <1>10, <1>11, <1>12, DataStepKeeps

LEMMA UseWriteKeeps ==
  ASSUME IInv, NEW t \in Threads, UseWrite(t)
  PROVE  IInv'
<1>1. pc[t] = "use" /\ Modify(t) /\ Goto(t, "bwrite") /\
      UNCHANGED <<queueVars, hashtable, blockno, valid, lock, disk, pinVars, loc, ops>>
  BY DEF UseWrite, Use, At
<1> QED BY <1>1, ModifyKeeps

LEMMA UseLogKeeps ==
  ASSUME IInv, NEW t \in Threads, UseLog(t)
  PROVE  IInv'
<1>1. pc[t] = "use" /\ Modify(t) /\
      UNCHANGED <<queueVars, hashtable, blockno, valid, lock, disk, pinVars, loc, ops>>
  BY DEF UseLog, Use, At
<1>2. CASE loc[t].block \in pinned
  <2>1. Goto(t, "release")
    BY <1>2 DEF UseLog
  <2> QED BY <2>1, <1>1, <1>2, ModifyKeeps
<1>3. CASE loc[t].block \notin pinned
  <2>1. Goto(t, "pin")
    BY <1>3 DEF UseLog
  <2> QED BY <2>1, <1>1, <1>3, ModifyKeeps
<1> QED BY <1>2, <1>3

-----------------------------------------------------------------------------
(* The cache at boot *)

\* The buffers in the order binit and Warm calls of bread leave in the queue.
Turn(i) == IF i <= NBUF + 1 - Warm THEN Warm + i ELSE i - (NBUF + 1 - Warm)

LEMMA BootQueueIs ==
  /\ BootQueue \in Seq(Buffers) /\ Len(BootQueue) = NBUF + 1
  /\ \A i \in 1..(NBUF + 1) : BootQueue[i] = (IF i = 1 THEN NBUF ELSE i - 2)
<1>1. NBUF \in Nat \ {0}
  BY Constants
<1>2. PICK T : T = [i \in 1..NBUF |-> i - 1]
  OBVIOUS
<1>3. T \in Seq(Buffers) /\ Len(T) = NBUF /\ \A i \in 1..NBUF : T[i] = i - 1
  <2>1. T \in [1..NBUF -> Buffers]
    BY <1>1, <1>2 DEF Buffers
  <2> QED BY <2>1, <1>1, <1>2
<1>4. BootQueue = <<NBUF>> \o T /\ NBUF \in Buffers
  BY <1>1, <1>2 DEF BootQueue, Buffers
<1>5. BootQueue \in Seq(Buffers) /\ Len(BootQueue) = NBUF + 1
  BY <1>1, <1>3, <1>4
<1>6. \A i \in 1..(NBUF + 1) : BootQueue[i] = (IF i = 1 THEN NBUF ELSE T[i - 1])
  BY <1>1, <1>3, <1>4
<1> QED
  BY <1>1, <1>3, <1>5, <1>6

LEMMA BootApart ==
  /\ \A i, j \in 1..(NBUF + 1) : BootQueue[i] = BootQueue[j] => i = j
  /\ \A i \in 1..(NBUF + 1) : BootQueue[i] \in Buffers
  /\ \A b \in Buffers : \E i \in 1..(NBUF + 1) : BootQueue[i] = b
<1>1. NBUF \in Nat \ {0}
  BY Constants
<1>2. \A b \in Buffers : \E i \in 1..(NBUF + 1) : BootQueue[i] = b
  <2> TAKE b \in Buffers
  <2>1. CASE b = NBUF
    BY <2>1, <1>1, BootQueueIs
  <2>2. CASE b # NBUF
    <3>1. b + 2 \in 1..(NBUF + 1) /\ b + 2 # 1 /\ (b + 2) - 2 = b
      BY <2>2, <1>1 DEF Buffers
    <3> QED BY <3>1, BootQueueIs
  <2> QED BY <2>1, <2>2
<1>3. ASSUME NEW i \in 1..(NBUF + 1), NEW j \in 1..(NBUF + 1), BootQueue[i] = BootQueue[j] PROVE i = j
  <2>1. (IF i = 1 THEN NBUF ELSE i - 2) = (IF j = 1 THEN NBUF ELSE j - 2)
    BY <1>3, BootQueueIs
  <2> QED BY <2>1, <1>1
<1>4. \A i \in 1..(NBUF + 1) : BootQueue[i] \in Buffers
  BY <1>1, BootQueueIs DEF Buffers
<1> QED
  BY <1>2, <1>3, <1>4

LEMMA InitQueue ==
  ASSUME Init
  PROVE  /\ queue \in Seq(Buffers) /\ Len(queue) = NBUF + 1
         /\ \A i \in 1..(NBUF + 1) : queue[i] = BootQueue[Turn(i)]
<1>1. NBUF \in Nat \ {0} /\ Warm \in 0..(NBUF + 1)
  BY Constants, CacheAssumption
<1>2. PICK a, z : a = SubSeq(BootQueue, Warm + 1, NBUF + 1) /\ z = SubSeq(BootQueue, 1, Warm)
  OBVIOUS
<1>3. a \in Seq(Buffers) /\ Len(a) = NBUF + 1 - Warm /\ \A i \in 1..(NBUF + 1 - Warm) : a[i] = BootQueue[Warm + i]
  BY <1>1, <1>2, BootQueueIs
<1>4. z \in Seq(Buffers) /\ Len(z) = Warm /\ \A i \in 1..Warm : z[i] = BootQueue[i]
  BY <1>1, <1>2, BootQueueIs
<1>5. queue = a \o z
  BY <1>2 DEF Init
<1>6. queue \in Seq(Buffers) /\ Len(queue) = NBUF + 1
  BY <1>1, <1>3, <1>4, <1>5
<1>7. ASSUME NEW i \in 1..(NBUF + 1) PROVE queue[i] = BootQueue[Turn(i)]
  <2>1. CASE i <= NBUF + 1 - Warm
    BY <2>1, <1>1, <1>3, <1>4, <1>5 DEF Turn
  <2>2. CASE i > NBUF + 1 - Warm
    <3>1. PICK j : j = i - (NBUF + 1 - Warm)
      OBVIOUS
    <3>2. j \in 1..Warm /\ i = Len(a) + j /\ Turn(i) = j
      BY <2>2, <3>1, <1>1, <1>3 DEF Turn
    <3>3. j \in 1..Len(z) /\ Len(a) \in Nat
      BY <3>2, <1>3, <1>4
    <3>4. (a \o z)[Len(a) + j] = z[j]
      BY <3>3, <1>3, <1>4
    <3> QED BY <3>2, <3>4, <1>4, <1>5
  <2> QED BY <2>1, <2>2, <1>1
<1> QED BY <1>6, <1>7

LEMMA InitQueued == Init => Queued
<1> SUFFICES ASSUME Init PROVE Queued
  OBVIOUS
<1>1. NBUF \in Nat \ {0} /\ Warm \in 0..(NBUF + 1)
  BY Constants, CacheAssumption
<1>2. \A i \in 1..(NBUF + 1) : Turn(i) \in 1..(NBUF + 1)
  BY <1>1 DEF Turn
<1>3. \A i, j \in 1..(NBUF + 1) : Turn(i) = Turn(j) => i = j
  BY <1>1 DEF Turn
<1>4. \A k \in 1..(NBUF + 1) : \E i \in 1..(NBUF + 1) : Turn(i) = k
  <2> TAKE k \in 1..(NBUF + 1)
  <2>1. CASE k > Warm
    <3>1. k - Warm \in 1..(NBUF + 1) /\ Turn(k - Warm) = k
      BY <2>1, <1>1 DEF Turn
    <3> QED BY <3>1
  <2>2. CASE k <= Warm
    <3>1. k + (NBUF + 1 - Warm) \in 1..(NBUF + 1) /\ Turn(k + (NBUF + 1 - Warm)) = k
      BY <2>2, <1>1 DEF Turn
    <3> QED BY <3>1
  <2> QED BY <2>1, <2>2, <1>1
<1>5. Len(queue) = NBUF + 1 /\ \A i \in 1..(NBUF + 1) : queue[i] = BootQueue[Turn(i)]
  BY InitQueue
<1>6. Len(queue) >= 1
  BY <1>1, <1>5
<1>7. \A i, j \in 1..Len(queue) : queue[i] = queue[j] => i = j
  BY <1>2, <1>3, <1>5, BootApart
<1>8. \A b \in Buffers : phase[b] = "queued"
  BY DEF Init
<1>9. \A i \in 1..Len(queue) : phase[queue[i]] = "queued"
  BY <1>2, <1>5, <1>8, BootApart
<1>10. \A b \in Buffers : \E i \in 1..Len(queue) : queue[i] = b
  <2> TAKE b \in Buffers
  <2>1. PICK k \in 1..(NBUF + 1) : BootQueue[k] = b
    BY BootApart
  <2>2. PICK i \in 1..(NBUF + 1) : Turn(i) = k
    BY <1>4
  <2> QED BY <2>1, <2>2, <1>5
<1> QED BY <1>6, <1>7, <1>8, <1>9, <1>10 DEF Queued

\* A buffer read at boot is for the block that was read into it.
LEMMA WarmBlockIs ==
  /\ \A n \in 1..Warm : WarmBlock(BootQueue[n]) = n
  /\ \A b \in Buffers : WarmBlock(b) \in Keys
  /\ \A n \in 1..Warm : n \in Blocks /\ n \in 1..(NBUF + 1)
<1>1. NBUF \in Nat \ {0} /\ NBLOCK \in Nat /\ Warm \in 0..(NBUF + 1) /\ Warm <= NBLOCK
  BY Constants, CacheAssumption
<1>2. \A n \in 1..Warm : n \in Blocks /\ n \in 1..(NBUF + 1)
  BY <1>1 DEF Blocks
<1>3. \A n \in 1..Warm : WarmBlock(BootQueue[n]) = n
  <2> TAKE n \in 1..Warm
  <2>1. \A m \in 1..Warm : BootQueue[m] = BootQueue[n] => m = n
    BY <1>2, BootApart
  <2> QED BY <2>1 DEF WarmBlock
<1>4. \A b \in Buffers : WarmBlock(b) \in Keys
  <2> TAKE b \in Buffers
  <2>1. CASE \E n \in 1..Warm : BootQueue[n] = b
    BY <2>1, <1>2, <1>3, Constants
  <2>2. CASE ~\E n \in 1..Warm : BootQueue[n] = b
    BY <2>2, Constants DEF WarmBlock
  <2> QED BY <2>1, <2>2
<1> QED BY <1>2, <1>3, <1>4

LEMMA InitInv == Init => IInv
<1> SUFFICES ASSUME Init PROVE IInv
  OBVIOUS
<1>1. /\ phase = [b \in Buffers |-> "queued"]
      /\ hashtable = [n \in Keys |-> RefIdx(0, IF n \in 1..Warm THEN BootQueue[n] ELSE NoBuf)]
      /\ blockno = [b \in Buffers |-> WarmBlock(b)]
      /\ valid = [b \in Buffers |-> WarmBlock(b) # 0]
      /\ data = [b \in Buffers |-> 0]
      /\ lock = [b \in Buffers |-> NoThread]
      /\ disk = [n \in Keys |-> 0] /\ content = disk
      /\ leaked = {} /\ dropped = {} /\ pinned = {} /\ mapped = {}
      /\ pc = [t \in Threads |-> "idle"] /\ loc = [t \in Threads |-> NoLocals]
      /\ ops = 0
  BY Constants DEF Init
<1>2. ASSUME NEW n \in Keys
      PROVE  /\ hashtable[n] \in RefIdxs /\ hashtable[n].ref = 0
             /\ hashtable[n] = RefIdx(0, hashtable[n].idx)
             /\ hashtable[n].idx = IF n \in 1..Warm THEN BootQueue[n] ELSE NoBuf
  <2>1. PICK i : i = IF n \in 1..Warm THEN BootQueue[n] ELSE NoBuf
    OBVIOUS
  <2>2. i \in Bufs
    BY <2>1, WarmBlockIs, BootApart, Constants
  <2>3. hashtable[n] = RefIdx(0, i)
    BY <2>1, <1>1
  <2> QED BY <2>1, <2>2, <2>3, Constants DEF RefIdx, RefIdxs
<1>3. \A n \in Keys : hashtable[n].idx # NoBuf => /\ n \in 1..Warm /\ hashtable[n].idx = BootQueue[n]
                                                 /\ hashtable[n].idx \in Buffers
  BY <1>2, WarmBlockIs, BootApart
<1>4. TypeOK
  <2>1. queue \in Seq(Buffers)
    BY InitQueue
  <2>2. phase \in [Buffers -> Q!Phases]
    BY <1>1 DEF Q!Phases
  <2>3. hashtable \in [Keys -> RefIdxs]
    BY <1>1, <1>2
  <2>4. blockno \in [Buffers -> Keys] /\ valid \in [Buffers -> BOOLEAN]
    BY <1>1, WarmBlockIs
  <2>5. pc \in [Threads -> Labels] /\ loc \in [Threads -> Locals]
    BY <1>1, Constants DEF Labels
  <2> QED BY <2>1, <2>2, <2>3, <2>4, <2>5, <1>1 DEF TypeOK
<1>5. Table
  <2>1. 0 \in Keys /\ hashtable[0] = RefIdx(0, NoBuf)
    <3>1. 0 \in Keys /\ 0 \notin 1..Warm
      BY Constants
    <3>2. hashtable[0].idx = NoBuf /\ hashtable[0] = RefIdx(0, hashtable[0].idx)
      BY <3>1, <1>2
    <3> QED BY <3>1, <3>2
  <2>2. \A m, n \in Keys : m # n /\ hashtable[m].idx # NoBuf => hashtable[m].idx # hashtable[n].idx
    BY <1>3, WarmBlockIs, BootApart
  <2> QED BY <2>1, <2>2, <1>2 DEF Table
<1>6. Counts
  <2> SUFFICES ASSUME NEW n \in Blocks PROVE hashtable[n].ref = Cardinality(Got(n)) + Pins(n)
    BY DEF Counts
  <2>1. Got(n) = {}
    BY <1>1 DEF Got, Counted
  <2>2. Pins(n) = 0
    BY <1>1 DEF Pins
  <2>3. hashtable[n].ref = 0
    BY <1>2, Constants
  <2> QED BY <2>1, <2>2, <2>3, FS_EmptySet
<1>7. Names
  <2> SUFFICES ASSUME NEW n \in Blocks, hashtable[n].idx # NoBuf PROVE blockno[hashtable[n].idx] = n
    BY DEF Names
  <2>1. n \in 1..Warm /\ hashtable[n].idx = BootQueue[n] /\ hashtable[n].idx \in Buffers
    BY <1>3, Constants
  <2> QED BY <2>1, <1>1, WarmBlockIs
<1>8. Mapped /\ Pinned
  BY <1>1 DEF Mapped, Pinned
<1>9. Queued
  BY InitQueued
<1>10. Locks
  BY <1>1 DEF Locks
<1>11. Threaded
  <2>1. ASSUME NEW t \in Threads PROVE ThreadOK(t)
    <3>1. pc[t] = "idle" /\ loc[t] = NoLocals /\ loc[t].cand = NoBuf
      BY <2>1, <1>1 DEF NoLocals
    <3> QED BY <3>1 DEF ThreadOK, BgetOK, PhaseOK, UserOK, CandAt, FreshAt, Counted, HoldAt, NamedAt, FilledAt
  <2>2. \A t \in Threads : \A b \in Buffers : ~Own(t, b) /\ ~New(t, b) /\ ~Linker(t, b)
    BY <1>1 DEF Own, New, Linker, CandAt, NewAt
  <2> QED BY <2>1, <2>2 DEF Threaded, Apart
<1>12. DataOK /\ DiskOK
  <2>1. \A n \in Blocks : n \in Keys /\ (hashtable[n].idx # NoBuf => hashtable[n].idx \in Buffers)
    BY <1>3, Constants
  <2> QED BY <2>1, <1>1 DEF DataOK, DiskOK
<1>13. LostOK
  BY <1>1 DEF LostOK
<1> QED
  BY <1>4, <1>5, <1>6, <1>7, <1>8, <1>9, <1>10, <1>11, <1>12, <1>13 DEF IInv

-----------------------------------------------------------------------------
(* Every step keeps the invariant *)

LEMMA GetKeeps ==
  ASSUME IInv, ~Races, NEW t \in Threads, Get(t)
  PROVE  IInv'
<1>1. CASE GetRead(t)
  BY <1>1, GetReadKeeps
<1>2. CASE GetHit(t)
  <2>1. \/ CASFails(t, loc[t].block, loc[t].rc, "get") /\ UNCHANGED leaked
        \/ /\ CAS(t, loc[t].block, loc[t].rc, Inc(loc[t].rc),
                  IF loc[t].cand = NoBuf THEN "lock" ELSE "putback")
           /\ leaked' = leaked \ {loc[t].rc.idx}
    BY <1>2 DEF GetHit
  <2>2. At(t, "hit") /\ UNCHANGED <<queueVars, bufVars, diskVars, pinned, mapped, dropped, loc, ops>>
    BY <1>2 DEF GetHit
  <2>3. CASE CASFails(t, loc[t].block, loc[t].rc, "get") /\ UNCHANGED leaked
    BY <2>2, <2>3, GetHitFails DEF pinVars
  <2> QED BY <2>1, <2>2, <2>3, GetHitCounts DEF At
<1>3. CASE GetPutBack(t)
  <2> DEFINE b == loc[t].cand
  <2>1. CASE EnqueueClaim(t, b, "putback", "putback_link", "lock")
    <3>1. pc[t] = "putback"
      BY <2>1 DEF EnqueueClaim, At
    <3>2. b \in Buffers /\ b # NoBuf /\ phase[b] = "out" /\ Own(t, b)
      BY <3>1, Mine, Constants DEF BgetOK, PhaseOK, Own, CandAt
    <3>3. /\ Q!Claim(b) /\ Goto(t, "putback_link")
          /\ UNCHANGED <<hashtable, bufVars, diskVars, pinVars, loc, ops>>
      BY <2>1, <3>2 DEF EnqueueClaim
    <3> QED BY <3>1, <3>2, <3>3, ClaimKeeps
  <2>2. CASE EnqueueLink(t, b, "putback_link", "lock")
    <3>1. pc[t] = "putback_link"
      BY <2>2 DEF EnqueueLink, At
    <3>2. b \in Buffers
      BY <3>1, Mine, Constants DEF BgetOK, CandAt
    <3> QED BY <2>2, <3>1, <3>2, LinkKeeps DEF EnqueueLink
  <2> QED BY <1>3, <2>1, <2>2 DEF GetPutBack
<1>4. CASE GetDequeue(t)
  BY <1>4, GetDequeueKeeps
<1>5. CASE GetPanic(t)
  BY <1>5, GetPanicKeeps
<1>6. CASE GetUnclaim(t)
  BY <1>6, GetUnclaimKeeps
<1>7. CASE GetVictim(t)
  BY <1>7, GetVictimKeeps
<1>8. CASE GetExpect(t)
  BY <1>8, GetExpectKeeps
<1>9. CASE GetEvict(t)
  <2>1. At(t, "evict") /\ UNCHANGED <<queueVars, bufVars, diskVars, pinned, mapped, leaked, ops>>
    BY <1>9 DEF GetEvict
  <2>2. CASE /\ CAS(t, loc[t].victim, loc[t].expect, Unmapped(loc[t].expect), "install")
             /\ UNCHANGED <<loc, dropped>>
    BY <2>1, <2>2, EvictKeeps DEF pinVars
  <2>3. CASE /\ CASFails(t, loc[t].victim, loc[t].expect, "dequeue")
             /\ Set(t, "cand", NoBuf)
             /\ dropped' = IF hashtable[loc[t].victim].idx = loc[t].cand
                           THEN dropped ELSE dropped \cup {loc[t].cand}
    BY <2>1, <2>3, GetEvictFails
  <2> QED BY <1>9, <2>2, <2>3 DEF GetEvict
<1>10. CASE GetInstall(t)
  <2>1. At(t, "install") /\ UNCHANGED <<queueVars, bufVars, diskVars, pinVars, loc, ops>>
    BY <1>10 DEF GetInstall
  <2>2. CASE CAS(t, loc[t].block, loc[t].rc, RefIdx(1, loc[t].cand), "lock_new")
    BY <2>1, <2>2, InstallKeeps
  <2>3. CASE CASFails(t, loc[t].block, loc[t].rc, "get")
    BY <2>1, <2>3, GetInstallFails
  <2> QED BY <1>10, <2>2, <2>3 DEF GetInstall
<1>11. CASE GetLock(t)
  BY <1>11, GetLockKeeps
<1>12. CASE GetLockNew(t)
  BY <1>12, GetLockNewKeeps
<1>13. CASE GetRename(t)
  BY <1>13, GetRenameKeeps
<1>14. CASE Fill(t)
  BY <1>14, FillKeeps
<1> QED
  BY <1>1, <1>2, <1>3, <1>4, <1>5, <1>6, <1>7, <1>8, <1>9, <1>10, <1>11, <1>12, <1>13, <1>14 DEF Get

LEMMA UseBufferKeeps ==
  ASSUME IInv, NEW t \in Threads, UseBuffer(t)
  PROVE  IInv'
BY UseReadKeeps, UseWriteKeeps, BwriteKeeps, UseLogKeeps, UseInstallKeeps, UseMapKeeps, PinKeeps,
   UnpinKeeps DEF UseBuffer

LEMMA BrelseKeeps ==
  ASSUME IInv, ~Races, NEW t \in Threads, Brelse(t)
  PROVE  IInv'
<1>1. CASE Release(t)
  BY <1>1, ReleaseKeeps
<1>2. CASE RelBlock(t)
  BY <1>2, RelBlockKeeps
<1>3. CASE RelRead(t)
  BY <1>3, RelReadKeeps
<1>4. CASE RelCount(t)
  <2>1. /\ At(t, "rel_count") /\ UNCHANGED <<queueVars, bufVars, diskVars, pinVars, loc, ops>>
        /\ loc[t].rc.ref = 1 => MayFree(loc[t].buf)
    BY <1>4 DEF RelCount
  <2>2. CASE CAS(t, loc[t].victim, loc[t].rc, Dec(loc[t].rc), IF LastUser(loc[t].rc) THEN "enqueue" ELSE "done")
    BY <2>1, <2>2, RelCountCounts DEF At
  <2>3. CASE CASFails(t, loc[t].victim, loc[t].rc, Retry)
    BY <2>1, <2>3, RelCountFails
  <2> QED BY <1>4, <2>2, <2>3 DEF RelCount
<1>5. CASE RelEnqueue(t)
  <2> DEFINE b == loc[t].buf
  <2>1. CASE EnqueueClaim(t, b, "enqueue", "enqueue_link", "done")
    <3>1. pc[t] = "enqueue" /\ b \in Buffers
      BY <2>1, Mine, Constants DEF EnqueueClaim, At, UserOK
    <3>2. CASE phase[b] # "out" /\ Goto(t, "done") /\ UNCHANGED queueVars
      BY <2>1, <3>2, RelClaimFails DEF EnqueueClaim
    <3>3. CASE Q!Claim(b) /\ Goto(t, "enqueue_link")
      <4>1. Enq(t, b)
        BY <3>1 DEF Enq
      <4>2. UNCHANGED <<hashtable, bufVars, diskVars, pinVars, loc, ops>>
        BY <2>1 DEF EnqueueClaim
      <4> QED BY <3>1, <3>3, <4>1, <4>2, ClaimKeeps
    <3> QED BY <2>1, <3>2, <3>3 DEF EnqueueClaim
  <2>2. CASE EnqueueLink(t, b, "enqueue_link", "done")
    <3>1. pc[t] = "enqueue_link"
      BY <2>2 DEF EnqueueLink, At
    <3>2. b \in Buffers
      BY <3>1, Mine, Constants DEF UserOK
    <3> QED BY <2>2, <3>1, <3>2, LinkKeeps DEF EnqueueLink
  <2> QED BY <1>5, <2>1, <2>2 DEF RelEnqueue
<1>6. CASE RelDone(t)
  BY <1>6, RelDoneKeeps
<1> QED
  BY <1>1, <1>2, <1>3, <1>4, <1>5, <1>6 DEF Brelse

LEMMA StutterKeeps ==
  ASSUME IInv, UNCHANGED vars
  PROVE  IInv'
<1>1. UNCHANGED <<queue, phase, hashtable, blockno, valid, data, lock, disk, content,
                  leaked, dropped, pinned, mapped, pc, loc, ops>>
  BY DEF vars, queueVars, bufVars, diskVars, pinVars
<1>2. TypeOK' /\ Table' /\ Locks'
  BY <1>1 DEF IInv, TypeOK, Table, Locks
<1>3. Counts'
  BY <1>1 DEF IInv, Counts, Got, Counted, Pins
<1>4. Names' /\ Mapped' /\ Pinned' /\ DataOK'
  BY <1>1 DEF IInv, Names, Mapped, Pinned, DataOK, New
<1>5. Queued' /\ DiskOK'
  BY <1>1 DEF IInv, Queued, Linker, DiskOK
<1>6. LostOK'
  BY <1>1 DEF IInv, LostOK, Own, Enq, InUse
<1>7. \A t \in Threads : ThreadOK(t)'
  <2> TAKE t \in Threads
  <2>1. BgetOK(t)' /\ PhaseOK(t)'
    BY <1>1 DEF IInv, Threaded, ThreadOK, BgetOK, PhaseOK
  <2>2. UserOK(t)'
    BY <1>1 DEF IInv, Threaded, ThreadOK, UserOK, Counted, Target
  <2> QED BY <2>1, <2>2 DEF ThreadOK
<1>8. \A t, u \in Threads : t # u => Apart(t, u)'
  BY <1>1 DEF IInv, Threaded, Apart, Own, Enq, New, Has, Linker
<1> QED
  BY <1>2, <1>3, <1>4, <1>5, <1>6, <1>7, <1>8 DEF IInv, Threaded

LEMMA NextInv == ASSUME ~Races PROVE IInv /\ [Next]_vars => IInv'
<1> SUFFICES ASSUME IInv, [Next]_vars PROVE IInv'
  OBVIOUS
<1>1. ASSUME NEW t \in Threads, Step(t) PROVE IInv'
  BY <1>1, GetKeeps, UseBufferKeeps, BrelseKeeps DEF Step
<1>2. ASSUME NEW t \in Threads, Unmap(t) PROVE IInv'
  BY <1>2, UnmapKeeps
<1>3. ASSUME NEW t \in Threads, NEW n \in Blocks, Bread(t, n) PROVE IInv'
  BY <1>3, BreadKeeps
<1> QED BY <1>1, <1>2, <1>3, StutterKeeps DEF Next

-----------------------------------------------------------------------------
(* What is proved of the cache *)

(***************************************************************************)
(* The inductive invariant of bget, brelse, bpin and bunpin.  Races must   *)
(* be FALSE: in bget's windows (bio.c:150, :157) another thread takes a    *)
(* buffer that is being evicted or is not yet renamed, and Apart and Names *)
(* are lost.                                                               *)
(***************************************************************************)
THEOREM Invariance == ASSUME ~Races PROVE Spec => []IInv
<1>1. IInv /\ [Next]_vars => IInv'
  BY NextInv
<1>2. Init => IInv
  BY InitInv
<1> QED
  BY <1>1, <1>2, PTL DEF Spec

(***************************************************************************)
(* From bread to brelse the buffer is the caller's alone and holds the     *)
(* latest version of the block asked for (bio.c:169).                      *)
(***************************************************************************)
THEOREM BuffersAreRight == ASSUME ~Races PROVE Spec => []ReadsTheBlock
<1>1. IInv => ReadsTheBlock
  <2> SUFFICES ASSUME IInv, NEW t \in Threads, Using(t)
               PROVE  /\ lock[loc[t].buf] = t
                      /\ blockno[loc[t].buf] = loc[t].block
                      /\ data[loc[t].buf] = content[loc[t].block]
    BY DEF ReadsTheBlock
  <2>1. pc[t] \in FilledAt /\ pc[t] \in HoldAt /\ pc[t] \in NamedAt
    BY DEF Using, FilledAt, HoldAt, NamedAt
  <2>2. /\ loc[t].block \in Blocks /\ hashtable[loc[t].block].idx = loc[t].buf
        /\ \A u \in Threads : ~New(u, loc[t].buf)
        /\ loc[t].buf # NoBuf
    BY <2>1, NamedIs, Constants
  <2>3. UserOK(t)
    BY Mine
  <2> QED BY <2>1, <2>2, <2>3 DEF IInv, DataOK, UserOK
<1> QED
  BY <1>1, Invariance, PTL

\* bget and brelse never cache two blocks in one buffer.
THEOREM BuffersApart == ASSUME ~Races PROVE Spec => []OneBlockPerBuffer
<1>1. IInv => OneBlockPerBuffer
  BY Constants DEF IInv, Table, OneBlockPerBuffer
<1> QED
  BY <1>1, Invariance, PTL

\* The CASes of bget, brelse, bpin and bunpin keep the counts of users right.
THEOREM CountsAreRight == ASSUME ~Races PROVE Spec => []CountIsUsers
<1>1. IInv => CountIsUsers
  BY DEF IInv, Counts, CountIsUsers
<1> QED
  BY <1>1, Invariance, PTL

LEMMA LostIs ==
  ASSUME IInv, NEW b \in Buffers, phase[b] = "out"
  PROVE  Owned(b) \/ InUse(b) \/ b \in leaked \cup dropped
<1>1. \A t \in Threads : Own(t, b) \/ Enq(t, b) => Owned(b)
  BY DEF Own, Enq, Owned, CandAt
<1> QED
  BY <1>1 DEF IInv, LostOK

(***************************************************************************)
(* Only munmap (bunpin2) and a bget that meets a block cached elsewhere    *)
(* (bio.c:151) lose a buffer.                                              *)
(***************************************************************************)
THEOREM BuffersAreKept == ASSUME ~Races PROVE Spec => []NothingLost
<1>1. IInv => NothingLost
  BY LostIs DEF NothingLost
<1> QED
  BY <1>1, Invariance, PTL

PanicsFull ==
  \A t \in Threads : ~At(t, "panic") /\ At(t, "panic")' =>
       Cardinality({b \in Buffers : InUse(b) \/ Owned(b)}
                     \cup leaked \cup dropped) >= NBUF

LEMMA QueuedIs ==
  ASSUME TypeOK
  PROVE  \A i \in 1..Len(queue) : queue[i] \in Buffers
BY DEF TypeOK

\* Whatever is not the sentinel of an empty queue is used, held or lost.
LEMMA EmptyQueueIs ==
  ASSUME IInv, Len(queue) = 1
  PROVE  Cardinality({b \in Buffers : InUse(b) \/ Owned(b)}
                       \cup leaked \cup dropped) >= NBUF
<1> DEFINE S == {b \in Buffers : InUse(b) \/ Owned(b)} \cup leaked \cup dropped
<1>0. PICK s : s = queue[1]
  OBVIOUS
<1>1. NBUF \in Nat
  BY Constants
<1>2. s \in Buffers /\ \A i \in 1..Len(queue) : queue[i] = s
  <2>1. TypeOK /\ 1 \in 1..Len(queue)
    BY DEF IInv
  <2>2. s \in Buffers
    BY <2>1, <1>0, QueuedIs
  <2>3. ASSUME NEW i \in 1..Len(queue) PROVE queue[i] = s
    <3>1. i = 1
      OBVIOUS
    <3> QED BY <3>1, <1>0
  <2> QED BY <2>2, <2>3
<1>3. \A b \in Buffers \ {s} : b \in S
  <2> SUFFICES ASSUME NEW b \in Buffers, b # s PROVE b \in S
    OBVIOUS
  <2>1. phase[b] \in {"out", "linking", "queued", "taken"}
    BY DEF IInv, TypeOK, Q!Phases
  <2>2. phase[b] # "queued"
    BY <1>2 DEF IInv, Queued
  <2>3. phase[b] = "taken" => Owned(b)
    BY DEF IInv, Queued, Owned
  <2>4. phase[b] = "linking" => Owned(b)
    BY DEF IInv, Queued, Owned, Linker
  <2> QED BY <2>1, <2>2, <2>3, <2>4, LostIs
<1>4. IsFiniteSet(Buffers) /\ Cardinality(Buffers) = NBUF + 1
  <2>1. 0 \in Int /\ NBUF \in Int /\ 0 <= NBUF
    BY <1>1
  <2> QED BY <2>1, FS_Interval DEF Buffers
<1>5. IsFiniteSet(Buffers \ {s}) /\ Cardinality(Buffers \ {s}) = NBUF
  <2>1. IsFiniteSet(Buffers \ {s}) /\ Cardinality(Buffers \ {s}) = Cardinality(Buffers) - 1
    BY <1>2, <1>4, FS_RemoveElement
  <2> QED BY <2>1, <1>1, <1>4
<1>6. IsFiniteSet(S)
  <2>1. S \subseteq Buffers
    BY DEF IInv, TypeOK
  <2> QED BY <2>1, <1>4, FS_Subset
<1>7. Buffers \ {s} \subseteq S
  BY <1>3
<1>8. Cardinality(S) \in Nat /\ Cardinality(Buffers \ {s}) <= Cardinality(S)
  BY <1>5, <1>6, <1>7, FS_Subset, FS_CardinalityType
<1> QED BY <1>1, <1>5, <1>8

\* GetPanic is the only step to the label "panic".
LEMMA PanicIs ==
  ASSUME TypeOK, [Next]_vars, NEW t \in Threads, pc[t] # "panic", pc'[t] = "panic"
  PROVE  Len(queue) = 1
<1>1. \A u \in Threads, l \in Labels : Goto(u, l) => (pc'[t] = l \/ pc'[t] = pc[t])
  BY DEF TypeOK, Goto
<1>2. \A u \in Threads, l \in Labels : Goto(u, l) => l = "panic"
  BY <1>1
<1>3. pc' # pc
  OBVIOUS
<1>4. PICK u \in Threads : Step(u) \/ Unmap(u) \/ \E n \in Blocks : Bread(u, n)
  BY <1>3 DEF Next, vars
<1>5. ~Unmap(u)
  BY <1>3 DEF Unmap
<1>6. ~\E n \in Blocks : Bread(u, n)
  BY <1>2 DEF Bread, Labels
<1>7. ~UseBuffer(u)
  <2>1. ~UseRead(u) /\ ~UseWrite(u) /\ ~Bwrite(u)
    BY <1>2 DEF UseRead, UseWrite, Bwrite, Labels
  <2>2. ~UseLog(u) /\ ~UseInstall(u) /\ ~UseMap(u) /\ ~Pin(u) /\ ~Unpin(u)
    BY <1>2 DEF UseLog, UseInstall, UseMap, Pin, Unpin, Labels
  <2> QED BY <2>1, <2>2 DEF UseBuffer
<1>8. ~Brelse(u)
  <2>1. ~Release(u) /\ ~RelBlock(u) /\ ~RelRead(u) /\ ~RelDone(u)
    BY <1>2 DEF Release, RelBlock, RelRead, RelDone, Labels
  <2>2. ~RelCount(u)
    BY <1>2 DEF RelCount, CAS, CASFails, Retry, Labels
  <2>3. ~RelEnqueue(u)
    BY <1>2 DEF RelEnqueue, EnqueueClaim, EnqueueLink, Labels
  <2> QED BY <2>1, <2>2, <2>3 DEF Brelse
<1>9. Get(u) => GetPanic(u)
  <2>1. ~GetRead(u) /\ ~GetDequeue(u) /\ ~GetUnclaim(u) /\ ~GetVictim(u) /\ ~GetExpect(u)
    BY <1>2 DEF GetRead, GetDequeue, GetUnclaim, GetVictim, GetExpect, Labels
  <2>2. ~GetLock(u) /\ ~GetLockNew(u) /\ ~GetRename(u) /\ ~Fill(u)
    BY <1>2 DEF GetLock, GetLockNew, GetRename, Fill, Labels
  <2>3. ~GetHit(u) /\ ~GetEvict(u) /\ ~GetInstall(u)
    BY <1>2 DEF GetHit, GetEvict, GetInstall, CAS, CASFails, Labels
  <2>4. ~GetPutBack(u)
    BY <1>2 DEF GetPutBack, EnqueueClaim, EnqueueLink, Labels
  <2> QED BY <2>1, <2>2, <2>3, <2>4 DEF Get
<1> QED BY <1>4, <1>5, <1>6, <1>7, <1>8, <1>9 DEF Step, GetPanic

\* bget panics "no buffers" (bio.c:147) only when every buffer but one is away.
THEOREM PanicsWhenFull == ASSUME ~Races PROVE Spec => PanicOnlyWhenFull
<1>1. IInv /\ [Next]_vars => PanicsFull
  BY PanicIs, EmptyQueueIs DEF IInv, PanicsFull, At
<1> QED
  BY <1>1, Invariance, PTL DEF Spec, PanicOnlyWhenFull, PanicsFull

=============================================================================
