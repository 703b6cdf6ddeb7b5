---------------------------- MODULE BufferCache -----------------------------
(***************************************************************************)
(* The lock-free buffer cache of kernel/bio.c: bget, bread, bwrite,        *)
(* brelse, bpin, bunpin.  One action is one access to shared memory, apart *)
(* from those to the fields of a buffer whose sleeplock the thread holds   *)
(* and nobody else reads.  enqueue and dequeue take the steps of LruQueue. *)
(*                                                                         *)
(* A thread is a process in the kernel that uses the cache as fs.c and     *)
(* log.c do: it reads a block, uses it one of several ways and releases it.*)
(* A block's content is a version number: 0 when the system boots, one     *)
(* more with each modification.                                            *)
(*                                                                         *)
(* Definitions such as CAS_Store are the faulty forms of the               *)
(* definition next to them with which the properties are put to the test.  *)
(***************************************************************************)
EXTENDS Integers, Sequences, FiniteSets

CONSTANTS Threads,
          NoThread,    \* the owner of a sleeplock that is free
          NBLOCK,      \* the disk blocks in use are 1, ..., NBLOCK
          NBUF,        \* number of buffers; buffer NBUF is the first sentinel
          Uses,        \* what threads do with a block: a subset of AllUses
          Warm,        \* the number of blocks read before the model starts
          Races,       \* FALSE: only the schedules that spare bget's windows
          MaxPins,     \* bound: the buffers the log and mappings pin
          MaxOps       \* bound: the calls of bread, in all

AllUses == {"read", "write", "log", "install", "map"}
MaxRef == 128 * 1024 * 1024 - 1                \* 2^27 - 1: REFCNT() has 27 bits

ASSUME CacheAssumption ==
  /\ NoThread \notin Threads
  /\ IsFiniteSet(Threads) /\ Cardinality(Threads) + 2 <= MaxRef
  /\ NBUF \in Nat \ {0}
  /\ Uses \subseteq AllUses
  /\ Races \in BOOLEAN
  /\ NBLOCK \in Nat
  /\ Warm \in 0..(NBUF + 1) /\ Warm <= NBLOCK

Blocks == 1..NBLOCK
Buffers == 0..NBUF
NoBuf == NBUF + 1                           \* NONE, and the null pointer
RefIdx(r, i) == [ref |-> r, idx |-> i]
Inc(rc) == RefIdx((rc.ref + 1) % (MaxRef + 1), rc.idx)
Dec(rc) == RefIdx((rc.ref + MaxRef) % (MaxRef + 1), rc.idx)

VARIABLES queue, phase,  \* the queue of unused buffers, see LruQueue
          hashtable,     \* bcache.hashtable
          blockno, valid, data, lock,   \* the fields of a buffer
          disk,          \* the blocks on disk
          content,       \* the latest version of a block (not in the code)
          leaked,        \* the buffers whose count munmap took to 0 (idem)
          dropped,       \* the buffers bget dropped for another's block (idem)
          pinned,        \* the blocks of log.lh.block
          mapped,        \* the buffers mapped by user processes
          pc, loc, ops   \* where a thread is, its locals; the calls made

queueVars == <<queue, phase>>
bufVars == <<blockno, valid, data, lock>>
diskVars == <<disk, content>>
pinVars == <<pinned, mapped, leaked, dropped>>
vars == <<queueVars, hashtable, bufVars, diskVars, pinVars, pc, loc, ops>>

Q == INSTANCE LruQueue WITH Nodes <- Buffers

NoLocals == [block |-> 0,       \* the argument of bread
             rc |-> RefIdx(0, NoBuf),
             cand |-> NoBuf,    \* b in bget
             victim |-> 0, expect |-> RefIdx(0, NoBuf),
             buf |-> NoBuf]     \* the buffer bread returned

(***************************************************************************)
(* The cache as binit left it and one process then used it to read blocks  *)
(* 1, ..., Warm in this order: each took the buffer at the head of the     *)
(* queue <<NBUF, 0, 1, ..., NBUF - 1>> and put it back at its end.         *)
(***************************************************************************)
BootQueue == <<NBUF>> \o [i \in 1..NBUF |-> i - 1]
WarmBlock(b) == IF \E n \in 1..Warm : BootQueue[n] = b
                THEN CHOOSE n \in 1..Warm : BootQueue[n] = b ELSE 0

Init ==
  /\ queue = SubSeq(BootQueue, Warm + 1, NBUF + 1) \o SubSeq(BootQueue, 1, Warm)
  /\ phase = [b \in Buffers |-> "queued"]
  /\ hashtable = [n \in Blocks \cup {0} |->
                    RefIdx(0, IF n \in 1..Warm THEN BootQueue[n] ELSE NoBuf)]
  /\ blockno = [b \in Buffers |-> WarmBlock(b)]
  /\ valid = [b \in Buffers |-> WarmBlock(b) # 0]
  /\ data = [b \in Buffers |-> 0]
  /\ lock = [b \in Buffers |-> NoThread]
  /\ disk = [n \in Blocks \cup {0} |-> 0]
  /\ content = disk
  /\ leaked = {}
  /\ dropped = {}
  /\ pinned = {}
  /\ mapped = {}
  /\ pc = [t \in Threads |-> "idle"]
  /\ loc = [t \in Threads |-> NoLocals]
  /\ ops = 0

At(t, l) == pc[t] = l
Goto(t, l) == pc' = [pc EXCEPT ![t] = l]
Set(t, var, val) == loc' = [loc EXCEPT ![t][var] = val]

CAS_Store(t, n, old, new, l) == /\ hashtable' = [hashtable EXCEPT ![n] = new]
                                /\ Goto(t, l)
\* CAS of hashtable[n] from the value old to new, then on to label l.
CAS(t, n, old, new, l) == /\ hashtable[n] = old
                          /\ hashtable' = [hashtable EXCEPT ![n] = new]
                          /\ Goto(t, l)
\* The CAS fails and the thread goes on to label l.
CASFails(t, n, old, l) == /\ hashtable[n] # old
                          /\ Goto(t, l)
                          /\ UNCHANGED hashtable

(***************************************************************************)
(* enqueue(b) at label l, then to label k: the claim, which fails when the *)
(* buffer is in the queue already, and the link.                           *)
(***************************************************************************)
EnqueueClaim(t, b, l, link, k) ==
  /\ At(t, l)
  /\ \/ /\ phase[b] # "out"
        /\ Goto(t, k)
        /\ UNCHANGED queueVars
     \/ Q!Claim(b) /\ Goto(t, link)
  /\ UNCHANGED <<hashtable, bufVars, diskVars, pinVars, loc, ops>>

EnqueueLink(t, b, l, k) ==
  /\ At(t, l)
  /\ Q!Link(b)
  /\ Goto(t, k)
  /\ UNCHANGED <<hashtable, bufVars, diskVars, pinVars, loc, ops>>

(***************************************************************************)
(* bget leaves two windows in which another thread can meet a buffer that  *)
(* is half evicted or half installed.  Without Races the model holds those *)
(* threads up until the window is closed, to show that they are the only   *)
(* ones: all that is claimed of the cache holds in the other schedules.    *)
(***************************************************************************)
HasCandidate(b, labels) == \E t \in Threads : loc[t].cand = b /\ pc[t] \in labels
HasBuffer(b, labels) == \E t \in Threads : loc[t].buf = b /\ pc[t] \in labels

MayLock(b) == Races \/ ~HasCandidate(b, {"lock_new"})
MayFree(b) == Races \/ ~HasCandidate(b, {"unclaim", "victim", "expect", "evict"})
MayTake(b) == Races \/ ~HasBuffer(b, {"enqueue", "enqueue_link"})

-----------------------------------------------------------------------------
(* bget(blockno) and bread(blockno) *)

Bread(t, n) ==
  /\ At(t, "idle")
  /\ ops < MaxOps
  /\ ops' = ops + 1
  /\ Set(t, "block", n)
  /\ Goto(t, "get")
  /\ UNCHANGED <<queueVars, hashtable, bufVars, diskVars, pinVars>>

GetRead(t) ==
  /\ At(t, "get")
  /\ LET rc == hashtable[loc[t].block]
     IN /\ Set(t, "rc", rc)
        /\ Goto(t, IF rc.idx # NoBuf THEN "hit"
                   ELSE IF loc[t].cand = NoBuf THEN "dequeue" ELSE "install")
  /\ UNCHANGED <<queueVars, hashtable, bufVars, diskVars, pinVars, ops>>

\* The block is cached: count one more user.
GetHit(t) ==
  /\ At(t, "hit")
  /\ LET n == loc[t].block
         rc == loc[t].rc
     IN \/ /\ CAS(t, n, rc, Inc(rc), IF loc[t].cand = NoBuf THEN "lock"
                                                            ELSE "putback")
           /\ leaked' = leaked \ {rc.idx}
        \/ CASFails(t, n, rc, "get") /\ UNCHANGED leaked
  /\ UNCHANGED <<queueVars, bufVars, diskVars, pinned, mapped, dropped, loc, ops>>

GetPutBack(t) ==
  \/ EnqueueClaim(t, loc[t].cand, "putback", "putback_link", "lock")
  \/ EnqueueLink(t, loc[t].cand, "putback_link", "lock")

\* dequeue() of the least recently used buffer.
GetDequeue(t) ==
  /\ At(t, "dequeue")
  /\ MayTake(Head(queue))
  /\ Q!Take
  /\ Set(t, "cand", Head(queue))
  /\ Goto(t, "unclaim")
  /\ UNCHANGED <<hashtable, bufVars, diskVars, pinVars, ops>>

GetPanic(t) ==                                    \* "bget: no buffers"
  /\ At(t, "dequeue")
  /\ Len(queue) = 1
  /\ Goto(t, "panic")
  /\ UNCHANGED <<queueVars, hashtable, bufVars, diskVars, pinVars, loc, ops>>

GetUnclaim(t) ==
  /\ At(t, "unclaim")
  /\ Q!Unclaim(loc[t].cand)
  /\ Goto(t, "victim")
  /\ UNCHANGED <<hashtable, bufVars, diskVars, pinVars, loc, ops>>

GetVictim(t) ==
  /\ At(t, "victim")
  /\ Set(t, "victim", blockno[loc[t].cand])
  /\ Goto(t, "expect")
  /\ UNCHANGED <<queueVars, hashtable, bufVars, diskVars, pinVars, ops>>

GetExpect(t) ==
  /\ At(t, "expect")
  /\ Set(t, "expect", RefIdx(0, hashtable[loc[t].victim].idx))
  /\ Goto(t, "evict")
  /\ UNCHANGED <<queueVars, hashtable, bufVars, diskVars, pinVars, ops>>

Unmapped_Kept(rc) == rc
Unmapped(rc) == RefIdx(0, NoBuf)

\* Unmap the candidate's block, or drop the candidate if the block is in use.
GetEvict(t) ==
  /\ At(t, "evict")
  /\ \/ /\ CAS(t, loc[t].victim, loc[t].expect, Unmapped(loc[t].expect),
               "install")
        /\ UNCHANGED <<loc, dropped>>
     \/ /\ CASFails(t, loc[t].victim, loc[t].expect, "dequeue")
        /\ Set(t, "cand", NoBuf)
        /\ dropped' = IF hashtable[loc[t].victim].idx = loc[t].cand
                      THEN dropped ELSE dropped \cup {loc[t].cand}
  /\ UNCHANGED <<queueVars, bufVars, diskVars, pinned, mapped, leaked, ops>>

GetInstall(t) ==
  /\ At(t, "install")
  /\ LET n == loc[t].block
     IN \/ CAS(t, n, loc[t].rc, RefIdx(1, loc[t].cand), "lock_new")
        \/ CASFails(t, n, loc[t].rc, "get")
  /\ UNCHANGED <<queueVars, bufVars, diskVars, pinVars, loc, ops>>

AcquireSleep(t, b) == /\ lock[b] = NoThread
                      /\ lock' = [lock EXCEPT ![b] = t]

\* acquiresleep of the buffer found; bget returns it.
GetLock(t) ==
  /\ At(t, "lock")
  /\ MayLock(loc[t].rc.idx)
  /\ AcquireSleep(t, loc[t].rc.idx)
  /\ loc' = [loc EXCEPT ![t].buf = loc[t].rc.idx, ![t].cand = NoBuf]
  /\ Goto(t, "fill")
  /\ UNCHANGED <<queueVars, hashtable, blockno, valid, data, diskVars, pinVars,
                 ops>>

\* acquiresleep of the buffer installed.
GetLockNew(t) ==
  /\ At(t, "lock_new")
  /\ AcquireSleep(t, loc[t].cand)
  /\ Set(t, "buf", loc[t].cand)
  /\ Goto(t, "rename")
  /\ UNCHANGED <<queueVars, hashtable, blockno, valid, data, diskVars, pinVars,
                 ops>>

Invalidate_Not(b) == UNCHANGED valid
Invalidate(b) == valid' = [valid EXCEPT ![b] = FALSE]

GetRename(t) ==
  /\ At(t, "rename")
  /\ Invalidate(loc[t].buf)
  /\ blockno' = [blockno EXCEPT ![loc[t].buf] = loc[t].block]
  /\ Set(t, "cand", NoBuf)
  /\ Goto(t, "fill")
  /\ UNCHANGED <<queueVars, hashtable, data, lock, diskVars, pinVars, ops>>

\* bread: read the block the buffer is for unless the buffer holds it.
Fill(t) ==
  /\ At(t, "fill")
  /\ LET b == loc[t].buf
     IN /\ valid' = [valid EXCEPT ![b] = TRUE]
        /\ data' = IF valid[b] THEN data
                   ELSE [data EXCEPT ![b] = disk[blockno[b]]]
  /\ Goto(t, "use")
  /\ UNCHANGED <<queueVars, hashtable, blockno, lock, diskVars, pinVars, loc, ops>>

-----------------------------------------------------------------------------
(* What the callers of bread do with the buffer before brelse(b). *)

Use(t, u) == At(t, "use") /\ u \in Uses

UseRead(t) ==
  /\ Use(t, "read")
  /\ Goto(t, "release")
  /\ UNCHANGED <<queueVars, hashtable, bufVars, diskVars, pinVars, loc, ops>>

Modify(t) ==
  /\ content' = [content EXCEPT ![loc[t].block] = @ + 1]
  /\ data' = [data EXCEPT ![loc[t].buf] = content[loc[t].block] + 1]

\* Modify the block, then bwrite (the log's own blocks, pageout).
UseWrite(t) ==
  /\ Use(t, "write")
  /\ loc[t].block \notin pinned
  /\ Modify(t)
  /\ Goto(t, "bwrite")
  /\ UNCHANGED <<queueVars, hashtable, blockno, valid, lock, disk, pinVars,
                 loc, ops>>

\* bwrite: write the buffer to the block it is for.
Bwrite(t) ==
  /\ pc[t] \in {"bwrite", "bwrite_unpin"}
  /\ disk' = [disk EXCEPT ![blockno[loc[t].buf]] = data[loc[t].buf]]
  /\ Goto(t, IF At(t, "bwrite") THEN "release" ELSE "unpin")
  /\ UNCHANGED <<queueVars, hashtable, bufVars, content, pinVars, loc, ops>>

\* Modify the block, then log_write: bpin unless the log has the block.
UseLog(t) ==
  /\ Use(t, "log")
  /\ Modify(t)
  /\ Cardinality(pinned \cup {loc[t].block}) + Cardinality(mapped) <= MaxPins
  /\ Goto(t, IF loc[t].block \in pinned THEN "release" ELSE "pin")
  /\ UNCHANGED <<queueVars, hashtable, blockno, valid, lock, disk, pinVars,
                 loc, ops>>

\* install_trans: write a logged block home and bunpin.
UseInstall(t) ==
  /\ Use(t, "install")
  /\ loc[t].block \in pinned
  /\ Goto(t, "bwrite_unpin")
  /\ UNCHANGED <<queueVars, hashtable, bufVars, diskVars, pinVars, loc, ops>>

\* readblock: bpin the buffer whose page a process is going to map.
UseMap(t) ==
  /\ Use(t, "map")
  /\ loc[t].buf \notin mapped
  /\ Cardinality(pinned) + Cardinality(mapped) < MaxPins
  /\ Goto(t, "pin_map")
  /\ UNCHANGED <<queueVars, hashtable, bufVars, diskVars, pinVars, loc, ops>>

\* bpin, bunpin: the load and the CAS of one iteration, retried till done.
Pin(t) ==
  /\ pc[t] \in {"pin", "pin_map"}
  /\ LET b == loc[t].buf
         n == blockno[b]
     IN /\ hashtable' = [hashtable EXCEPT ![n] = Inc(@)]
        /\ IF At(t, "pin") THEN /\ pinned' = pinned \cup {n}
                               /\ UNCHANGED mapped
           ELSE /\ mapped' = mapped \cup {b}
                /\ UNCHANGED pinned
  /\ Goto(t, "release")
  /\ UNCHANGED <<queueVars, bufVars, diskVars, leaked, dropped, loc, ops>>

Unpin(t) ==
  /\ At(t, "unpin")
  /\ LET n == blockno[loc[t].buf]
     IN /\ hashtable' = [hashtable EXCEPT ![n] = Dec(@)]
        /\ pinned' = pinned \ {n}
  /\ Goto(t, "release")
  /\ UNCHANGED <<queueVars, bufVars, diskVars, mapped, leaked, dropped, loc, ops>>

\* munmap: bunpin2 of a page, without the buffer's lock.
Unmap(t) ==
  /\ At(t, "idle")
  /\ \E b \in mapped :
       LET n == blockno[b]
       IN /\ hashtable' = [hashtable EXCEPT ![n] = Dec(@)]
          /\ mapped' = mapped \ {b}
          /\ leaked' = IF hashtable'[n].ref = 0 /\ phase[b] = "out"
                       THEN leaked \cup {b} ELSE leaked
  /\ UNCHANGED <<queueVars, bufVars, diskVars, pinned, dropped, pc, loc, ops>>

-----------------------------------------------------------------------------
(* brelse(b) *)

Release(t) ==
  /\ At(t, "release")
  /\ lock[loc[t].buf] = t                         \* holdingsleep, or panic
  /\ lock' = [lock EXCEPT ![loc[t].buf] = NoThread]
  /\ Goto(t, "rel_block")
  /\ UNCHANGED <<queueVars, hashtable, blockno, valid, data, diskVars, pinVars,
                 loc, ops>>

RelBlock(t) ==
  /\ At(t, "rel_block")
  /\ Set(t, "victim", blockno[loc[t].buf])
  /\ Goto(t, "rel_read")
  /\ UNCHANGED <<queueVars, hashtable, bufVars, diskVars, pinVars, ops>>

RelRead(t) ==
  /\ At(t, "rel_read")
  /\ Set(t, "rc", hashtable[loc[t].victim])
  /\ Goto(t, "rel_count")
  /\ UNCHANGED <<queueVars, hashtable, bufVars, diskVars, pinVars, ops>>

LastUser_Old(rc) == rc.ref = 0
LastUser(rc) == rc.ref = 1
Retry_NoReload == "rel_count"
Retry == "rel_read"               \* where the loop of the CAS starts

RelCount(t) ==
  /\ At(t, "rel_count")
  /\ loc[t].rc.ref = 1 => MayFree(loc[t].buf)
  /\ LET n == loc[t].victim
         rc == loc[t].rc
     IN \/ CAS(t, n, rc, Dec(rc), IF LastUser(rc) THEN "enqueue" ELSE "done")
        \/ CASFails(t, n, rc, Retry)
  /\ UNCHANGED <<queueVars, bufVars, diskVars, pinVars, loc, ops>>

RelEnqueue(t) ==
  \/ EnqueueClaim(t, loc[t].buf, "enqueue", "enqueue_link", "done")
  \/ EnqueueLink(t, loc[t].buf, "enqueue_link", "done")

RelDone(t) ==
  /\ At(t, "done")
  /\ Goto(t, "idle")
  /\ loc' = [loc EXCEPT ![t] = NoLocals]
  /\ UNCHANGED <<queueVars, hashtable, bufVars, diskVars, pinVars, ops>>

-----------------------------------------------------------------------------
Get(t) == \/ GetRead(t)   \/ GetHit(t)    \/ GetPutBack(t) \/ GetDequeue(t)
          \/ GetPanic(t)  \/ GetUnclaim(t) \/ GetVictim(t) \/ GetExpect(t)
          \/ GetEvict(t)  \/ GetInstall(t) \/ GetLock(t)   \/ GetLockNew(t)
          \/ GetRename(t) \/ Fill(t)
UseBuffer(t) == \/ UseRead(t) \/ UseWrite(t) \/ Bwrite(t)  \/ UseLog(t)
                \/ UseInstall(t) \/ UseMap(t) \/ Pin(t) \/ Unpin(t)
Brelse(t) == \/ Release(t) \/ RelBlock(t) \/ RelRead(t) \/ RelCount(t)
             \/ RelEnqueue(t) \/ RelDone(t)
Step(t) == Get(t) \/ UseBuffer(t) \/ Brelse(t)

Next == \E t \in Threads : Step(t) \/ Unmap(t) \/ \E n \in Blocks : Bread(t, n)
Spec == Init /\ [][Next]_vars

\* A thread in the kernel is scheduled again and again.
FairSpec == Spec /\ \A t \in Threads : WF_vars(Step(t))

-----------------------------------------------------------------------------
(* Properties *)

Using(t) == pc[t] \in {"use", "bwrite", "bwrite_unpin", "pin", "pin_map",
                       "unpin", "release"}

(***************************************************************************)
(* "Return a locked buf with the contents of the indicated block"          *)
(* (bio.c:169): from bread to brelse the buffer is the caller's and holds  *)
(* the latest version of the block the caller asked for.                   *)
(***************************************************************************)
ReadsTheBlock ==
  \A t \in Threads : Using(t) =>
     LET b == loc[t].buf
     IN /\ lock[b] = t
        /\ blockno[b] = loc[t].block
        /\ data[b] = content[loc[t].block]

\* No two blocks are cached in one buffer (bget, brelse).
OneBlockPerBuffer ==
  \A m, n \in Blocks : (m # n /\ hashtable[m].idx # NoBuf)
                          => hashtable[m].idx # hashtable[n].idx

(***************************************************************************)
(* REFCNT() of a cached block counts its users: those bget counted that    *)
(* have not yet left through brelse, and one for a pin.                    *)
(***************************************************************************)
Counted(t) == pc[t] \in {"putback", "putback_link", "lock", "lock_new",
                         "rename", "fill", "use", "bwrite", "bwrite_unpin",
                         "pin", "pin_map", "unpin", "release", "rel_block",
                         "rel_read", "rel_count"}
Got(n) == {t \in Threads : Counted(t) /\ loc[t].block = n}
Pins(n) == (IF n \in pinned THEN 1 ELSE 0)
           + (IF hashtable[n].idx \in mapped THEN 1 ELSE 0)
CountIsUsers ==
  \A n \in Blocks : hashtable[n].idx # NoBuf =>
     hashtable[n].ref = Cardinality(Got(n)) + Pins(n)

(***************************************************************************)
(* bget panics "no buffers" only when all the buffers but the sentinel of  *)
(* the queue have users, are lost, or a bget or brelse is at work on them. *)
(***************************************************************************)
Owned(b) ==
  \E t \in Threads :
     \/ loc[t].cand = b /\ pc[t] # "lock"
     \/ loc[t].buf = b /\ pc[t] # "done"
InUse(b) == \E n \in Blocks : hashtable[n].idx = b /\ hashtable[n].ref > 0
PanicOnlyWhenFull ==
  [][\A t \in Threads : ~At(t, "panic") /\ At(t, "panic")' =>
       Cardinality({b \in Buffers : InUse(b) \/ Owned(b)}
                     \cup leaked \cup dropped) >= NBUF]_vars

(***************************************************************************)
(* No buffer is lost: it is in the queue, or on its way there, or its      *)
(* count says that a user has yet to release it, or bget holds it.  Two    *)
(* steps only lose one: munmap, which takes a count to 0 and enqueues      *)
(* nothing, and bget, which drops a buffer no block is cached in when the  *)
(* block it once was for is now cached in another.                         *)
(***************************************************************************)
NothingLost ==
  \A b \in Buffers : \/ phase[b] # "out"
                     \/ Owned(b)
                     \/ InUse(b)
                     \/ b \in leaked \cup dropped

\* bread and brelse return, or panic, although bget and brelse retry their CAS.
EveryReadReturns ==
  \A t \in Threads : (pc[t] # "idle") ~> (pc[t] \in {"idle", "panic"})

=============================================================================
