----------------------------- MODULE VirtioDisk -----------------------------
(***************************************************************************)
(* The virtio disk driver of kernel/virtio_disk.c, and the device (QEMU's) *)
(* on the other side of the two rings.                                     *)
(*                                                                         *)
(* The driver's code runs under vdisk_lock, which it gives up only in      *)
(* sleep(); one action is a stretch of it up to the next access the device *)
(* can see.  The device handles requests in any order, next to the driver. *)
(*                                                                         *)
(* A thread is a process with the sleeplock of one buffer, its own.  What  *)
(* a block holds is the thread that wrote it last.                         *)
(*                                                                         *)
(* Definitions such as Chain_Head are the faulty forms of the              *)
(* definition next to them with which the properties are put to the test.  *)
(***************************************************************************)
EXTENDS Naturals, FiniteSets

CONSTANTS Threads,
          NBLOCK,      \* the disk blocks are 1, ..., NBLOCK
          NUM,         \* descriptors, and entries of each ring
          IDX,         \* the range of a ring index: 2^16, of a uint16
          Start,       \* the requests served, one by one, before the start
          MaxReqs,     \* bound: the requests that follow
          MaxKills     \* bound: the wakeups of kill() and sendsignal()

Blocks == 1..NBLOCK
Descs == 0..(NUM - 1)
NoDesc == NUM                        \* the end of a chain
Nobody == "nobody"                   \* no owner, no buffer
Intr == "intr"                       \* virtio_disk_intr, as a lock's owner
Junk == "junk"                       \* what a buffer holds before it is read

ASSUME DiskAssumption ==
  /\ IsFiniteSet(Threads) /\ Nobody \notin Threads /\ Intr \notin Threads
  /\ {NBLOCK, NUM, IDX, Start, MaxReqs, MaxKills} \subseteq Nat
  /\ NBLOCK >= Cardinality(Threads) /\ NBLOCK > 0
  /\ NUM >= 3 /\ IDX > 0 /\ IDX % NUM = 0

VARIABLES
  (* the memory driver and device share *)
  desc,                              \* disk.desc: what each points to, and next
  avail, used,                       \* the rings
  ops,                               \* disk.ops: a request's type and sector
  info,                              \* disk.info: its buffer and its status
  data,                              \* b->data
  (* the driver *)
  free, used_idx,                    \* disk.free, disk.used_idx
  buf_disk,                          \* b->disk: the device owns the buffer
  blockno, write,                    \* the arguments of virtio_disk_rw
  idx,                               \* its descriptors, in the order of a chain
  lock,                              \* who holds vdisk_lock
  pc, reqs, kills,
  (* the device *)
  sectors,                           \* what is on the disk
  seen,                              \* it has looked this far in avail
  taken,                             \* the heads of the chains it works on
  notified, isr                      \* a request to look; an interrupt

sharedVars == <<desc, avail, used, ops, info, data>>
driverVars == <<free, used_idx, buf_disk, blockno, write, idx>>
deviceVars == <<sectors, seen, taken, notified, isr>>
bounds == <<reqs, kills>>
vars == <<sharedVars, driverVars, deviceVars, lock, pc, bounds>>

NoEntry == [addr |-> <<"none", Nobody>>, next |-> NoDesc]
NoChain == [k \in 1..3 |-> NoDesc]

(***************************************************************************)
(* virtio_disk_init, and Start requests served one after the other: each   *)
(* used the chain 0, 1, 2 and left 0 in both rings.                        *)
(***************************************************************************)
Init ==
  /\ desc = [i \in Descs |-> NoEntry]
  /\ avail = [ring |-> [i \in Descs |-> 0], idx |-> Start % IDX]
  /\ used = avail
  /\ ops = [i \in Descs |-> [type |-> "in", sector |-> 1]]
  /\ info = [i \in Descs |-> [b |-> Nobody, status |-> 0]]
  /\ data = [t \in Threads |-> Junk]
  /\ free = [i \in Descs |-> TRUE]
  /\ used_idx = used.idx
  /\ buf_disk = [t \in Threads |-> FALSE]
  /\ blockno = [t \in Threads |-> 1]
  /\ write = [t \in Threads |-> FALSE]
  /\ idx = [t \in Threads |-> NoChain]
  /\ lock = Nobody
  /\ pc = [t \in Threads |-> "out"]
  /\ reqs = 0 /\ kills = 0
  /\ sectors = [n \in Blocks |-> Nobody]
  /\ seen = avail.idx
  /\ taken = {}
  /\ notified = FALSE /\ isr = FALSE

\* A ring index is a uint16 that wraps around.
Succ(i) == (i + 1) % IDX

At(t, l) == pc[t] = l
Goto(t, l) == pc' = [pc EXCEPT ![t] = l]

-----------------------------------------------------------------------------
(* virtio_disk_rw(b, write) *)

Lowest(S) == CHOOSE i \in S : \A j \in S : i <= j

(***************************************************************************)
(* The cache keeps each block in one buffer, and the caller has its        *)
(* sleeplock, so no two calls are for one block.  Which of the others the  *)
(* call is for makes no difference to the driver: it is the first.         *)
(***************************************************************************)
OtherBlocks(t) == {n \in Blocks : \A u \in Threads \ {t} : At(u, "out") \/ blockno[u] # n}
Call(t, w) ==
  /\ At(t, "out")
  /\ reqs < MaxReqs
  /\ reqs' = reqs + 1
  /\ blockno' = [blockno EXCEPT ![t] = Lowest(OtherBlocks(t))]
  /\ write' = [write EXCEPT ![t] = w]
  /\ data' = [data EXCEPT ![t] = IF w THEN t ELSE Junk]
  /\ Goto(t, "alloc")
  /\ UNCHANGED <<desc, avail, used, ops, info, free, used_idx, buf_disk, idx,
                 lock, deviceVars, kills>>

FreeDescs == {i \in Descs : free[i]}
\* alloc_desc, three times.
Alloc3 == LET i == Lowest(FreeDescs)
              j == Lowest(FreeDescs \ {i})
              k == Lowest(FreeDescs \ {i, j})
          IN <<i, j, k>>

\* wakeup(&disk.free[0])
WakeAllocators_None(p) == p
WakeAllocators(p) == [u \in Threads |-> IF p[u] = "no_desc" THEN "alloc" ELSE p[u]]

(***************************************************************************)
(* alloc3_desc finds fewer than three, frees what it took, which wakes the *)
(* other threads that wait for descriptors, and the thread sleeps.         *)
(***************************************************************************)
AllocFails(t) ==
  /\ At(t, "alloc") /\ lock = Nobody
  /\ Cardinality(FreeDescs) < 3
  /\ LET awake == IF FreeDescs = {} THEN pc ELSE WakeAllocators(pc)
     IN pc' = [awake EXCEPT ![t] = "no_desc"]
  /\ UNCHANGED <<sharedVars, driverVars, deviceVars, lock, bounds>>

Type(t) == IF write[t] THEN "out" ELSE "in"

\* The chain of a request: its header, its data and its status.
Format(i, c, t) ==
  CASE i = c[1] -> [addr |-> <<"op", c[1]>>, next |-> c[2]]
    [] i = c[2] -> [addr |-> <<"data", t>>, next |-> c[3]]
    [] i = c[3] -> [addr |-> <<"status", c[1]>>, next |-> NoDesc]
    [] OTHER -> desc[i]

\* What the interrupt handler will find for the chain's head.
Tracked_NoBuf(t) == [b |-> Nobody, status |-> 255]
Tracked(t) == [b |-> t, status |-> 255]

(***************************************************************************)
(* The three descriptors are there: they are made the request's chain, and *)
(* the ring's next entry the chain's head.                                 *)
(***************************************************************************)
Alloc(t) ==
  /\ At(t, "alloc") /\ lock = Nobody
  /\ Cardinality(FreeDescs) >= 3
  /\ lock' = t
  /\ LET c == Alloc3
     IN /\ free' = [i \in Descs |-> free[i] /\ i \notin {c[1], c[2], c[3]}]
        /\ idx' = [idx EXCEPT ![t] = c]
        /\ desc' = [i \in Descs |-> Format(i, c, t)]
        /\ ops' = [ops EXCEPT ![c[1]] =
                     [type |-> Type(t), sector |-> blockno[t]]]
        /\ info' = [info EXCEPT ![c[1]] = Tracked(t)]
        /\ avail' = [avail EXCEPT !.ring[avail.idx % NUM] = c[1]]
  /\ buf_disk' = [buf_disk EXCEPT ![t] = TRUE]
  /\ Goto(t, "publish")
  /\ UNCHANGED <<used, data, used_idx, blockno, write, deviceVars, bounds>>

\* avail->idx += 1
Publish(t) ==
  /\ At(t, "publish")
  /\ avail' = [avail EXCEPT !.idx = Succ(@)]
  /\ Goto(t, "notify")
  /\ UNCHANGED <<desc, used, ops, info, data, driverVars, deviceVars, lock, bounds>>

\* QUEUE_NOTIFY, then the thread sleeps on its buffer.
Notify(t) ==
  /\ At(t, "notify")
  /\ notified' = TRUE
  /\ lock' = Nobody
  /\ Goto(t, "waiting")
  /\ UNCHANGED <<sharedVars, driverVars, sectors, seen, taken, isr, bounds>>

\* The condition of the while loop: if in its place is the mutant.
Completed_If(t) == TRUE
Completed(t) == ~buf_disk[t]

SleepAgain(t) ==
  /\ At(t, "woken") /\ lock = Nobody
  /\ ~Completed(t)
  /\ Goto(t, "waiting")
  /\ UNCHANGED <<sharedVars, driverVars, deviceVars, lock, bounds>>

\* The descriptors of a chain, from the links in them.
Chain_Head(i) == {i}
Chain(i) == LET next(j) == IF j = NoDesc THEN NoDesc ELSE desc[j].next
            IN {i, next(i), next(next(i))} \ {NoDesc}

\* free_chain(i)
FreeChain(i) ==
  /\ free' = [j \in Descs |-> free[j] \/ j \in Chain(i)]
  /\ desc' = [j \in Descs |-> IF j \in Chain(i) THEN NoEntry ELSE desc[j]]

Finish(t) ==
  /\ At(t, "woken") /\ lock = Nobody
  /\ Completed(t)
  /\ info' = [info EXCEPT ![idx[t][1]].b = Nobody]
  /\ FreeChain(idx[t][1])
  /\ idx' = [idx EXCEPT ![t] = NoChain]
  /\ pc' = [WakeAllocators(pc) EXCEPT ![t] = "out"]
  /\ UNCHANGED <<avail, used, ops, data, used_idx, buf_disk, blockno, write,
                 deviceVars, lock, bounds>>

\* kill() or sendsignal() makes a sleeping process runnable.
Kill(t) ==
  /\ kills < MaxKills
  /\ kills' = kills + 1
  /\ \/ At(t, "no_desc") /\ Goto(t, "alloc")
     \/ At(t, "waiting") /\ Goto(t, "woken")
  /\ UNCHANGED <<sharedVars, driverVars, deviceVars, lock, reqs>>

-----------------------------------------------------------------------------
(* virtio_disk_intr() *)

IntrAck ==
  /\ isr /\ lock = Nobody
  /\ lock' = Intr
  /\ isr' = FALSE
  /\ UNCHANGED <<sharedVars, driverVars, sectors, seen, taken, notified,
                 pc, bounds>>

\* One round of the loop: the request is done and its process is woken.
IntrEntry ==
  /\ lock = Intr
  /\ used_idx # used.idx
  /\ LET id == used.ring[used_idx % NUM]
         b  == info[id].b
     IN IF info[id].status # 0 \/ b = Nobody                       \* panic
        THEN pc' = [t \in Threads |-> "panic"] /\ UNCHANGED <<buf_disk, used_idx>>
        ELSE /\ buf_disk' = [buf_disk EXCEPT ![b] = FALSE]
             /\ pc' = IF At(b, "waiting") THEN [pc EXCEPT ![b] = "woken"] ELSE pc
             /\ used_idx' = Succ(used_idx)
  /\ UNCHANGED <<sharedVars, free, blockno, write, idx, deviceVars, lock, bounds>>

IntrDone ==
  /\ lock = Intr
  /\ used_idx = used.idx
  /\ lock' = Nobody
  /\ UNCHANGED <<sharedVars, driverVars, deviceVars, pc, bounds>>

-----------------------------------------------------------------------------
(* The device *)

DeviceTake ==
  /\ notified
  /\ seen # avail.idx
  /\ taken' = taken \cup {avail.ring[seen % NUM]}
  /\ seen' = Succ(seen)
  /\ UNCHANGED <<sharedVars, driverVars, sectors, notified, isr, lock, pc, bounds>>

DeviceRest ==
  /\ notified
  /\ seen = avail.idx
  /\ notified' = FALSE
  /\ UNCHANGED <<sharedVars, driverVars, sectors, seen, taken, isr, lock, pc, bounds>>

(***************************************************************************)
(* The device follows the chain, moves the data, writes the status, adds   *)
(* the head to the used ring and asks for an interrupt.                    *)
(***************************************************************************)
DeviceServe(h) ==
  /\ h \in taken
  /\ LET op  == ops[desc[h].addr[2]]
         two == desc[desc[h].next]
         b   == two.addr[2]
         st  == desc[two.next].addr[2]
     IN /\ IF op.type = "out"
           THEN sectors' = [sectors EXCEPT ![op.sector] = data[b]] /\ UNCHANGED data
           ELSE data' = [data EXCEPT ![b] = sectors[op.sector]] /\ UNCHANGED sectors
        /\ info' = [info EXCEPT ![st].status = 0]
  /\ taken' = taken \ {h}
  /\ used' = [ring |-> [used.ring EXCEPT ![used.idx % NUM] = h],
              idx |-> Succ(used.idx)]
  /\ isr' = TRUE
  /\ UNCHANGED <<desc, avail, ops, driverVars, seen, notified, lock, pc, bounds>>

-----------------------------------------------------------------------------
Rw(t) == \/ AllocFails(t) \/ Alloc(t) \/ Publish(t) \/ Notify(t)
         \/ SleepAgain(t) \/ Finish(t)
Interrupt == IntrAck \/ IntrEntry \/ IntrDone
Device == DeviceTake \/ DeviceRest \/ \E h \in Descs : DeviceServe(h)

Next == \/ \E t \in Threads :
             \/ Rw(t)
             \/ Kill(t)
             \/ \E w \in BOOLEAN : Call(t, w)
        \/ Interrupt
        \/ Device

Spec == Init /\ [][Next]_vars

-----------------------------------------------------------------------------
(* Properties *)

PCs == {"out", "alloc", "no_desc", "publish", "notify", "waiting",
        "woken", "panic"}
Rings == [ring : [Descs -> Descs], idx : 0..(IDX - 1)]

TypeOK ==
  /\ desc \in [Descs -> [addr : {<<"none", Nobody>>}
                                  \cup ({"op", "status"} \X Descs)
                                  \cup ({"data"} \X Threads),
                         next : Descs \cup {NoDesc}]]
  /\ avail \in Rings /\ used \in Rings
  /\ ops \in [Descs -> [type : {"in", "out"}, sector : Blocks]]
  /\ info \in [Descs -> [b : Threads \cup {Nobody}, status : {0, 255}]]
  /\ data \in [Threads -> Threads \cup {Nobody, Junk}]
  /\ sectors \in [Blocks -> Threads \cup {Nobody, Junk}]
  /\ free \in [Descs -> BOOLEAN]
  /\ {used_idx, seen} \subseteq 0..(IDX - 1)
  /\ buf_disk \in [Threads -> BOOLEAN]
  /\ blockno \in [Threads -> Blocks] /\ write \in [Threads -> BOOLEAN]
  /\ idx \in [Threads -> [1..3 -> Descs \cup {NoDesc}]]
  /\ taken \subseteq Descs /\ notified \in BOOLEAN /\ isr \in BOOLEAN
  /\ lock \in Threads \cup {Nobody, Intr}
  /\ pc \in [Threads -> PCs]
  /\ {reqs, kills} \subseteq Nat

(***************************************************************************)
(* When virtio_disk_rw returns, the buffer and the disk hold the same: a   *)
(* read block was read, and a written one is on the disk, on which bwrite  *)
(* and the order of the log's writes depend.                               *)
(***************************************************************************)
Transferred ==
  [][\A t \in Threads : At(t, "woken") /\ At(t, "out")'
                         => data[t] = sectors[blockno[t]]]_vars

(***************************************************************************)
(* A descriptor is free or part of one request's chain: none is lost, and  *)
(* no two requests share one (disk.free, alloc3_desc, free_chain).         *)
(***************************************************************************)
Users(i) == {t \in Threads : \E k \in 1..3 : idx[t][k] = i}
EachDescOnce ==
  \A i \in Descs : Cardinality(Users(i)) = IF free[i] THEN 0 ELSE 1

(***************************************************************************)
(* What the interrupt handler finds in the used ring: heads of chains whose*)
(* transfer is done and whose process still waits for it, each once.  So   *)
(* it never panics "virtio_disk_intr status" and b is never null.          *)
(***************************************************************************)
Between(a, b) == {(a + m) % IDX : m \in 0..(((b + IDX - a) % IDX) - 1)}
Unseen == Between(used_idx, used.idx)
Entry(k) == used.ring[k % NUM]
CompletionsMatch ==
  /\ \A k \in Unseen :
       LET b == info[Entry(k)].b
       IN /\ info[Entry(k)].status = 0
          /\ b # Nobody /\ buf_disk[b] /\ idx[b][1] = Entry(k)
  /\ \A k, m \in Unseen : Entry(k) = Entry(m) => k = m

(***************************************************************************)
(* No notification, interrupt or wakeup is lost, though the handler's      *)
(* acknowledgement races with new entries of the used ring: a process that *)
(* sleeps on its buffer has its request on the way to the device, in it or *)
(* on the way back, and one that sleeps for descriptors has not missed any.*)
(***************************************************************************)
Offered == {avail.ring[k % NUM] : k \in Between(seen, avail.idx)}
NoRequestLost ==
  \A t \in Threads :
    /\ At(t, "waiting") =>
         /\ buf_disk[t]
         /\ LET h == idx[t][1]
            IN \/ h \in Offered /\ (notified \/ \E u \in Threads : At(u, "notify"))
               \/ h \in taken
               \/ (\E k \in Unseen : Entry(k) = h) /\ (isr \/ lock = Intr)
    /\ At(t, "no_desc") => Cardinality(FreeDescs) < 3

=============================================================================
