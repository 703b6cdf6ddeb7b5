-------------------------------- MODULE Log ---------------------------------
(***************************************************************************)
(* The write-ahead log of kernel/log.c: begin_op, log_write, end_op with   *)
(* its group commit, and recovery, with a crash possible at every step.    *)
(*                                                                         *)
(* What runs under log.lock is one action; outside it, one disk write is   *)
(* one action.  A disk write is atomic (a header fits in one block).       *)
(*                                                                         *)
(* Definitions such as Woken_None are the faulty forms of the              *)
(* definition next to them with which the properties are put to the test.  *)
(***************************************************************************)
EXTENDS Integers, Sequences, FiniteSets

CONSTANTS Threads,
          Blocks,        \* the home blocks the file system writes
          Values,        \* what a block may hold
          MAXOPBLOCKS,   \* blocks begin_op reserves for a call
          OPBLOCKS,      \* the most distinct blocks a call really writes
          LOGSIZE,       \* entries of the log header
          NLOG,          \* sb.nlog, the blocks of the log on disk: log.size
          MaxOps,        \* bound: the calls that enter a transaction
          MaxCrashes     \* bound: the crashes

ASSUME LogAssumption ==
  /\ {MAXOPBLOCKS, OPBLOCKS, LOGSIZE, NLOG} \subseteq Nat
  /\ OPBLOCKS <= MAXOPBLOCKS
  /\ MaxOps \in Nat /\ MaxCrashes \in Nat
  /\ IsFiniteSet(Threads)

VARIABLES
  (* in memory *)
  outstanding, committing,   \* log.outstanding, log.committing
  lh,                        \* log.lh: the blocks of the transaction
  tail,                      \* the loop index of write_log and install_trans
  cache,                     \* the blocks as bread returns them
  pins,                      \* the blocks bpin keeps in the cache
  pc,                        \* where a thread is
  mode,                      \* of the system: recovery, then "up" or "panic"
  (* on disk *)
  disk, logged, header,      \* home blocks, log blocks, header block
  (* not in the code *)
  wrote,                     \* the blocks each thread's call has logged
  ops, crashes

vars == <<outstanding, committing, lh, tail, cache, pins, pc, mode, disk,
          logged, header, wrote, ops, crashes>>
diskVars == <<disk, logged, header>>
ghosts == <<wrote, ops, crashes>>

Entries == 1..LOGSIZE
Up == mode = "up"
At(t, l) == Up /\ pc[t] = l
Goto(t, l) == pc' = [pc EXCEPT ![t] = l]
InHeader(h, n) == \E i \in DOMAIN h : h[i] = n

\* mkfs has made the disk, the log all zeroes; initlog recovers from it.
Init ==
  /\ outstanding = 0 /\ committing = FALSE
  /\ lh = <<>> /\ tail = 1
  /\ disk \in [Blocks -> Values]
  /\ cache = disk
  /\ \E zero \in Values : logged = [i \in Entries |-> zero]
  /\ header = <<>>
  /\ pins = {}
  /\ pc = [t \in Threads |-> "out"]
  /\ mode = "read_head"
  /\ wrote = [t \in Threads |-> {}]
  /\ ops = 0 /\ crashes = 0

-----------------------------------------------------------------------------
(* begin_op, log_write, end_op *)

\* wakeup(&log): the threads asleep in begin_op try again.
Woken_None(p) == p
Woken(p) == [u \in Threads |-> IF p[u] = "asleep" THEN "begin" ELSE p[u]]

CallBegin(t) ==
  /\ At(t, "out")
  /\ ops < MaxOps
  /\ ops' = ops + 1
  /\ Goto(t, "begin")
  /\ UNCHANGED <<outstanding, committing, lh, tail, cache, pins, mode,
                 diskVars, wrote, crashes>>

MustWait_Committing == Len(lh) + (outstanding + 1) * MAXOPBLOCKS > LOGSIZE
MustWait_OffByOne == committing \/ Len(lh) + outstanding * MAXOPBLOCKS > LOGSIZE
MustWait == \/ committing
            \/ Len(lh) + (outstanding + 1) * MAXOPBLOCKS > LOGSIZE

BeginSleep(t) ==
  /\ At(t, "begin")
  /\ MustWait
  /\ Goto(t, "asleep")
  /\ UNCHANGED <<outstanding, committing, lh, tail, cache, pins, mode,
                 diskVars, ghosts>>

BeginOp(t) ==
  /\ At(t, "begin")
  /\ ~MustWait
  /\ outstanding' = outstanding + 1
  /\ Goto(t, "in")
  /\ UNCHANGED <<committing, lh, tail, cache, pins, mode, diskVars, ghosts>>

(***************************************************************************)
(* A call modifies block n, whose buffer it has locked, and calls          *)
(* log_write: an entry of the header and a pin unless the block has them.  *)
(***************************************************************************)
CanWrite(t, n) == /\ At(t, "in")
                  /\ Cardinality(wrote[t] \cup {n}) <= OPBLOCKS
Refused == Len(lh) >= LOGSIZE \/ Len(lh) >= NLOG - 1 \/ outstanding < 1

LogWrite_NoPin(t, n, v) ==
  /\ CanWrite(t, n)
  /\ ~Refused
  /\ cache' = [cache EXCEPT ![n] = v]
  /\ wrote' = [wrote EXCEPT ![t] = @ \cup {n}]
  /\ lh' = IF InHeader(lh, n) THEN lh ELSE Append(lh, n)
  /\ UNCHANGED <<outstanding, committing, tail, pins, pc, mode, diskVars, ops,
                 crashes>>

LogWrite(t, n, v) ==
  /\ CanWrite(t, n)
  /\ ~Refused
  /\ cache' = [cache EXCEPT ![n] = v]
  /\ wrote' = [wrote EXCEPT ![t] = @ \cup {n}]
  /\ lh' = IF InHeader(lh, n) THEN lh ELSE Append(lh, n)
  /\ pins' = pins \cup {n}
  /\ UNCHANGED <<outstanding, committing, tail, pc, mode, diskVars, ops,
                 crashes>>

LogWritePanic(t, n) ==        \* "too big a transaction", "outside of trans"
  /\ CanWrite(t, n)
  /\ Refused
  /\ mode' = "panic"
  /\ UNCHANGED <<outstanding, committing, lh, tail, cache, pins, pc, diskVars,
                 ghosts>>

EndOp(t) ==
  /\ At(t, "in")
  /\ outstanding' = outstanding - 1
  /\ wrote' = [wrote EXCEPT ![t] = {}]
  /\ IF committing                                      \* "log.committing"
     THEN mode' = "panic" /\ UNCHANGED <<committing, pc>>
     ELSE /\ IF outstanding' = 0
             THEN /\ committing' = TRUE
                  /\ Goto(t, IF lh = <<>> THEN "finish" ELSE "write_log")
             ELSE /\ pc' = Woken([pc EXCEPT ![t] = "out"])
                  /\ UNCHANGED committing
          /\ UNCHANGED mode
  /\ UNCHANGED <<lh, tail, cache, pins, diskVars, ops, crashes>>

-----------------------------------------------------------------------------
(* commit(), by the thread whose end_op was the last *)

WriteLog(t) ==
  /\ At(t, "write_log")
  /\ logged' = [logged EXCEPT ![tail] = cache[lh[tail]]]
  /\ IF tail < Len(lh)
     THEN tail' = tail + 1 /\ UNCHANGED pc
     ELSE tail' = 1 /\ Goto(t, "write_head")
  /\ UNCHANGED <<outstanding, committing, lh, cache, pins, mode, disk, header,
                 ghosts>>

\* "The true point at which the current transaction commits".
WriteHead(t) ==
  /\ At(t, "write_head")
  /\ header' = lh
  /\ Goto(t, "install")
  /\ UNCHANGED <<outstanding, committing, lh, tail, cache, pins, mode, disk,
                 logged, ghosts>>

\* One block of install_trans: the log's copy goes to the cache and the disk.
CopyHome == /\ cache' = [cache EXCEPT ![lh[tail]] = logged[tail]]
            /\ disk' = [disk EXCEPT ![lh[tail]] = logged[tail]]

Install(t) ==
  /\ At(t, "install")
  /\ CopyHome
  /\ pins' = pins \ {lh[tail]}
  /\ IF tail < Len(lh)
     THEN tail' = tail + 1 /\ UNCHANGED <<pc, lh>>
     ELSE tail' = 1 /\ lh' = <<>> /\ Goto(t, "erase")
  /\ UNCHANGED <<outstanding, committing, mode, logged, header, ghosts>>

Erase(t) ==
  /\ At(t, "erase")
  /\ header' = lh
  /\ Goto(t, "finish")
  /\ UNCHANGED <<outstanding, committing, lh, tail, cache, pins, mode, disk,
                 logged, ghosts>>

Finish(t) ==
  /\ At(t, "finish")
  /\ committing' = FALSE
  /\ pc' = Woken([pc EXCEPT ![t] = "out"])
  /\ UNCHANGED <<outstanding, lh, tail, cache, pins, mode, diskVars, ghosts>>

\* bget recycles the buffer of a block nobody pins, and bread reads it again.
Evict(n) ==
  /\ Up
  /\ n \notin pins
  /\ cache' = [cache EXCEPT ![n] = disk[n]]
  /\ UNCHANGED <<outstanding, committing, lh, tail, pins, pc, mode, diskVars,
                 ghosts>>

-----------------------------------------------------------------------------
(* A crash, and recover_from_log() *)

Crash ==
  /\ crashes < MaxCrashes
  /\ crashes' = crashes + 1
  /\ outstanding' = 0 /\ committing' = FALSE
  /\ lh' = <<>> /\ tail' = 1
  /\ cache' = disk
  /\ pins' = {}
  /\ pc' = [t \in Threads |-> "out"]
  /\ mode' = "read_head"
  /\ wrote' = [t \in Threads |-> {}]
  /\ UNCHANGED <<diskVars, ops>>

\* recover_from_log clears the log without installing it.
ReadHead_NoInstall ==
  /\ mode = "read_head"
  /\ mode' = "erase"
  /\ UNCHANGED <<outstanding, committing, lh, tail, cache, pins, pc, diskVars,
                 ghosts>>

ReadHead ==
  /\ mode = "read_head"
  /\ lh' = header
  /\ mode' = IF header = <<>> THEN "erase" ELSE "install"
  /\ UNCHANGED <<outstanding, committing, tail, cache, pins, pc, diskVars,
                 ghosts>>

RecoverInstall ==
  /\ mode = "install"
  /\ CopyHome
  /\ IF tail < Len(lh)
     THEN tail' = tail + 1 /\ UNCHANGED <<lh, mode>>
     ELSE tail' = 1 /\ lh' = <<>> /\ mode' = "erase"
  /\ UNCHANGED <<outstanding, committing, pins, pc, logged, header, ghosts>>

RecoverErase ==
  /\ mode = "erase"
  /\ header' = lh
  /\ mode' = "up"
  /\ UNCHANGED <<outstanding, committing, lh, tail, cache, pins, pc, disk,
                 logged, ghosts>>

-----------------------------------------------------------------------------
Commit(t) == \/ WriteLog(t) \/ WriteHead(t) \/ Install(t) \/ Erase(t)
             \/ Finish(t)
Recover == ReadHead \/ RecoverInstall \/ RecoverErase

Next == \/ \E t \in Threads :
             \/ CallBegin(t) \/ BeginSleep(t) \/ BeginOp(t)
             \/ EndOp(t) \/ Commit(t)
             \/ \E n \in Blocks : LogWritePanic(t, n)
             \/ \E n \in Blocks, v \in Values : LogWrite(t, n, v)
        \/ \E n \in Blocks : Evict(n)
        \/ Recover
        \/ Crash

Spec == Init /\ [][Next]_vars

(***************************************************************************)
(* A thread awake in the log goes on, a call ends, and the boot goes on.   *)
(***************************************************************************)
Fairness == /\ WF_vars(Recover)
            /\ \A t \in Threads : WF_vars(BeginSleep(t) \/ BeginOp(t)
                                          \/ EndOp(t) \/ Commit(t))
FairSpec == Spec /\ Fairness

-----------------------------------------------------------------------------
(* Properties *)

PCs == {"out", "begin", "asleep", "in", "write_log", "write_head", "install",
        "erase", "finish"}

TypeOK ==
  /\ outstanding \in Nat /\ committing \in BOOLEAN
  /\ lh \in Seq(Blocks) /\ Len(lh) <= LOGSIZE
  /\ header \in Seq(Blocks) /\ Len(header) <= LOGSIZE
  /\ tail \in Nat \ {0}
  /\ cache \in [Blocks -> Values] /\ disk \in [Blocks -> Values]
  /\ logged \in [Entries -> Values]
  /\ pins \subseteq Blocks
  /\ pc \in [Threads -> PCs]
  /\ mode \in {"read_head", "install", "erase", "up", "panic"}
  /\ wrote \in [Threads -> SUBSET Blocks]
  /\ ops \in 0..MaxOps /\ crashes \in 0..MaxCrashes

InOp == {t \in Threads : pc[t] = "in"}
Committing == {"write_log", "write_head", "install", "erase", "finish"}

(***************************************************************************)
(* The blocks still reserved for the calls under way, one pair for each.   *)
(* What is logged and what is reserved fit in the log together, so that    *)
(* begin_op lets a call in only when all of them can finish.               *)
(***************************************************************************)
Reserved == {r \in InOp \X (1..MAXOPBLOCKS) : r[2] > Cardinality(wrote[r[1]])}
ReservationFits == Len(lh) + Cardinality(Reserved) <= LOGSIZE

(***************************************************************************)
(* log_write and end_op do not panic when a call writes as many fewer      *)
(* blocks than begin_op reserves as the log on disk is short of LOGSIZE.   *)
(***************************************************************************)
Slack == LOGSIZE - (MAXOPBLOCKS - OPBLOCKS) < IF LOGSIZE <= NLOG - 1
                                              THEN LOGSIZE ELSE NLOG - 1
NoPanic == mode # "panic"

(***************************************************************************)
(* A block whose cached copy is newer than the disk's is pinned, so that   *)
(* bget never drops the only copy of committed or logged data; and a       *)
(* pinned block is in the header, so that the commit will unpin it: none   *)
(* stays in the cache for ever.                                            *)
(***************************************************************************)
DirtyIsPinned ==
  Up => \A n \in Blocks :
          /\ cache[n] # disk[n] => n \in pins
          /\ n \in pins => InHeader(lh, n)

\* A commit runs alone: no call is under way, and no other commit.
CommitAlone ==
  \A t \in Threads : pc[t] \in Committing =>
     /\ InOp = {}
     /\ \A u \in Threads : pc[u] \in Committing => u = t

\* The disk after recovery, of header h, log blocks l and home blocks d.
Recovered(h, l, d) == [n \in Blocks |-> IF InHeader(h, n)
                                        THEN l[CHOOSE i \in DOMAIN h : h[i] = n]
                                        ELSE d[n]]
Durable == Recovered(header, logged, disk)      \* what a crash would leave

Booted == mode \in {"up", "panic"}
Memory == IF Booted THEN cache ELSE Durable     \* what a call reads

Atomic == INSTANCE AtomicDisk
            WITH mem <- Memory, stable <- Durable, active <- InOp

\* The log makes the file system calls atomic with respect to crashes.
CrashAtomic == Atomic!Spec

(***************************************************************************)
(* No wakeup is lost: a call that waits in begin_op for a commit, or for   *)
(* log space, is let in once the other calls have ended, unless a crash or *)
(* a panic ends them all.                                                  *)
(***************************************************************************)
EveryCallGetsIn ==
  \A t \in Threads :
     (pc[t] = "begin") ~> (pc[t] \in {"in", "out"} \/ mode = "panic")

-----------------------------------------------------------------------------
(* The inductive invariant: why the properties above hold. *)

Somewhere(labels) == \E t \in Threads : pc[t] \in labels
Distinct(h) == \A i, j \in DOMAIN h : h[i] = h[j] => i = j

\* Who is in the log: log.outstanding and log.committing say it.
Presence ==
  /\ outstanding = Cardinality(InOp)
  /\ committing <=> Somewhere(Committing)
  /\ CommitAlone
  /\ ~Booted => \A t \in Threads : pc[t] = "out"

\* What a call has logged is in the header, and a call logs so many blocks.
Quota ==
  \A t \in Threads :
    /\ IsFiniteSet(wrote[t]) /\ Cardinality(wrote[t]) <= OPBLOCKS
    /\ wrote[t] # {} => pc[t] = "in"
    /\ \A n \in wrote[t] : InHeader(lh, n)

\* How far the commit, or recovery, has come.
Progress ==
  /\ Distinct(lh) /\ Distinct(header)
  /\ (Somewhere({"write_log", "install"}) \/ mode = "install")
        => tail <= Len(lh)
  /\ ~(Somewhere({"write_log", "install"}) \/ mode = "install") => tail = 1
  /\ Somewhere({"write_head"}) => lh # <<>>
  /\ (Somewhere({"erase", "finish"}) \/ mode \in {"read_head", "erase"})
        => lh = <<>>

\* The copies of the logged blocks in the log are those of the cache.
LogIsCopy ==
  \A i \in DOMAIN lh :
    \/ Somewhere({"write_log"}) /\ i < tail
    \/ Somewhere({"write_head", "install"})
    => logged[i] = cache[lh[i]]

\* Installed(k): the first k - 1 blocks of the header are home.
Installed(k) == \A i \in DOMAIN header : i < k => disk[header[i]] = logged[i]
HeaderOnDisk ==
  /\ Somewhere({"install"}) \/ mode = "install"
        => header = lh /\ Installed(tail)
  /\ Somewhere({"erase"}) \/ mode = "erase" => Installed(LOGSIZE + 1)
  /\ Booted /\ ~Somewhere({"install", "erase"}) => header = <<>>

\* A block in the cache is the disk's, unless the log has it and pins it.
CacheIsDisk ==
  /\ \A n \in Blocks : cache[n] # disk[n] => n \in pins
  /\ pins = IF ~Booted THEN {}
            ELSE {lh[i] : i \in {j \in DOMAIN lh : Somewhere({"install"})
                                                  => j >= tail}}

IInv == /\ TypeOK /\ Presence /\ Quota /\ Progress /\ LogIsCopy
        /\ HeaderOnDisk /\ CacheIsDisk /\ ReservationFits

=============================================================================
