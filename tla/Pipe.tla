-------------------------------- MODULE Pipe --------------------------------
(***************************************************************************)
(* A pipe: the ring of kernel/pipe.c, read and written by processes that   *)
(* got its ends from one another by fork, with the reference counts of     *)
(* kernel/file.c on its two ends, and kill.                                *)
(*                                                                         *)
(* One action is one critical section of pi->lock or of ftable.lock.       *)
(* pipewrite and piperead give the lock up around the copy of each byte    *)
(* to or from user memory.  A process has at most one descriptor of an     *)
(* end; its threads have descriptors of their own (clone copies them), so  *)
(* they are processes here.                                                *)
(*                                                                         *)
(* Definitions such as Full_Late are the faulty forms of the definition    *)
(* next to them with which the properties are put to the test.             *)
(***************************************************************************)
EXTENDS Naturals, FiniteSets

CONSTANTS Procs,      \* the processes
          Creator,    \* the one that calls pipe
          Writers,    \* those that write
          PIPESIZE,
          UINT,       \* 2^32: nread and nwrite wrap around
          Start,      \* the bytes written and read before the start
          MAXSIZE,    \* the most bytes of a read or write
          Sizes,      \* the lengths of reads and writes
          MaxCalls,   \* bound: the calls of read and write
          MaxFaults,  \* bound: the kills and the bad addresses for copies
          Races       \* whether writers may overrun the ring

ASSUME PipeAssumption ==
  /\ IsFiniteSet(Procs) /\ Creator \in Procs /\ Writers \subseteq Procs
  /\ PIPESIZE \in Nat \ {0}
  /\ UINT \in Nat /\ UINT > PIPESIZE /\ UINT % PIPESIZE = 0
  /\ Start \in 0..(UINT - 1)
  /\ {MAXSIZE, MaxCalls, MaxFaults} \subseteq Nat
  /\ MAXSIZE > 0 /\ Sizes \subseteq 0..MAXSIZE
  /\ Races \in BOOLEAN

VARIABLES data, nread, nwrite,   \* of struct pipe
          open,                  \* the ends with readopen or writeopen
          freed,                 \* kfree has been called for it
          ref,                   \* f->ref of the two files
          fds,                   \* the ends a process has descriptors of
          closing,               \* the end it calls pipeclose for
          pc,                    \* where it is
          todo,                  \* n - i: the bytes it is still to copy
          ch,                    \* the last byte it took out of the pipe
          killed,
          calls, faults

ring == <<data, nread, nwrite, ch>>
ends == <<open, freed, ref, fds, closing>>
bounds == <<calls, faults>>
vars == <<ring, ends, pc, todo, killed, bounds>>

\* The bytes told apart: by the writer and its n - i.
Bytes == Procs \X (1..MAXSIZE)
Ends == {"r", "w"}
At(p, l) == pc[p] = l
Goto(p, l) == pc' = [pc EXCEPT ![p] = l]

\* pipe() has given its caller both ends; Start bytes have gone through.
Init ==
  LET b == <<Creator, 1>> IN
    /\ data = [i \in 0..(PIPESIZE - 1) |-> b]
    /\ nread = Start /\ nwrite = Start
    /\ open = Ends /\ freed = FALSE
    /\ ref = [e \in Ends |-> 1]
    /\ fds = [q \in Procs |-> IF q = Creator THEN Ends ELSE {}]
    /\ closing = [q \in Procs |-> "none"]
    /\ pc = [q \in Procs |-> IF q = Creator THEN "user" ELSE "unborn"]
    /\ todo = [q \in Procs |-> 0]
    /\ ch = [q \in Procs |-> b]
    /\ killed = [q \in Procs |-> FALSE]
    /\ calls = 0 /\ faults = 0

-----------------------------------------------------------------------------
(* The ring *)

Succ(i) == IF i + 1 = UINT THEN 0 ELSE i + 1
\* nwrite - nread, of uints
Distance(r, w) == IF r <= w THEN w - r ELSE w + UINT - r
Full_Late(r, w) == Distance(r, w) = PIPESIZE + 1
Full(r, w) == Distance(r, w) = PIPESIZE
Slot(i) == i % PIPESIZE

\* wakeup(&pi->nread), on which readers sleep, and wakeup(&pi->nwrite).
WakeReaders_None(at) == at
WakeReaders(at) == [q \in Procs |-> IF at[q] = "empty" THEN "read" ELSE at[q]]
WakeWriters(at) == [q \in Procs |-> IF at[q] = "full" THEN "write" ELSE at[q]]

\* kill may come between killed(pr) and sleep: the victim sleeps all the same.
MayMissKill(p) ==
  \/ UNCHANGED <<killed, faults>>
  \/ /\ faults < MaxFaults
     /\ faults' = faults + 1
     /\ killed' = [killed EXCEPT ![p] = TRUE]

(***************************************************************************)
(* The window: a writer has found room and copies its byte in without the  *)
(* lock; it does not look again when it stores the byte, and overruns the  *)
(* ring if other writers have filled it meanwhile.  Races = FALSE takes    *)
(* away this store and nothing else: instead the writer looks for room     *)
(* again.                                                                  *)
(***************************************************************************)
Overruns(p) == At(p, "copyin") /\ Full(nread, nwrite)
MayPut(p) == Races \/ ~Overruns(p)

-----------------------------------------------------------------------------
(* pipewrite() *)

Write(p, n) ==
  /\ At(p, "user") /\ ~killed[p] /\ p \in Writers
  /\ "w" \in fds[p]
  /\ calls < MaxCalls
  /\ calls' = calls + 1
  /\ todo' = [todo EXCEPT ![p] = n]
  /\ Goto(p, "write")
  /\ UNCHANGED <<ring, ends, killed, faults>>

HungUp(p) == "r" \notin open \/ killed[p]

\* The head of the while loop, with n bytes to go and nwrite = w.
WriteOn(p, n, w) ==
  \/ /\ n = 0
     /\ pc' = [WakeReaders(pc) EXCEPT ![p] = "user"]
     /\ UNCHANGED <<killed, faults>>
  \/ /\ n # 0 /\ HungUp(p)
     /\ Goto(p, "user")
     /\ UNCHANGED <<killed, faults>>
  \/ /\ n # 0 /\ ~HungUp(p) /\ Full(nread, w)
     /\ pc' = [WakeReaders(pc) EXCEPT ![p] = "full"]
     /\ MayMissKill(p)
  \/ /\ n # 0 /\ ~HungUp(p) /\ ~Full(nread, w)
     /\ Goto(p, "copyin")
     /\ UNCHANGED <<killed, faults>>

WriteCheck(p) ==
  /\ At(p, "write") \/ ~MayPut(p)
  /\ WriteOn(p, todo[p], nwrite)
  /\ UNCHANGED <<ring, ends, todo, calls>>

WritePut(p) ==
  /\ At(p, "copyin") /\ MayPut(p)
  /\ data' = [data EXCEPT ![Slot(nwrite)] = <<p, todo[p]>>]
  /\ nwrite' = Succ(nwrite)
  /\ todo' = [todo EXCEPT ![p] = @ - 1]
  /\ WriteOn(p, todo[p] - 1, Succ(nwrite))
  /\ UNCHANGED <<nread, ch, ends, calls>>

CopyInFails(p) ==
  /\ At(p, "copyin")
  /\ faults < MaxFaults
  /\ faults' = faults + 1
  /\ pc' = [WakeReaders(pc) EXCEPT ![p] = "user"]
  /\ UNCHANGED <<ring, ends, todo, killed, calls>>

-----------------------------------------------------------------------------
(* piperead() *)

Read(p, n) ==
  /\ At(p, "user") /\ ~killed[p]
  /\ "r" \in fds[p]
  /\ calls < MaxCalls
  /\ calls' = calls + 1
  /\ todo' = [todo EXCEPT ![p] = n]
  /\ Goto(p, "read")
  /\ UNCHANGED <<ring, ends, killed, faults>>

\* The for loop, with n bytes to go.
ReadOn(p, n) ==
  \/ /\ n = 0 \/ nread = nwrite
     /\ pc' = [WakeWriters(pc) EXCEPT ![p] = "user"]
     /\ UNCHANGED <<nread, ch>>
  \/ /\ n # 0 /\ nread # nwrite
     /\ ch' = [ch EXCEPT ![p] = data[Slot(nread)]]
     /\ nread' = Succ(nread)
     /\ Goto(p, "copyout")

ReadCheck(p) ==
  /\ At(p, "read")
  /\ IF nread = nwrite /\ "w" \in open
     THEN /\ IF killed[p]
             THEN Goto(p, "user") /\ UNCHANGED <<killed, faults>>
             ELSE Goto(p, "empty") /\ MayMissKill(p)
          /\ UNCHANGED <<nread, ch>>
     ELSE ReadOn(p, todo[p]) /\ UNCHANGED <<killed, faults>>
  /\ UNCHANGED <<data, nwrite, ends, todo, calls>>

CopyOut(p) ==
  /\ At(p, "copyout")
  /\ todo' = [todo EXCEPT ![p] = @ - 1]
  /\ ReadOn(p, todo[p] - 1)
  /\ UNCHANGED <<data, nwrite, ends, killed, bounds>>

\* The byte that copyout could not store is gone.
CopyOutFails(p) ==
  /\ At(p, "copyout")
  /\ faults < MaxFaults
  /\ faults' = faults + 1
  /\ pc' = [WakeWriters(pc) EXCEPT ![p] = "user"]
  /\ UNCHANGED <<ring, ends, todo, killed, calls>>

-----------------------------------------------------------------------------
(* fork(), close() and exit(), kill() *)

Dup_Not(n) == n
\* filedup
Dup(n) == n + 1

Fork(p, q) ==
  /\ At(p, "user") /\ ~killed[p] /\ At(q, "unborn")
  /\ fds' = [fds EXCEPT ![q] = fds[p]]
  /\ ref' = [e \in Ends |-> IF e \in fds[p] THEN Dup(ref[e]) ELSE ref[e]]
  /\ Goto(q, "user")
  /\ UNCHANGED <<ring, open, freed, closing, todo, killed, bounds>>

\* fileclose, by sys_close or by exit.
Close(p, e) ==
  /\ At(p, "user")
  /\ e \in fds[p]
  /\ fds' = [fds EXCEPT ![p] = @ \ {e}]
  /\ ref' = [ref EXCEPT ![e] = @ - 1]
  /\ IF ref[e] > 1
     THEN UNCHANGED <<closing, pc>>
     ELSE closing' = [closing EXCEPT ![p] = e] /\ Goto(p, "pipeclose")
  /\ UNCHANGED <<ring, open, freed, todo, killed, bounds>>

WakePeers_Own(e, at) == IF e = "r" THEN WakeReaders(at) ELSE WakeWriters(at)
WakePeers(e, at) == IF e = "w" THEN WakeReaders(at) ELSE WakeWriters(at)

PipeClose(p) ==
  /\ At(p, "pipeclose")
  /\ open' = open \ {closing[p]}
  /\ freed' = (freed \/ open' = {})
  /\ pc' = [WakePeers(closing[p], pc) EXCEPT ![p] = "user"]
  /\ closing' = [closing EXCEPT ![p] = "none"]
  /\ UNCHANGED <<ring, ref, fds, todo, killed, bounds>>

Kill(p) ==
  /\ ~At(p, "unborn")
  /\ faults < MaxFaults
  /\ faults' = faults + 1
  /\ killed' = [killed EXCEPT ![p] = TRUE]
  /\ pc' = [pc EXCEPT ![p] = CASE @ = "empty" -> "read"
                               [] @ = "full" -> "write"
                               [] OTHER -> @]
  /\ UNCHANGED <<ring, ends, todo, calls>>

-----------------------------------------------------------------------------
Kernel(p) == \/ WriteCheck(p) \/ WritePut(p)
             \/ ReadCheck(p)  \/ CopyOut(p)
             \/ CopyInFails(p) \/ CopyOutFails(p)
             \/ PipeClose(p)
User(p) == \/ \E n \in Sizes : Write(p, n) \/ Read(p, n)
           \/ \E q \in Procs : Fork(p, q)
           \/ \E e \in Ends : Close(p, e)
           \/ Kill(p)

Next == \E p \in Procs : Kernel(p) \/ User(p)

Spec == Init /\ [][Next]_vars

\* The scheduler runs every thread that is in the kernel again and again.
FairSpec == Spec /\ \A p \in Procs : WF_vars(Kernel(p))

-----------------------------------------------------------------------------
(* Properties *)

PCs == {"unborn", "user", "write", "copyin", "full", "read", "copyout", "empty", "pipeclose"}
TypeOK ==
  /\ data \in [0..(PIPESIZE - 1) -> Bytes]
  /\ {nread, nwrite} \subseteq 0..(UINT - 1)
  /\ open \subseteq Ends /\ freed \in BOOLEAN
  /\ ref \in [Ends -> Nat]
  /\ fds \in [Procs -> SUBSET Ends]
  /\ closing \in [Procs -> Ends \cup {"none"}]
  /\ pc \in [Procs -> PCs]
  /\ todo \in [Procs -> 0..MAXSIZE]
  /\ ch \in [Procs -> Bytes]
  /\ killed \in [Procs -> BOOLEAN]
  /\ {calls, faults} \subseteq Nat

(***************************************************************************)
(* The bytes in the ring are a FIFO queue of at most PIPESIZE: none is     *)
(* overwritten, read twice or out of order, although the lock is released  *)
(* between the check for room and the store of the byte.                   *)
(***************************************************************************)
Abstract == INSTANCE Channel WITH
  SIZE <- PIPESIZE, got <- ch,
  chan <- [k \in 1..Distance(nread, nwrite) |-> data[Slot(nread + k - 1)]]
ImplementsChannel == Abstract!Spec

(***************************************************************************)
(* No wakeup is lost.  A reader sleeps although there is data only while a *)
(* writer is under way that will wake it; a writer although there is room  *)
(* only while a reader is; and neither after the other end has been        *)
(* closed.  The exception is the code's: a killed writer wakes nobody.     *)
(***************************************************************************)
LeftWrite(p) == p \in Writers /\ killed[p] /\ pc[p] \in {"user", "pipeclose"}
SleepIsJustified ==
  \A p \in Procs :
    /\ At(p, "empty") =>
         /\ "w" \in open
         /\ nread # nwrite => \E q \in Procs : At(q, "copyin") \/ LeftWrite(q)
    /\ At(p, "full") =>
         /\ "r" \in open
         /\ ~Full(nread, nwrite) => \E q \in Procs : At(q, "copyout")

(***************************************************************************)
(* The page is freed, once, when nobody has an end or is about to use it:  *)
(* also when both ends' last descriptors are closed at once, by exits in   *)
(* the middle of other processes' reads and writes.                        *)
(***************************************************************************)
InWrite(p) == pc[p] \in {"write", "copyin", "full"}
InRead(p) == pc[p] \in {"read", "copyout", "empty"}
FreedWhenUnused ==
  /\ freed <=> open = {}
  /\ \A p \in Procs : /\ InWrite(p) => "w" \in open
                      /\ InRead(p) => "r" \in open
                      /\ fds[p] \subseteq open
                      /\ At(p, "pipeclose") => closing[p] \in open

(***************************************************************************)
(* Who is at one end learns that the other one has been closed for good:   *)
(* reads return (after what was left in the ring), and so do writes.       *)
(***************************************************************************)
HangUpIsSeen ==
  \A p \in Procs : /\ InRead(p) /\ ref["w"] = 0 ~> ~InRead(p)
                   /\ InWrite(p) /\ ref["r"] = 0 ~> ~InWrite(p)

=============================================================================
