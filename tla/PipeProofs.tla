----------------------------- MODULE PipeProofs -----------------------------
(***************************************************************************)
(* Proofs about Pipe, for every number of processes, every size of the     *)
(* ring and every range of its indices, any calls, kills and bad           *)
(* addresses, where one process writes or writers do not overrun the ring. *)
(***************************************************************************)
EXTENDS Pipe, FiniteSetTheorems, SequenceTheorems, TLAPS

-----------------------------------------------------------------------------
(* Numbers modulo a size *)

LEMMA DivMod ==
  ASSUME NEW a \in Nat, NEW n \in Nat \ {0}
  PROVE  /\ a \div n \in Nat
         /\ a % n \in 0..(n - 1)
         /\ a = n * (a \div n) + (a % n)
  OBVIOUS

LEMMA TimesNat == ASSUME NEW x \in Nat, NEW y \in Nat PROVE x * y \in Nat
  BY Z3

LEMMA MoreTimes ==
  ASSUME NEW n \in Nat \ {0}, NEW x \in Nat, NEW y \in Nat, x < y
  PROVE  n * x + n <= n * y
<1>1. PICK d \in Nat : y = x + 1 + d
  <2>1. y - x - 1 \in Nat /\ y = x + 1 + (y - x - 1)
    OBVIOUS
  <2>2. QED
    BY <2>1
<1>2. n * y = n * x + n + n * d
  BY <1>1, Z3
<1>3. n * d >= 0 /\ n * d \in Nat /\ n * x \in Nat
  BY <1>1, Z3
<1>4. QED
  BY <1>2, <1>3, Z3

LEMMA Quotient ==
  ASSUME NEW n \in Nat \ {0}, NEW q \in Nat, NEW r \in 0..(n - 1), NEW a \in Nat, a = n * q + r
  PROVE  a % n = r
<1>1. /\ a \div n \in Nat /\ a % n \in 0..(n - 1)
      /\ a = n * (a \div n) + (a % n)
  BY DivMod
<1>2. /\ q < a \div n => n * q + n <= n * (a \div n)
      /\ a \div n < q => n * (a \div n) + n <= n * q
  BY <1>1, MoreTimes
<1>3. PICK x \in Nat, y \in Nat : x = n * q /\ y = n * (a \div n)
  BY <1>1, Z3
<1>4. q = a \div n
  BY <1>1, <1>2, <1>3, Z3
<1>5. QED
  BY <1>1, <1>3, <1>4, Z3

LEMMA Wrapped ==
  ASSUME NEW n \in Nat \ {0}, NEW i \in Nat, NEW u \in Nat, NEW m \in Nat, m = n * u
  PROVE  (i + m) % n = i % n
<1>1. PICK q \in Nat, r \in 0..(n - 1) : r = i % n /\ i = n * q + r
  BY DivMod
<1>2. n * (q + u) = n * q + n * u /\ n * q \in Nat /\ n * u \in Nat
  BY Z3
<1>3. PICK c \in Nat, t \in Nat : c = i + m /\ t = q + u
  <2>1. i + m \in Nat /\ q + u \in Nat
    OBVIOUS
  <2>2. QED
    BY <2>1
<1>4. c = n * t + r
  BY <1>1, <1>2, <1>3
<1>5. c % n = r
  BY <1>4, Quotient
<1>6. QED
  BY <1>1, <1>3, <1>5

\* Numbers less than n apart differ modulo n.
LEMMA ModApart ==
  ASSUME NEW n \in Nat \ {0}, NEW i \in Nat, NEW d \in 1..(n - 1)
  PROVE  i % n # (i + d) % n
<1> DEFINE j == i + d
<1>0. n \in Nat \ {0} /\ j \in Nat
  OBVIOUS
<1>1. /\ i \div n \in Nat /\ i % n \in 0..(n - 1) /\ i = n * (i \div n) + (i % n)
      /\ j \div n \in Nat /\ j % n \in 0..(n - 1) /\ j = n * (j \div n) + (j % n)
  BY <1>0, DivMod
<1>2. /\ i \div n < j \div n => n * (i \div n) + n <= n * (j \div n)
      /\ j \div n < i \div n => n * (j \div n) + n <= n * (i \div n)
  BY <1>0, <1>1, MoreTimes
<1>3. PICK x \in Nat, y \in Nat : x = n * (i \div n) /\ y = n * (j \div n)
  <2>1. n * (i \div n) \in Nat /\ n * (j \div n) \in Nat
    BY <1>0, <1>1, TimesNat
  <2>2. QED
    BY <2>1
<1>4. i \div n = j \div n => x = y
  BY <1>3
<1>5. /\ i = x + (i % n) /\ j = y + (j % n)
      /\ i \div n < j \div n => x + n <= y
      /\ j \div n < i \div n => y + n <= x
  BY <1>1, <1>2, <1>3
<1>6. ASSUME i % n = j % n PROVE FALSE
  <2>1. y = x + d
    BY <1>0, <1>1, <1>3, <1>5, <1>6, Z3
  <2>2. y # x /\ y < x + n /\ x < y
    BY <1>0, <1>3, <2>1
  <2>3. ~(i \div n < j \div n) /\ ~(j \div n < i \div n)
    BY <1>0, <1>1, <1>3, <1>5, <2>2
  <2>4. i \div n = j \div n
    BY <1>1, <2>3
  <2>5. QED
    BY <1>4, <2>2, <2>4
<1>7. QED
  BY <1>6

\* Adding a multiple of n changes nothing modulo n.
LEMMA ModWraps ==
  ASSUME NEW n \in Nat \ {0}, NEW m \in Nat, m % n = 0, NEW i \in Nat
  PROVE  (i + m) % n = i % n
<1>1. PICK u \in Nat : m = n * u
  <2>1. m \div n \in Nat /\ m = n * (m \div n) + (m % n)
    BY DivMod
  <2>2. n * (m \div n) \in Nat
    BY <2>1, TimesNat
  <2>3. m = n * (m \div n)
    BY <2>1, <2>2
  <2>4. QED
    BY <2>1, <2>3
<1>2. \A k \in Nat : k = n * u => (i + k) % n = i % n
  BY <1>1, Wrapped, Zenon
<1>3. QED
  BY <1>1, <1>2, Zenon

-----------------------------------------------------------------------------
(* Entries of the ring *)

LEMMA SlotType == ASSUME NEW i \in Nat PROVE Slot(i) \in 0..(PIPESIZE - 1)
  BY DivMod, PipeAssumption DEF PipeAssumption, Slot

\* Places less than PIPESIZE apart are different entries of the ring.
LEMMA SlotsApart ==
  ASSUME NEW i \in Nat, NEW d \in 1..(PIPESIZE - 1)
  PROVE  Slot(i) # Slot(i + d)
<1>1. PIPESIZE \in Nat \ {0}
  BY PipeAssumption DEF PipeAssumption
<1>2. i % PIPESIZE # (i + d) % PIPESIZE
  BY <1>1, ModApart
<1>3. QED
  BY <1>2 DEF Slot

\* nread and nwrite may wrap around because PIPESIZE divides 2^32.
LEMMA SlotWraps == ASSUME NEW i \in Nat PROVE Slot(i + UINT) = Slot(i)
<1>1. PIPESIZE \in Nat \ {0} /\ UINT \in Nat /\ UINT % PIPESIZE = 0
  BY PipeAssumption DEF PipeAssumption
<1>2. (i + UINT) % PIPESIZE = i % PIPESIZE
  BY <1>1, ModWraps, Zenon
<1>3. QED
  BY <1>2 DEF Slot

-----------------------------------------------------------------------------
(* The inductive invariant *)

\* One process writes, or writers do not overrun the ring.
Spared == Races = FALSE \/ \A p, q \in Writers : p = q

\* Who is in a system call has the descriptor for it.
Busy ==
  \A p \in Procs :
    /\ InWrite(p) => p \in Writers /\ "w" \in fds[p]
    /\ InRead(p) => "r" \in fds[p]
    /\ pc[p] \in {"copyin", "full", "copyout"} => todo[p] # 0
    /\ At(p, "pipeclose") <=> closing[p] # "none"
    /\ At(p, "unborn") => fds[p] = {}

\* f->ref is the number of descriptors.
Holders(e) == {p \in Procs : e \in fds[p]}
Counted == \A e \in Ends : ref[e] = Cardinality(Holders(e))

\* An end stays open until the process that closed its last descriptor has
\* called pipeclose.
OpenEnds ==
  \A e \in Ends :
    /\ e \in open <=> ref[e] # 0 \/ \E p \in Procs : closing[p] = e
    /\ \A p \in Procs : closing[p] = e =>
         ref[e] = 0 /\ \A q \in Procs : closing[q] = e => q = p

\* The ring is not overrun; with Races nobody is about to, one process writing.
Room ==
  /\ Distance(nread, nwrite) <= PIPESIZE
  /\ Races => \A p \in Procs : ~Overruns(p)

IInv ==
  /\ TypeOK /\ Busy /\ Counted /\ OpenEnds
  /\ freed <=> open = {}
  /\ Room /\ SleepIsJustified

-----------------------------------------------------------------------------
(* Types, and who is where *)

Types == /\ pc \in [Procs -> PCs] /\ todo \in [Procs -> 0..MAXSIZE]
         /\ fds \in [Procs -> SUBSET Ends] /\ ref \in [Ends -> Nat]
         /\ closing \in [Procs -> Ends \cup {"none"}]
         /\ killed \in [Procs -> BOOLEAN] /\ open \subseteq Ends
         /\ nread \in 0..(UINT - 1) /\ nwrite \in 0..(UINT - 1)
         /\ data \in [0..(PIPESIZE - 1) -> Bytes] /\ ch \in [Procs -> Bytes]

LEMMA TypesAre == TypeOK => Types
  BY DEF TypeOK, Types

LEMMA Constants ==
  /\ IsFiniteSet(Procs) /\ Creator \in Procs /\ Writers \subseteq Procs
  /\ PIPESIZE \in Nat /\ PIPESIZE > 0 /\ UINT \in Nat /\ UINT > PIPESIZE
  /\ Start \in 0..(UINT - 1)
  /\ MAXSIZE \in Nat /\ MAXSIZE > 0 /\ Sizes \subseteq 0..MAXSIZE
  /\ MaxCalls \in Nat /\ MaxFaults \in Nat
  BY PipeAssumption DEF PipeAssumption

\* The steps of other processes wake p, and fork makes it.
LEMMA Others ==
  ASSUME TypeOK, NEW p \in Procs, Kernel(p) \/ User(p), NEW q \in Procs \ {p}
  PROVE  \/ pc'[q] = pc[q]
         \/ pc[q] = "empty" /\ pc'[q] = "read"
         \/ pc[q] = "full" /\ pc'[q] = "write"
         \/ pc[q] = "unborn" /\ pc'[q] = "user" /\ Fork(p, q)
<1>0. Types
  BY TypesAre
<1>1. CASE WriteCheck(p) \/ WritePut(p)
  <2>1. \E n, w : WriteOn(p, n, w)
    BY <1>1 DEF WriteCheck, WritePut
  <2>2. QED
    BY <1>0, <2>1 DEF Types, WriteOn, Goto, WakeReaders
<1>2. CASE ReadCheck(p) \/ CopyOut(p)
  <2>1. (\E n : ReadOn(p, n)) \/ Goto(p, "user") \/ Goto(p, "empty")
    BY <1>2 DEF ReadCheck, CopyOut
  <2>2. QED
    BY <1>0, <2>1 DEF Types, ReadOn, Goto, WakeWriters
<1>3. CASE CopyInFails(p) \/ CopyOutFails(p) \/ PipeClose(p)
  BY <1>0, <1>3 DEF Types, CopyInFails, CopyOutFails, PipeClose, WakePeers, WakeReaders, WakeWriters
<1>4. ASSUME NEW n \in Sizes, Write(p, n) \/ Read(p, n) PROVE pc'[q] = pc[q]
  BY <1>0, <1>4 DEF Types, Write, Read, Goto
<1>5. ASSUME NEW u \in Procs, Fork(p, u)
      PROVE  pc'[q] = pc[q] \/ (pc[q] = "unborn" /\ pc'[q] = "user" /\ u = q)
  BY <1>0, <1>5 DEF Types, Fork, Goto, At
<1>6. ASSUME NEW e \in Ends, Close(p, e) PROVE pc'[q] = pc[q]
  BY <1>0, <1>6 DEF Types, Close, Goto
<1>7. CASE Kill(p)
  BY <1>0, <1>7 DEF Types, Kill
<1>8. QED
  BY <1>1, <1>2, <1>3, <1>4, <1>5, <1>6, <1>7 DEF Kernel, User

\* Who goes on at once, and who is woken, when p is done with pi->lock.
Still(p) == \A q \in Procs \ {p} : pc'[q] = pc[q]
Woken(p, asleep, to) == \A q \in Procs \ {p} : pc'[q] = IF pc[q] = asleep THEN to ELSE pc[q]

LEMMA WriteMoves ==
  ASSUME TypeOK, NEW p \in Procs, NEW n, NEW w, WriteOn(p, n, w)
  PROVE  \/ n = 0 /\ pc'[p] = "user" /\ Woken(p, "empty", "read")
         \/ n # 0 /\ HungUp(p) /\ pc'[p] = "user" /\ Still(p)
         \/ n # 0 /\ ~HungUp(p) /\ Full(nread, w) /\ pc'[p] = "full" /\ Woken(p, "empty", "read")
         \/ n # 0 /\ ~HungUp(p) /\ ~Full(nread, w) /\ pc'[p] = "copyin" /\ Still(p)
<1>1. pc \in [Procs -> PCs]
  BY DEF TypeOK
<1>2. \A l : pc' = [WakeReaders(pc) EXCEPT ![p] = l] => pc'[p] = l /\ Woken(p, "empty", "read")
  BY <1>1 DEF WakeReaders, Woken
<1>3. \A l : Goto(p, l) => pc'[p] = l /\ Still(p)
  BY <1>1 DEF Goto, Still
<1>4. QED
  BY <1>2, <1>3 DEF WriteOn

LEMMA ReadMoves ==
  ASSUME TypeOK, NEW p \in Procs, NEW n, ReadOn(p, n)
  PROVE  \/ /\ pc'[p] = "user" /\ Woken(p, "full", "write") /\ nread' = nread /\ ch' = ch
         \/ /\ n # 0 /\ nread # nwrite /\ nread' = Succ(nread)
            /\ ch' = [ch EXCEPT ![p] = data[Slot(nread)]]
            /\ pc'[p] = "copyout" /\ Still(p)
<1>1. pc \in [Procs -> PCs]
  BY DEF TypeOK
<1>2. \A l : pc' = [WakeWriters(pc) EXCEPT ![p] = l] => pc'[p] = l /\ Woken(p, "full", "write")
  BY <1>1 DEF WakeWriters, Woken
<1>3. \A l : Goto(p, l) => pc'[p] = l /\ Still(p)
  BY <1>1 DEF Goto, Still
<1>4. QED
  BY <1>2, <1>3 DEF ReadOn

\* An end that somebody has is counted.
LEMMA Held ==
  ASSUME TypeOK, Counted, NEW p \in Procs, NEW e \in Ends, e \in fds[p]
  PROVE  ref[e] # 0
<1>1. IsFiniteSet(Holders(e)) /\ p \in Holders(e)
  BY Constants, FS_Subset DEF Holders
<1>2. QED
  BY <1>1, FS_EmptySet DEF Counted

LEMMA TypeStep ==
  ASSUME TypeOK, Busy, Counted, NEW p \in Procs, Kernel(p) \/ User(p)
  PROVE  TypeOK'
<1>0. Types /\ freed \in BOOLEAN /\ calls \in Nat /\ faults \in Nat
  BY TypesAre DEF TypeOK
<1>a. \A i \in 0..(UINT - 1) : Succ(i) \in 0..(UINT - 1)
  BY Constants DEF Succ
<1>b. /\ Slot(nread) \in 0..(PIPESIZE - 1) /\ Slot(nwrite) \in 0..(PIPESIZE - 1)
      /\ \A q \in Procs : todo[q] # 0 => <<q, todo[q]>> \in Bytes /\ todo[q] - 1 \in 0..MAXSIZE
  <2>1. nread \in Nat /\ nwrite \in Nat
    BY <1>0, Constants DEF Types
  <2>2. ASSUME NEW q \in Procs, todo[q] # 0 PROVE todo[q] \in 1..MAXSIZE
    BY <1>0, <2>2, Constants DEF Types
  <2>3. QED
    BY <2>1, <2>2, SlotType, Constants DEF Bytes
<1>c. /\ WakeReaders(pc) \in [Procs -> PCs]
      /\ WakeWriters(pc) \in [Procs -> PCs]
  BY <1>0 DEF Types, WakeReaders, WakeWriters, PCs
<1>m. MayMissKill(p) => killed' \in [Procs -> BOOLEAN] /\ faults' \in Nat
  <2>1. MayMissKill(p) => faults' \in Nat
    BY <1>0 DEF MayMissKill
  <2>2. MayMissKill(p) => killed' \in [Procs -> BOOLEAN]
    BY <1>0, Zenon DEF MayMissKill, Types
  <2>3. QED
    BY <2>1, <2>2
<1>d. ASSUME NEW n, NEW w, WriteOn(p, n, w)
      PROVE  pc' \in [Procs -> PCs] /\ killed' \in [Procs -> BOOLEAN] /\ faults' \in Nat
  <2>1. pc' \in [Procs -> PCs]
    BY <1>0, <1>c, <1>d DEF WriteOn, Goto, Types, PCs
  <2>2. MayMissKill(p) \/ UNCHANGED <<killed, faults>>
    BY <1>d DEF WriteOn
  <2>3. QED
    BY <1>0, <1>m, <2>1, <2>2 DEF Types
<1>e. \A n : ReadOn(p, n) =>
        /\ pc' \in [Procs -> PCs] /\ ch' \in [Procs -> Bytes]
        /\ nread' \in 0..(UINT - 1)
  <2> SUFFICES ASSUME NEW n, ReadOn(p, n)
               PROVE  /\ pc' \in [Procs -> PCs] /\ ch' \in [Procs -> Bytes]
                      /\ nread' \in 0..(UINT - 1)
    OBVIOUS
  <2>1. CASE pc' = [WakeWriters(pc) EXCEPT ![p] = "user"] /\ UNCHANGED <<nread, ch>>
    BY <1>0, <1>c, <2>1 DEF Types, PCs
  <2>2. CASE /\ ch' = [ch EXCEPT ![p] = data[Slot(nread)]]
             /\ nread' = Succ(nread) /\ Goto(p, "copyout")
    <3>1. data[Slot(nread)] \in Bytes /\ nread' \in 0..(UINT - 1)
      BY <1>0, <1>a, <1>b, <2>2 DEF Types
    <3>2. pc' \in [Procs -> PCs]
      BY <1>0, <2>2 DEF Goto, Types, PCs
    <3>3. QED
      BY <1>0, <2>2, <3>1, <3>2 DEF Types
  <2>3. QED
    BY <2>1, <2>2 DEF ReadOn
<1>1. CASE WriteCheck(p)
  <2>1. pc' \in [Procs -> PCs] /\ killed' \in [Procs -> BOOLEAN] /\ faults' \in Nat
    <3>1. WriteOn(p, todo[p], nwrite)
      BY <1>1 DEF WriteCheck
    <3>2. QED
      BY <1>d, <3>1
  <2>2. UNCHANGED <<ring, ends, todo, calls>>
    BY <1>1 DEF WriteCheck
  <2>3. QED
    BY <1>0, <2>1, <2>2 DEF TypeOK, Types, ring, ends
<1>2. CASE WritePut(p)
  <2>1. todo[p] # 0 /\ <<p, todo[p]>> \in Bytes /\ todo[p] - 1 \in 0..MAXSIZE
    BY <1>2, <1>b DEF WritePut, At, Busy
  <2>2. /\ data' \in [0..(PIPESIZE - 1) -> Bytes]
        /\ todo' \in [Procs -> 0..MAXSIZE]
        /\ nwrite' \in 0..(UINT - 1)
    BY <1>0, <1>2, <1>a, <1>b, <2>1 DEF WritePut, Types
  <2>3. QED
    BY <1>0, <1>2, <1>d, <2>2 DEF WritePut, TypeOK, Types, ends
<1>3. CASE ReadCheck(p)
  <2>1. /\ pc' \in [Procs -> PCs] /\ ch' \in [Procs -> Bytes] /\ nread' \in 0..(UINT - 1)
        /\ killed' \in [Procs -> BOOLEAN] /\ faults' \in Nat
    <3>1. CASE nread = nwrite /\ "w" \in open
      BY <1>0, <1>3, <1>m, <3>1 DEF ReadCheck, Goto, Types, PCs
    <3>2. CASE ~(nread = nwrite /\ "w" \in open)
      BY <1>0, <1>3, <1>e, <3>2 DEF ReadCheck, Types
    <3>3. QED
      BY <3>1, <3>2
  <2>2. QED
    BY <1>0, <1>3, <2>1 DEF ReadCheck, TypeOK, Types, ends
<1>4. CASE CopyOut(p)
  <2>1. todo' \in [Procs -> 0..MAXSIZE]
    BY <1>0, <1>4, <1>b DEF CopyOut, At, Busy, Types
  <2>2. QED
    BY <1>0, <1>4, <1>e, <2>1 DEF CopyOut, TypeOK, Types, ends, bounds
<1>5. CASE CopyInFails(p) \/ CopyOutFails(p)
  <2>1. pc' \in [Procs -> PCs] /\ faults' \in Nat
    BY <1>0, <1>5, <1>c DEF CopyInFails, CopyOutFails, PCs
  <2>2. QED
    BY <1>0, <1>5, <2>1 DEF CopyInFails, CopyOutFails, TypeOK, Types, ring, ends
<1>6. CASE PipeClose(p)
  BY <1>0, <1>6, <1>c DEF PipeClose, WakePeers, TypeOK, Types, ring, bounds, PCs
<1>7. ASSUME NEW n \in Sizes, Write(p, n) \/ Read(p, n) PROVE TypeOK'
  <2>1. /\ pc' \in [Procs -> PCs] /\ todo' \in [Procs -> 0..MAXSIZE] /\ calls' \in Nat
    <3>1. n \in 0..MAXSIZE
      BY Constants
    <3>2. todo' \in [Procs -> 0..MAXSIZE] /\ calls' \in Nat
      BY <1>0, <1>7, <3>1 DEF Write, Read, Types
    <3>3. pc' \in [Procs -> PCs]
      BY <1>0, <1>7 DEF Write, Read, Goto, Types, PCs
    <3>4. QED
      BY <3>2, <3>3
  <2>2. QED
    BY <1>0, <1>7, <2>1 DEF Write, Read, TypeOK, Types, ring, ends
<1>8. ASSUME NEW q \in Procs, Fork(p, q) PROVE TypeOK'
  BY <1>0, <1>8 DEF Fork, Goto, Dup, TypeOK, Types, ring, bounds, PCs
<1>9. ASSUME NEW e \in Ends, Close(p, e) PROVE TypeOK'
  <2>1. ref[e] \in Nat /\ ref[e] # 0
    BY <1>0, <1>9, Held DEF Types, Close
  <2>2. ref' \in [Ends -> Nat] /\ fds' \in [Procs -> SUBSET Ends]
    BY <1>0, <1>9, <2>1 DEF Types, Close
  <2>3. pc' \in [Procs -> PCs] /\ closing' \in [Procs -> Ends \cup {"none"}]
    <3>1. e \in Ends
      BY <1>0, <1>9 DEF Types, Close
    <3>2. CASE UNCHANGED <<closing, pc>>
      BY <1>0, <3>2 DEF Types, PCs
    <3>3. CASE closing' = [closing EXCEPT ![p] = e] /\ Goto(p, "pipeclose")
      BY <1>0, <3>1, <3>3 DEF Types, Goto, PCs
    <3>4. QED
      BY <1>9, <3>2, <3>3 DEF Close
  <2>4. QED
    BY <1>0, <1>9, <2>2, <2>3 DEF Close, TypeOK, Types, ring, bounds
<1>10. CASE Kill(p)
  BY <1>0, <1>10 DEF Kill, TypeOK, Types, ring, ends, PCs
<1>11. QED
  BY <1>1, <1>2, <1>3, <1>4, <1>5, <1>6, <1>7, <1>8, <1>9, <1>10 DEF Kernel, User

-----------------------------------------------------------------------------
(* Descriptors and ends *)

LEMMA EndsMove ==
  ASSUME NEW p \in Procs, Kernel(p) \/ User(p)
  PROVE  \/ UNCHANGED ends
         \/ PipeClose(p)
         \/ \E q \in Procs : Fork(p, q)
         \/ \E e \in Ends : Close(p, e)
  BY DEF Kernel, User, WriteCheck, WritePut, ReadCheck, CopyOut, CopyInFails, CopyOutFails,
         Write, Read, Kill

LEMMA CountStep ==
  ASSUME TypeOK, Busy, Counted, NEW p \in Procs, Kernel(p) \/ User(p)
  PROVE  Counted'
<1>0. Types /\ \A e \in Ends : IsFiniteSet(Holders(e))
  BY TypesAre, Constants, FS_Subset DEF Holders
<1>1. CASE UNCHANGED ends \/ PipeClose(p)
  <2>1. ref' = ref /\ fds' = fds
    BY <1>1 DEF ends, PipeClose
  <2>2. QED
    BY <2>1 DEF Counted, Holders
<1>2. ASSUME NEW q \in Procs, Fork(p, q), NEW e \in Ends PROVE ref'[e] = Cardinality(Holders(e)')
  <2>1. p # q /\ fds[q] = {} /\ q \notin Holders(e) /\ fds' = [fds EXCEPT ![q] = fds[p]]
    BY <1>2 DEF Fork, At, Busy, Holders
  <2>2. CASE e \in fds[p]
    <3>1. Holders(e)' = Holders(e) \cup {q}
      BY <1>0, <2>1, <2>2 DEF Holders, Types
    <3>2. ref'[e] = ref[e] + 1
      BY <1>2, <2>2 DEF Fork, Dup
    <3>3. QED
      BY <1>0, <2>1, <3>1, <3>2, FS_AddElement DEF Counted
  <2>3. CASE e \notin fds[p]
    <3>1. Holders(e)' = Holders(e)
      BY <1>0, <2>1, <2>3 DEF Holders, Types
    <3>2. QED
      BY <1>2, <2>3, <3>1 DEF Fork, Counted
  <2>4. QED
    BY <2>2, <2>3
<1>3. ASSUME NEW d \in Ends, Close(p, d), NEW e \in Ends PROVE ref'[e] = Cardinality(Holders(e)')
  <2>1. p \in Holders(d) /\ fds' = [fds EXCEPT ![p] = @ \ {d}] /\ ref' = [ref EXCEPT ![d] = @ - 1]
    BY <1>3 DEF Close, Holders
  <2>2. CASE e = d
    <3>1. Holders(e)' = Holders(e) \ {p}
      BY <1>0, <2>1, <2>2 DEF Holders, Types
    <3>2. ref'[e] = ref[e] - 1
      BY <1>0, <2>1, <2>2 DEF Types
    <3>3. QED
      BY <1>0, <2>1, <2>2, <3>1, <3>2, FS_RemoveElement DEF Counted
  <2>3. CASE e # d
    <3>1. Holders(e)' = Holders(e)
      BY <1>0, <2>1, <2>3 DEF Holders, Types
    <3>2. QED
      BY <1>0, <2>1, <2>3, <3>1 DEF Types, Counted
  <2>4. QED
    BY <2>2, <2>3
<1>4. QED
  BY <1>1, <1>2, <1>3, EndsMove DEF Counted

LEMMA OpenStep ==
  ASSUME TypeOK, Busy, Counted, OpenEnds, freed <=> open = {},
         NEW p \in Procs, Kernel(p) \/ User(p)
  PROVE  OpenEnds' /\ (freed <=> open = {})'
<1>0. Types
  BY TypesAre
<1>1. CASE UNCHANGED ends
  BY <1>1 DEF ends, OpenEnds
<1>2. CASE PipeClose(p)
  <2>1. /\ closing[p] \in Ends /\ open' = open \ {closing[p]}
        /\ closing' = [closing EXCEPT ![p] = "none"] /\ ref' = ref
        /\ freed' = (freed \/ open' = {})
    BY <1>0, <1>2 DEF PipeClose, At, Busy, Types
  <2>2. OpenEnds'
    BY <1>0, <2>1 DEF OpenEnds, Types, Ends
  <2>3. QED
    BY <2>1, <2>2
<1>3. ASSUME NEW q \in Procs, Fork(p, q) PROVE OpenEnds' /\ (freed <=> open = {})'
  <2>1. \A e \in Ends : ref'[e] = ref[e] \/ (ref[e] # 0 /\ ref'[e] # 0)
    <3>1. ASSUME NEW e \in Ends, e \in fds[p] PROVE ref[e] # 0 /\ ref'[e] # 0
      <4>1. ref[e] \in Nat /\ ref[e] # 0
        BY <1>0, <3>1, Held DEF Types
      <4>2. ref'[e] = ref[e] + 1
        BY <1>3, <3>1 DEF Fork, Dup
      <4>3. QED
        BY <4>1, <4>2
    <3>2. QED
      BY <1>3, <3>1 DEF Fork
  <2>2. open' = open /\ closing' = closing /\ freed' = freed
    BY <1>3 DEF Fork
  <2>3. QED
    BY <2>1, <2>2 DEF OpenEnds
<1>4. ASSUME NEW d \in Ends, Close(p, d) PROVE OpenEnds' /\ (freed <=> open = {})'
  <2>1. /\ ref[d] \in Nat /\ ref[d] # 0 /\ closing[p] = "none"
        /\ ref' = [ref EXCEPT ![d] = @ - 1] /\ open' = open /\ freed' = freed
    BY <1>0, <1>4, Held DEF Close, At, Busy, Types
  <2>2. ref'[d] = ref[d] - 1 /\ \A e \in Ends : e # d => ref'[e] = ref[e]
    BY <1>0, <2>1 DEF Types
  <2>3. CASE ref[d] > 1
    BY <1>0, <1>4, <2>1, <2>2, <2>3 DEF Close, OpenEnds
  <2>4. CASE ref[d] = 1
    <3>1. closing' = [closing EXCEPT ![p] = d] /\ ref'[d] = 0
      BY <1>4, <2>1, <2>2, <2>4 DEF Close
    <3>2. \A q \in Procs : closing[q] # d
      BY <2>4 DEF OpenEnds
    <3>3. /\ \A q \in Procs : closing'[q] = IF q = p THEN d ELSE closing[q]
          /\ d \in open /\ d # "none"
      BY <1>0, <2>4, <3>1 DEF Types, OpenEnds, Ends
    <3>4. ASSUME NEW e \in Ends
          PROVE  /\ e \in open' <=> ref'[e] # 0 \/ \E q \in Procs : closing'[q] = e
                 /\ \A q \in Procs : closing'[q] = e =>
                      ref'[e] = 0 /\ \A r \in Procs : closing'[r] = e => r = q
      <4>1. CASE e = d
        BY <2>1, <3>1, <3>2, <3>3, <4>1
      <4>2. CASE e # d
        <5>1. \A q \in Procs : closing'[q] = e <=> closing[q] = e
          BY <2>1, <3>3, <4>2 DEF Ends
        <5>2. QED
          BY <2>1, <2>2, <4>2, <5>1 DEF OpenEnds
      <4>3. QED
        BY <4>1, <4>2
    <3>5. QED
      BY <2>1, <3>4 DEF OpenEnds
  <2>5. QED
    BY <2>1, <2>3, <2>4
<1>5. QED
  BY <1>1, <1>2, <1>3, <1>4, EndsMove

LEMMA BusyStep ==
  ASSUME TypeOK, Busy, NEW p \in Procs, Kernel(p) \/ User(p)
  PROVE  Busy'
<1> DEFINE Good(q) == /\ InWrite(q) => q \in Writers /\ "w" \in fds[q]
                      /\ InRead(q) => "r" \in fds[q]
                      /\ pc[q] \in {"copyin", "full", "copyout"} => todo[q] # 0
                      /\ At(q, "pipeclose") <=> closing[q] # "none"
                      /\ At(q, "unborn") => fds[q] = {}
<1>0. Types
  BY TypesAre
<1>1. ASSUME NEW q \in Procs, q # p PROVE Good(q)'
  <2>1. todo'[q] = todo[q]
    BY <1>0, <1>1 DEF Types, Kernel, User, WriteCheck, WritePut, ReadCheck, CopyOut, CopyInFails,
       CopyOutFails, PipeClose, Write, Read, Fork, Close, Kill
  <2>2. closing'[q] = closing[q] /\ (fds'[q] = fds[q] \/ Fork(p, q))
    <3>1. CASE UNCHANGED ends \/ PipeClose(p)
      BY <1>0, <1>1, <3>1 DEF Types, ends, PipeClose
    <3>2. ASSUME NEW r \in Procs, Fork(p, r) PROVE closing'[q] = closing[q] /\ (fds'[q] = fds[q] \/ Fork(p, q))
      BY <1>0, <1>1, <3>2 DEF Types, Fork
    <3>3. ASSUME NEW e \in Ends, Close(p, e) PROVE closing'[q] = closing[q] /\ fds'[q] = fds[q]
      BY <1>0, <1>1, <3>3 DEF Types, Close
    <3>4. QED
      BY <3>1, <3>2, <3>3, EndsMove
  <2>3. ASSUME Fork(p, q) PROVE pc'[q] = "user" /\ closing[q] = "none"
    BY <1>0, <2>3 DEF Fork, Goto, At, Types, Busy
  <2>4. CASE Fork(p, q)
    BY <2>2, <2>3, <2>4 DEF InWrite, InRead, At
  <2>5. CASE ~Fork(p, q)
    BY <1>1, <2>1, <2>2, <2>5, Others DEF InWrite, InRead, At, Busy
  <2>6. QED
    BY <2>4, <2>5
<1>2. Good(p)'
  <2>1. CASE WriteCheck(p)
    <3>1. pc'[p] \in {"user", "full", "copyin"} /\ (pc'[p] # "user" => todo[p] # 0)
      BY <2>1, WriteMoves DEF WriteCheck
    <3>2. p \in Writers /\ "w" \in fds[p] /\ closing[p] = "none"
      BY <2>1 DEF WriteCheck, MayPut, Overruns, At, Busy, InWrite
    <3>3. QED
      BY <2>1, <3>1, <3>2 DEF WriteCheck, ends, InWrite, InRead, At
  <2>2. CASE WritePut(p)
    <3>1. pc'[p] \in {"user", "full", "copyin"} /\ (pc'[p] # "user" => todo[p] - 1 # 0)
      BY <2>2, WriteMoves DEF WritePut
    <3>2. p \in Writers /\ "w" \in fds[p] /\ closing[p] = "none"
      BY <2>2 DEF WritePut, At, Busy, InWrite
    <3>3. todo'[p] = todo[p] - 1
      BY <1>0, <2>2 DEF WritePut, Types
    <3>4. QED
      BY <2>2, <3>1, <3>2, <3>3 DEF WritePut, ends, InWrite, InRead, At
  <2>3. CASE ReadCheck(p)
    <3>1. pc'[p] \in {"user", "empty", "copyout"} /\ (pc'[p] = "copyout" => todo[p] # 0)
      <4>1. (pc'[p] = "user" \/ pc'[p] = "empty") \/ ReadOn(p, todo[p])
        BY <1>0, <2>3 DEF ReadCheck, Goto, Types
      <4>2. QED
        BY <4>1, ReadMoves
    <3>2. "r" \in fds[p] /\ closing[p] = "none"
      BY <2>3 DEF ReadCheck, At, Busy, InRead
    <3>3. QED
      BY <2>3, <3>1, <3>2 DEF ReadCheck, ends, InWrite, InRead, At
  <2>4. CASE CopyOut(p)
    <3>1. pc'[p] \in {"user", "copyout"} /\ (pc'[p] = "copyout" => todo[p] - 1 # 0)
      BY <2>4, ReadMoves DEF CopyOut
    <3>2. "r" \in fds[p] /\ closing[p] = "none"
      BY <2>4 DEF CopyOut, At, Busy, InRead
    <3>3. todo'[p] = todo[p] - 1
      BY <1>0, <2>4 DEF CopyOut, Types
    <3>4. QED
      BY <2>4, <3>1, <3>2, <3>3 DEF CopyOut, ends, InWrite, InRead, At
  <2>5. CASE CopyInFails(p) \/ CopyOutFails(p)
    <3>1. pc'[p] = "user" /\ closing[p] = "none" /\ closing' = closing
      BY <1>0, <2>5 DEF CopyInFails, CopyOutFails, WakeReaders, WakeWriters, At, Types, Busy, ends
    <3>2. QED
      BY <3>1 DEF InWrite, InRead, At
  <2>6. CASE PipeClose(p)
    <3>1. pc'[p] = "user" /\ closing'[p] = "none"
      BY <1>0, <2>6 DEF PipeClose, WakePeers, WakeReaders, WakeWriters, Types
    <3>2. QED
      BY <3>1 DEF InWrite, InRead, At
  <2>7. ASSUME NEW n \in Sizes, Write(p, n) \/ Read(p, n) PROVE Good(p)'
    <3>1. closing[p] = "none"
      BY <2>7 DEF Write, Read, At, Busy
    <3>2. \/ pc'[p] = "write" /\ p \in Writers /\ "w" \in fds[p]
          \/ pc'[p] = "read" /\ "r" \in fds[p]
      BY <1>0, <2>7 DEF Write, Read, Goto, Types
    <3>3. QED
      BY <2>7, <3>1, <3>2 DEF Write, Read, ends, InWrite, InRead, At
  <2>8. ASSUME NEW q \in Procs, Fork(p, q) PROVE Good(p)'
    <3>1. pc'[p] = "user" /\ closing'[p] = "none"
      BY <1>0, <2>8 DEF Fork, Goto, At, Types, Busy
    <3>2. QED
      BY <3>1 DEF InWrite, InRead, At
  <2>9. ASSUME NEW e \in Ends, Close(p, e) PROVE Good(p)'
    <3>1. \/ pc'[p] = "user" /\ closing'[p] = "none"
          \/ pc'[p] = "pipeclose" /\ closing'[p] = e
      BY <1>0, <2>9 DEF Close, Goto, At, Types, Busy
    <3>2. QED
      BY <3>1 DEF InWrite, InRead, At, Ends
  <2>10. CASE Kill(p)
    <3>1. \/ pc'[p] = pc[p]
          \/ pc[p] = "empty" /\ pc'[p] = "read"
          \/ pc[p] = "full" /\ pc'[p] = "write"
      BY <1>0, <2>10 DEF Kill, Types
    <3>2. QED
      BY <2>10, <3>1 DEF Kill, ends, InWrite, InRead, At, Busy
  <2>11. QED
    BY <2>1, <2>2, <2>3, <2>4, <2>5, <2>6, <2>7, <2>8, <2>9, <2>10 DEF Kernel, User
<1>3. QED
  BY <1>1, <1>2 DEF Busy

-----------------------------------------------------------------------------
(* Room in the ring *)

LEMMA Distances ==
  ASSUME NEW r \in 0..(UINT - 1), NEW w \in 0..(UINT - 1)
  PROVE  /\ Distance(r, w) \in 0..(UINT - 1)
         /\ Distance(r, w) = 0 <=> r = w
         /\ Succ(w) \in 0..(UINT - 1) /\ Succ(r) \in 0..(UINT - 1)
         /\ Distance(r, w) < UINT - 1 => Distance(r, Succ(w)) = Distance(r, w) + 1
         /\ r # w => Distance(Succ(r), w) = Distance(r, w) - 1
<1>1. UINT \in Nat /\ UINT > 1
  BY Constants
<1>2. QED
  BY <1>1 DEF Distance, Succ

LEMMA RoomBound ==
  ASSUME TypeOK, Room
  PROVE  /\ nread \in 0..(UINT - 1) /\ nwrite \in 0..(UINT - 1)
         /\ Distance(nread, nwrite) \in 0..PIPESIZE
         /\ \A p \in Procs : WritePut(p) => Distance(nread, nwrite) < PIPESIZE
<1>1. /\ nread \in 0..(UINT - 1) /\ nwrite \in 0..(UINT - 1)
      /\ Distance(nread, nwrite) \in Nat /\ PIPESIZE \in Nat
  BY TypesAre, Distances, Constants DEF Types
<1>2. Distance(nread, nwrite) <= PIPESIZE
  BY DEF Room
<1>3. ASSUME NEW p \in Procs, WritePut(p) PROVE ~Full(nread, nwrite)
  BY <1>3 DEF WritePut, MayPut, Overruns, Room
<1>4. QED
  BY <1>1, <1>2, <1>3 DEF Full

\* Steps that leave nwrite alone, and with Races nobody at a full ring in copyin.
LEMMA RoomStays ==
  ASSUME TypeOK, Room, nwrite' = nwrite,
         nread' = nread \/ (nread # nwrite /\ nread' = Succ(nread)),
         \A q \in Procs : At(q, "copyin")' => At(q, "copyin") \/ ~Full(nread, nwrite)
  PROVE  Room'
<1> DEFINE d == Distance(nread, nwrite)
<1>0. d \in 0..PIPESIZE /\ PIPESIZE \in Nat
  BY RoomBound, Constants
<1>1. Distance(nread, nwrite)' = d \/ Distance(nread, nwrite)' = d - 1
  <2>1. Distance(nread, nwrite)' = Distance(nread', nwrite')
    BY DEF Distance
  <2>2. nread # nwrite => Distance(Succ(nread), nwrite) = d - 1
    BY RoomBound, Distances
  <2>3. QED
    BY <2>1, <2>2
<1>2. Distance(nread, nwrite)' <= PIPESIZE
  BY <1>0, <1>1
<1>3. Full(nread, nwrite)' => Full(nread, nwrite)
  BY <1>0, <1>1 DEF Full
<1>4. QED
  BY <1>2, <1>3 DEF Room, Overruns

LEMMA RoomStep ==
  ASSUME Spared, TypeOK, Busy, Room, NEW p \in Procs, Kernel(p) \/ User(p)
  PROVE  Room'
<1> DEFINE d == Distance(nread, nwrite)
<1>0. /\ nread \in 0..(UINT - 1) /\ nwrite \in 0..(UINT - 1) /\ d \in 0..PIPESIZE
      /\ PIPESIZE \in Nat /\ UINT \in Nat /\ UINT > PIPESIZE
  BY RoomBound, Constants
<1>1. CASE WriteCheck(p)
  <2>1. WriteOn(p, todo[p], nwrite) /\ nread' = nread /\ nwrite' = nwrite
    BY <1>1 DEF WriteCheck, ring
  <2>2. At(p, "copyin")' => ~Full(nread, nwrite)
    BY <2>1, WriteMoves DEF At
  <2>3. \A q \in Procs \ {p} : At(q, "copyin")' => At(q, "copyin")
    BY Others DEF At
  <2>4. QED
    BY <2>1, <2>2, <2>3, RoomStays
<1>2. CASE WritePut(p)
  <2>1. /\ WriteOn(p, todo[p] - 1, Succ(nwrite)) /\ nread' = nread /\ nwrite' = Succ(nwrite)
        /\ p \in Writers
    BY <1>2 DEF WritePut, At, Busy, InWrite
  <2>2. d < PIPESIZE /\ Distance(nread, nwrite)' = d + 1
    <3>1. d < PIPESIZE
      BY <1>2, RoomBound
    <3>2. Distance(nread, nwrite)' = Distance(nread', nwrite')
      BY DEF Distance
    <3>3. QED
      BY <1>0, <2>1, <3>1, <3>2, Distances
  <2>3. At(p, "copyin")' => ~Full(nread, nwrite)'
    BY <2>1, WriteMoves DEF At, Full, Distance
  <2>4. ASSUME Races = TRUE, NEW q \in Procs \ {p} PROVE ~At(q, "copyin")'
    <3>1. q \notin Writers
      BY <2>1, <2>4 DEF Spared
    <3>2. ~At(q, "copyin")
      BY <3>1 DEF Busy, InWrite, At
    <3>3. QED
      BY <3>2, Others DEF At
  <2>5. Races => \A q \in Procs : ~Overruns(q)'
    BY <2>3, <2>4, PipeAssumption DEF PipeAssumption, Overruns
  <2>6. QED
    BY <1>0, <2>1, <2>2, <2>5 DEF Room
<1>3. CASE ~WriteCheck(p) /\ ~WritePut(p)
  <2>0. Types
    BY TypesAre
  <2>1. ASSUME pc'[p] = "copyin" PROVE pc[p] = "copyin"
    <3>1. CASE ReadCheck(p) \/ CopyOut(p)
      <4>1. (\E n : ReadOn(p, n)) \/ pc'[p] = "user" \/ pc'[p] = "empty"
        BY <2>0, <3>1 DEF ReadCheck, CopyOut, Goto, Types
      <4>2. QED
        BY <2>1, <4>1, ReadMoves
    <3>2. CASE CopyInFails(p) \/ CopyOutFails(p) \/ PipeClose(p)
      BY <2>0, <2>1, <3>2 DEF CopyInFails, CopyOutFails, PipeClose, WakePeers, WakeReaders, WakeWriters, Types
    <3>3. CASE User(p)
      <4>1. CASE Kill(p)
        BY <2>0, <2>1, <4>1 DEF Kill, Types
      <4>2. CASE ~Kill(p)
        BY <2>0, <2>1, <3>3, <4>2 DEF User, Write, Read, Fork, Close, Goto, Types, At
      <4>3. QED
        BY <4>1, <4>2
    <3>4. QED
      BY <1>3, <3>1, <3>2, <3>3 DEF Kernel
  <2>2. \A q \in Procs : At(q, "copyin")' => At(q, "copyin")
    BY <2>1, Others DEF At
  <2>3. \/ nread' = nread /\ nwrite' = nwrite
        \/ nread # nwrite /\ nread' = Succ(nread) /\ nwrite' = nwrite
    <3>1. CASE ReadCheck(p) \/ CopyOut(p)
      BY <3>1, ReadMoves DEF ReadCheck, CopyOut
    <3>2. CASE ~ReadCheck(p) /\ ~CopyOut(p)
      BY <1>3, <3>2 DEF Kernel, User, CopyInFails, CopyOutFails, PipeClose, Write, Read, Fork, Close, Kill, ring
    <3>3. QED
      BY <3>1, <3>2
  <2>4. QED
    BY <2>2, <2>3, RoomStays
<1>4. QED
  BY <1>1, <1>2, <1>3

-----------------------------------------------------------------------------
(* No wakeup is lost *)

LEMMA KilledStays ==
  ASSUME TypeOK, NEW p \in Procs, Kernel(p) \/ User(p), NEW q \in Procs, killed[q]
  PROVE  killed'[q]
<1>1. killed \in [Procs -> BOOLEAN]
  BY DEF TypeOK
<1>2. killed' = killed \/ killed' = [killed EXCEPT ![p] = TRUE]
  <2>1. CASE WriteCheck(p) \/ WritePut(p)
    BY <2>1 DEF WriteCheck, WritePut, WriteOn, MayMissKill
  <2>2. CASE ~WriteCheck(p) /\ ~WritePut(p)
    BY <2>2 DEF Kernel, User, ReadCheck, MayMissKill, CopyOut, CopyInFails, CopyOutFails, PipeClose,
                Write, Read, Fork, Close, Kill
  <2>3. QED
    BY <2>1, <2>2
<1>3. QED
  BY <1>1, <1>2, Zenon

\* Steps of others do not turn p away from waking readers and writers.
LEMMA WakersStay ==
  ASSUME TypeOK, NEW p \in Procs, Kernel(p) \/ User(p), NEW r \in Procs \ {p}
  PROVE  /\ At(r, "copyin") => At(r, "copyin")'
         /\ At(r, "copyout") => At(r, "copyout")'
         /\ LeftWrite(r) => LeftWrite(r)'
<1>1. pc[r] \in {"copyin", "copyout", "user", "pipeclose"} => pc'[r] = pc[r]
  BY Others
<1>2. killed[r] => killed'[r]
  BY KilledStays
<1>3. QED
  BY <1>1, <1>2 DEF At, LeftWrite

\* An end that somebody uses is open.
LEMMA InUse ==
  ASSUME TypeOK, Busy, Counted, OpenEnds, NEW p \in Procs
  PROVE  /\ fds[p] \subseteq open
         /\ InWrite(p) => "w" \in open
         /\ InRead(p) => "r" \in open
         /\ At(p, "pipeclose") => closing[p] \in open
<1>0. Types
  BY TypesAre
<1>1. fds[p] \subseteq open
  BY <1>0, Held DEF OpenEnds, Types
<1>2. At(p, "pipeclose") => closing[p] \in open
  BY <1>0 DEF Busy, OpenEnds, Types
<1>3. QED
  BY <1>1, <1>2 DEF Busy

\* What p's steps leave of the ends.
LEMMA OpenStays ==
  ASSUME NEW p \in Procs, Kernel(p) \/ User(p)
  PROVE  open' = open \/ (PipeClose(p) /\ open' = open \ {closing[p]})
  BY EndsMove DEF ends, PipeClose, Fork, Close

LEMMA ReaderSleeps ==
  ASSUME TypeOK, Busy, Counted, OpenEnds, Room, SleepIsJustified,
         NEW p \in Procs, Kernel(p) \/ User(p),
         NEW q \in Procs \ {p}, At(q, "empty")'
  PROVE  /\ "w" \in open'
         /\ nread' # nwrite' => \E r \in Procs : At(r, "copyin")' \/ LeftWrite(r)'
<1> DEFINE Wakers == \E r \in Procs : At(r, "copyin")' \/ LeftWrite(r)'
<1>0. Types
  BY TypesAre
<1>1. At(q, "empty") /\ "r" \in open
  <2>1. At(q, "empty")
    BY Others DEF At
  <2>2. QED
    BY <2>1, InUse DEF InRead, At
<1>2. ~Woken(p, "empty", "read")
  BY <1>1 DEF Woken, At
<1>3. /\ "w" \in open
      /\ nread # nwrite => \E r \in Procs : At(r, "copyin") \/ LeftWrite(r)
  BY <1>1 DEF SleepIsJustified
<1>4. "w" \in open'
  <2>1. PipeClose(p) => closing[p] # "w"
    <3>1. ASSUME PipeClose(p), closing[p] = "w" PROVE Woken(p, "empty", "read")
      BY <1>0, <3>1 DEF PipeClose, WakePeers, WakeReaders, Types, Woken
    <3>2. QED
      BY <1>2, <3>1
  <2>2. QED
    BY <1>3, <2>1, OpenStays
<1>5. ASSUME nread # nwrite, ~(At(p, "copyin") \/ LeftWrite(p)) PROVE Wakers
  <2>1. PICK r \in Procs : At(r, "copyin") \/ LeftWrite(r)
    BY <1>3, <1>5
  <2>2. r # p
    BY <1>5, <2>1
  <2>3. QED
    BY <2>1, <2>2, WakersStay
<1>6. ASSUME nread' # nwrite' PROVE Wakers
  <2>a. ASSUME NEW n, NEW w, p \in Writers, WriteOn(p, n, w) PROVE Wakers
    <3>1. \/ HungUp(p) /\ pc'[p] = "user"
          \/ pc'[p] = "copyin"
      BY <1>2, <2>a, WriteMoves
    <3>2. CASE HungUp(p) /\ pc'[p] = "user"
      <4>1. killed[p]
        BY <1>1, <3>2 DEF HungUp
      <4>2. LeftWrite(p)'
        BY <2>a, <3>2, <4>1, KilledStays DEF LeftWrite
      <4>3. QED
        BY <4>2
    <3>3. QED
      BY <3>1, <3>2 DEF At
  <2>1. CASE WriteCheck(p)
    <3>1. nread' = nread /\ nwrite' = nwrite
      BY <2>1 DEF WriteCheck, ring
    <3>2. CASE At(p, "copyin")
      <4>1. WriteOn(p, todo[p], nwrite) /\ p \in Writers
        BY <2>1, <3>2 DEF WriteCheck, At, Busy, InWrite
      <4>2. QED
        BY <2>a, <4>1
    <3>3. CASE ~At(p, "copyin")
      <4>1. ~LeftWrite(p)
        BY <2>1, <3>3 DEF WriteCheck, MayPut, Overruns, At, LeftWrite
      <4>2. QED
        BY <1>5, <1>6, <3>1, <3>3, <4>1
    <3>4. QED
      BY <3>2, <3>3
  <2>2. CASE WritePut(p)
    <3>1. p \in Writers /\ WriteOn(p, todo[p] - 1, Succ(nwrite))
      BY <2>2 DEF WritePut, At, Busy, InWrite
    <3>2. QED
      BY <2>a, <3>1
  <2>3. CASE ReadCheck(p) \/ CopyOut(p)
    <3>1. ~(At(p, "copyin") \/ LeftWrite(p))
      BY <2>3 DEF ReadCheck, CopyOut, At, LeftWrite
    <3>2. nwrite' = nwrite /\ (nread' = nread \/ nread # nwrite)
      BY <2>3, ReadMoves DEF ReadCheck, CopyOut
    <3>3. QED
      BY <1>5, <1>6, <3>1, <3>2
  <2>4. CASE CopyInFails(p)
    <3>1. Woken(p, "empty", "read")
      BY <1>0, <2>4 DEF CopyInFails, WakeReaders, Types, Woken
    <3>2. QED
      BY <1>2, <3>1
  <2>5. CASE CopyOutFails(p)
    <3>1. nread' = nread /\ nwrite' = nwrite
      BY <2>5 DEF CopyOutFails, ring
    <3>2. ~(At(p, "copyin") \/ LeftWrite(p))
      BY <2>5 DEF CopyOutFails, At, LeftWrite
    <3>3. QED
      BY <1>5, <1>6, <3>1, <3>2
  <2>6. CASE PipeClose(p) \/ User(p)
    <3>1. nread' = nread /\ nwrite' = nwrite
      BY <2>6 DEF PipeClose, User, Write, Read, Fork, Close, Kill, ring
    <3>2. At(p, "copyin") => At(p, "copyin")'
      <4>1. At(p, "copyin") => \/ Kill(p)
                               \/ \E u \in Procs : Fork(p, u)
        BY <2>6 DEF PipeClose, User, Write, Read, Close, At
      <4>2. Kill(p) => (At(p, "copyin") => At(p, "copyin")')
        BY <1>0 DEF Kill, Types, At
      <4>3. QED
        BY <4>1, <4>2 DEF Fork, At
    <3>3. LeftWrite(p) => LeftWrite(p)'
      <4>1. ASSUME LeftWrite(p) PROVE pc'[p] \in {"user", "pipeclose"}
        <5>1. CASE PipeClose(p)
          BY <1>0, <5>1 DEF PipeClose, WakePeers, WakeReaders, WakeWriters, Types
        <5>2. CASE User(p)
          BY <1>0, <4>1, <5>2 DEF User, Write, Read, Fork, Close, Kill, Goto, Types, LeftWrite, At
        <5>3. QED
          BY <2>6, <5>1, <5>2
      <4>2. QED
        BY <4>1, KilledStays DEF LeftWrite
    <3>4. CASE At(p, "copyin") \/ LeftWrite(p)
      BY <3>2, <3>3, <3>4
    <3>5. QED
      BY <1>5, <1>6, <3>1, <3>4
  <2>7. QED
    BY <2>1, <2>2, <2>3, <2>4, <2>5, <2>6 DEF Kernel
<1>7. QED
  BY <1>4, <1>6

LEMMA WriterSleeps ==
  ASSUME TypeOK, Room, SleepIsJustified,
         NEW p \in Procs, Kernel(p) \/ User(p),
         NEW q \in Procs \ {p}, At(q, "full")'
  PROVE  /\ "r" \in open'
         /\ ~Full(nread', nwrite') => \E r \in Procs : At(r, "copyout")'
<1> DEFINE Wakers == \E r \in Procs : At(r, "copyout")'
<1>0. Types
  BY TypesAre
<1>1. At(q, "full")
  BY Others DEF At
<1>2. ~Woken(p, "full", "write")
  BY <1>1 DEF Woken, At
<1>3. /\ "r" \in open
      /\ ~Full(nread, nwrite) => \E r \in Procs : At(r, "copyout")
  BY <1>1 DEF SleepIsJustified
<1>4. "r" \in open'
  <2>1. PipeClose(p) => closing[p] # "r"
    <3>1. ASSUME PipeClose(p), closing[p] = "r" PROVE Woken(p, "full", "write")
      BY <1>0, <3>1 DEF PipeClose, WakePeers, WakeWriters, Types, Woken
    <3>2. QED
      BY <1>2, <3>1
  <2>2. QED
    BY <1>3, <2>1, OpenStays
<1>5. ASSUME ~Full(nread, nwrite), ~At(p, "copyout") PROVE Wakers
  <2>1. PICK r \in Procs : At(r, "copyout")
    BY <1>3, <1>5
  <2>2. r # p
    BY <1>5, <2>1
  <2>3. QED
    BY <2>1, <2>2, WakersStay
<1>6. ASSUME ~Full(nread', nwrite') PROVE Wakers
  <2>1. CASE WritePut(p)
    <3>1. At(p, "copyin") /\ ~At(p, "copyout")
      BY <2>1 DEF WritePut, At
    <3>2. ~Full(nread, nwrite)
      BY <2>1, RoomBound, Constants DEF Full
    <3>3. QED
      BY <1>5, <3>1, <3>2
  <2>2. CASE ReadCheck(p) \/ CopyOut(p)
    <3>1. CASE \E n : ReadOn(p, n)
      <4>1. pc'[p] = "copyout"
        BY <1>2, <3>1, ReadMoves
      <4>2. QED
        BY <4>1 DEF At
    <3>2. CASE ~\E n : ReadOn(p, n)
      <4>1. ReadCheck(p) /\ nread' = nread /\ nwrite' = nwrite /\ ~At(p, "copyout")
        BY <2>2, <3>2 DEF ReadCheck, CopyOut, At
      <4>2. QED
        BY <1>5, <1>6, <4>1
    <3>3. QED
      BY <3>1, <3>2
  <2>3. CASE CopyOutFails(p)
    <3>1. Woken(p, "full", "write")
      BY <1>0, <2>3 DEF CopyOutFails, WakeWriters, Types, Woken
    <3>2. QED
      BY <1>2, <3>1
  <2>4. CASE WriteCheck(p) \/ CopyInFails(p) \/ PipeClose(p) \/ User(p)
    <3>1. nread' = nread /\ nwrite' = nwrite
      BY <2>4 DEF WriteCheck, CopyInFails, PipeClose, User, Write, Read, Fork, Close, Kill, ring
    <3>2. At(p, "copyout") => At(p, "copyout")'
      <4>1. At(p, "copyout") => \/ Kill(p)
                                \/ \E u \in Procs : Fork(p, u)
        BY <2>4 DEF WriteCheck, MayPut, Overruns, CopyInFails, PipeClose, User, Write, Read, Close, At
      <4>2. Kill(p) => (At(p, "copyout") => At(p, "copyout")')
        BY <1>0 DEF Kill, Types, At
      <4>3. QED
        BY <4>1, <4>2 DEF Fork, At
    <3>3. CASE At(p, "copyout")
      BY <3>2, <3>3
    <3>4. QED
      BY <1>5, <1>6, <3>1, <3>3
  <2>5. QED
    BY <2>1, <2>2, <2>3, <2>4 DEF Kernel
<1>7. QED
  BY <1>4, <1>6

\* Who goes to sleep has found the ring empty, or full.
LEMMA GoesToSleep ==
  ASSUME TypeOK, Busy, NEW p \in Procs, Kernel(p) \/ User(p)
  PROVE  /\ At(p, "empty")' => "w" \in open' /\ nread' = nwrite'
         /\ At(p, "full")' => "r" \in open' /\ Full(nread', nwrite')
<1>0. Types
  BY TypesAre
<1>1. CASE WriteCheck(p)
  <2>1. WriteOn(p, todo[p], nwrite) /\ open' = open /\ nread' = nread /\ nwrite' = nwrite
    BY <1>1 DEF WriteCheck, ends, ring
  <2>2. pc'[p] # "empty" /\ (pc'[p] = "full" => ~HungUp(p) /\ Full(nread, nwrite))
    BY <2>1, WriteMoves
  <2>3. QED
    BY <2>1, <2>2 DEF At, HungUp
<1>2. CASE WritePut(p)
  <2>1. WriteOn(p, todo[p] - 1, Succ(nwrite)) /\ open' = open /\ nread' = nread /\ nwrite' = Succ(nwrite)
    BY <1>2 DEF WritePut, ends
  <2>2. pc'[p] # "empty" /\ (pc'[p] = "full" => ~HungUp(p) /\ Full(nread, Succ(nwrite)))
    BY <2>1, WriteMoves
  <2>3. QED
    BY <2>1, <2>2 DEF At, HungUp
<1>3. CASE ReadCheck(p) \/ CopyOut(p)
  <2>1. CASE \E n : ReadOn(p, n)
    BY <2>1, ReadMoves DEF At
  <2>2. CASE ~\E n : ReadOn(p, n)
    BY <1>0, <1>3, <2>2 DEF ReadCheck, CopyOut, Goto, At, Types, ends
  <2>3. QED
    BY <2>1, <2>2
<1>4. CASE CopyInFails(p) \/ CopyOutFails(p) \/ PipeClose(p)
  BY <1>0, <1>4 DEF CopyInFails, CopyOutFails, PipeClose, WakePeers, WakeReaders, WakeWriters, Types, At
<1>5. CASE User(p)
  <2>1. pc'[p] \notin {"empty", "full"}
    <3>1. CASE Kill(p)
      BY <1>0, <3>1 DEF Kill, Types
    <3>2. CASE ~Kill(p)
      BY <1>0, <1>5, <3>2 DEF User, Write, Read, Fork, Close, Goto, Types, At
    <3>3. QED
      BY <3>1, <3>2
  <2>2. QED
    BY <2>1 DEF At
<1>6. QED
  BY <1>1, <1>2, <1>3, <1>4, <1>5 DEF Kernel

LEMMA SleepStep ==
  ASSUME TypeOK, Busy, Counted, OpenEnds, Room, SleepIsJustified,
         NEW p \in Procs, Kernel(p) \/ User(p)
  PROVE  SleepIsJustified'
<1>1. ASSUME NEW q \in Procs
      PROVE  /\ At(q, "empty")' =>
                  /\ "w" \in open'
                  /\ nread' # nwrite' => \E r \in Procs : At(r, "copyin")' \/ LeftWrite(r)'
             /\ At(q, "full")' =>
                  /\ "r" \in open'
                  /\ ~Full(nread', nwrite') => \E r \in Procs : At(r, "copyout")'
  <2>1. CASE q = p
    BY <2>1, GoesToSleep
  <2>2. CASE q # p
    BY <2>2, ReaderSleeps, WriterSleeps
  <2>3. QED
    BY <2>1, <2>2
<1>2. Full(nread, nwrite)' <=> Full(nread', nwrite')
  BY DEF Full, Distance
<1>3. QED
  BY <1>1, <1>2 DEF SleepIsJustified

-----------------------------------------------------------------------------
(* The invariant *)

LEMMA InitIInv == Init => IInv
<1> SUFFICES ASSUME Init PROVE IInv
  OBVIOUS
<1> USE Constants
<1>0. PIPESIZE - 1 \in Nat /\ <<Creator, 1>> \in Bytes
  BY DEF Bytes
<1>1. TypeOK
  <2>1. /\ data \in [0..(PIPESIZE - 1) -> Bytes] /\ ch \in [Procs -> Bytes]
        /\ ref \in [Ends -> Nat] /\ fds \in [Procs -> SUBSET Ends]
        /\ closing \in [Procs -> Ends \cup {"none"}]
    BY <1>0 DEF Init
  <2>2. pc \in [Procs -> PCs] /\ todo \in [Procs -> 0..MAXSIZE] /\ killed \in [Procs -> BOOLEAN]
    BY DEF Init, PCs
  <2>3. /\ nread \in 0..(UINT - 1) /\ nwrite \in 0..(UINT - 1)
        /\ open \subseteq Ends /\ freed \in BOOLEAN /\ calls \in Nat /\ faults \in Nat
    BY DEF Init
  <2>4. QED
    BY <2>1, <2>2, <2>3 DEF TypeOK
<1>2. Busy
  BY DEF Init, Busy, InWrite, InRead, At
<1>3. Counted
  <2>1. \A e \in Ends : Holders(e) = {Creator}
    BY DEF Init, Holders
  <2>2. QED
    BY <2>1, FS_Singleton DEF Init, Counted
<1>4. OpenEnds /\ (freed <=> open = {})
  BY DEF Init, OpenEnds, Ends
<1>5. Room
  <2>1. Distance(nread, nwrite) = 0
    BY DEF Init, Distance
  <2>2. QED
    BY <2>1 DEF Init, Room, Overruns, At
<1>6. SleepIsJustified
  BY DEF Init, SleepIsJustified, At
<1>7. QED
  BY <1>1, <1>2, <1>3, <1>4, <1>5, <1>6 DEF IInv

LEMMA StepIInv == ASSUME Spared PROVE IInv /\ [Next]_vars => IInv'
<1> SUFFICES ASSUME IInv, [Next]_vars PROVE IInv'
  OBVIOUS
<1> USE DEF IInv
<1>1. CASE UNCHANGED vars
  <2>1. UNCHANGED <<data, nread, nwrite, ch, open, freed, ref, fds, closing, pc, todo, killed, calls, faults>>
    BY <1>1 DEF vars, ring, ends, bounds
  <2>2. TypeOK' /\ Busy' /\ OpenEnds' /\ (freed <=> open = {})'
    BY <2>1 DEF TypeOK, Busy, InWrite, InRead, At, OpenEnds
  <2>3. Counted' /\ Room'
    BY <2>1 DEF Counted, Holders, Room, Overruns, Full, Distance, At
  <2>4. SleepIsJustified'
    BY <2>1 DEF SleepIsJustified, LeftWrite, Full, Distance, At
  <2>5. QED
    BY <2>2, <2>3, <2>4
<1>2. ASSUME NEW p \in Procs, Kernel(p) \/ User(p) PROVE IInv'
  <2>1. TypeOK' /\ Busy' /\ Counted'
    BY <1>2, TypeStep, BusyStep, CountStep
  <2>2. OpenEnds' /\ (freed <=> open = {})'
    BY <1>2, OpenStep
  <2>3. Room' /\ SleepIsJustified'
    BY <1>2, RoomStep, SleepStep
  <2>4. QED
    BY <2>1, <2>2, <2>3
<1>3. QED
  BY <1>1, <1>2 DEF Next

\* The inductive invariant of read, write, fork, close and kill.
THEOREM Invariance == ASSUME Spared PROVE Spec => []IInv
<1>1. IInv /\ [Next]_vars => IInv'
  BY StepIInv
<1>2. QED
  BY <1>1, InitIInv, PTL DEF Spec

\* Every state of the pipe and its users is well formed.
THEOREM TypeCorrect == ASSUME Spared PROVE Spec => []TypeOK
<1>1. IInv => TypeOK
  BY DEF IInv
<1>2. QED
  BY <1>1, Invariance, PTL

\* A sleeping reader or writer that has something to do will be woken by who
\* is under way in pipewrite or piperead.
THEOREM NoLostWakeup == ASSUME Spared PROVE Spec => []SleepIsJustified
<1>1. IInv => SleepIsJustified
  BY DEF IInv
<1>2. QED
  BY <1>1, Invariance, PTL

\* pipeclose frees the page when, and only when, nobody has an end of it or
\* is in pipewrite or piperead.
THEOREM PageFreed == ASSUME Spared PROVE Spec => []FreedWhenUnused
<1>1. IInv => FreedWhenUnused
  BY InUse DEF IInv, FreedWhenUnused
<1>2. QED
  BY <1>1, Invariance, PTL

-----------------------------------------------------------------------------
(* Pipe implements Channel *)

Chan == [k \in 1..Distance(nread, nwrite) |-> data[Slot(nread + k - 1)]]

LEMMA ChanType ==
  ASSUME TypeOK, Room
  PROVE  /\ Chan \in [1..Distance(nread, nwrite) -> Bytes]
         /\ Chan \in Seq(Bytes) /\ Len(Chan) = Distance(nread, nwrite)
<1>1. Distance(nread, nwrite) \in Nat /\ nread \in Nat /\ data \in [0..(PIPESIZE - 1) -> Bytes]
  BY RoomBound, TypesAre, Constants DEF Types
<1>2. \A k \in 1..Distance(nread, nwrite) : data[Slot(nread + k - 1)] \in Bytes
  <2>1. ASSUME NEW k \in 1..Distance(nread, nwrite) PROVE Slot(nread + k - 1) \in 0..(PIPESIZE - 1)
    <3>1. nread + k - 1 \in Nat
      BY <1>1
    <3>2. QED
      BY <3>1, SlotType
  <2>2. QED
    BY <1>1, <2>1
<1>3. Chan \in [1..Distance(nread, nwrite) -> Bytes]
  BY <1>2 DEF Chan
<1>4. QED
  BY <1>1, <1>3

LEMMA ChanInit == Init => Abstract!Init
<1> SUFFICES ASSUME Init PROVE Abstract!Init
  OBVIOUS
<1>1. Distance(nread, nwrite) = 0
  BY Constants DEF Init, Distance
<1>2. Chan = <<>>
  BY <1>1 DEF Chan
<1>3. ch \in [Procs -> Bytes]
  BY Constants DEF Init, Bytes
<1>4. QED
  BY <1>2, <1>3 DEF Abstract!Init, Chan

LEMMA PutSends ==
  ASSUME IInv, NEW p \in Procs, WritePut(p)
  PROVE  Abstract!Send(<<p, todo[p]>>) /\ <<p, todo[p]>> \in Bytes
<1> DEFINE d == Distance(nread, nwrite)
           b == <<p, todo[p]>>
<1>0. /\ TypeOK /\ Room /\ At(p, "copyin") /\ d \in Nat /\ d < PIPESIZE /\ PIPESIZE \in Nat
      /\ nread \in 0..(UINT - 1) /\ nwrite \in 0..(UINT - 1) /\ UINT \in Nat /\ UINT > PIPESIZE
      /\ Slot(nwrite) \in 0..(PIPESIZE - 1)
      /\ data \in [0..(PIPESIZE - 1) -> Bytes]
  <2>1. TypeOK /\ Room /\ At(p, "copyin")
    BY DEF IInv, WritePut
  <2>2. /\ nread \in 0..(UINT - 1) /\ nwrite \in 0..(UINT - 1)
        /\ d \in 0..PIPESIZE /\ d < PIPESIZE
    BY <2>1, RoomBound
  <2>3. data \in [0..(PIPESIZE - 1) -> Bytes]
    BY <2>1, TypesAre DEF Types
  <2>4. QED
    BY <2>1, <2>2, <2>3, SlotType, Constants
<1>1. b \in Bytes
  <2>1. todo[p] \in 0..MAXSIZE /\ todo[p] # 0
    BY <1>0, TypesAre DEF Types, IInv, Busy, At
  <2>2. QED
    BY <2>1, Constants DEF Bytes
<1>2. /\ data' = [data EXCEPT ![Slot(nwrite)] = b]
      /\ nread' = nread /\ nwrite' = Succ(nwrite) /\ ch' = ch
  BY DEF WritePut
<1>3. Distance(nread', nwrite') = d + 1
  BY <1>0, <1>2, Distances
<1>4. Slot(nwrite) = Slot(nread + d)
  <2>1. nread + d = nwrite \/ nread + d = nwrite + UINT
    BY <1>0 DEF Distance
  <2>2. nwrite \in Nat
    BY <1>0
  <2>3. Slot(nwrite + UINT) = Slot(nwrite)
    BY <2>2, SlotWraps
  <2>4. QED
    BY <2>1, <2>3
<1>5. ASSUME NEW k \in 1..d PROVE data'[Slot(nread + k - 1)] = data[Slot(nread + k - 1)]
  <2>1. PICK i \in Nat, e \in 1..(PIPESIZE - 1) : i = nread + k - 1 /\ i + e = nread + d
    <3>1. nread + k - 1 \in Nat /\ d - k + 1 \in 1..(PIPESIZE - 1) /\ (nread + k - 1) + (d - k + 1) = nread + d
      BY <1>0
    <3>2. QED
      BY <3>1
  <2>2. Slot(i) # Slot(i + e) /\ Slot(i) \in 0..(PIPESIZE - 1)
    BY SlotsApart, SlotType
  <2>3. QED
    BY <1>0, <1>2, <1>4, <2>1, <2>2
<1>6. data'[Slot(nread + (d + 1) - 1)] = b
  BY <1>0, <1>2, <1>4
<1>7. Chan' = [k \in 1..(d + 1) |-> data'[Slot(nread + k - 1)]]
  BY <1>2, <1>3 DEF Chan, Distance, Slot
<1>8. Chan \in Seq(Bytes) /\ Len(Chan) = d
  BY <1>0, ChanType
<1>9. Append(Chan, b) = [k \in 1..(d + 1) |-> IF k = d + 1 THEN b ELSE Chan[k]]
  BY <1>0, <1>1, <1>8
<1>10. \A k \in 1..(d + 1) : data'[Slot(nread + k - 1)] = IF k = d + 1 THEN b ELSE Chan[k]
  <2>1. \A k \in 1..d : Chan[k] = data[Slot(nread + k - 1)]
    BY DEF Chan
  <2>2. \A k \in 1..(d + 1) : k = d + 1 \/ k \in 1..d
    BY <1>0
  <2>3. QED
    BY <1>0, <1>5, <1>6, <2>1, <2>2
<1>11. Chan' = Append(Chan, b)
  BY <1>7, <1>9, <1>10
<1>12. QED
  BY <1>0, <1>1, <1>2, <1>8, <1>11 DEF Abstract!Send, Chan

LEMMA TakeReceives ==
  ASSUME IInv, NEW p \in Procs,
         nread # nwrite, nread' = Succ(nread), UNCHANGED <<nwrite, data>>,
         ch' = [ch EXCEPT ![p] = data[Slot(nread)]]
  PROVE  Abstract!Receive(p)
<1> DEFINE d == Distance(nread, nwrite)
<1>0. /\ TypeOK /\ Room /\ d \in Nat /\ d # 0 /\ UINT \in Nat /\ UINT > 0
      /\ nread \in 0..(UINT - 1) /\ nwrite \in 0..(UINT - 1)
  BY RoomBound, Distances, Constants DEF IInv
<1>1. Chan \in Seq(Bytes) /\ Len(Chan) = d
  BY <1>0, ChanType
<1>2. Chan # <<>> /\ Head(Chan) = data[Slot(nread)]
  <2>1. Chan[1] = data[Slot(nread + 1 - 1)] /\ nread + 1 - 1 = nread
    BY <1>0 DEF Chan
  <2>2. QED
    BY <1>0, <1>1, <2>1
<1>3. Distance(nread', nwrite') = d - 1
  BY <1>0, Distances
<1>4. ASSUME NEW k \in 1..(d - 1) PROVE Slot(nread' + k - 1) = Slot(nread + (k + 1) - 1)
  <2>1. CASE nread + 1 # UINT
    <3>1. nread' = nread + 1
      BY <2>1 DEF Succ
    <3>2. nread' + k - 1 = nread + (k + 1) - 1
      BY <1>0, <3>1
    <3>3. QED
      BY <3>2
  <2>2. CASE nread + 1 = UINT
    <3>1. nread' = 0
      BY <2>2 DEF Succ
    <3>2. PICK i \in Nat : i = k - 1 /\ nread' + k - 1 = i /\ nread + (k + 1) - 1 = i + UINT
      <4>1. k - 1 \in Nat /\ nread' + k - 1 = k - 1 /\ nread + (k + 1) - 1 = (k - 1) + UINT
        BY <1>0, <2>2, <3>1
      <4>2. QED
        BY <4>1
    <3>3. QED
      BY <3>2, SlotWraps
  <2>3. QED
    BY <2>1, <2>2
<1>5. Chan' = [k \in 1..(d - 1) |-> data[Slot(nread' + k - 1)]]
  BY <1>3 DEF Chan, Distance, Slot
<1>6. /\ Tail(Chan) \in Seq(Bytes) /\ Len(Tail(Chan)) = d - 1
      /\ \A k \in 1..(d - 1) : Tail(Chan)[k] = Chan[k + 1]
  BY <1>1, <1>2, HeadTailProperties
<1>7. \A k \in 1..(d - 1) : data[Slot(nread' + k - 1)] = Chan[k + 1]
  <2>1. ASSUME NEW k \in 1..(d - 1) PROVE Chan[k + 1] = data[Slot(nread + (k + 1) - 1)]
    <3>1. k + 1 \in 1..d
      BY <1>0
    <3>2. QED
      BY <3>1 DEF Chan
  <2>2. QED
    BY <1>4, <2>1
<1>8. Chan' = Tail(Chan)
  <2>1. Tail(Chan) = [k \in 1..(d - 1) |-> Tail(Chan)[k]]
    BY <1>6, LenProperties
  <2>2. QED
    BY <1>5, <1>6, <1>7, <2>1
<1>9. QED
  BY <1>2, <1>8 DEF Abstract!Receive, Chan

LEMMA ChanNext ==
  IInv /\ [Next]_vars => [Abstract!Next]_<<Chan, ch>>
<1> SUFFICES ASSUME IInv, [Next]_vars PROVE [Abstract!Next]_<<Chan, ch>>
  OBVIOUS
<1>1. ASSUME UNCHANGED <<data, nread, nwrite, ch>> PROVE UNCHANGED <<Chan, ch>>
  BY <1>1 DEF Chan, Distance, Slot
<1>2. ASSUME NEW p \in Procs, WritePut(p) PROVE Abstract!Next
  BY <1>2, PutSends DEF Abstract!Next
<1>3. ASSUME NEW p \in Procs, ReadCheck(p) \/ CopyOut(p)
      PROVE  Abstract!Next \/ UNCHANGED <<data, nread, nwrite, ch>>
  <2>1. nwrite' = nwrite /\ data' = data
    BY <1>3 DEF ReadCheck, CopyOut
  <2>2. CASE \E n : ReadOn(p, n)
    <3>1. TypeOK
      BY DEF IInv
    <3>2. CASE nread' = nread /\ ch' = ch
      BY <2>1, <3>2
    <3>3. CASE nread # nwrite /\ nread' = Succ(nread) /\ ch' = [ch EXCEPT ![p] = data[Slot(nread)]]
      BY <2>1, <3>3, TakeReceives DEF Abstract!Next
    <3>4. QED
      BY <2>2, <3>1, <3>2, <3>3, ReadMoves
  <2>3. CASE ~\E n : ReadOn(p, n)
    BY <1>3, <2>1, <2>3 DEF ReadCheck, CopyOut
  <2>4. QED
    BY <2>2, <2>3
<1>4. ASSUME NEW p \in Procs, Kernel(p) \/ User(p), ~WritePut(p), ~ReadCheck(p), ~CopyOut(p)
      PROVE  UNCHANGED <<data, nread, nwrite, ch>>
  BY <1>4 DEF Kernel, User, WriteCheck, CopyInFails, CopyOutFails, PipeClose, Write, Read, Fork, Close, Kill, ring
<1>5. CASE UNCHANGED vars
  BY <1>1, <1>5 DEF vars, ring
<1>6. QED
  BY <1>1, <1>2, <1>3, <1>4, <1>5 DEF Next

\* The bytes in the ring are a bounded FIFO queue.
THEOREM PipeImplementsChannel == ASSUME Spared PROVE Spec => ImplementsChannel
<1>1. IInv /\ [Next]_vars => [Abstract!Next]_<<Chan, ch>>
  BY ChanNext
<1>2. QED
  BY <1>1, ChanInit, Invariance, PTL DEF Spec, ImplementsChannel, Abstract!Spec, Chan

=============================================================================
