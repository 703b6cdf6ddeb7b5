--------------------------- MODULE ProcessProofs ----------------------------
(***************************************************************************)
(* Proofs about Process, for every size of the process table, any number   *)
(* of forks, clones, kills and failing waits, and all schedules.           *)
(***************************************************************************)
EXTENDS Process, WellFoundedInduction, TLAPS

-----------------------------------------------------------------------------
(* The inductive invariant *)

\* A slot that is not in use has no parent, no thread and no page table.
SlotsClean ==
  \A q \in Procs : state[q] = "UNUSED" => parent[q] = None /\ ~isthread[q]

\* fork and clone fill a slot of their own.
Making(p) == pc[p] \in {"fork_parent", "run_child"}
Filling ==
  \A p \in Procs : Making(p) =>
    /\ new[p] \in Procs /\ state[new[p]] = "USED"
    /\ pc[p] = "fork_parent" => parent[new[p]] = None /\ ~isthread[new[p]]
    /\ pc[p] = "run_child" => parent[new[p]] = p
    /\ \A r \in Procs : Making(r) /\ new[r] = new[p] => r = p

\* wait_lock is held across these points.
Locked ==
  \A p \in Procs : pc[p] \in {"tp_scan", "scan", "sleep"} => wait_lock = p

\* init never exits.
InitLives ==
  /\ Alive(initproc) /\ ~isthread[initproc]
  /\ pc[initproc] \notin {"tpkill", "tp_scan", "tp_woken", "exit"}

\* After tpkill a process has no thread, not even a dead one.
NoThreadsLeft == \A p \in Procs : pc[p] = "exit" => ThreadsOf(p) = {}

\* A thread runs in the page table of its parent, which belongs to a process
\* that has yet to exit.  A process has a page table of its own.
ThreadSpaces ==
  \A q \in Procs : isthread[q] =>
    /\ parent[q] \in Procs /\ space[q] = space[parent[q]]
    /\ space[q] \in Procs /\ Alive(space[q])
OwnSpaces ==
  \A q \in Procs : state[q] # "UNUSED" /\ ~isthread[q] => space[q] = q

\* Threads of threads lead up to a process: no set of threads has all its
\* parents in itself.
NoCycle ==
  \A S \in SUBSET Procs : (\A q \in S : isthread[q] /\ parent[q] \in S) => S = {}

\* A process that has decided to sleep in wait still has a reason to.
SleepJustified ==
  \A p \in Procs : pc[p] = "sleep" => Zombies(Sought(p)) = {} /\ Sought(p) # {}

IInv ==
  /\ TypeOK /\ SlotsClean /\ Filling /\ Locked /\ InitLives /\ NoThreadsLeft
  /\ ParentAlive /\ ThreadSpaces /\ OwnSpaces /\ NoCycle
  /\ SleepJustified /\ NoLostWakeup

-----------------------------------------------------------------------------
(* Constants and helpers *)

LEMMA Constants == initproc \in Procs /\ None \notin Procs /\ Procs \subseteq Nat
BY ProcessAssumption DEF ProcessAssumption, Procs, initproc

\* A set of slots has a first one.
LEMMA FirstIn ==
  ASSUME NEW S, S \subseteq Procs, S # {}
  PROVE  First(S) \in S
<1> DEFINE R == {ss \in Nat \X Nat : ss[1] < ss[2]}
<1>1. IsWellFoundedOn(R, Nat)
  BY NatLessThanWellFounded DEF OpToRel
<1>2. S \subseteq Nat
  BY Constants
<1>3. PICK q \in S : \A r \in S : <<r, q>> \notin R
  <2> HIDE DEF R
  <2> QED
    BY <1>1, <1>2, WFMin
<1>4. ASSUME NEW r \in S PROVE q <= r
  <2>1. <<r, q>> \notin R /\ <<r, q>> \in Nat \X Nat
    BY <1>2, <1>3
  <2>2. ~(r < q)
    BY <2>1
  <2>3. QED
    BY <1>2, <2>2
<1>5. QED
  BY <1>4 DEF First

-----------------------------------------------------------------------------
(* Types *)

LEMMA AllocSlot ==
  ASSUME NEW p \in Procs, NEW q \in Procs, NEW thread \in BOOLEAN, NEW step,
         Alloc(p, q, thread, step)
  PROVE  state[q] = "UNUSED" /\ q # p
<1>1. Unused \subseteq Procs
  BY DEF Unused
<1>2. q \in Unused
  BY <1>1, FirstIn DEF Alloc
<1>3. QED
  BY <1>2 DEF Unused, Alloc, Calls, At

\* A zombie that wait reaps is one it looked for.
LEMMA Reaped ==
  ASSUME NEW p \in Procs, WaitReap(p)
  PROVE  First(Zombies(Sought(p))) \in Zombies(Sought(p))
<1>1. Zombies(Sought(p)) \subseteq Procs
  BY DEF Zombies, Sought, ThreadsOf, ChildrenOf
<1>2. QED
  BY <1>1, FirstIn DEF WaitReap

\* tpkill's scan frees dead threads, and all threads before p goes on.
LEMMA Scanned ==
  ASSUME NEW p \in Procs, TpScan(p)
  PROVE  \E S \in SUBSET Zombies(ThreadsOf(p)) :
           \/ /\ Freeproc(S, [state EXCEPT ![p] = "SLEEPING"]) /\ Goto(p, "tp_woken")
              /\ Zombies(ThreadsOf(p)) # ThreadsOf(p)
           \/ /\ Freeproc(S, state) /\ Goto(p, "exit")
              /\ S = ThreadsOf(p)
<1> DEFINE alive == ThreadsOf(p) \ Zombies(ThreadsOf(p))
           dead == {t \in Zombies(ThreadsOf(p)) : \A u \in alive : t < u}
<1>1. dead \in SUBSET Zombies(ThreadsOf(p))
  OBVIOUS
<1>2. /\ MustAwait(p) => Freeproc(dead, [state EXCEPT ![p] = "SLEEPING"]) /\ Goto(p, "tp_woken")
      /\ ~MustAwait(p) => Freeproc(dead, state) /\ Goto(p, "exit")
  BY DEF TpScan
<1>3. ~MustAwait(p) => dead = ThreadsOf(p)
  BY DEF MustAwait
<1> HIDE DEF dead
<1>4. QED
  BY <1>1, <1>2, <1>3 DEF MustAwait

LEMMA TypeStep == ASSUME IInv, [Next]_vars PROVE TypeOK'
<1>0. TypeOK /\ Filling /\ initproc \in Procs /\ None \notin Procs
  BY Constants DEF IInv
<1> USE <1>0 DEF TypeOK, States, PCs, At, Goto, table, locals, bounds
<1>1. CASE UNCHANGED vars
  BY <1>1 DEF vars
<1>2. ASSUME NEW p \in Procs, ForkAlloc(p) PROVE TypeOK'
  <2>1. PICK q \in Procs : Alloc(p, q, FALSE, "fork_parent")
    BY <1>2 DEF ForkAlloc
  <2>2. state[q] = "UNUSED" /\ q # p
    BY <2>1, AllocSlot
  <2>3. QED
    BY <1>2, <2>1, <2>2 DEF ForkAlloc, Alloc, Calls
<1>3. ASSUME NEW p \in Procs, CloneAlloc(p) PROVE TypeOK'
  <2>1. PICK q \in Procs : Alloc(p, q, TRUE, "run_child")
    BY <1>3 DEF CloneAlloc
  <2>2. state[q] = "UNUSED" /\ q # p
    BY <2>1, AllocSlot
  <2>3. QED
    BY <1>3, <2>1, <2>2 DEF CloneAlloc, Alloc, Calls
<1>4. ASSUME NEW p \in Procs, ForkParent(p) PROVE TypeOK'
  BY <1>4 DEF ForkParent, Filling, Making
<1>5. ASSUME NEW p \in Procs, RunChild(p) PROVE TypeOK'
  BY <1>5 DEF RunChild, Filling, Making
<1>6. ASSUME NEW p \in Procs, CloneFails(p) PROVE TypeOK'
  BY <1>6 DEF CloneFails, Filling, Making, Freeproc
<1>7. ASSUME NEW p \in Procs, ExitCall(p) PROVE TypeOK'
  BY <1>7 DEF ExitCall
<1>8. ASSUME NEW p \in Procs, TpKill(p) PROVE TypeOK'
  BY <1>8 DEF TpKill, Wakeup, Doomed
<1>9. ASSUME NEW p \in Procs, TpScan(p) PROVE TypeOK'
  <2>1. PICK S \in SUBSET Zombies(ThreadsOf(p)) :
          \/ /\ Freeproc(S, [state EXCEPT ![p] = "SLEEPING"]) /\ Goto(p, "tp_woken")
             /\ Zombies(ThreadsOf(p)) # ThreadsOf(p)
          \/ /\ Freeproc(S, state) /\ Goto(p, "exit")
             /\ S = ThreadsOf(p)
    BY <1>9, Scanned
  <2>2. S \subseteq Procs /\ \A q \in S : state[q] = "ZOMBIE"
    BY DEF Zombies, ThreadsOf
  <2>3. At(p, "tp_scan") /\ wait_lock' = None /\ UNCHANGED <<new, joining>>
    BY <1>9 DEF TpScan
  <2>4. CASE Freeproc(S, [state EXCEPT ![p] = "SLEEPING"]) /\ Goto(p, "tp_woken")
    BY <2>2, <2>3, <2>4 DEF Freeproc
  <2>5. CASE Freeproc(S, state) /\ Goto(p, "exit")
    BY <2>2, <2>3, <2>5 DEF Freeproc
  <2>6. QED
    BY <2>1, <2>4, <2>5
<1>10. ASSUME NEW p \in Procs, ExitZombie(p) PROVE TypeOK'
  BY <1>10 DEF ExitZombie, Wakeup, Heir
<1>11. ASSUME NEW p \in Procs, WaitReap(p) PROVE TypeOK'
  <2>1. PICK q \in Procs : state[q] = "ZOMBIE" /\ Freeproc({q}, state)
    BY <1>11, Reaped DEF WaitReap, Zombies, Sought, ThreadsOf, ChildrenOf
  <2>2. QED
    BY <1>11, <2>1 DEF WaitReap, Freeproc
<1>12. ASSUME NEW p \in Procs, WaitFault(p) PROVE TypeOK'
  BY <1>12 DEF WaitFault
<1>13. ASSUME NEW p \in Procs, WaitDecide(p) PROVE TypeOK'
  BY <1>13 DEF WaitDecide
<1>14. ASSUME NEW p \in Procs, WaitSleep(p) PROVE TypeOK'
  BY <1>14 DEF WaitSleep
<1>15. ASSUME NEW p \in Procs, Relock(p, "tp_woken", "tp_scan") PROVE TypeOK'
  BY <1>15 DEF Relock
<1>16. ASSUME NEW p \in Procs, Relock(p, "woken", "scan") PROVE TypeOK'
  BY <1>16 DEF Relock
<1>17. ASSUME NEW p \in Procs, NEW j \in BOOLEAN, WaitCall(p, j) PROVE TypeOK'
  BY <1>17 DEF WaitCall, Calls
<1>18. ASSUME NEW p \in Procs, Kill(p) PROVE TypeOK'
  BY <1>18 DEF Kill, Roused, Wakeup
<1>19. QED
  BY <1>1, <1>2, <1>3, <1>4, <1>5, <1>6, <1>7, <1>8, <1>9, <1>10, <1>11, <1>12, <1>13, <1>14, <1>15, <1>16, <1>17, <1>18 DEF Next, Kernel, User

-----------------------------------------------------------------------------
(* What a step does to the table *)

\* No slot enters or leaves use, and no parent changes.
Moved ==
  /\ UNCHANGED <<parent, isthread, space>>
  /\ \A q \in Procs : state'[q] = state[q] \/ (Alive(q) /\ Alive(q)')

\* p takes the free slot q for a child or a thread.
Born(p, q, thread) ==
  /\ state[p] = "RUNNABLE" /\ state[q] = "UNUSED" /\ p # q
  /\ state' = [state EXCEPT ![q] = "USED"]
  /\ isthread' = [isthread EXCEPT ![q] = thread]
  /\ space' = [space EXCEPT ![q] = IF thread THEN space[p] ELSE q]
  /\ parent' = IF thread THEN [parent EXCEPT ![q] = p] ELSE parent

\* p frees the slots S, none of which is alive.
Freed(p, S) ==
  /\ \A q \in S : state[q] \in {"USED", "ZOMBIE"} /\ parent[q] = p
  /\ \A q \in S : state'[q] = "UNUSED" /\ parent'[q] = None /\ ~isthread'[q]
  /\ \A q \in Procs \ S : /\ state'[q] = state[q] \/ (Alive(q) /\ Alive(q)')
                          /\ parent'[q] = parent[q] /\ isthread'[q] = isthread[q]
                          /\ space'[q] = space[q]

Effect ==
  \/ Moved
  \/ \E p, q \in Procs, thread \in BOOLEAN : Born(p, q, thread)
  \/ \E p \in Procs : \E S \in SUBSET Procs : Freed(p, S)
  \/ \E p \in Procs : ForkParent(p) \/ RunChild(p) \/ ExitZombie(p)

LEMMA EffectStep == ASSUME IInv, [Next]_vars PROVE Effect
<1>0. TypeOK /\ Filling
  BY DEF IInv
<1> USE DEF At, table
<1>1. CASE UNCHANGED vars
  BY <1>1 DEF vars, Moved, Effect
<1>2. ASSUME NEW p \in Procs, ForkAlloc(p) PROVE Effect
  <2>1. PICK q \in Procs : Alloc(p, q, FALSE, "fork_parent") /\ UNCHANGED parent
    BY <1>2 DEF ForkAlloc
  <2>2. Born(p, q, FALSE)
    BY <2>1, AllocSlot DEF Alloc, Calls, Born
  <2>3. QED
    BY <2>2 DEF Effect
<1>3. ASSUME NEW p \in Procs, CloneAlloc(p) PROVE Effect
  <2>1. PICK q \in Procs : /\ Alloc(p, q, TRUE, "run_child")
                           /\ parent' = [parent EXCEPT ![q] = p]
    BY <1>3 DEF CloneAlloc
  <2>2. Born(p, q, TRUE)
    BY <2>1, AllocSlot DEF Alloc, Calls, Born
  <2>3. QED
    BY <2>2 DEF Effect
<1>4. ASSUME NEW p \in Procs, CloneFails(p) PROVE Effect
  <2>1. state[new[p]] = "USED" /\ parent[new[p]] = p /\ new[p] \in Procs
    BY <1>0, <1>4 DEF CloneFails, Filling, Making
  <2>2. /\ state' = [q \in Procs |-> IF q \in {new[p]} THEN "UNUSED" ELSE state[q]]
        /\ parent' = [q \in Procs |-> IF q \in {new[p]} THEN None ELSE parent[q]]
        /\ isthread' = [q \in Procs |-> q \notin {new[p]} /\ isthread[q]]
        /\ space' = [q \in Procs |-> IF q \in {new[p]} THEN None ELSE space[q]]
    BY <1>4, Zenon DEF CloneFails, Freeproc
  <2>3. \A q \in Procs : isthread[q] \in BOOLEAN
    BY <1>0 DEF TypeOK
  <2>4. Freed(p, {new[p]})
    BY <2>1, <2>2, <2>3 DEF Freed
  <2>5. QED
    BY <2>1, <2>4 DEF Effect
<1>5. ASSUME NEW p \in Procs, TpScan(p) PROVE Effect
  <2>1. PICK S \in SUBSET Zombies(ThreadsOf(p)) :
          Freeproc(S, [state EXCEPT ![p] = "SLEEPING"]) \/ Freeproc(S, state)
    BY <1>5, Scanned
  <2>2. S \subseteq Procs /\ \A q \in S : state[q] = "ZOMBIE" /\ parent[q] = p
    BY DEF Zombies, ThreadsOf
  <2>3. state[p] = "RUNNABLE"
    BY <1>5 DEF TpScan
  <2>4. CASE Freeproc(S, [state EXCEPT ![p] = "SLEEPING"])
    <3>1. Freed(p, S)
      BY <1>0, <2>2, <2>3, <2>4 DEF Freeproc, Freed, TypeOK, Alive
    <3>2. QED
      BY <2>2, <3>1 DEF Effect
  <2>5. CASE Freeproc(S, state)
    <3>1. Freed(p, S)
      BY <1>0, <2>2, <2>5 DEF Freeproc, Freed, TypeOK
    <3>2. QED
      BY <2>2, <3>1 DEF Effect
  <2>6. QED
    BY <2>1, <2>4, <2>5
<1>6. ASSUME NEW p \in Procs, WaitReap(p) PROVE Effect
  <2>1. PICK q \in Procs : state[q] = "ZOMBIE" /\ parent[q] = p /\ Freeproc({q}, state)
    BY <1>6, Reaped DEF WaitReap, Zombies, Sought, ThreadsOf, ChildrenOf
  <2>2. Freed(p, {q})
    BY <1>0, <2>1 DEF Freeproc, Freed, TypeOK
  <2>3. QED
    BY <2>2 DEF Effect
<1>7. ASSUME NEW p \in Procs, TpKill(p) PROVE Effect
  <2>1. Moved
    BY <1>0, <1>7 DEF TpKill, Wakeup, Moved, Alive, TypeOK
  <2>2. QED
    BY <2>1 DEF Effect
<1>8. ASSUME NEW p \in Procs, WaitSleep(p) PROVE Effect
  <2>1. Moved
    BY <1>0, <1>8 DEF WaitSleep, Moved, Alive, TypeOK
  <2>2. QED
    BY <2>1 DEF Effect
<1>9. ASSUME NEW p \in Procs, Kill(p) PROVE Effect
  <2>1. Moved
    BY <1>0, <1>9 DEF Kill, Roused, Wakeup, Moved, Alive, TypeOK
  <2>2. QED
    BY <2>1 DEF Effect
<1>10. ASSUME NEW p \in Procs,
              \/ ExitCall(p) \/ WaitFault(p) \/ WaitDecide(p)
              \/ Relock(p, "tp_woken", "tp_scan") \/ Relock(p, "woken", "scan")
              \/ WaitCall(p, FALSE) \/ WaitCall(p, TRUE)
       PROVE  Effect
  <2>1. Moved
    BY <1>10 DEF ExitCall, WaitFault, WaitDecide, Relock, WaitCall, Moved
  <2>2. QED
    BY <2>1 DEF Effect
<1>11. ASSUME NEW p \in Procs, ForkParent(p) \/ RunChild(p) \/ ExitZombie(p) PROVE Effect
  BY <1>11 DEF Effect
<1>12. QED
  BY <1>1, <1>2, <1>3, <1>4, <1>5, <1>6, <1>7, <1>8, <1>9, <1>10, <1>11
     DEF Next, Kernel, User

-----------------------------------------------------------------------------
(* The invariants about the table alone *)

\* A slot in nobody's use is nobody's parent.
LEMMA NotAParent ==
  ASSUME ParentAlive, NEW q \in Procs, NEW r \in Procs, ~Alive(q), None \notin Procs
  PROVE  parent[r] # q
BY DEF ParentAlive

LEMMA CleanStep == ASSUME IInv, [Next]_vars PROVE SlotsClean'
<1>0. TypeOK /\ SlotsClean /\ Filling /\ Effect
  BY EffectStep DEF IInv
<1> USE <1>0 DEF SlotsClean, TypeOK
<1>1. CASE Moved
  BY <1>1 DEF Moved, Alive
<1>2. ASSUME NEW p \in Procs, NEW q \in Procs, NEW thread \in BOOLEAN, Born(p, q, thread)
      PROVE  SlotsClean'
  BY <1>2 DEF Born
<1>3. ASSUME NEW p \in Procs, NEW S \in SUBSET Procs, Freed(p, S) PROVE SlotsClean'
  BY <1>3 DEF Freed, Alive
<1>4. ASSUME NEW p \in Procs, ForkParent(p) PROVE SlotsClean'
  BY <1>4 DEF ForkParent, Filling, Making, At
<1>5. ASSUME NEW p \in Procs, RunChild(p) PROVE SlotsClean'
  BY <1>5 DEF RunChild
<1>6. ASSUME NEW p \in Procs, ExitZombie(p) PROVE SlotsClean'
  BY <1>6, Constants DEF ExitZombie, Wakeup, ChildrenOf
<1>7. QED
  BY <1>1, <1>2, <1>3, <1>4, <1>5, <1>6 DEF Effect

LEMMA ParentStep == ASSUME IInv, [Next]_vars PROVE ParentAlive'
<1>0. /\ TypeOK /\ SlotsClean /\ Filling /\ NoThreadsLeft /\ InitLives /\ ParentAlive /\ Effect
      /\ initproc \in Procs /\ None \notin Procs
  BY EffectStep, Constants DEF IInv
<1> USE <1>0 DEF ParentAlive, TypeOK, Alive
<1>1. CASE Moved
  BY <1>1 DEF Moved
<1>2. ASSUME NEW p \in Procs, NEW q \in Procs, NEW thread \in BOOLEAN, Born(p, q, thread)
      PROVE  ParentAlive'
  BY <1>2 DEF Born, SlotsClean
<1>3. ASSUME NEW p \in Procs, NEW S \in SUBSET Procs, Freed(p, S) PROVE ParentAlive'
  BY <1>3 DEF Freed
<1>4. ASSUME NEW p \in Procs, ForkParent(p) PROVE ParentAlive'
  BY <1>4 DEF ForkParent, At
<1>5. ASSUME NEW p \in Procs, RunChild(p) PROVE ParentAlive'
  BY <1>5 DEF RunChild, Filling, Making, At
<1>6. ASSUME NEW p \in Procs, ExitZombie(p) PROVE ParentAlive'
  <2>1. p # initproc /\ ThreadsOf(p) = {} /\ state[p] = "RUNNABLE"
    BY <1>6 DEF ExitZombie, At, InitLives, NoThreadsLeft
  <2>2. \A q \in Procs : parent[q] = p => parent'[q] = initproc
    BY <1>6, <2>1 DEF ExitZombie, ChildrenOf, ThreadsOf, Heir
  <2>3. \A q \in Procs : parent'[q] \in {parent[q], initproc}
    BY <1>6 DEF ExitZombie, Heir
  <2>4. \A q \in Procs : q # p /\ Alive(q) => Alive(q)'
    BY <1>6 DEF ExitZombie, Wakeup
  <2>5. QED
    BY <2>1, <2>2, <2>3, <2>4 DEF InitLives
<1>7. QED
  BY <1>1, <1>2, <1>3, <1>4, <1>5, <1>6 DEF Effect

LEMMA OwnStep == ASSUME IInv, [Next]_vars PROVE OwnSpaces'
<1>0. TypeOK /\ OwnSpaces /\ Filling /\ Effect
  BY EffectStep DEF IInv
<1> USE <1>0 DEF OwnSpaces, TypeOK, Alive
<1>1. CASE Moved
  BY <1>1 DEF Moved
<1>2. ASSUME NEW p \in Procs, NEW q \in Procs, NEW thread \in BOOLEAN, Born(p, q, thread)
      PROVE  OwnSpaces'
  BY <1>2 DEF Born
<1>3. ASSUME NEW p \in Procs, NEW S \in SUBSET Procs, Freed(p, S) PROVE OwnSpaces'
  BY <1>3 DEF Freed
<1>4. ASSUME NEW p \in Procs, ForkParent(p) PROVE OwnSpaces'
  BY <1>4 DEF ForkParent
<1>5. ASSUME NEW p \in Procs, RunChild(p) PROVE OwnSpaces'
  BY <1>5 DEF RunChild, Filling, Making, At
<1>6. ASSUME NEW p \in Procs, ExitZombie(p) PROVE OwnSpaces'
  BY <1>6 DEF ExitZombie, Wakeup, At
<1>7. QED
  BY <1>1, <1>2, <1>3, <1>4, <1>5, <1>6 DEF Effect

LEMMA CycleStep == ASSUME IInv, [Next]_vars PROVE NoCycle'
<1>0. /\ TypeOK /\ SlotsClean /\ Filling /\ ParentAlive /\ NoCycle /\ Effect
      /\ None \notin Procs
  BY EffectStep, Constants DEF IInv
<1> SUFFICES ASSUME NEW T \in SUBSET Procs,
                    \A r \in T : isthread'[r] /\ parent'[r] \in T
             PROVE  T = {}
  BY DEF NoCycle
<1> USE <1>0
<1>0a. ASSUME \A r \in T : isthread[r] /\ parent[r] = parent'[r] PROVE T = {}
  BY <1>0a DEF NoCycle
<1>1. CASE Moved
  BY <1>0a, <1>1 DEF Moved
<1>2. ASSUME NEW p \in Procs, NEW q \in Procs, NEW thread \in BOOLEAN, Born(p, q, thread)
      PROVE  T = {}
  <2>1. \A r \in Procs : parent[r] # q /\ (r # q => parent'[r] = parent[r] /\ isthread'[r] = isthread[r])
    BY <1>2, NotAParent DEF Born, TypeOK, Alive
  <2>2. CASE q \notin T
    BY <1>0a, <2>1, <2>2
  <2>3. CASE q \in T
    <3>1. T \ {q} = {}
      <4>1. \A r \in T \ {q} : isthread[r] /\ parent[r] \in T \ {q}
        BY <2>1
      <4>2. QED
        BY <4>1 DEF NoCycle
    <3>2. parent'[q] \in T /\ isthread'[q]
      BY <2>3
    <3>3. parent'[q] = p
      BY <1>2, <3>2 DEF Born, TypeOK
    <3>4. QED
      BY <1>2, <3>1, <3>2, <3>3 DEF Born
  <2>4. QED
    BY <2>2, <2>3
<1>3. ASSUME NEW p \in Procs, NEW S \in SUBSET Procs, Freed(p, S) PROVE T = {}
  <2>1. T \intersect S = {}
    BY <1>3 DEF Freed
  <2>2. QED
    BY <1>0a, <1>3, <2>1 DEF Freed
<1>4. ASSUME NEW p \in Procs, ForkParent(p) PROVE T = {}
  <2>1. ~isthread[new[p]] /\ isthread' = isthread
    BY <1>4 DEF ForkParent, Filling, Making, At
  <2>2. \A r \in Procs : r # new[p] => parent'[r] = parent[r]
    BY <1>4 DEF ForkParent, TypeOK
  <2>3. QED
    BY <1>0a, <2>1, <2>2
<1>5. ASSUME NEW p \in Procs, RunChild(p) PROVE T = {}
  BY <1>0a, <1>5 DEF RunChild
<1>6. ASSUME NEW p \in Procs, ExitZombie(p) PROVE T = {}
  <2>1. isthread' = isthread /\ \A r \in Procs : isthread[r] => parent'[r] = parent[r]
    BY <1>6 DEF ExitZombie, ChildrenOf
  <2>2. QED
    BY <1>0a, <2>1
<1>7. QED
  BY <1>1, <1>2, <1>3, <1>4, <1>5, <1>6 DEF Effect

\* A process without threads is the page table of no thread: its threads'
\* parents would be such threads again, on and on.
LEMMA Deserted ==
  ASSUME IInv, NEW p \in Procs, ThreadsOf(p) = {}
  PROVE  \A q \in Procs : isthread[q] => space[q] # p
<1> DEFINE T == {q \in Procs : isthread[q] /\ space[q] = p}
<1>1. ASSUME NEW q \in T PROVE isthread[q] /\ parent[q] \in T
  <2>1. parent[q] \in Procs /\ space[parent[q]] = p /\ parent[q] # p
    BY DEF IInv, ThreadSpaces, ThreadsOf
  <2>2. state[parent[q]] # "UNUSED"
    BY <2>1, Constants DEF IInv, ParentAlive, Alive
  <2>3. isthread[parent[q]]
    BY <2>1, <2>2 DEF IInv, OwnSpaces
  <2>4. QED
    BY <2>1, <2>3
<1>2. T = {}
  <2> HIDE DEF T
  <2>1. T \in SUBSET Procs
    BY DEF T
  <2>2. QED
    BY <1>1, <2>1 DEF IInv, NoCycle
<1>3. QED
  BY <1>2

LEMMA SpaceStep == ASSUME IInv, [Next]_vars PROVE ThreadSpaces'
<1>0. /\ TypeOK /\ SlotsClean /\ Filling /\ ParentAlive /\ ThreadSpaces /\ OwnSpaces
      /\ NoThreadsLeft /\ Effect /\ None \notin Procs
  BY EffectStep, Constants DEF IInv
<1> USE <1>0 DEF TypeOK, Alive
<1>1. CASE Moved
  BY <1>1 DEF Moved, ThreadSpaces
<1>2. ASSUME NEW p \in Procs, NEW q \in Procs, NEW thread \in BOOLEAN, Born(p, q, thread),
             NEW r \in Procs, isthread'[r]
      PROVE  /\ parent'[r] \in Procs /\ space'[r] = space'[parent'[r]]
             /\ space'[r] \in Procs /\ state'[space'[r]] \in {"RUNNABLE", "SLEEPING"}
  <2>1. \A u \in Procs : parent[u] # q
    BY <1>2 DEF Born, ParentAlive
  <2>2. CASE r # q
    BY <1>2, <2>1, <2>2 DEF Born, ThreadSpaces
  <2>3. CASE r = q
    <3>1. thread /\ parent'[q] = p /\ space'[q] = space[p] /\ space'[p] = space[p]
      BY <1>2, <2>3 DEF Born
    <3>2. space[p] \in Procs /\ Alive(space[p])
      BY <1>2 DEF Born, ThreadSpaces, OwnSpaces
    <3>3. Alive(space[p])'
      BY <1>2, <3>2 DEF Born
    <3>4. QED
      BY <2>3, <3>1, <3>2, <3>3
  <2>4. QED
    BY <2>2, <2>3
<1>3. ASSUME NEW p \in Procs, NEW S \in SUBSET Procs, Freed(p, S) PROVE ThreadSpaces'
  <2>1. \A q \in Procs : Alive(q) => q \notin S /\ Alive(q)'
    BY <1>3 DEF Freed
  <2>2. ASSUME NEW r \in Procs, isthread'[r]
        PROVE  /\ parent'[r] \in Procs /\ space'[r] = space'[parent'[r]]
               /\ space'[r] \in Procs /\ state'[space'[r]] \in {"RUNNABLE", "SLEEPING"}
    <3>1. r \notin S /\ isthread[r] /\ parent'[r] = parent[r] /\ space'[r] = space[r]
      BY <1>3, <2>2 DEF Freed
    <3>2. parent[r] \in Procs /\ Alive(parent[r])
      BY <3>1 DEF ThreadSpaces, ParentAlive
    <3>3. space'[parent[r]] = space[parent[r]]
      BY <1>3, <2>1, <3>2 DEF Freed
    <3>4. QED
      BY <2>1, <3>1, <3>2, <3>3 DEF ThreadSpaces
  <2>3. QED
    BY <2>2 DEF ThreadSpaces
<1>4. ASSUME NEW p \in Procs, ForkParent(p) PROVE ThreadSpaces'
  <2>1. ~isthread[new[p]] /\ UNCHANGED <<state, isthread, space>>
    BY <1>4 DEF ForkParent, Filling, Making, At
  <2>2. \A r \in Procs : isthread[r] => parent'[r] = parent[r]
    BY <1>4, <2>1 DEF ForkParent
  <2>3. QED
    BY <2>1, <2>2 DEF ThreadSpaces
<1>5. ASSUME NEW p \in Procs, RunChild(p) PROVE ThreadSpaces'
  <2>1. UNCHANGED <<parent, isthread, space>> /\ \A q \in Procs : Alive(q) => Alive(q)'
    BY <1>5 DEF RunChild
  <2>2. QED
    BY <2>1 DEF ThreadSpaces
<1>6. ASSUME NEW p \in Procs, ExitZombie(p) PROVE ThreadSpaces'
  <2>1. \A q \in Procs : isthread[q] => space[q] # p
    BY <1>6, Deserted DEF ExitZombie, NoThreadsLeft, At
  <2>2. \A q \in Procs : q # p /\ Alive(q) => Alive(q)'
    BY <1>6 DEF ExitZombie, Wakeup
  <2>3. UNCHANGED <<isthread, space>> /\ \A q \in Procs : isthread[q] => parent'[q] = parent[q]
    BY <1>6 DEF ExitZombie, ChildrenOf
  <2>4. QED
    BY <2>1, <2>2, <2>3 DEF ThreadSpaces
<1>7. QED
  BY <1>1, <1>2, <1>3, <1>4, <1>5, <1>6 DEF Effect, ThreadSpaces

-----------------------------------------------------------------------------
(* The invariants about where the processes are *)

LEMMA FillStep == ASSUME IInv, [Next]_vars PROVE Filling'
<1>0. TypeOK /\ SlotsClean /\ Filling /\ None \notin Procs
  BY Constants DEF IInv
<1> USE <1>0 DEF Filling, Making, TypeOK, SlotsClean, At, Goto, table, locals
<1>1. CASE UNCHANGED vars
  BY <1>1 DEF vars
<1>2. ASSUME NEW p \in Procs, ForkAlloc(p) PROVE Filling'
  <2>1. PICK q \in Procs : Alloc(p, q, FALSE, "fork_parent") /\ UNCHANGED parent
    BY <1>2 DEF ForkAlloc
  <2>2. state[q] = "UNUSED" /\ q # p
    BY <2>1, AllocSlot
  <2>3. QED
    BY <1>2, <2>1, <2>2 DEF ForkAlloc, Alloc, Calls
<1>3. ASSUME NEW p \in Procs, CloneAlloc(p) PROVE Filling'
  <2>1. PICK q \in Procs : /\ Alloc(p, q, TRUE, "run_child")
                           /\ parent' = [parent EXCEPT ![q] = p]
    BY <1>3 DEF CloneAlloc
  <2>2. state[q] = "UNUSED" /\ q # p
    BY <2>1, AllocSlot
  <2>3. QED
    BY <1>3, <2>1, <2>2 DEF CloneAlloc, Alloc, Calls
<1>4. ASSUME NEW p \in Procs, ForkParent(p) PROVE Filling'
  BY <1>4 DEF ForkParent
<1>5. ASSUME NEW p \in Procs, RunChild(p) PROVE Filling'
  BY <1>5 DEF RunChild
<1>6. ASSUME NEW p \in Procs, CloneFails(p) PROVE Filling'
  BY <1>6 DEF CloneFails, Freeproc
<1>7. ASSUME NEW p \in Procs, ExitCall(p) PROVE Filling'
  BY <1>7 DEF ExitCall
<1>8. ASSUME NEW p \in Procs, TpKill(p) PROVE Filling'
  BY <1>8 DEF TpKill, Wakeup
<1>9. ASSUME NEW p \in Procs, TpScan(p) PROVE Filling'
  <2>1. PICK S \in SUBSET Zombies(ThreadsOf(p)) :
          \/ /\ Freeproc(S, [state EXCEPT ![p] = "SLEEPING"]) /\ Goto(p, "tp_woken")
             /\ Zombies(ThreadsOf(p)) # ThreadsOf(p)
          \/ /\ Freeproc(S, state) /\ Goto(p, "exit")
             /\ S = ThreadsOf(p)
    BY <1>9, Scanned
  <2>2. S \subseteq Procs /\ \A q \in S : state[q] = "ZOMBIE" /\ parent[q] = p
    BY DEF Zombies, ThreadsOf
  <2>3. At(p, "tp_scan") /\ wait_lock' = None /\ UNCHANGED <<new, joining>>
    BY <1>9 DEF TpScan
  <2>4. CASE Freeproc(S, [state EXCEPT ![p] = "SLEEPING"]) /\ Goto(p, "tp_woken")
    BY <2>2, <2>3, <2>4 DEF Freeproc
  <2>5. CASE Freeproc(S, state) /\ Goto(p, "exit")
    BY <2>2, <2>3, <2>5 DEF Freeproc
  <2>6. QED
    BY <2>1, <2>4, <2>5
<1>10. ASSUME NEW p \in Procs, ExitZombie(p) PROVE Filling'
  BY <1>10 DEF ExitZombie, Wakeup, Heir, ChildrenOf
<1>11. ASSUME NEW p \in Procs, WaitReap(p) PROVE Filling'
  <2>1. PICK q \in Procs : state[q] = "ZOMBIE" /\ parent[q] = p /\ Freeproc({q}, state)
    BY <1>11, Reaped DEF WaitReap, Zombies, Sought, ThreadsOf, ChildrenOf
  <2>2. QED
    BY <1>11, <2>1 DEF WaitReap, Freeproc
<1>12. ASSUME NEW p \in Procs, WaitFault(p) PROVE Filling'
  BY <1>12 DEF WaitFault
<1>13. ASSUME NEW p \in Procs, WaitDecide(p) PROVE Filling'
  BY <1>13 DEF WaitDecide
<1>14. ASSUME NEW p \in Procs, WaitSleep(p) PROVE Filling'
  BY <1>14 DEF WaitSleep
<1>15. ASSUME NEW p \in Procs, Relock(p, "tp_woken", "tp_scan") PROVE Filling'
  BY <1>15 DEF Relock
<1>16. ASSUME NEW p \in Procs, Relock(p, "woken", "scan") PROVE Filling'
  BY <1>16 DEF Relock
<1>17. ASSUME NEW p \in Procs, NEW j \in BOOLEAN, WaitCall(p, j) PROVE Filling'
  BY <1>17 DEF WaitCall, Calls
<1>18. ASSUME NEW p \in Procs, Kill(p) PROVE Filling'
  BY <1>18 DEF Kill, Roused, Wakeup
<1>19. QED
  BY <1>1, <1>2, <1>3, <1>4, <1>5, <1>6, <1>7, <1>8, <1>9,
     <1>10, <1>11, <1>12, <1>13, <1>14, <1>15, <1>16, <1>17, <1>18 DEF Next, Kernel, User

LEMMA LockStep == ASSUME IInv, [Next]_vars PROVE Locked'
<1>0. TypeOK /\ Filling /\ Locked /\ None \notin Procs
  BY Constants DEF IInv
<1> USE <1>0 DEF Locked, TypeOK, Filling, Making, At, Goto, table, locals
<1>1. CASE UNCHANGED vars
  BY <1>1 DEF vars
<1>2. ASSUME NEW p \in Procs, ForkAlloc(p) PROVE Locked'
  <2>1. PICK q \in Procs : Alloc(p, q, FALSE, "fork_parent") /\ UNCHANGED parent
    BY <1>2 DEF ForkAlloc
  <2>2. state[q] = "UNUSED" /\ q # p
    BY <2>1, AllocSlot
  <2>3. QED
    BY <1>2, <2>1, <2>2 DEF ForkAlloc, Alloc, Calls
<1>3. ASSUME NEW p \in Procs, CloneAlloc(p) PROVE Locked'
  <2>1. PICK q \in Procs : /\ Alloc(p, q, TRUE, "run_child")
                           /\ parent' = [parent EXCEPT ![q] = p]
    BY <1>3 DEF CloneAlloc
  <2>2. state[q] = "UNUSED" /\ q # p
    BY <2>1, AllocSlot
  <2>3. QED
    BY <1>3, <2>1, <2>2 DEF CloneAlloc, Alloc, Calls
<1>4. ASSUME NEW p \in Procs, ForkParent(p) PROVE Locked'
  BY <1>4 DEF ForkParent
<1>5. ASSUME NEW p \in Procs, RunChild(p) PROVE Locked'
  BY <1>5 DEF RunChild
<1>6. ASSUME NEW p \in Procs, CloneFails(p) PROVE Locked'
  BY <1>6 DEF CloneFails, Freeproc
<1>7. ASSUME NEW p \in Procs, ExitCall(p) PROVE Locked'
  BY <1>7 DEF ExitCall
<1>8. ASSUME NEW p \in Procs, TpKill(p) PROVE Locked'
  BY <1>8 DEF TpKill, Wakeup
<1>9. ASSUME NEW p \in Procs, TpScan(p) PROVE Locked'
  <2>1. PICK S \in SUBSET Zombies(ThreadsOf(p)) :
          \/ /\ Freeproc(S, [state EXCEPT ![p] = "SLEEPING"]) /\ Goto(p, "tp_woken")
             /\ Zombies(ThreadsOf(p)) # ThreadsOf(p)
          \/ /\ Freeproc(S, state) /\ Goto(p, "exit")
             /\ S = ThreadsOf(p)
    BY <1>9, Scanned
  <2>2. S \subseteq Procs /\ \A q \in S : state[q] = "ZOMBIE" /\ parent[q] = p
    BY DEF Zombies, ThreadsOf
  <2>3. At(p, "tp_scan") /\ wait_lock' = None /\ UNCHANGED <<new, joining>>
    BY <1>9 DEF TpScan
  <2>4. CASE Freeproc(S, [state EXCEPT ![p] = "SLEEPING"]) /\ Goto(p, "tp_woken")
    BY <2>2, <2>3, <2>4 DEF Freeproc
  <2>5. CASE Freeproc(S, state) /\ Goto(p, "exit")
    BY <2>2, <2>3, <2>5 DEF Freeproc
  <2>6. QED
    BY <2>1, <2>4, <2>5
<1>10. ASSUME NEW p \in Procs, ExitZombie(p) PROVE Locked'
  BY <1>10 DEF ExitZombie, Wakeup, Heir, ChildrenOf
<1>11. ASSUME NEW p \in Procs, WaitReap(p) PROVE Locked'
  <2>1. PICK q \in Procs : state[q] = "ZOMBIE" /\ parent[q] = p /\ Freeproc({q}, state)
    BY <1>11, Reaped DEF WaitReap, Zombies, Sought, ThreadsOf, ChildrenOf
  <2>2. QED
    BY <1>11, <2>1 DEF WaitReap, Freeproc
<1>12. ASSUME NEW p \in Procs, WaitFault(p) PROVE Locked'
  BY <1>12 DEF WaitFault
<1>13. ASSUME NEW p \in Procs, WaitDecide(p) PROVE Locked'
  BY <1>13 DEF WaitDecide
<1>14. ASSUME NEW p \in Procs, WaitSleep(p) PROVE Locked'
  BY <1>14 DEF WaitSleep
<1>15. ASSUME NEW p \in Procs, Relock(p, "tp_woken", "tp_scan") PROVE Locked'
  BY <1>15 DEF Relock
<1>16. ASSUME NEW p \in Procs, Relock(p, "woken", "scan") PROVE Locked'
  BY <1>16 DEF Relock
<1>17. ASSUME NEW p \in Procs, NEW j \in BOOLEAN, WaitCall(p, j) PROVE Locked'
  BY <1>17 DEF WaitCall, Calls
<1>18. ASSUME NEW p \in Procs, Kill(p) PROVE Locked'
  BY <1>18 DEF Kill, Roused, Wakeup
<1>19. QED
  BY <1>1, <1>2, <1>3, <1>4, <1>5, <1>6, <1>7, <1>8, <1>9,
     <1>10, <1>11, <1>12, <1>13, <1>14, <1>15, <1>16, <1>17, <1>18 DEF Next, Kernel, User

LEMMA InitStep == ASSUME IInv, [Next]_vars PROVE InitLives'
<1>0. TypeOK /\ Filling /\ InitLives /\ initproc \in Procs /\ None \notin Procs
  BY Constants DEF IInv
<1> USE <1>0 DEF InitLives, TypeOK, Filling, Making, Alive, At, Goto, table, locals
<1>1. CASE UNCHANGED vars
  BY <1>1 DEF vars
<1>2. ASSUME NEW p \in Procs, ForkAlloc(p) PROVE InitLives'
  <2>1. PICK q \in Procs : Alloc(p, q, FALSE, "fork_parent") /\ UNCHANGED parent
    BY <1>2 DEF ForkAlloc
  <2>2. state[q] = "UNUSED" /\ q # p
    BY <2>1, AllocSlot
  <2>3. QED
    BY <1>2, <2>1, <2>2 DEF ForkAlloc, Alloc, Calls
<1>3. ASSUME NEW p \in Procs, CloneAlloc(p) PROVE InitLives'
  <2>1. PICK q \in Procs : /\ Alloc(p, q, TRUE, "run_child")
                           /\ parent' = [parent EXCEPT ![q] = p]
    BY <1>3 DEF CloneAlloc
  <2>2. state[q] = "UNUSED" /\ q # p
    BY <2>1, AllocSlot
  <2>3. QED
    BY <1>3, <2>1, <2>2 DEF CloneAlloc, Alloc, Calls
<1>4. ASSUME NEW p \in Procs, ForkParent(p) PROVE InitLives'
  BY <1>4 DEF ForkParent
<1>5. ASSUME NEW p \in Procs, RunChild(p) PROVE InitLives'
  BY <1>5 DEF RunChild
<1>6. ASSUME NEW p \in Procs, CloneFails(p) PROVE InitLives'
  BY <1>6 DEF CloneFails, Freeproc
<1>7. ASSUME NEW p \in Procs, ExitCall(p) PROVE InitLives'
  BY <1>7 DEF ExitCall
<1>8. ASSUME NEW p \in Procs, TpKill(p) PROVE InitLives'
  BY <1>8 DEF TpKill, Wakeup
<1>9. ASSUME NEW p \in Procs, TpScan(p) PROVE InitLives'
  <2>1. PICK S \in SUBSET Zombies(ThreadsOf(p)) :
          \/ /\ Freeproc(S, [state EXCEPT ![p] = "SLEEPING"]) /\ Goto(p, "tp_woken")
             /\ Zombies(ThreadsOf(p)) # ThreadsOf(p)
          \/ /\ Freeproc(S, state) /\ Goto(p, "exit")
             /\ S = ThreadsOf(p)
    BY <1>9, Scanned
  <2>2. S \subseteq Procs /\ \A q \in S : state[q] = "ZOMBIE" /\ parent[q] = p
    BY DEF Zombies, ThreadsOf
  <2>3. At(p, "tp_scan") /\ wait_lock' = None /\ UNCHANGED <<new, joining>>
    BY <1>9 DEF TpScan
  <2>4. CASE Freeproc(S, [state EXCEPT ![p] = "SLEEPING"]) /\ Goto(p, "tp_woken")
    BY <2>2, <2>3, <2>4 DEF Freeproc
  <2>5. CASE Freeproc(S, state) /\ Goto(p, "exit")
    BY <2>2, <2>3, <2>5 DEF Freeproc
  <2>6. QED
    BY <2>1, <2>4, <2>5
<1>10. ASSUME NEW p \in Procs, ExitZombie(p) PROVE InitLives'
  BY <1>10 DEF ExitZombie, Wakeup, Heir, ChildrenOf
<1>11. ASSUME NEW p \in Procs, WaitReap(p) PROVE InitLives'
  <2>1. PICK q \in Procs : state[q] = "ZOMBIE" /\ parent[q] = p /\ Freeproc({q}, state)
    BY <1>11, Reaped DEF WaitReap, Zombies, Sought, ThreadsOf, ChildrenOf
  <2>2. QED
    BY <1>11, <2>1 DEF WaitReap, Freeproc
<1>12. ASSUME NEW p \in Procs, WaitFault(p) PROVE InitLives'
  BY <1>12 DEF WaitFault
<1>13. ASSUME NEW p \in Procs, WaitDecide(p) PROVE InitLives'
  BY <1>13 DEF WaitDecide
<1>14. ASSUME NEW p \in Procs, WaitSleep(p) PROVE InitLives'
  BY <1>14 DEF WaitSleep
<1>15. ASSUME NEW p \in Procs, Relock(p, "tp_woken", "tp_scan") PROVE InitLives'
  BY <1>15 DEF Relock
<1>16. ASSUME NEW p \in Procs, Relock(p, "woken", "scan") PROVE InitLives'
  BY <1>16 DEF Relock
<1>17. ASSUME NEW p \in Procs, NEW j \in BOOLEAN, WaitCall(p, j) PROVE InitLives'
  BY <1>17 DEF WaitCall, Calls
<1>18. ASSUME NEW p \in Procs, Kill(p) PROVE InitLives'
  BY <1>18 DEF Kill, Roused, Wakeup
<1>19. QED
  BY <1>1, <1>2, <1>3, <1>4, <1>5, <1>6, <1>7, <1>8, <1>9,
     <1>10, <1>11, <1>12, <1>13, <1>14, <1>15, <1>16, <1>17, <1>18 DEF Next, Kernel, User

LEMMA NoThreadsStep == ASSUME IInv, [Next]_vars PROVE NoThreadsLeft'
<1>0. /\ NoThreadsLeft /\ TypeOK /\ SlotsClean /\ Filling /\ Locked /\ ParentAlive /\ InitLives
      /\ initproc \in Procs /\ None \notin Procs
  BY Constants DEF IInv
<1> USE <1>0 DEF NoThreadsLeft, TypeOK, Filling, Making, ThreadsOf, ChildrenOf, At, Goto, table, locals
<1>1. CASE UNCHANGED vars
  BY <1>1 DEF vars
<1>2. ASSUME NEW p \in Procs, ForkAlloc(p) PROVE NoThreadsLeft'
  <2>1. PICK q \in Procs : Alloc(p, q, FALSE, "fork_parent") /\ UNCHANGED parent
    BY <1>2 DEF ForkAlloc
  <2>2. state[q] = "UNUSED" /\ q # p
    BY <2>1, AllocSlot
  <2>3. QED
    BY <1>2, <2>1, <2>2 DEF ForkAlloc, Alloc, Calls
<1>3. ASSUME NEW p \in Procs, CloneAlloc(p) PROVE NoThreadsLeft'
  <2>1. PICK q \in Procs : /\ Alloc(p, q, TRUE, "run_child")
                           /\ parent' = [parent EXCEPT ![q] = p]
    BY <1>3 DEF CloneAlloc
  <2>2. state[q] = "UNUSED" /\ q # p
    BY <2>1, AllocSlot
  <2>3. QED
    BY <1>3, <2>1, <2>2 DEF CloneAlloc, Alloc, Calls
<1>4. ASSUME NEW p \in Procs, ForkParent(p) PROVE NoThreadsLeft'
  BY <1>4 DEF ForkParent
<1>5. ASSUME NEW p \in Procs, RunChild(p) PROVE NoThreadsLeft'
  BY <1>5 DEF RunChild
<1>6. ASSUME NEW p \in Procs, CloneFails(p) PROVE NoThreadsLeft'
  BY <1>6 DEF CloneFails, Freeproc
<1>7. ASSUME NEW p \in Procs, ExitCall(p) PROVE NoThreadsLeft'
  BY <1>7 DEF ExitCall
<1>8. ASSUME NEW p \in Procs, TpKill(p) PROVE NoThreadsLeft'
  BY <1>8 DEF TpKill, Wakeup
<1>9. ASSUME NEW p \in Procs, TpScan(p) PROVE NoThreadsLeft'
  <2>1. PICK S \in SUBSET Zombies(ThreadsOf(p)) :
          \/ /\ Freeproc(S, [state EXCEPT ![p] = "SLEEPING"]) /\ Goto(p, "tp_woken")
             /\ Zombies(ThreadsOf(p)) # ThreadsOf(p)
          \/ /\ Freeproc(S, state) /\ Goto(p, "exit")
             /\ S = ThreadsOf(p)
    BY <1>9, Scanned
  <2>2. S \subseteq Procs /\ \A q \in S : state[q] = "ZOMBIE" /\ parent[q] = p
    BY DEF Zombies, ThreadsOf
  <2>3. At(p, "tp_scan") /\ wait_lock' = None /\ UNCHANGED <<new, joining>>
    BY <1>9 DEF TpScan
  <2>4. CASE Freeproc(S, [state EXCEPT ![p] = "SLEEPING"]) /\ Goto(p, "tp_woken")
    BY <2>1, <2>2, <2>3, <2>4 DEF Freeproc
  <2>5. CASE Freeproc(S, state) /\ Goto(p, "exit") /\ S = ThreadsOf(p)
    BY <2>2, <2>3, <2>5 DEF Freeproc
  <2>6. QED
    BY <2>1, <2>4, <2>5
<1>10. ASSUME NEW p \in Procs, ExitZombie(p) PROVE NoThreadsLeft'
  BY <1>10 DEF ExitZombie, Wakeup, Heir, Woken
<1>11. ASSUME NEW p \in Procs, WaitReap(p) PROVE NoThreadsLeft'
  <2>1. PICK q \in Procs : state[q] = "ZOMBIE" /\ parent[q] = p /\ Freeproc({q}, state)
    BY <1>11, Reaped DEF WaitReap, Zombies, Sought, ThreadsOf, ChildrenOf
  <2>2. QED
    BY <1>11, <2>1 DEF WaitReap, Freeproc
<1>12. ASSUME NEW p \in Procs, WaitFault(p) PROVE NoThreadsLeft'
  BY <1>12 DEF WaitFault
<1>13. ASSUME NEW p \in Procs, WaitDecide(p) PROVE NoThreadsLeft'
  BY <1>13 DEF WaitDecide, GivesUp
<1>14. ASSUME NEW p \in Procs, WaitSleep(p) PROVE NoThreadsLeft'
  BY <1>14 DEF WaitSleep
<1>15. ASSUME NEW p \in Procs, Relock(p, "tp_woken", "tp_scan") PROVE NoThreadsLeft'
  BY <1>15 DEF Relock
<1>16. ASSUME NEW p \in Procs, Relock(p, "woken", "scan") PROVE NoThreadsLeft'
  BY <1>16 DEF Relock
<1>17. ASSUME NEW p \in Procs, NEW j \in BOOLEAN, WaitCall(p, j) PROVE NoThreadsLeft'
  BY <1>17 DEF WaitCall, Calls
<1>18. ASSUME NEW p \in Procs, Kill(p) PROVE NoThreadsLeft'
  BY <1>18 DEF Kill, Roused, Wakeup
<1>19. QED
  BY <1>1, <1>2, <1>3, <1>4, <1>5, <1>6, <1>7, <1>8, <1>9,
     <1>10, <1>11, <1>12, <1>13, <1>14, <1>15, <1>16, <1>17, <1>18 DEF Next, Kernel, User

-----------------------------------------------------------------------------
(* Nobody sleeps for nothing *)

\* p has children (or threads, in join) to wait for, and none to reap.
Waits(p) ==
  /\ \E q \in Procs : parent[q] = p /\ isthread[q] = joining[p]
  /\ \A q \in Procs : parent[q] = p /\ isthread[q] = joining[p] => state[q] # "ZOMBIE"
HasLiveThread(p) == \E q \in Procs : parent[q] = p /\ isthread[q] /\ state[q] # "ZOMBIE"

Waiting(p) == pc[p] = "sleep" \/ (pc[p] = "woken" /\ state[p] = "SLEEPING")
Ending(p) == pc[p] = "tp_woken" /\ state[p] = "SLEEPING"
Justified ==
  \A p \in Procs : (Waiting(p) => Waits(p)) /\ (Ending(p) => HasLiveThread(p))

LEMMA JustifiedMeans == TypeOK => (Justified <=> SleepJustified /\ NoLostWakeup)
<1>1. ASSUME TypeOK, NEW p \in Procs
      PROVE  /\ Waits(p) <=> Zombies(Sought(p)) = {} /\ Sought(p) # {}
             /\ HasLiveThread(p) <=> ThreadsOf(p) # Zombies(ThreadsOf(p))
  <2>1. \A q : q \in Sought(p) <=> q \in Procs /\ parent[q] = p /\ isthread[q] = joining[p]
    BY <1>1 DEF Sought, ThreadsOf, ChildrenOf, TypeOK
  <2>2. \A q : q \in Zombies(Sought(p)) <=> q \in Sought(p) /\ state[q] = "ZOMBIE"
    BY DEF Zombies
  <2>3. Waits(p) <=> Zombies(Sought(p)) = {} /\ Sought(p) # {}
    BY <2>1, <2>2 DEF Waits
  <2>4. HasLiveThread(p) <=> ThreadsOf(p) # Zombies(ThreadsOf(p))
    BY DEF HasLiveThread, Zombies, ThreadsOf
  <2>5. QED
    BY <2>3, <2>4
<1>2. QED
  BY <1>1 DEF Justified, Waiting, Ending, SleepJustified, NoLostWakeup, TypeOK

\* The step leaves the children and threads of r as they are.
Keeps(r) ==
  /\ joining'[r] = joining[r]
  /\ \A q \in Procs : (parent'[q] = r) <=> (parent[q] = r)
  /\ \A q \in Procs : parent[q] = r => /\ isthread'[q] = isthread[q]
                                       /\ state'[q] = "ZOMBIE" <=> state[q] = "ZOMBIE"

LEMMA Kept ==
  ASSUME NEW r \in Procs, Keeps(r)
  PROVE  (Waits(r) => Waits(r)') /\ (HasLiveThread(r) => HasLiveThread(r)')
BY DEF Keeps, Waits, HasLiveThread

\* Who waits and is not the one that moves has been waiting before.
LEMMA JustifiedStep == ASSUME IInv, [Next]_vars PROVE Justified'
<1>0. /\ Justified /\ TypeOK /\ SlotsClean /\ Filling /\ Locked
      /\ initproc \in Procs /\ None \notin Procs
  BY Constants, JustifiedMeans DEF IInv
<1> SUFFICES ASSUME NEW r \in Procs
             PROVE  (Waiting(r)' => Waits(r)') /\ (Ending(r)' => HasLiveThread(r)')
  BY DEF Justified
<1>a. ASSUME (Waiting(r)' => Waiting(r)) /\ (Ending(r)' => Ending(r)),
             Waiting(r)' \/ Ending(r)' => Keeps(r)
      PROVE  (Waiting(r)' => Waits(r)') /\ (Ending(r)' => HasLiveThread(r)')
  BY <1>0, <1>a, Kept DEF Justified
<1> USE <1>0 DEF Waiting, Ending, TypeOK, At, Goto, table, locals
<1>1. CASE UNCHANGED vars
  BY <1>1, <1>a DEF vars, Keeps
<1>2. ASSUME NEW p \in Procs, ForkAlloc(p)
      PROVE  (Waiting(r)' => Waits(r)') /\ (Ending(r)' => HasLiveThread(r)')
  <2>1. PICK q \in Procs : Alloc(p, q, FALSE, "fork_parent") /\ UNCHANGED parent
    BY <1>2 DEF ForkAlloc
  <2>2. state[q] = "UNUSED" /\ q # p /\ parent[q] # r
    BY <2>1, AllocSlot DEF SlotsClean
  <2>3. Waiting(r)' \/ Ending(r)' => r # p
    BY <1>2, <2>1 DEF Alloc, Calls
  <2>4. (Waiting(r)' => Waiting(r)) /\ (Ending(r)' => Ending(r))
    BY <2>1, <2>2, <2>3 DEF Alloc
  <2>5. /\ joining' = joining /\ parent' = parent
        /\ \A u \in Procs \ {q} : isthread'[u] = isthread[u] /\ state'[u] = state[u]
    BY <2>1 DEF Alloc
  <2>6. r # p => Keeps(r)
    BY <2>2, <2>5 DEF Keeps
  <2>7. QED
    BY <1>a, <2>3, <2>4, <2>6
<1>3. ASSUME NEW p \in Procs, CloneAlloc(p)
      PROVE  (Waiting(r)' => Waits(r)') /\ (Ending(r)' => HasLiveThread(r)')
  <2>1. PICK q \in Procs : /\ Alloc(p, q, TRUE, "run_child")
                           /\ parent' = [parent EXCEPT ![q] = p]
    BY <1>3 DEF CloneAlloc
  <2>2. state[q] = "UNUSED" /\ q # p /\ parent[q] # r
    BY <2>1, AllocSlot DEF SlotsClean
  <2>3. Waiting(r)' \/ Ending(r)' => r # p
    BY <1>3, <2>1 DEF Alloc, Calls
  <2>4. (Waiting(r)' => Waiting(r)) /\ (Ending(r)' => Ending(r))
    BY <2>1, <2>2, <2>3 DEF Alloc
  <2>5. /\ joining' = joining /\ parent' = [parent EXCEPT ![q] = p]
        /\ \A u \in Procs \ {q} : isthread'[u] = isthread[u] /\ state'[u] = state[u]
    BY <2>1 DEF Alloc
  <2>6. r # p => Keeps(r)
    BY <2>2, <2>5 DEF Keeps
  <2>7. QED
    BY <1>a, <2>3, <2>4, <2>6
<1>4. ASSUME NEW p \in Procs, ForkParent(p)
      PROVE  (Waiting(r)' => Waits(r)') /\ (Ending(r)' => HasLiveThread(r)')
  <2>1. Waiting(r)' \/ Ending(r)' => r # p
    BY <1>4 DEF ForkParent
  <2>2. new[p] \in Procs /\ parent[new[p]] = None
    BY <1>4 DEF ForkParent, Filling, Making
  <2>3. QED
    BY <1>4, <1>a, <2>1, <2>2 DEF ForkParent, Keeps
<1>5. ASSUME NEW p \in Procs, RunChild(p)
      PROVE  (Waiting(r)' => Waits(r)') /\ (Ending(r)' => HasLiveThread(r)')
  <2>1. new[p] \in Procs /\ state[new[p]] = "USED"
    BY <1>5 DEF RunChild, Filling, Making
  <2>2. QED
    BY <1>5, <1>a, <2>1 DEF RunChild, Keeps
<1>6. ASSUME NEW p \in Procs, CloneFails(p)
      PROVE  (Waiting(r)' => Waits(r)') /\ (Ending(r)' => HasLiveThread(r)')
  <2>1. PICK q \in Procs : parent[q] = p /\ state[q] # "SLEEPING" /\ Freeproc({q}, state) /\ Goto(p, "user")
    BY <1>6 DEF CloneFails, Filling, Making
  <2>2. Waiting(r)' \/ Ending(r)' => r # p
    BY <2>1
  <2>3. QED
    BY <1>6, <1>a, <2>1, <2>2 DEF CloneFails, Freeproc, Keeps
<1>7. ASSUME NEW p \in Procs, ExitCall(p)
      PROVE  (Waiting(r)' => Waits(r)') /\ (Ending(r)' => HasLiveThread(r)')
  BY <1>7, <1>a DEF ExitCall, Keeps
<1>8. ASSUME NEW p \in Procs, TpKill(p)
      PROVE  (Waiting(r)' => Waits(r)') /\ (Ending(r)' => HasLiveThread(r)')
  BY <1>8, <1>a DEF TpKill, Wakeup, Keeps
<1>9. ASSUME NEW p \in Procs, TpScan(p)
      PROVE  (Waiting(r)' => Waits(r)') /\ (Ending(r)' => HasLiveThread(r)')
  <2>1. PICK S \in SUBSET Zombies(ThreadsOf(p)) :
          \/ /\ Freeproc(S, [state EXCEPT ![p] = "SLEEPING"]) /\ Goto(p, "tp_woken")
             /\ Zombies(ThreadsOf(p)) # ThreadsOf(p)
          \/ /\ Freeproc(S, state) /\ Goto(p, "exit")
             /\ S = ThreadsOf(p)
    BY <1>9, Scanned
  <2>2. S \subseteq Procs /\ \A q \in S : state[q] = "ZOMBIE" /\ parent[q] = p
    BY DEF Zombies, ThreadsOf
  <2>3. At(p, "tp_scan") /\ UNCHANGED joining
    BY <1>9 DEF TpScan
  <2>4. CASE r # p
    BY <1>a, <2>1, <2>2, <2>3, <2>4 DEF Freeproc, Keeps
  <2>5. CASE r = p /\ Goto(p, "exit")
    BY <2>1, <2>5
  <2>6. CASE r = p /\ Goto(p, "tp_woken")
    <3>1. Freeproc(S, [state EXCEPT ![p] = "SLEEPING"]) /\ Zombies(ThreadsOf(p)) # ThreadsOf(p)
      BY <2>1, <2>6
    <3>2. PICK q \in Procs : parent[q] = p /\ isthread[q] /\ state[q] # "ZOMBIE"
      BY <3>1 DEF Zombies, ThreadsOf
    <3>3. parent'[q] = p /\ isthread'[q] /\ state'[q] # "ZOMBIE"
      BY <2>2, <3>1, <3>2 DEF Freeproc
    <3>4. QED
      BY <2>6, <3>3 DEF HasLiveThread
  <2>7. QED
    BY <2>1, <2>4, <2>5, <2>6
<1>10. ASSUME NEW p \in Procs, ExitZombie(p)
      PROVE  (Waiting(r)' => Waits(r)') /\ (Ending(r)' => HasLiveThread(r)')
  <2>1. Waiting(r)' \/ Ending(r)' => r # p /\ parent[p] # r /\ (r = initproc => ChildrenOf(p) = {})
    BY <1>10 DEF ExitZombie, Wakeup, Woken, Locked
  <2>2. \A q \in Procs : parent'[q] = IF q \in ChildrenOf(p) THEN initproc ELSE parent[q]
    BY <1>10 DEF ExitZombie, Heir
  <2>3. \A q \in ChildrenOf(p) : parent[q] = p
    BY DEF ChildrenOf
  <2>4. \A q \in Procs \ {p} : state'[q] = state[q] \/ (state[q] = "SLEEPING" /\ state'[q] = "RUNNABLE")
    BY <1>10 DEF ExitZombie, Wakeup
  <2>5. Waiting(r)' \/ Ending(r)' => Keeps(r)
    BY <1>10, <2>1, <2>2, <2>3, <2>4 DEF ExitZombie, Keeps
  <2>6. (Waiting(r)' => Waiting(r)) /\ (Ending(r)' => Ending(r))
    BY <1>10, <2>4 DEF ExitZombie
  <2>7. QED
    BY <1>a, <2>5, <2>6
<1>11. ASSUME NEW p \in Procs, WaitReap(p)
      PROVE  (Waiting(r)' => Waits(r)') /\ (Ending(r)' => HasLiveThread(r)')
  <2>1. PICK q \in Procs : parent[q] = p /\ state[q] # "SLEEPING" /\ Freeproc({q}, state) /\ Goto(p, "user")
    BY <1>11, Reaped DEF WaitReap, Zombies, Sought, ThreadsOf, ChildrenOf
  <2>2. Waiting(r)' \/ Ending(r)' => r # p
    BY <2>1
  <2>3. QED
    BY <1>11, <1>a, <2>1, <2>2 DEF WaitReap, Freeproc, Keeps
<1>12. ASSUME NEW p \in Procs, WaitFault(p)
      PROVE  (Waiting(r)' => Waits(r)') /\ (Ending(r)' => HasLiveThread(r)')
  BY <1>12, <1>a DEF WaitFault, Keeps
<1>13. ASSUME NEW p \in Procs, WaitDecide(p)
      PROVE  (Waiting(r)' => Waits(r)') /\ (Ending(r)' => HasLiveThread(r)')
  <2>1. CASE r = p
    <3>1. CASE GivesUp(p)
      BY <1>13, <2>1, <3>1 DEF WaitDecide
    <3>2. CASE ~GivesUp(p)
      <4>1. Zombies(Sought(p)) = {} /\ Sought(p) # {}
        BY <1>13, <3>2 DEF WaitDecide, GivesUp
      <4>2. Waits(p)
        BY <4>1 DEF Zombies, Sought, ThreadsOf, ChildrenOf, Waits
      <4>3. QED
        BY <1>13, <2>1, <4>2, Kept DEF WaitDecide, Keeps
    <3>3. QED
      BY <3>1, <3>2
  <2>2. CASE r # p
    BY <1>13, <1>a, <2>2 DEF WaitDecide, Keeps
  <2>3. QED
    BY <2>1, <2>2
<1>14. ASSUME NEW p \in Procs, WaitSleep(p)
      PROVE  (Waiting(r)' => Waits(r)') /\ (Ending(r)' => HasLiveThread(r)')
  <2>1. CASE r = p
    BY <1>14, <2>1 DEF WaitSleep, Justified, Waits
  <2>2. CASE r # p
    BY <1>14, <1>a, <2>2 DEF WaitSleep, Keeps
  <2>3. QED
    BY <2>1, <2>2
<1>15. ASSUME NEW p \in Procs, Relock(p, "tp_woken", "tp_scan")
      PROVE  (Waiting(r)' => Waits(r)') /\ (Ending(r)' => HasLiveThread(r)')
  BY <1>15, <1>a DEF Relock, Keeps
<1>16. ASSUME NEW p \in Procs, Relock(p, "woken", "scan")
      PROVE  (Waiting(r)' => Waits(r)') /\ (Ending(r)' => HasLiveThread(r)')
  BY <1>16, <1>a DEF Relock, Keeps
<1>17. ASSUME NEW p \in Procs, NEW j \in BOOLEAN, WaitCall(p, j)
      PROVE  (Waiting(r)' => Waits(r)') /\ (Ending(r)' => HasLiveThread(r)')
  <2>1. Waiting(r)' \/ Ending(r)' => r # p
    BY <1>17 DEF WaitCall, Calls
  <2>2. QED
    BY <1>17, <1>a, <2>1 DEF WaitCall, Calls, Keeps
<1>18. ASSUME NEW p \in Procs, Kill(p)
      PROVE  (Waiting(r)' => Waits(r)') /\ (Ending(r)' => HasLiveThread(r)')
  BY <1>18, <1>a DEF Kill, Roused, Wakeup, Keeps
<1>19. QED
  BY <1>1, <1>2, <1>3, <1>4, <1>5, <1>6, <1>7, <1>8, <1>9,
     <1>10, <1>11, <1>12, <1>13, <1>14, <1>15, <1>16, <1>17, <1>18 DEF Next, Kernel, User

-----------------------------------------------------------------------------
(* The theorems *)

LEMMA InitIInv == Init => IInv
<1> SUFFICES ASSUME Init PROVE IInv
  OBVIOUS
<1> USE Constants DEF Init
<1>1. TypeOK
  BY DEF TypeOK, States, PCs
<1>2. SlotsClean /\ Filling /\ Locked /\ InitLives /\ NoThreadsLeft
  BY DEF SlotsClean, Filling, Making, Locked, InitLives, Alive, NoThreadsLeft
<1>3. ParentAlive /\ ThreadSpaces /\ OwnSpaces /\ NoCycle
  BY DEF ParentAlive, ThreadSpaces, OwnSpaces, NoCycle
<1>4. SleepJustified /\ NoLostWakeup
  BY DEF SleepJustified, NoLostWakeup
<1>5. QED
  BY <1>1, <1>2, <1>3, <1>4 DEF IInv

LEMMA StepIInv == IInv /\ [Next]_vars => IInv'
<1> SUFFICES ASSUME IInv, [Next]_vars PROVE IInv'
  OBVIOUS
<1>1. TypeOK' /\ SlotsClean' /\ Filling' /\ Locked' /\ InitLives' /\ NoThreadsLeft'
  BY TypeStep, CleanStep, FillStep, LockStep, InitStep, NoThreadsStep
<1>2. ParentAlive' /\ ThreadSpaces' /\ OwnSpaces' /\ NoCycle'
  BY ParentStep, SpaceStep, OwnStep, CycleStep
<1>3. SleepJustified' /\ NoLostWakeup'
  <2>1. TypeOK' => (Justified' <=> SleepJustified' /\ NoLostWakeup')
    BY JustifiedMeans, PTL
  <2>2. QED
    BY <1>1, <2>1, JustifiedStep
<1>4. QED
  BY <1>1, <1>2, <1>3 DEF IInv

\* The inductive invariant of fork, clone, exit, wait, join and kill.
THEOREM Invariance == Spec => []IInv
BY InitIInv, StepIInv, PTL DEF Spec

\* The fields of struct proc have their types, and sleep() and exit() leave a
\* process where its state says.
THEOREM TypeCorrect == Spec => []TypeOK
<1>1. IInv => TypeOK
  BY DEF IInv
<1>2. QED
  BY <1>1, Invariance, PTL

\* exit() hands the children to init and outlives its threads, so a parent is
\* always there to wait.
THEOREM ParentsAlive == Spec => []ParentAlive
<1>1. IInv => ParentAlive
  BY DEF IInv
<1>2. QED
  BY <1>1, Invariance, PTL

\* freeproc() frees no page table that a thread runs in, however deep threads
\* have cloned threads.
THEOREM SpacesAlive == Spec => []SpaceAlive
<1>1. IInv => SpaceAlive
  <2> SUFFICES ASSUME IInv, NEW p \in Procs, Alive(p) \/ state[p] = "USED"
               PROVE  state[space[p]] # "UNUSED"
    BY DEF SpaceAlive
  <2>1. CASE isthread[p]
    BY <2>1 DEF IInv, ThreadSpaces, Alive
  <2>2. CASE ~isthread[p]
    BY <2>2 DEF IInv, OwnSpaces, Alive
  <2>3. QED
    BY <2>1, <2>2
<1>2. QED
  BY <1>1, Invariance, PTL

\* Nobody sleeps in wait, join or tpkill while what it waits for is there: the
\* wakeups of exit and reparent reach every sleeper, also when kill comes in
\* the window that the runs spare.
THEOREM NoWakeupLost == Spec => []NoLostWakeup
<1>1. IInv => NoLostWakeup
  BY DEF IInv
<1>2. QED
  BY <1>1, Invariance, PTL
=============================================================================
