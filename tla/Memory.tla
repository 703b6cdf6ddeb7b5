------------------------------- MODULE Memory -------------------------------
(***************************************************************************)
(* Physical pages: the per-CPU free lists and the reference counts of      *)
(* kernel/kalloc.c, and the copy-on-write address spaces of kernel/vm.c    *)
(* that are built on them.                                                 *)
(*                                                                         *)
(* A process has one page of user memory and one page-table page.  One     *)
(* action is one critical section of ref_lock or of a kmems[i].lock, or    *)
(* the code between two of them.  Swapping is left out: kalloc fails where *)
(* find_swapping_page finds no page to swap out.                           *)
(*                                                                         *)
(* Definitions such as Rest_Whole are the faulty forms of the definition   *)
(* next to them with which the properties are put to the test.             *)
(***************************************************************************)
EXTENDS Naturals, FiniteSets, SequencesExt

CONSTANTS Procs,     \* the processes
          Pages,     \* physical pages
          NCPU,      \* the number of CPUs
          Values,    \* what a process stores in its page
          None,      \* no page, no process, no content
          Junk,      \* what kalloc and kfree fill a page with
          Table,     \* the content of a page-table page
          MaxForks,  \* bound: the calls of fork
          Races      \* whether schedules may enter kalloc_cow's window

ASSUME MemoryAssumption ==
  /\ NCPU \in Nat \ {0}
  /\ MaxForks \in Nat
  /\ Races \in BOOLEAN
  /\ IsFiniteSet(Procs) /\ IsFiniteSet(Pages) /\ Cardinality(Pages) >= 2
  /\ {None, Junk, Table} \cap (Values \cup Pages) = {}
  /\ None \notin Procs \cup (0..(NCPU - 1))

CPUs == 0..(NCPU - 1)

VARIABLES free,     \* kmems[i].freelist
          ref,      \* ref_cnt
          mem,      \* the content of a page
          pte,      \* the process's PTE: physical page, PTE_W, PTE_COW
          table,    \* its page-table page
          pc,       \* where its kernel thread is
          cpu,      \* the CPU it may not leave: between push_off and pop_off
          hand,     \* the pages it has taken off the free lists
          scan,     \* j of kalloc's loop
          child,    \* the child it is forking
          forks,    \* the calls of fork so far
          leaked    \* references a failing fork has left behind

vars == <<free, ref, mem, pte, table, pc, cpu, hand, scan, child, forks, leaked>>
poolVars == <<free, cpu, hand, scan>>
spaceVars == <<pte, table>>
forkVars == <<child, forks, leaked>>

Unmapped == [pa |-> None, w |-> FALSE, cow |-> FALSE]
At(p, l) == pc[p] = l
Goto(p, l) == pc' = [pc EXCEPT ![p] = l]
Panic == pc' = [p \in Procs |-> "panic"]

(***************************************************************************)
(* kinit() runs on one CPU, which gets all the pages; the first process    *)
(* has taken two.                                                          *)
(***************************************************************************)
Init ==
  \E p \in Procs, v \in Values, all \in SetToSeqs(Pages) :
    LET a == all[1]
        b == all[2] IN
    /\ free = [i \in CPUs |-> IF i = 0 THEN SubSeq(all, 3, Len(all)) ELSE <<>>]
    /\ ref = [g \in Pages |-> IF g \in {a, b} THEN 1 ELSE 0]
    /\ mem = [g \in Pages |-> IF g = a THEN v ELSE IF g = b THEN Table ELSE Junk]
    /\ pte = [q \in Procs |-> IF q = p THEN [pa |-> a, w |-> TRUE, cow |-> FALSE]
                              ELSE Unmapped]
    /\ table = [q \in Procs |-> IF q = p THEN b ELSE None]
    /\ pc = [q \in Procs |-> IF q = p THEN "run" ELSE "unused"]
    /\ cpu = [q \in Procs |-> None]
    /\ hand = [q \in Procs |-> <<>>]
    /\ scan = [q \in Procs |-> 0]
    /\ child = [q \in Procs |-> None]
    /\ forks = 0
    /\ leaked = [g \in Pages |-> 0]

\* A CPU runs one thread at a time, and none but p until pop_off.
Available(i) == \A p \in Procs : cpu[p] # i

-----------------------------------------------------------------------------
(* kalloc() *)

\* Where the caller goes on: uvmcopy has a child to map, copyonwrite has not.
Caller(p) == IF child[p] # None THEN "map" ELSE "copy"

KallocPop(p, i) ==
  /\ At(p, "kalloc")
  /\ Available(i)
  /\ IF free[i] # <<>>
     THEN /\ hand' = [hand EXCEPT ![p] = <<Head(free[i])>>]
          /\ free' = [free EXCEPT ![i] = Tail(@)]
          /\ Goto(p, "count")
          /\ UNCHANGED <<cpu, scan>>
     ELSE /\ cpu' = [cpu EXCEPT ![p] = i]
          /\ scan' = [scan EXCEPT ![p] = 0]
          /\ Goto(p, "steal")
          /\ UNCHANGED <<free, hand>>
  /\ UNCHANGED <<ref, mem, spaceVars, forkVars>>

(***************************************************************************)
(* ksteal cuts a list in the middle.  The thief has its head, and with it  *)
(* the first half; the victim keeps what ksteal returns.                   *)
(***************************************************************************)
Half(list) == (Len(list) + 1) \div 2

Rest_Whole(list) == list
Rest(list) == SubSeq(list, Half(list) + 1, Len(list))

KallocSteal(p) ==
  /\ At(p, "steal")
  /\ scan[p] < NCPU
  /\ LET j == scan[p]
     IN IF j = cpu[p] \/ free[j] = <<>>
        THEN /\ scan' = [scan EXCEPT ![p] = @ + 1]
             /\ UNCHANGED <<free, hand, pc>>
        ELSE /\ hand' = [hand EXCEPT ![p] = SubSeq(free[j], 1, Half(free[j]))]
             /\ free' = [free EXCEPT ![j] = Rest(@)]
             /\ Goto(p, "refill")
             /\ UNCHANGED scan
  /\ UNCHANGED <<ref, mem, cpu, spaceVars, forkVars>>

Refilled_Dropped(list, loot) == list
\* The thief's list is overwritten: it was empty when push_off tied the thief
\* to the CPU.
Refilled(list, loot) == Tail(loot)

KallocRefill(p) ==
  /\ At(p, "refill")
  /\ free' = [free EXCEPT ![cpu[p]] = Refilled(@, hand[p])]
  /\ hand' = [hand EXCEPT ![p] = <<Head(@)>>]
  /\ cpu' = [cpu EXCEPT ![p] = None]
  /\ Goto(p, "count")
  /\ UNCHANGED <<ref, mem, scan, spaceVars, forkVars>>

\* Nothing to steal and nothing to swap out: return 0.
KallocFails(p) ==
  /\ At(p, "steal")
  /\ scan[p] = NCPU
  /\ cpu' = [cpu EXCEPT ![p] = None]
  /\ Goto(p, Caller(p))
  /\ UNCHANGED <<ref, mem, free, hand, scan, spaceVars, forkVars>>

\* kincget has to return 1; the page is filled with junk.
KallocCount(p) ==
  /\ At(p, "count")
  /\ LET g == Head(hand[p])
     IN /\ ref' = [ref EXCEPT ![g] = @ + 1]
        /\ IF ref[g] = 0
           THEN mem' = [mem EXCEPT ![g] = Junk] /\ Goto(p, Caller(p))
           ELSE Panic /\ UNCHANGED mem
  /\ UNCHANGED <<poolVars, spaceVars, forkVars>>

-----------------------------------------------------------------------------
(* kfree() of the page's and then of the page table's page *)

Victim(p) == IF pte[p].pa # None THEN pte[p].pa ELSE table[p]
\* "*pte = 0" of uvmunmap; after the page table's page, the process is gone.
Detach(p) ==
  IF pte[p].pa # None
  THEN /\ pte' = [pte EXCEPT ![p] = Unmapped]
       /\ Goto(p, "free")
       /\ UNCHANGED table
  ELSE /\ table' = [table EXCEPT ![p] = None]
       /\ Goto(p, "unused")
       /\ UNCHANGED pte

(***************************************************************************)
(* The window: between the --ref_cnt of kalloc_cow and the memmove of      *)
(* copyonwrite a process reads a page it no longer has a reference to.     *)
(* Races = FALSE holds back the others' steps that take the last one.      *)
(***************************************************************************)
InWindow(p) ==
  /\ child[p] = None
  /\ pc[p] \in {"kalloc", "steal", "refill", "count", "copy"}
MayTakeLast(g) == Races \/ ~\E p \in Procs : InWindow(p) /\ pte[p].pa = g

\* The last reference is gone (res > 0 is the return of line 85).
LastRef(n) == n = 0

KfreeDrop(p) ==
  /\ At(p, "free")
  /\ LET g == Victim(p)
     IN /\ ref[g] = 1 => MayTakeLast(g)
        /\ IF ref[g] < 1
           THEN Panic /\ UNCHANGED <<ref, hand, spaceVars>>
           ELSE /\ ref' = [ref EXCEPT ![g] = @ - 1]
                /\ IF LastRef(ref[g] - 1)
                   THEN /\ hand' = [hand EXCEPT ![p] = <<g>>]
                        /\ Goto(p, "push")
                        /\ UNCHANGED spaceVars
                   ELSE Detach(p) /\ UNCHANGED hand
  /\ UNCHANGED <<free, mem, cpu, scan, forkVars>>

KfreePush(p, i) ==
  /\ At(p, "push")
  /\ Available(i)
  /\ mem' = [mem EXCEPT ![Victim(p)] = Junk]
  /\ free' = [free EXCEPT ![i] = hand[p] \o @]
  /\ hand' = [hand EXCEPT ![p] = <<>>]
  /\ Detach(p)
  /\ UNCHANGED <<ref, cpu, scan, forkVars>>

-----------------------------------------------------------------------------
(* fork() and uvmcopy() *)

Encow_Not(e) == e
Encow(e) == IF e.w THEN [e EXCEPT !.w = FALSE, !.cow = TRUE] ELSE e

Fork(p, q) ==
  /\ At(p, "run") /\ At(q, "unused")
  /\ forks < MaxForks
  /\ forks' = forks + 1
  /\ child' = [child EXCEPT ![p] = q]
  /\ pte' = [pte EXCEPT ![p] = Encow(@)]
  /\ pc' = [pc EXCEPT ![p] = "share", ![q] = "embryo"]
  /\ UNCHANGED <<ref, mem, table, poolVars, leaked>>

\* kincget(pa); mappages then needs a page for the child's page table.
ForkShare(p) ==
  /\ At(p, "share")
  /\ ref' = [ref EXCEPT ![pte[p].pa] = @ + 1]
  /\ Goto(p, "kalloc")
  /\ UNCHANGED <<mem, poolVars, spaceVars, forkVars>>

ForkMap(p) ==
  /\ At(p, "map") /\ hand[p] # <<>>
  /\ LET q == child[p]
         g == Head(hand[p])
     IN /\ table' = [table EXCEPT ![q] = g]
        /\ mem' = [mem EXCEPT ![g] = Table]
        /\ pte' = [pte EXCEPT ![q] = pte[p]]
        /\ pc' = [pc EXCEPT ![p] = "run", ![q] = "run"]
  /\ hand' = [hand EXCEPT ![p] = <<>>]
  /\ child' = [child EXCEPT ![p] = None]
  /\ UNCHANGED <<ref, free, cpu, scan, forks, leaked>>

(***************************************************************************)
(* mappages fails: uvmunmap frees the pages below the one that failed, so  *)
(* its reference stays.                                                    *)
(***************************************************************************)
ForkFails(p) ==
  /\ At(p, "map") /\ hand[p] = <<>>
  /\ leaked' = [leaked EXCEPT ![pte[p].pa] = @ + 1]
  /\ pc' = [pc EXCEPT ![p] = "run", ![child[p]] = "unused"]
  /\ child' = [child EXCEPT ![p] = None]
  /\ UNCHANGED <<ref, mem, poolVars, spaceVars, forks>>

-----------------------------------------------------------------------------
(* Stores, and copyonwrite() when one faults *)

Store(p, v) ==
  /\ At(p, "run")
  /\ pte[p].w
  /\ mem' = [mem EXCEPT ![pte[p].pa] = v]
  /\ UNCHANGED <<ref, pc, poolVars, spaceVars, forkVars>>

Fault(p) ==
  /\ At(p, "run")
  /\ ~pte[p].w /\ pte[p].cow
  /\ Goto(p, "cow")
  /\ UNCHANGED <<ref, mem, poolVars, spaceVars, forkVars>>

Decow(e) == [e EXCEPT !.w = TRUE, !.cow = FALSE]
Sole_Two(n) == n <= 2
Sole(n) == n = 1

\* kalloc_cow: the only reference makes the page the process's own.
CowSole(p) ==
  /\ At(p, "cow")
  /\ LET g == pte[p].pa
     IN IF ref[g] < 1 THEN Panic /\ UNCHANGED pte
        ELSE /\ Sole(ref[g]) /\ MayTakeLast(g)
             /\ pte' = [pte EXCEPT ![p] = Decow(@)]
             /\ Goto(p, "run")
  /\ UNCHANGED <<ref, mem, table, poolVars, forkVars>>

Dropped_Not(n) == n
Dropped(n) == n - 1

CowShared(p) ==
  /\ At(p, "cow")
  /\ LET g == pte[p].pa
     IN /\ ref[g] >= 1 /\ ~Sole(ref[g])
        /\ ref' = [ref EXCEPT ![g] = Dropped(@)]
  /\ Goto(p, "kalloc")
  /\ UNCHANGED <<mem, poolVars, spaceVars, forkVars>>

CowCopy(p) ==
  /\ At(p, "copy") /\ hand[p] # <<>>
  /\ LET g == Head(hand[p])
     IN /\ mem' = [mem EXCEPT ![g] = mem[pte[p].pa]]
        /\ pte' = [pte EXCEPT ![p] = [Decow(@) EXCEPT !.pa = g]]
  /\ hand' = [hand EXCEPT ![p] = <<>>]
  /\ Goto(p, "run")
  /\ UNCHANGED <<ref, table, free, cpu, scan, forkVars>>

\* kalloc has failed: the reference is taken back and usertrap kills the
\* process.
CowFails(p) ==
  /\ At(p, "copy") /\ hand[p] = <<>>
  /\ ref' = [ref EXCEPT ![pte[p].pa] = @ + 1]
  /\ Goto(p, "free")
  /\ UNCHANGED <<mem, poolVars, spaceVars, forkVars>>

\* exit: uvmfree unmaps the page and frees the page table.
Exit(p) ==
  /\ At(p, "run")
  /\ Goto(p, "free")
  /\ UNCHANGED <<ref, mem, poolVars, spaceVars, forkVars>>

-----------------------------------------------------------------------------
Kernel(p) == \/ \E i \in CPUs : KallocPop(p, i) \/ KfreePush(p, i)
             \/ KallocSteal(p) \/ KallocRefill(p) \/ KallocFails(p)
             \/ KallocCount(p) \/ KfreeDrop(p)
             \/ ForkShare(p)   \/ ForkMap(p)      \/ ForkFails(p)
             \/ CowSole(p)     \/ CowShared(p)    \/ CowCopy(p)
             \/ CowFails(p)
User(p) == \/ Fault(p)
           \/ Exit(p)
           \/ \E q \in Procs : Fork(p, q)
           \/ \E v \in Values : Store(p, v)

Next == \E p \in Procs : Kernel(p) \/ User(p)

Spec == Init /\ [][Next]_vars

\* The scheduler runs every thread that is in the kernel again and again.
FairSpec == Spec /\ \A p \in Procs : WF_vars(Kernel(p))

-----------------------------------------------------------------------------
(* Properties *)

\* For the runs: TLC need not tell processes, pages or values apart.
Symmetry == Permutations(Procs) \cup Permutations(Pages)
                            \cup Permutations(Values)

\* After a panic no CPU goes on.
PCs == {"unused", "embryo", "run", "share", "kalloc", "steal", "refill",
        "count", "map", "cow", "copy", "free", "push", "panic"}
TypeOK ==
  /\ free \in [CPUs -> Seq(Pages)]
  /\ ref \in [Pages -> Nat]
  /\ mem \in [Pages -> Values \cup {Junk, Table}]
  /\ pte \in [Procs -> [pa : Pages \cup {None}, w : BOOLEAN, cow : BOOLEAN]]
  /\ table \in [Procs -> Pages \cup {None}]
  /\ pc \in [Procs -> PCs]
  /\ cpu \in [Procs -> CPUs \cup {None}]
  /\ hand \in [Procs -> Seq(Pages)]
  /\ \A p \in Procs : pc[p] \in {"refill", "count", "push"} => hand[p] # <<>>
  /\ scan \in [Procs -> 0..NCPU]
  /\ child \in [Procs -> Procs \cup {None}]
  /\ forks \in 0..MaxForks
  /\ leaked \in [Pages -> Nat]

(***************************************************************************)
(* A page is on one free list, once, or in one thread's hands, or counted  *)
(* in ref_cnt: none is handed out twice, and none is lost, also when CPUs  *)
(* steal from one another.                                                 *)
(***************************************************************************)
Stores == ({"cpu"} \X CPUs) \cup ({"thread"} \X Procs)
Stored(s) == IF s[1] = "cpu" THEN free[s[2]]
             ELSE IF pc[s[2]] \in {"refill", "count", "push"} THEN hand[s[2]]
             ELSE <<>>
EachPageOnce ==
  /\ \A s \in Stores : IsInjective(Stored(s))
  /\ \A s, t \in Stores : s # t => ToSet(Stored(s)) \cap ToSet(Stored(t)) = {}
  /\ \A g \in Pages : ref[g] = 0 <=> \E s \in Stores : g \in ToSet(Stored(s))

(***************************************************************************)
(* ref_cnt is the number of references: PTEs, page-table pages, pages just *)
(* allocated, and the ones a failing fork has left behind.                 *)
(***************************************************************************)
Mapped(p) == pte[p].pa # None /\ ~InWindow(p) /\ ~(At(p, "push") /\ pte[p].pa # None)
Kinds == {"page", "table", "new", "shared"}
Target(p, kind) ==
  CASE kind = "page" -> IF Mapped(p) THEN pte[p].pa ELSE None
    [] kind = "table" -> IF At(p, "push") /\ pte[p].pa = None THEN None ELSE table[p]
    [] kind = "new" -> IF pc[p] \in {"map", "copy"} /\ hand[p] # <<>> THEN Head(hand[p])
                       ELSE None
    [] kind = "shared" -> IF child[p] # None /\ ~At(p, "share") THEN pte[p].pa ELSE None
References(g) ==
  Cardinality({t \in Procs \X Kinds : Target(t[1], t[2]) = g}) + leaked[g]
CountIsReferences == \A g \in Pages : ref[g] = References(g)

(***************************************************************************)
(* A page one process may store to is in no other process's address space, *)
(* nor is it a page table: what PTE_COW and ref_cnt are there for.         *)
(***************************************************************************)
WriterIsAlone ==
  \A p, q \in Procs :
    /\ p # q /\ pte[p].w => pte[q].pa # pte[p].pa
    /\ pte[p].pa # None => pte[p].pa # table[q]

\* What a process reads in its page.
Content(p) == IF pc[p] \in {"unused", "embryo", "free", "push"} THEN None
              ELSE mem[pte[p].pa]
Abstract == INSTANCE AddressSpaces WITH content <- [p \in Procs |-> Content(p)]

\* fork gives the child a copy, and no process sees another one's stores.
ImplementsAddressSpaces == Abstract!Spec

=============================================================================
