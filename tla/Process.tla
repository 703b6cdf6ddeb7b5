------------------------------ MODULE Process -------------------------------
(***************************************************************************)
(* The life of processes and of their threads in kernel/proc.c: fork and   *)
(* clone, exit with tpkill and reparent, wait and join, kill, and the      *)
(* sleep and wakeup between them.                                          *)
(*                                                                         *)
(* One action is one critical section of wait_lock or of a p->lock, or     *)
(* part of a longer one where kill, which does not take wait_lock, may     *)
(* come in between.  RUNNABLE stands for RUNNING too.  Memory, files and   *)
(* signals are left out.                                                   *)
(*                                                                         *)
(* Definitions such as Woken_NoInit are the faulty forms of the            *)
(* definition next to them with which the properties are put to the test.  *)
(***************************************************************************)
EXTENDS Naturals, FiniteSets

CONSTANTS NPROC,     \* slots of the process table; slot 1 is initproc
          None,      \* no slot
          MaxForks,  \* bound: the calls of fork and clone
          MaxKills,  \* bound: the calls of kill
          MaxFaults, \* bound: the calls of wait and join with a bad address
          Races      \* whether kill may come between killed() and sleep()

ASSUME ProcessAssumption ==
  /\ NPROC \in Nat \ {0}
  /\ {MaxForks, MaxKills, MaxFaults} \subseteq Nat
  /\ Races \in BOOLEAN
  /\ None \notin 1..NPROC

Procs == 1..NPROC
initproc == 1

VARIABLES state, parent, isthread, killed,  \* the fields of struct proc
          space,      \* the process whose page table it runs in
          pc,         \* where it is
          new,        \* the slot fork or clone is filling
          joining,    \* whether it scans for threads (join) or not (wait)
          wait_lock,  \* the holder of wait_lock
          forks, kills, faults

table == <<state, parent, isthread, killed, space>>
locals == <<pc, new, joining>>
bounds == <<forks, kills, faults>>
vars == <<table, locals, wait_lock, bounds>>

Init ==
  /\ state = [p \in Procs |-> IF p = initproc THEN "RUNNABLE" ELSE "UNUSED"]
  /\ parent = [p \in Procs |-> None]
  /\ isthread = [p \in Procs |-> FALSE]
  /\ killed = [p \in Procs |-> FALSE]
  /\ space = [p \in Procs |-> IF p = initproc THEN p ELSE None]
  /\ pc = [p \in Procs |-> IF p = initproc THEN "user" ELSE "none"]
  /\ new = [p \in Procs |-> None]
  /\ joining = [p \in Procs |-> FALSE]
  /\ wait_lock = None
  /\ forks = 0 /\ kills = 0 /\ faults = 0

At(p, l) == state[p] = "RUNNABLE" /\ pc[p] = l
Goto(p, l) == pc' = [pc EXCEPT ![p] = l]
\* usertrap lets a killed process make no more system calls.
Calls(p) == At(p, "user") /\ ~killed[p]

ThreadsOf(p) == {q \in Procs : parent[q] = p /\ isthread[q]}
ChildrenOf(p) == {q \in Procs : parent[q] = p /\ ~isthread[q]}
Zombies(S) == {q \in S : state[q] = "ZOMBIE"}
First(S) == CHOOSE q \in S : \A r \in S : q <= r

\* The process states after wakeup(c) for each c of chans: every sleep here
\* is on the sleeper's own struct proc.
Wakeup(chans, st) ==
  [p \in Procs |-> IF p \in chans /\ st[p] = "SLEEPING" THEN "RUNNABLE" ELSE st[p]]

\* freeproc() of the slots S, with process states st.
Freeproc(S, st) ==
  /\ state' = [p \in Procs |-> IF p \in S THEN "UNUSED" ELSE st[p]]
  /\ parent' = [p \in Procs |-> IF p \in S THEN None ELSE parent[p]]
  /\ isthread' = [p \in Procs |-> p \notin S /\ isthread[p]]
  /\ killed' = [p \in Procs |-> p \notin S /\ killed[p]]
  /\ space' = [p \in Procs |-> IF p \in S THEN None ELSE space[p]]

-----------------------------------------------------------------------------
(* fork() and clone() *)

Unused == {q \in Procs : state[q] = "UNUSED"}

Alloc(p, q, thread, step) ==
  /\ Calls(p)
  /\ forks < MaxForks
  /\ Unused # {} /\ q = First(Unused)
  /\ forks' = forks + 1
  /\ state' = [state EXCEPT ![q] = "USED"]
  /\ isthread' = [isthread EXCEPT ![q] = thread]
  /\ space' = [space EXCEPT ![q] = IF thread THEN space[p] ELSE q]
  /\ new' = [new EXCEPT ![p] = q]
  /\ Goto(p, step)
  /\ UNCHANGED <<killed, joining, wait_lock, kills, faults>>

ForkAlloc(p) == \E q \in Procs : Alloc(p, q, FALSE, "fork_parent") /\ UNCHANGED parent

ForkParent(p) ==
  /\ At(p, "fork_parent") /\ wait_lock = None
  /\ parent' = [parent EXCEPT ![new[p]] = p]
  /\ Goto(p, "run_child")
  /\ UNCHANGED <<state, isthread, killed, space, new, joining, wait_lock, bounds>>

\* The program of initproc, user/init.c, makes no threads.
CloneAlloc(p) ==
  /\ p # initproc
  /\ \E q \in Procs : /\ Alloc(p, q, TRUE, "run_child")
                      /\ parent' = [parent EXCEPT ![q] = p]

\* The end of fork and of clone.
RunChild(p) ==
  /\ At(p, "run_child")
  /\ state' = [state EXCEPT ![new[p]] = "RUNNABLE"]
  /\ pc' = [pc EXCEPT ![p] = "user", ![new[p]] = "user"]
  /\ new' = [new EXCEPT ![p] = None]
  /\ UNCHANGED <<parent, isthread, killed, space, joining, wait_lock, bounds>>

\* No guard page or no room for the trapframe: err of clone.
CloneFails(p) ==
  /\ At(p, "run_child") /\ isthread[new[p]]
  /\ Freeproc({new[p]}, state)
  /\ Goto(p, "user")
  /\ new' = [new EXCEPT ![p] = None]
  /\ UNCHANGED <<joining, wait_lock, bounds>>

-----------------------------------------------------------------------------
(* exit(): tpkill(), reparent(), ZOMBIE *)

ExitCall(p) ==
  /\ At(p, "user") /\ p # initproc
  /\ Goto(p, "tpkill")
  /\ UNCHANGED <<table, new, joining, wait_lock, bounds>>

Doomed(p) == ThreadsOf(p)

TpKill(p) ==
  /\ At(p, "tpkill") /\ wait_lock = None
  /\ wait_lock' = p
  /\ killed' = [q \in Procs |-> killed[q] \/ q \in Doomed(p)]
  /\ state' = Wakeup(Doomed(p), state)
  /\ Goto(p, "tp_scan")
  /\ UNCHANGED <<parent, isthread, space, new, joining, bounds>>

MustAwait_Never(p) == FALSE
\* havethreads
MustAwait(p) == Zombies(ThreadsOf(p)) # ThreadsOf(p)

\* The scan frees the dead threads that come before the first one alive.
TpScan(p) ==
  /\ At(p, "tp_scan")
  /\ LET alive == ThreadsOf(p) \ Zombies(ThreadsOf(p))
         dead == {t \in Zombies(ThreadsOf(p)) : \A u \in alive : t < u}
     IN IF MustAwait(p)
        THEN /\ Freeproc(dead, [state EXCEPT ![p] = "SLEEPING"])
             /\ Goto(p, "tp_woken")
        ELSE /\ Freeproc(dead, state)
             /\ Goto(p, "exit")
  /\ wait_lock' = None
  /\ UNCHANGED <<new, joining, bounds>>

Relock(p, from, to) ==
  /\ At(p, from) /\ wait_lock = None
  /\ wait_lock' = p
  /\ Goto(p, to)
  /\ UNCHANGED <<table, new, joining, bounds>>

Woken_NoInit(p) == {parent[p]}
\* wakeup(initproc) of reparent and wakeup(p->parent) of exit.
Woken(p) == {parent[p]} \cup IF ChildrenOf(p) # {} THEN {initproc} ELSE {}

Heir_Kept(p) == p
Heir(p) == initproc

ExitZombie(p) ==
  /\ At(p, "exit") /\ wait_lock = None
  /\ parent' = [q \in Procs |-> IF q \in ChildrenOf(p) THEN Heir(p) ELSE parent[q]]
  /\ state' = [Wakeup(Woken(p), state) EXCEPT ![p] = "ZOMBIE"]
  /\ Goto(p, "none")
  /\ UNCHANGED <<isthread, killed, space, new, joining, wait_lock, bounds>>

-----------------------------------------------------------------------------
(* wait() and join() *)

Sought(p) == IF joining[p] THEN ThreadsOf(p) ELSE ChildrenOf(p)

\* A call with nothing to wait for returns at once.
WaitCall(p, j) ==
  /\ Calls(p)
  /\ wait_lock = None
  /\ wait_lock' = p
  /\ (IF j THEN ThreadsOf(p) ELSE ChildrenOf(p)) # {}
  /\ joining' = [joining EXCEPT ![p] = j]
  /\ Goto(p, "scan")
  /\ UNCHANGED <<table, new, bounds>>

\* A zombie is freed and its pid returned.
WaitReap(p) ==
  /\ At(p, "scan")
  /\ Zombies(Sought(p)) # {}
  /\ Freeproc({First(Zombies(Sought(p)))}, state)
  /\ wait_lock' = None
  /\ Goto(p, "user")
  /\ UNCHANGED <<new, joining, bounds>>

\* copyout of the status fails: the zombie stays.  init asks for no status.
WaitFault(p) ==
  /\ At(p, "scan") /\ p # initproc
  /\ Zombies(Sought(p)) # {}
  /\ faults < MaxFaults
  /\ faults' = faults + 1
  /\ wait_lock' = None
  /\ Goto(p, "user")
  /\ UNCHANGED <<table, new, joining, forks, kills>>

GivesUp(p) == Sought(p) = {} \/ killed[p]

WaitDecide(p) ==
  /\ At(p, "scan")
  /\ Zombies(Sought(p)) = {}
  /\ IF GivesUp(p) THEN Goto(p, "user") /\ wait_lock' = None
                   ELSE Goto(p, "sleep") /\ UNCHANGED wait_lock
  /\ UNCHANGED <<table, new, joining, bounds>>

WaitSleep(p) ==
  /\ At(p, "sleep")
  /\ state' = [state EXCEPT ![p] = "SLEEPING"]
  /\ wait_lock' = None
  /\ Goto(p, "woken")
  /\ UNCHANGED <<parent, isthread, killed, space, new, joining, bounds>>

-----------------------------------------------------------------------------
(***************************************************************************)
(* kill(pid) of any process or thread but init.  The window: a process     *)
(* that has asked killed() and goes to sleep is not woken.                 *)
(***************************************************************************)
Roused_None(t) == state
Roused(t) == Wakeup({t}, state)

Kill(t) ==
  /\ kills < MaxKills
  /\ t # initproc /\ state[t] # "UNUSED"
  /\ Races \/ ~At(t, "sleep")
  /\ kills' = kills + 1
  /\ killed' = [killed EXCEPT ![t] = TRUE]
  /\ state' = Roused(t)
  /\ UNCHANGED <<parent, isthread, space, locals, wait_lock, forks, faults>>

-----------------------------------------------------------------------------
Kernel(p) == \/ ForkParent(p) \/ RunChild(p)   \/ CloneFails(p)
             \/ TpKill(p)     \/ TpScan(p)     \/ ExitZombie(p)
             \/ WaitReap(p)   \/ WaitFault(p)  \/ WaitDecide(p)
             \/ WaitSleep(p)
             \/ Relock(p, "tp_woken", "tp_scan")
             \/ Relock(p, "woken", "scan")
User(p) == \/ ForkAlloc(p) \/ CloneAlloc(p) \/ ExitCall(p)
           \/ WaitCall(p, FALSE) \/ WaitCall(p, TRUE)

Next == \E p \in Procs : Kernel(p) \/ User(p) \/ Kill(p)

Spec == Init /\ [][Next]_vars

(***************************************************************************)
(* Each thread in the kernel is scheduled again and again, the timer takes *)
(* a killed one out of user space into usertrap, and init calls wait in a  *)
(* loop (user/init.c).                                                     *)
(***************************************************************************)
Fairness == /\ \A p \in Procs : /\ WF_vars(Kernel(p))
                                /\ WF_vars(killed[p] /\ ExitCall(p))
            /\ WF_vars(WaitCall(initproc, FALSE))
FairSpec == Spec /\ Fairness

-----------------------------------------------------------------------------
(* Properties *)

States == {"UNUSED", "USED", "RUNNABLE", "SLEEPING", "ZOMBIE"}
PCs == {"none", "user", "fork_parent", "run_child", "tpkill", "tp_scan",
        "tp_woken", "exit", "scan", "sleep", "woken"}
TypeOK ==
  /\ state \in [Procs -> States]
  /\ parent \in [Procs -> Procs \cup {None}]
  /\ {isthread, killed, joining} \subseteq [Procs -> BOOLEAN]
  /\ space \in [Procs -> Procs \cup {None}]
  /\ pc \in [Procs -> PCs]
  /\ new \in [Procs -> Procs \cup {None}]
  /\ wait_lock \in Procs \cup {None}
  /\ \A p \in Procs :
       /\ state[p] = "SLEEPING" => pc[p] \in {"tp_woken", "woken"}
       /\ state[p] \in {"UNUSED", "USED", "ZOMBIE"} <=> pc[p] = "none"

Alive(p) == state[p] \in {"RUNNABLE", "SLEEPING"}

(***************************************************************************)
(* Every process and thread has a parent that has yet to exit, which can   *)
(* wait for it: exit hands the children to init and outlives its threads.  *)
(***************************************************************************)
ParentAlive ==
  \A p \in Procs : parent[p] # None => Alive(parent[p])

(***************************************************************************)
(* No thread runs in the address space of a process that has exited: its   *)
(* page table is freed with the process that owns it, by freeproc.         *)
(***************************************************************************)
SpaceAlive ==
  \A p \in Procs : Alive(p) \/ state[p] = "USED" => state[space[p]] # "UNUSED"

(***************************************************************************)
(* No wakeup is lost: no process sleeps in wait, join or tpkill while what *)
(* it waits for is there to be reaped.                                     *)
(***************************************************************************)
NoLostWakeup ==
  \A p \in Procs : state[p] = "SLEEPING" =>
    IF pc[p] = "woken" THEN Zombies(Sought(p)) = {} /\ Sought(p) # {}
                       ELSE ThreadsOf(p) # Zombies(ThreadsOf(p))

(***************************************************************************)
(* A process that exits is reaped by init when nobody else does so: what   *)
(* is orphaned does not fill the process table (reparent).                 *)
(***************************************************************************)
OrphansReaped ==
  \A p \in Procs : (state[p] = "ZOMBIE" /\ p \in ChildrenOf(initproc))
                     ~> state[p] # "ZOMBIE"

\* A killed process or thread exits, whatever it waits for (kill, tpkill).
KilledExits ==
  \A p \in Procs : (killed[p] /\ Alive(p)) ~> ~Alive(p)

=============================================================================
