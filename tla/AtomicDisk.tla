----------------------------- MODULE AtomicDisk -----------------------------
(***************************************************************************)
(* What the log of kernel/log.c promises to the file system calls: the     *)
(* blocks they write reach the disk all together, at a moment when none of *)
(* them is under way, so that after a crash the disk holds the effect of   *)
(* whole calls only.                                                       *)
(***************************************************************************)
CONSTANTS Threads, Blocks, Values

VARIABLES mem,      \* what the calls read and write
          stable,   \* what a crash leaves
          active    \* the threads inside a call: between begin_op and end_op

Init == /\ mem \in [Blocks -> Values]
        /\ stable = mem
        /\ active = {}

Begin(t) == /\ t \notin active
            /\ active' = active \cup {t}
            /\ UNCHANGED <<mem, stable>>

Write(t, n, v) == /\ t \in active
                  /\ mem' = [mem EXCEPT ![n] = v]
                  /\ UNCHANGED <<stable, active>>

End(t) == /\ t \in active
          /\ active' = active \ {t}
          /\ UNCHANGED <<mem, stable>>

Commit == /\ active = {}
          /\ stable' = mem
          /\ UNCHANGED <<mem, active>>

Crash == /\ mem' = stable
         /\ active' = {}
         /\ UNCHANGED stable

Next == \/ Commit \/ Crash
        \/ \E t \in Threads : \/ Begin(t) \/ End(t)
                              \/ \E n \in Blocks, v \in Values : Write(t, n, v)

vars == <<mem, stable, active>>
Spec == Init /\ [][Next]_vars

=============================================================================
