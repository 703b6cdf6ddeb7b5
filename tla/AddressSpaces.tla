---------------------------- MODULE AddressSpaces ---------------------------
(***************************************************************************)
(* What fork and virtual memory promise a process: memory of its own.  A   *)
(* child starts with a copy of its parent's; from then on a store is seen  *)
(* by the process that made it and by no other.  Memory implements this    *)
(* with pages that parent and child share until one of them stores.        *)
(***************************************************************************)
CONSTANTS Procs,   \* the processes
          Values,  \* what a process stores
          None     \* the content of a process that does not exist

VARIABLE content

Init == \E p \in Procs, v \in Values :
          content = [q \in Procs |-> IF q = p THEN v ELSE None]

Store(p, v) == /\ content[p] # None
               /\ content' = [content EXCEPT ![p] = v]

Fork(p, q) == /\ content[p] # None
              /\ content[q] = None
              /\ content' = [content EXCEPT ![q] = content[p]]

Exit(p) == content' = [content EXCEPT ![p] = None]

Next == \E p \in Procs : \/ Exit(p)
                         \/ \E q \in Procs : Fork(p, q)
                         \/ \E v \in Values : Store(p, v)

Spec == Init /\ [][Next]_content
=============================================================================
