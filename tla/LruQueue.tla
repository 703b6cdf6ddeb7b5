------------------------------ MODULE LruQueue ------------------------------
(***************************************************************************)
(* What the queue of unused buffers of kernel/bio.c promises to bget and   *)
(* brelse: a FIFO queue of buffers, each in it at most once.               *)
(*                                                                         *)
(* The first node of the queue is its sentinel (bcache.head points to it): *)
(* it is dequeued, and returned, only when another node is there to be the *)
(* sentinel after it, so the last node can never be taken.                 *)
(*                                                                         *)
(* A buffer goes round four phases: "out" of the queue; "linking" once an  *)
(* enqueuer has claimed it (in_q set); "queued"; "taken" by a dequeuer     *)
(* that has not yet given the claim up (in_q still set).                   *)
(***************************************************************************)
EXTENDS Naturals, Sequences

CONSTANT Nodes          \* the indices of the struct bufs

VARIABLES queue,        \* the nodes, oldest first
          phase         \* of each node

Phases == {"out", "linking", "queued", "taken"}

Init == /\ queue \in Seq(Nodes)
        /\ \A i, j \in DOMAIN queue : queue[i] = queue[j] => i = j
        /\ Len(queue) >= 1
        /\ phase = [b \in Nodes |-> IF \E i \in DOMAIN queue : queue[i] = b
                                    THEN "queued" ELSE "out"]

Claim(b) == /\ phase[b] = "out"
            /\ phase' = [phase EXCEPT ![b] = "linking"]
            /\ UNCHANGED queue

Link(b) == /\ phase[b] = "linking"
           /\ phase' = [phase EXCEPT ![b] = "queued"]
           /\ queue' = Append(queue, b)

Take == /\ Len(queue) > 1
        /\ phase' = [phase EXCEPT ![Head(queue)] = "taken"]
        /\ queue' = Tail(queue)

Unclaim(b) == /\ phase[b] = "taken"
              /\ phase' = [phase EXCEPT ![b] = "out"]
              /\ UNCHANGED queue

Next == \/ Take
        \/ \E b \in Nodes : Claim(b) \/ Link(b) \/ Unclaim(b)

Spec == Init /\ [][Next]_<<queue, phase>>

=============================================================================
