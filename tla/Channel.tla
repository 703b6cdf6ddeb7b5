------------------------------- MODULE Channel ------------------------------
(***************************************************************************)
(* What a pipe promises: the bytes written to it are a bounded FIFO        *)
(* queue, and each is handed to one reader, once.  Pipe implements this    *)
(* with a ring whose lock is released between any two bytes.               *)
(***************************************************************************)
EXTENDS Naturals, Sequences

CONSTANTS Procs,   \* the processes that may read
          Bytes,
          SIZE     \* the most bytes that are on their way

VARIABLES chan,    \* the bytes that are on their way, oldest first
          got      \* the byte each process has received last

Init == chan = <<>> /\ got \in [Procs -> Bytes]

Send(b) == /\ Len(chan) < SIZE
           /\ chan' = Append(chan, b)
           /\ UNCHANGED got

Receive(p) == /\ chan # <<>>
              /\ got' = [got EXCEPT ![p] = Head(chan)]
              /\ chan' = Tail(chan)

Next == (\E b \in Bytes : Send(b)) \/ (\E p \in Procs : Receive(p))

Spec == Init /\ [][Next]_<<chan, got>>
=============================================================================
