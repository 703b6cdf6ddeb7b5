--------------------------- MODULE LockFreeQueue ----------------------------
(***************************************************************************)
(* The queue of unused buffers of kernel/bio.c: enqueue() and dequeue(),   *)
(* a Michael-Scott queue whose nodes are the struct bufs themselves.  One  *)
(* action is one access to shared memory (a load, a store or a CAS).       *)
(*                                                                         *)
(* A pointer is a record [cnt, ptr], the CNTPTR() word: cnt is the counter *)
(* that is to tell a reused node from the one a CAS expected.              *)
(*                                                                         *)
(* Definitions such as HeadIs_Store are the faulty forms of the            *)
(* definition next to them with which the properties are put to the test.  *)
(***************************************************************************)
EXTENDS Naturals, Sequences, FiniteSets

CONSTANTS NBUF,        \* number of buffers; buffer NBUF is the first sentinel
          Enqueuers,   \* the threads that call enqueue
          Dequeuers,   \* the threads that call dequeue
          MaxOps,      \* bound: the calls a thread makes
          Races        \* whether schedules may enter enqueue's window

ASSUME QueueAssumption == /\ NBUF \in Nat \ {0}
                          /\ MaxOps \in Nat
                          /\ Races \in BOOLEAN

Threads == Enqueuers \cup Dequeuers
Buffers == 0..NBUF
NULL == NBUF + 1                                  \* PTRNULL
CntPtr(c, p) == [cnt |-> c, ptr |-> p]

VARIABLES head, tail,  \* bcache.head and bcache.tail
          qnext,       \* buf.qnext
          in_q,        \* buf.in_q
          pc,          \* where a thread is
          loc,         \* its local variables
          ops          \* the calls it has made

vars == <<head, tail, qnext, in_q, pc, loc, ops>>

NoLocals == [b |-> NULL, head |-> CntPtr(0, NULL), tail |-> CntPtr(0, NULL),
             next |-> CntPtr(0, NULL)]

(***************************************************************************)
(* binit() enqueues buffers 0, 1, ..., NBUF-1 behind the sentinel, with no *)
(* other thread running.  The sentinel itself is not claimed.              *)
(***************************************************************************)
Init ==
  /\ head = CntPtr(0, NBUF)
  /\ tail = CntPtr(NBUF, NBUF - 1)
  /\ qnext = [b \in Buffers |-> IF b = NBUF THEN CntPtr(1, 0)
                                ELSE IF b = NBUF - 1 THEN CntPtr(0, NULL)
                                ELSE CntPtr(1, b + 1)]
  /\ in_q = [b \in Buffers |-> b # NBUF]
  /\ pc = [t \in Threads |-> "idle"]
  /\ loc = [t \in Threads |-> NoLocals]
  /\ ops = [t \in Threads |-> 0]

Goto(t, l) == pc' = [pc EXCEPT ![t] = l]
At(t, l) == pc[t] = l
Set(t, var, val) == loc' = [loc EXCEPT ![t][var] = val]
Return(t) == Goto(t, "idle") /\ loc' = [loc EXCEPT ![t] = NoLocals]
Call(t) == /\ At(t, "idle")
           /\ ops[t] < MaxOps
           /\ ops' = [ops EXCEPT ![t] = @ + 1]

-----------------------------------------------------------------------------
(* enqueue(b) *)

(***************************************************************************)
(* The callers hold any buffer or none: brelse calls enqueue for a buffer  *)
(* whose count it took to 0, which by then may be in use again, or in the  *)
(* queue.  Only the first sentinel is nobody's until a dequeue returns it. *)
(***************************************************************************)
Dequeued(t, b) == At(t, "unclaim") /\ loc[t].b = b

EnqClaim(t, b) ==
  /\ Call(t)
  /\ in_q[b] \/ (head.ptr # b /\ ~\E u \in Threads : Dequeued(u, b))
  /\ \/ /\ in_q[b]                     \* the CAS on in_q fails: return
        /\ UNCHANGED <<in_q, pc, loc>>
     \/ /\ ~in_q[b]
        /\ in_q' = [in_q EXCEPT ![b] = TRUE]
        /\ Goto(t, "reset")
        /\ Set(t, "b", b)
  /\ UNCHANGED <<head, tail, qnext>>

Reset(b) == CntPtr(0, NULL)

(***************************************************************************)
(* The window: qnext goes back to the very word (0, NULL) it had when the  *)
(* node was last reset, so the CAS of a thread that stalled before line 59 *)
(* with that word succeeds on a node that has left the list.  Races =      *)
(* FALSE holds EnqReset back while a thread is stalled there with node b.  *)
(***************************************************************************)
MayReset(b) ==
  Races \/ ~\E u \in Threads : At(u, "link") /\ loc[u].tail.ptr = b

EnqReset(t) ==
  /\ At(t, "reset")
  /\ MayReset(loc[t].b)
  /\ qnext' = [qnext EXCEPT ![loc[t].b] = Reset(loc[t].b)]
  /\ Goto(t, "enq_tail")
  /\ UNCHANGED <<head, tail, in_q, loc, ops>>

EnqReadTail(t) ==
  /\ At(t, "enq_tail")
  /\ Set(t, "tail", tail)
  /\ Goto(t, "enq_next")
  /\ UNCHANGED <<head, tail, qnext, in_q, ops>>

EnqReadNext(t) ==
  /\ At(t, "enq_next")
  /\ Set(t, "next", qnext[loc[t].tail.ptr])
  /\ Goto(t, "enq_check")
  /\ UNCHANGED <<head, tail, qnext, in_q, ops>>

EnqCheck(t) ==
  /\ At(t, "enq_check")
  /\ Goto(t, IF loc[t].tail # tail THEN "enq_tail"
             ELSE IF loc[t].next.ptr = NULL THEN "link" ELSE "enq_help")
  /\ UNCHANGED <<head, tail, qnext, in_q, loc, ops>>

Linked(c, b) == CntPtr(c + 1, b)

\* CAS of the tail node's qnext from NULL to b.
EnqLink(t) ==
  /\ At(t, "link")
  /\ LET n == loc[t].tail.ptr
     IN IF qnext[n] = loc[t].next
        THEN /\ qnext' = [qnext EXCEPT ![n] = Linked(@.cnt, loc[t].b)]
             /\ Goto(t, "swing")
        ELSE Goto(t, "enq_tail") /\ UNCHANGED qnext
  /\ UNCHANGED <<head, tail, in_q, loc, ops>>

MoveTail_Never(t, p) == UNCHANGED tail
\* CAS of bcache.tail from the tail the thread read to node p.
MoveTail(t, p) ==
  tail' = IF tail = loc[t].tail THEN CntPtr(tail.cnt + 1, p) ELSE tail

EnqHelp(t) ==
  /\ At(t, "enq_help")
  /\ MoveTail(t, loc[t].next.ptr)
  /\ Goto(t, "enq_tail")
  /\ UNCHANGED <<head, qnext, in_q, loc, ops>>

EnqSwing(t) ==
  /\ At(t, "swing")
  /\ MoveTail(t, loc[t].b)
  /\ Return(t)
  /\ UNCHANGED <<head, qnext, in_q, ops>>

-----------------------------------------------------------------------------
(* dequeue() *)

DeqCall(t) ==
  /\ Call(t)
  /\ Goto(t, "deq_head")
  /\ UNCHANGED <<head, tail, qnext, in_q, loc>>

DeqReadHead(t) ==
  /\ At(t, "deq_head")
  /\ Set(t, "head", head)
  /\ Goto(t, "deq_tail")
  /\ UNCHANGED <<head, tail, qnext, in_q, ops>>

DeqReadTail(t) ==
  /\ At(t, "deq_tail")
  /\ Set(t, "tail", tail)
  /\ Goto(t, "deq_next")
  /\ UNCHANGED <<head, tail, qnext, in_q, ops>>

DeqReadNext(t) ==
  /\ At(t, "deq_next")
  /\ Set(t, "next", qnext[loc[t].head.ptr])
  /\ Goto(t, "deq_check")
  /\ UNCHANGED <<head, tail, qnext, in_q, ops>>

DeqCheck(t) ==
  /\ At(t, "deq_check")
  /\ Goto(t, IF loc[t].head # head THEN "deq_head"
             ELSE IF loc[t].head.ptr # loc[t].tail.ptr THEN "take"
             ELSE IF loc[t].next.ptr # NULL THEN "deq_help"
             ELSE "none")
  /\ UNCHANGED <<head, tail, qnext, in_q, loc, ops>>

\* return 0: bget panics "bget: no buffers".
DeqNone(t) ==
  /\ At(t, "none")
  /\ Return(t)
  /\ UNCHANGED <<head, tail, qnext, in_q, ops>>

DeqHelp(t) ==
  /\ At(t, "deq_help")
  /\ MoveTail(t, loc[t].next.ptr)
  /\ Goto(t, "deq_head")
  /\ UNCHANGED <<head, qnext, in_q, loc, ops>>

HeadIs_Store(p) == TRUE
HeadIs(p) == head = p

\* CAS of bcache.head to the next node; the old head node is returned.
DeqTake(t) ==
  /\ At(t, "take")
  /\ IF HeadIs(loc[t].head)
     THEN /\ head' = CntPtr(head.cnt + 1, loc[t].next.ptr)
          /\ Set(t, "b", head.ptr)
          /\ Goto(t, "unclaim")
     ELSE Goto(t, "deq_head") /\ UNCHANGED <<head, loc>>
  /\ UNCHANGED <<tail, qnext, in_q, ops>>

Unclaimed(b) == [in_q EXCEPT ![b] = FALSE]

DeqUnclaim(t) ==
  /\ At(t, "unclaim")
  /\ in_q' = Unclaimed(loc[t].b)
  /\ Return(t)
  /\ UNCHANGED <<head, tail, qnext, ops>>

-----------------------------------------------------------------------------
Enqueue(t) == \/ EnqReset(t)    \/ EnqReadTail(t) \/ EnqReadNext(t)
              \/ EnqCheck(t)    \/ EnqLink(t)     \/ EnqHelp(t)
              \/ EnqSwing(t)
Dequeue(t) == \/ DeqReadHead(t) \/ DeqReadTail(t) \/ DeqReadNext(t)
              \/ DeqCheck(t)    \/ DeqNone(t)     \/ DeqHelp(t)
              \/ DeqTake(t)     \/ DeqUnclaim(t)

Next == \/ \E t \in Enqueuers : Enqueue(t) \/ \E b \in Buffers : EnqClaim(t, b)
        \/ \E t \in Dequeuers : Dequeue(t) \/ DeqCall(t)

Spec == Init /\ [][Next]_vars

\* A thread that has called enqueue or dequeue is scheduled again and again.
Fairness == \A t \in Threads : WF_vars(Enqueue(t) \/ Dequeue(t))
FairSpec == Spec /\ Fairness

-----------------------------------------------------------------------------
(* The queue the words in memory stand for. *)

\* The i-th node after the sentinel, NULL past the end.
NodeAt[i \in 0..(NBUF + 1)] ==
  IF i = 0 THEN head.ptr
  ELSE IF NodeAt[i - 1] = NULL THEN NULL ELSE qnext[NodeAt[i - 1]].ptr

Length == Cardinality({i \in 0..(NBUF + 1) : NodeAt[i] # NULL})
Chain == [i \in 1..Length |-> NodeAt[i - 1]]
Queued(b) == \E i \in 1..Length : Chain[i] = b

\* b is claimed by a thread that has yet to link it, or has just taken it.
LinkLabels == {"reset", "enq_tail", "enq_next", "enq_check", "link",
               "enq_help"}
Linking(b) == \E t \in Threads : loc[t].b = b /\ pc[t] \in LinkLabels
Taken(b) == \E t \in Threads : Dequeued(t, b)

Phase(b) == IF Queued(b) THEN "queued"
            ELSE IF Linking(b) THEN "linking"
            ELSE IF Taken(b) THEN "taken" ELSE "out"

Abstract == INSTANCE LruQueue
              WITH Nodes <- Buffers, queue <- Chain,
                   phase <- [b \in Buffers |-> Phase(b)]

-----------------------------------------------------------------------------
(* Properties *)

(***************************************************************************)
(* The claim in_q means what enqueue and dequeue use it for: a claimed     *)
(* buffer is in the queue, or a thread is putting it there or has just     *)
(* taken it out.  Were it not, every later enqueue of the buffer would     *)
(* return early and the buffer would be lost to the cache.                 *)
(***************************************************************************)
ClaimedIsQueued ==
  \A b \in Buffers : in_q[b] => Queued(b) \/ Linking(b) \/ Taken(b)

\* enqueue and dequeue implement the FIFO queue of LruQueue.
ImplementsLruQueue == Abstract!Spec

\* Every call returns although no thread ever waits for another one.
EveryCallReturns == \A t \in Threads : (pc[t] # "idle") ~> (pc[t] = "idle")

=============================================================================
