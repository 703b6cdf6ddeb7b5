----------------------------- MODULE LogProofs ------------------------------
(***************************************************************************)
(* Proofs about Log, for every number of threads, blocks and log entries.  *)
(***************************************************************************)
EXTENDS Log, FiniteSetTheorems, TLAPS

\* The number of calls under way is log.outstanding.
LEMMA InOpCount ==
  ASSUME IInv
  PROVE  /\ IsFiniteSet(InOp)
         /\ \A t \in InOp : /\ outstanding \in Nat \ {0}
                            /\ Cardinality(InOp \ {t}) = outstanding - 1
         /\ \A t \in Threads \ InOp : Cardinality(InOp \cup {t}) = outstanding + 1
<1>1. IsFiniteSet(InOp)
  BY FS_Subset, LogAssumption DEF InOp, LogAssumption
<1>2. outstanding \in Nat /\ outstanding = Cardinality(InOp)
  BY DEF IInv, TypeOK, Presence
<1>3. ASSUME NEW t \in InOp
      PROVE  outstanding # 0 /\ Cardinality(InOp \ {t}) = outstanding - 1
  BY <1>1, <1>2, <1>3, FS_RemoveElement, FS_EmptySet
<1>4. ASSUME NEW t \in Threads \ InOp
      PROVE  Cardinality(InOp \cup {t}) = outstanding + 1
  BY <1>1, <1>2, <1>4, FS_AddElement
<1>5. QED
  BY <1>1, <1>2, <1>3, <1>4

\* The loop index of write_log and install_trans is in the header.
LEMMA TailInHeader ==
  ASSUME IInv, Somewhere({"write_log", "install"}) \/ mode = "install"
  PROVE  tail \in DOMAIN lh /\ tail \in Entries /\ lh[tail] \in Blocks
BY LogAssumption DEF IInv, TypeOK, Progress, Entries, LogAssumption

LEMMA EmptyHeader ==
  ASSUME lh' = <<>> PROVE lh' \in Seq(Blocks) /\ Len(lh') = 0
OBVIOUS

\* Moving a thread keeps the type of pc.
LEMMA GotoType ==
  ASSUME pc \in [Threads -> PCs], NEW t \in Threads, NEW l \in PCs,
         pc' = pc \/ Goto(t, l)
  PROVE  pc' \in [Threads -> PCs]
BY DEF Goto

LEMMA TypeStep == ASSUME IInv, [Next]_vars PROVE TypeOK'
<1>0. TypeOK
  BY DEF IInv
<1> USE <1>0, LogAssumption DEF LogAssumption, TypeOK, PCs, Entries, vars,
                                diskVars, ghosts, At, Up, Goto
<1>1. CASE UNCHANGED vars
  BY <1>1
<1>2. ASSUME NEW t \in Threads, CallBegin(t) PROVE TypeOK'
  BY <1>2 DEF CallBegin
<1>3. ASSUME NEW t \in Threads, BeginSleep(t) PROVE TypeOK'
  BY <1>3 DEF BeginSleep
<1>4. ASSUME NEW t \in Threads, BeginOp(t) PROVE TypeOK'
  BY <1>4 DEF BeginOp
<1>5. ASSUME NEW t \in Threads, EndOp(t) PROVE TypeOK'
  <2>1. outstanding' \in Nat
    <3>1. t \in InOp
      BY <1>5 DEF EndOp, InOp
    <3>2. outstanding \in Nat \ {0}
      BY <3>1, InOpCount
    <3>3. QED
      BY <1>5, <3>2 DEF EndOp
  <2>2. pc' \in [Threads -> PCs]
    BY <1>5 DEF EndOp, Woken
  <2>3. wrote' \in [Threads -> SUBSET Blocks]
    BY <1>5 DEF EndOp
  <2>4. committing' \in BOOLEAN /\ mode' \in {"up", "panic"}
    BY <1>5 DEF EndOp
  <2>5. QED
    BY <1>5, <2>1, <2>2, <2>3, <2>4 DEF EndOp
<1>6. ASSUME NEW t \in Threads, NEW n \in Blocks, LogWritePanic(t, n)
      PROVE TypeOK'
  BY <1>6 DEF LogWritePanic
<1>7. ASSUME NEW t \in Threads, NEW n \in Blocks, NEW v \in Values,
             LogWrite(t, n, v)
      PROVE TypeOK'
  BY <1>7 DEF LogWrite, Refused, CanWrite
<1>8. ASSUME NEW t \in Threads, WriteLog(t) PROVE TypeOK'
  <2>1. tail \in DOMAIN lh /\ tail \in Entries /\ lh[tail] \in Blocks
    BY <1>8, TailInHeader DEF WriteLog, Somewhere
  <2>2. logged' \in [Entries -> Values]
    BY <1>8, <2>1 DEF WriteLog
  <2>3. tail' \in Nat \ {0}
    BY <1>8 DEF WriteLog
  <2>4. pc' \in [Threads -> PCs]
    BY <1>8, GotoType DEF WriteLog
  <2>5. QED
    BY <1>8, <2>2, <2>3, <2>4 DEF WriteLog
<1>9. ASSUME NEW t \in Threads, WriteHead(t) PROVE TypeOK'
  BY <1>9 DEF WriteHead
<1>10. ASSUME NEW t \in Threads, Install(t) PROVE TypeOK'
  <2>1. tail \in DOMAIN lh /\ tail \in Entries /\ lh[tail] \in Blocks
    BY <1>10, TailInHeader DEF Install, Somewhere
  <2>2. cache' \in [Blocks -> Values] /\ disk' \in [Blocks -> Values]
    BY <1>10, <2>1 DEF Install, CopyHome
  <2>3. /\ lh' \in Seq(Blocks) /\ Len(lh') <= LOGSIZE
        /\ tail' \in Nat \ {0}
    <3>1. CASE tail < Len(lh)
      BY <1>10, <3>1 DEF Install
    <3>2. CASE ~(tail < Len(lh))
      <4>1. lh' = <<>> /\ tail' = 1
        BY <1>10, <3>2 DEF Install
      <4>2. QED
        BY <4>1, EmptyHeader
    <3>3. QED
      BY <3>1, <3>2
  <2>4. pc' \in [Threads -> PCs]
    BY <1>10, GotoType DEF Install
  <2>5. QED
    BY <1>10, <2>2, <2>3, <2>4 DEF Install
<1>11. ASSUME NEW t \in Threads, Erase(t) PROVE TypeOK'
  BY <1>11 DEF Erase
<1>12. ASSUME NEW t \in Threads, Finish(t) PROVE TypeOK'
  BY <1>12 DEF Finish, Woken
<1>13. ASSUME NEW n \in Blocks, Evict(n) PROVE TypeOK'
  BY <1>13 DEF Evict
<1>14. CASE ReadHead
  BY <1>14 DEF ReadHead
<1>15. CASE RecoverInstall
  <2>1. tail \in DOMAIN lh /\ tail \in Entries /\ lh[tail] \in Blocks
    BY <1>15, TailInHeader DEF RecoverInstall
  <2>2. cache' \in [Blocks -> Values] /\ disk' \in [Blocks -> Values]
    BY <1>15, <2>1 DEF RecoverInstall, CopyHome
  <2>3. /\ lh' \in Seq(Blocks) /\ Len(lh') <= LOGSIZE
        /\ tail' \in Nat \ {0}
    <3>1. CASE tail < Len(lh)
      BY <1>15, <3>1 DEF RecoverInstall
    <3>2. CASE ~(tail < Len(lh))
      <4>1. lh' = <<>> /\ tail' = 1
        BY <1>15, <3>2 DEF RecoverInstall
      <4>2. QED
        BY <4>1, EmptyHeader
    <3>3. QED
      BY <3>1, <3>2
  <2>4. mode' \in {"install", "erase"}
    BY <1>15 DEF RecoverInstall
  <2>5. QED
    BY <1>15, <2>2, <2>3, <2>4 DEF RecoverInstall
<1>16. CASE RecoverErase
  BY <1>16 DEF RecoverErase
<1>17. CASE Crash
  <2>1. lh' = <<>> /\ tail' \in Nat \ {0}
    BY <1>17 DEF Crash
  <2>2. lh' \in Seq(Blocks) /\ Len(lh') <= LOGSIZE
    BY <2>1, EmptyHeader
  <2>3. pc' \in [Threads -> PCs] /\ wrote' \in [Threads -> SUBSET Blocks]
    BY <1>17 DEF Crash
  <2>4. /\ crashes < MaxCrashes /\ crashes' = crashes + 1 /\ outstanding' = 0
        /\ committing' = FALSE /\ ops' = ops /\ header' = header
    BY <1>17 DEF Crash
  <2>5. /\ cache' \in [Blocks -> Values] /\ disk' \in [Blocks -> Values]
        /\ logged' \in [Entries -> Values] /\ pins' \subseteq Blocks
        /\ mode' = "read_head"
    BY <1>17 DEF Crash
  <2>6. header' \in Seq(Blocks) /\ Len(header') <= LOGSIZE
    BY <2>4
  <2>7. crashes' \in 0..MaxCrashes /\ ops' \in 0..MaxOps
    BY <2>4
  <2>8. outstanding' \in Nat /\ committing' \in BOOLEAN
    BY <2>4
  <2>9. QED
    BY <2>1, <2>2, <2>3, <2>5, <2>6, <2>7, <2>8
<1>18. QED
  BY <1>1, <1>2, <1>3, <1>4, <1>5, <1>6, <1>7, <1>8, <1>9, <1>10, <1>11,
     <1>12, <1>13, <1>14, <1>15, <1>16, <1>17 DEF Next, Commit, Recover

-----------------------------------------------------------------------------
(* Presence *)

Committers == {t \in Threads : pc[t] \in Committing}

\* A step that moves nobody into or out of a call or a commit.
LEMMA PresenceFrame ==
  ASSUME Presence, UNCHANGED <<outstanding, committing, InOp, Committers>>,
         ~Booted' => ~Booted /\ UNCHANGED pc
  PROVE  Presence'
<1>1. (outstanding = Cardinality(InOp))'
  BY DEF Presence
<1>2. Somewhere(Committing)' <=> Somewhere(Committing)
  BY DEF Committers, Somewhere
<1>3. CommitAlone'
  BY DEF Presence, CommitAlone, Committers
<1>4. (~Booted => \A t \in Threads : pc[t] = "out")'
  BY DEF Presence
<1>5. QED
  BY <1>1, <1>2, <1>3, <1>4 DEF Presence

LEMMA PresenceStep == ASSUME IInv, TypeOK', [Next]_vars PROVE Presence'
<1>0. TypeOK /\ Presence
  BY DEF IInv
<1>. DEFINE Still == UNCHANGED <<outstanding, committing, InOp, Committers>>
<1>. USE <1>0 DEF At, Up, Goto
<1>1. ASSUME UNCHANGED <<outstanding, committing, pc>>, ~Booted' => ~Booted
      PROVE  Presence'
  BY <1>1, PresenceFrame DEF InOp, Committers
<1>2. CASE UNCHANGED vars
  BY <1>1, <1>2 DEF vars, Booted
<1>3. ASSUME NEW t \in Threads, CallBegin(t) \/ BeginSleep(t) PROVE Presence'
  <2>1. InOp' = InOp /\ Committers' = Committers
    BY <1>3 DEF CallBegin, BeginSleep, InOp, Committers, Committing, TypeOK
  <2>2. QED
    BY <1>3, <2>1, PresenceFrame DEF CallBegin, BeginSleep, Booted
<1>4. ASSUME NEW t \in Threads, BeginOp(t) PROVE Presence'
  <2>1. InOp' = InOp \cup {t} /\ t \in Threads \ InOp
    BY <1>4 DEF BeginOp, InOp, TypeOK
  <2>2. Cardinality(InOp') = outstanding'
    BY <1>4, <2>1, InOpCount DEF BeginOp
  <2>3. ~Somewhere(Committing) /\ UNCHANGED <<committing, mode>>
    BY <1>4 DEF BeginOp, MustWait, Presence
  <2>4. ~Somewhere(Committing)'
    BY <1>4, <2>3 DEF BeginOp, Somewhere, Committing, TypeOK
  <2>5. Booted'
    BY <1>4 DEF BeginOp, Booted
  <2>6. QED
    BY <2>2, <2>3, <2>4, <2>5 DEF Presence, CommitAlone, Somewhere
<1>5. ASSUME NEW t \in Threads, EndOp(t) PROVE Presence'
  <2>1. t \in InOp /\ ~Somewhere(Committing) /\ ~committing
    BY <1>5 DEF EndOp, InOp, Presence, CommitAlone, Somewhere
  <2>2. outstanding' = outstanding - 1 /\ Cardinality(InOp \ {t}) = outstanding'
    BY <1>5, <2>1, InOpCount DEF EndOp
  <2>3. Booted'
    BY <1>5, <2>1 DEF EndOp, Booted
  <2>4. CASE outstanding' = 0
    <3>1. PICK l \in {"finish", "write_log"} : pc' = [pc EXCEPT ![t] = l]
      BY <1>5, <2>1, <2>4 DEF EndOp
    <3>2. InOp' = InOp \ {t}
      BY <3>1 DEF InOp, TypeOK
    <3>3. InOp \ {t} = {}
      BY <2>2, <2>4, InOpCount, FS_EmptySet, FS_RemoveElement
    <3>4. \A u \in Threads : pc'[u] \in Committing <=> u = t
      BY <2>1, <3>1 DEF Somewhere, Committing, TypeOK
    <3>5. committing' = TRUE
      BY <1>5, <2>1, <2>4 DEF EndOp
    <3>6. QED
      BY <2>2, <2>3, <3>2, <3>3, <3>4, <3>5 DEF Presence, CommitAlone, Somewhere
  <2>5. CASE outstanding' # 0
    <3>1. pc' = Woken([pc EXCEPT ![t] = "out"]) /\ UNCHANGED committing
      BY <1>5, <2>1, <2>5 DEF EndOp
    <3>2. InOp' = InOp \ {t} /\ ~Somewhere(Committing)'
      BY <2>1, <3>1 DEF InOp, TypeOK, Woken, Somewhere, Committing
    <3>3. QED
      BY <2>1, <2>2, <2>3, <3>1, <3>2 DEF Presence, CommitAlone, Somewhere
  <2>6. QED
    BY <2>4, <2>5
<1>6. ASSUME NEW n \in Blocks,
             \/ \E t \in Threads : LogWritePanic(t, n)
             \/ \E t \in Threads, v \in Values : LogWrite(t, n, v)
             \/ Evict(n)
      PROVE  Presence'
  BY <1>1, <1>6 DEF LogWritePanic, LogWrite, Evict, Booted
<1>7. ASSUME NEW t \in Threads,
             WriteLog(t) \/ WriteHead(t) \/ Install(t) \/ Erase(t)
      PROVE  Presence'
  <2>1. pc[t] \in Committing
    BY <1>7 DEF WriteLog, WriteHead, Install, Erase, Committing
  <2>2. pc' = pc \/ \E l \in Committing : pc' = [pc EXCEPT ![t] = l]
    BY <1>7 DEF WriteLog, WriteHead, Install, Erase, Committing
  <2>3. InOp' = InOp /\ Committers' = Committers
    BY <2>1, <2>2 DEF InOp, Committers, Committing, TypeOK
  <2>4. UNCHANGED <<outstanding, committing, mode>> /\ Booted
    BY <1>7 DEF WriteLog, WriteHead, Install, Erase, Booted
  <2>5. QED
    BY <2>3, <2>4, PresenceFrame DEF Booted
<1>8. ASSUME NEW t \in Threads, Finish(t) PROVE Presence'
  <2>1. Committers = {t} /\ InOp = {}
    BY <1>8 DEF Finish, Presence, CommitAlone, Committers, Committing
  <2>2. InOp' = {} /\ Committers' = {}
    BY <1>8, <2>1 DEF Finish, InOp, Committers, Committing, Woken, TypeOK
  <2>3. ~committing' /\ outstanding' = Cardinality(InOp) /\ Booted'
    BY <1>8 DEF Finish, Presence, Booted
  <2>4. QED
    BY <2>1, <2>2, <2>3 DEF Presence, CommitAlone, Somewhere, Committers
<1>9. CASE Recover
  BY <1>1, <1>9 DEF Recover, ReadHead, RecoverInstall, RecoverErase, Booted
<1>10. CASE Crash
  <2>1. pc' = [t \in Threads |-> "out"] /\ outstanding' = 0 /\ committing' = FALSE
    BY <1>10 DEF Crash
  <2>2. InOp' = {} /\ Committers' = {}
    BY <2>1 DEF InOp, Committers, Committing
  <2>3. QED
    BY <2>1, <2>2, FS_EmptySet DEF Presence, CommitAlone, Somewhere, Committers
<1>11. QED
  BY <1>2, <1>3, <1>4, <1>5, <1>6, <1>7, <1>8, <1>9, <1>10 DEF Next, Commit

-----------------------------------------------------------------------------
(* Quota *)

LEMMA QuotaFrame ==
  ASSUME Quota, UNCHANGED <<wrote, lh>>,
         \A t \in Threads : pc[t] = "in" => pc'[t] = "in"
  PROVE  Quota'
BY DEF Quota, InHeader

LEMMA QuotaEmpty ==
  ASSUME \A t \in Threads : wrote'[t] = {} PROVE Quota'
BY LogAssumption, FS_EmptySet DEF LogAssumption, Quota

\* A thread that is outside a call has logged nothing.
LEMMA NothingLogged ==
  ASSUME IInv, InOp = {} PROVE \A t \in Threads : wrote[t] = {}
BY DEF IInv, Quota, InOp

LEMMA NobodyInRecovery ==
  ASSUME IInv, ~Booted PROVE InOp = {}
BY DEF IInv, Presence, InOp

LEMMA NobodyInCommit ==
  ASSUME IInv, NEW t \in Threads, pc[t] \in Committing PROVE InOp = {}
BY DEF IInv, Presence, CommitAlone

\* The header after log_write: it has the block and all it had.
LEMMA HeaderAfterWrite ==
  ASSUME TypeOK, NEW n \in Blocks,
         lh' = IF InHeader(lh, n) THEN lh ELSE Append(lh, n)
  PROVE  /\ InHeader(lh', n)
         /\ \A m : InHeader(lh, m) => InHeader(lh', m)
         /\ Len(lh) <= Len(lh') /\ Len(lh') <= Len(lh) + 1
         /\ \A i \in DOMAIN lh : i \in DOMAIN lh' /\ lh'[i] = lh[i]
<1>0. lh \in Seq(Blocks)
  BY DEF TypeOK
<1>1. CASE InHeader(lh, n)
  BY <1>0, <1>1
<1>2. CASE ~InHeader(lh, n)
  <2>1. lh' = Append(lh, n)
    BY <1>2
  <2>2. /\ Len(lh') = Len(lh) + 1 /\ lh'[Len(lh) + 1] = n
        /\ \A i \in DOMAIN lh : i \in DOMAIN lh' /\ lh'[i] = lh[i]
        /\ Len(lh) + 1 \in DOMAIN lh' /\ Len(lh) \in Nat
    BY <1>0, <2>1
  <2>3. QED
    BY <2>2 DEF InHeader
<1>3. QED
  BY <1>1, <1>2

LEMMA QuotaStep == ASSUME IInv, TypeOK', [Next]_vars PROVE Quota'
<1>0. TypeOK /\ Quota
  BY DEF IInv
<1>. USE <1>0 DEF At, Up, Goto, ghosts
<1>1. CASE UNCHANGED vars
  BY <1>1, QuotaFrame DEF vars
<1>2. ASSUME NEW t \in Threads,
             \/ CallBegin(t) \/ BeginSleep(t) \/ BeginOp(t)
             \/ WriteLog(t) \/ WriteHead(t) \/ Erase(t) \/ Finish(t)
      PROVE  Quota'
  <2>1. UNCHANGED <<wrote, lh>>
    BY <1>2 DEF CallBegin, BeginSleep, BeginOp, WriteLog, WriteHead, Erase,
                Finish
  <2>2. \A u \in Threads : pc[u] = "in" => pc'[u] = "in"
    BY <1>2 DEF CallBegin, BeginSleep, BeginOp, WriteLog, WriteHead, Erase,
                Finish, Woken, TypeOK
  <2>3. QED
    BY <2>1, <2>2, QuotaFrame
<1>3. CASE \/ \E n \in Blocks : \/ Evict(n)
                                 \/ \E t \in Threads : LogWritePanic(t, n)
           \/ RecoverErase
  BY <1>3, QuotaFrame DEF Evict, LogWritePanic, RecoverErase
<1>4. ASSUME NEW t \in Threads, NEW n \in Blocks, NEW v \in Values,
             LogWrite(t, n, v)
      PROVE  Quota'
  <2>1. /\ wrote' = [wrote EXCEPT ![t] = @ \cup {n}] /\ pc' = pc
        /\ lh' = IF InHeader(lh, n) THEN lh ELSE Append(lh, n)
        /\ pc[t] = "in" /\ Cardinality(wrote[t] \cup {n}) <= OPBLOCKS
    BY <1>4 DEF LogWrite, CanWrite
  <2>2. /\ wrote'[t] = wrote[t] \cup {n}
        /\ \A u \in Threads : u # t => wrote'[u] = wrote[u]
    BY <2>1 DEF TypeOK
  <2>3. InHeader(lh', n) /\ \A m : InHeader(lh, m) => InHeader(lh', m)
    BY <2>1, HeaderAfterWrite
  <2>4. IsFiniteSet(wrote[t] \cup {n})
    BY FS_AddElement DEF Quota
  <2>5. QED
    BY <2>1, <2>2, <2>3, <2>4 DEF Quota
<1>5. ASSUME NEW t \in Threads, EndOp(t) PROVE Quota'
  <2>1. /\ wrote'[t] = {} /\ lh' = lh
        /\ \A u \in Threads : u # t => wrote'[u] = wrote[u]
    BY <1>5 DEF EndOp, TypeOK
  <2>2. \A u \in Threads : u # t /\ pc[u] = "in" => pc'[u] = "in"
    BY <1>5 DEF EndOp, Woken, TypeOK
  <2>3. IsFiniteSet({}) /\ Cardinality({}) = 0 /\ 0 <= OPBLOCKS
    BY FS_EmptySet, LogAssumption DEF LogAssumption
  <2>4. QED
    BY <2>1, <2>2, <2>3 DEF Quota
<1>6. ASSUME NEW t \in Threads, Install(t) PROVE Quota'
  BY <1>6, NobodyInCommit, NothingLogged, QuotaEmpty DEF Install, Committing
<1>7. CASE ReadHead \/ RecoverInstall
  BY <1>7, NobodyInRecovery, NothingLogged, QuotaEmpty
     DEF ReadHead, RecoverInstall, Booted
<1>8. CASE Crash
  BY <1>8, QuotaEmpty DEF Crash
<1>9. QED
  BY <1>1, <1>2, <1>3, <1>4, <1>5, <1>6, <1>7, <1>8 DEF Next, Commit, Recover

-----------------------------------------------------------------------------
(* ReservationFits *)

LEMMA ReservedFinite ==
  ASSUME IInv PROVE IsFiniteSet(Reserved) /\ Cardinality(Reserved) \in Nat
<1>1. IsFiniteSet(1..MAXOPBLOCKS)
  BY FS_Interval, LogAssumption DEF LogAssumption
<1>2. IsFiniteSet(InOp \X (1..MAXOPBLOCKS))
  BY <1>1, InOpCount, FS_Product
<1>3. QED
  BY <1>2, FS_Subset, FS_CardinalityType DEF Reserved

LEMMA ReservedEmpty ==
  ASSUME TypeOK', InOp' = {} PROVE ReservationFits'
<1>1. Reserved' = {}
  BY DEF Reserved
<1>2. Cardinality(Reserved') = 0
  BY <1>1, FS_EmptySet
<1>3. Len(lh') \in Nat /\ Len(lh') <= LOGSIZE
  BY DEF TypeOK
<1>4. QED
  BY <1>2, <1>3 DEF ReservationFits

LEMMA ReservedLess ==
  ASSUME IInv, TypeOK', lh' = lh, Reserved' \subseteq Reserved
  PROVE  ReservationFits'
<1>1. Cardinality(Reserved') <= Cardinality(Reserved)
      /\ Cardinality(Reserved') \in Nat /\ Cardinality(Reserved) \in Nat
  BY ReservedFinite, FS_Subset, FS_CardinalityType
<1>2. Len(lh) \in Nat /\ LOGSIZE \in Nat
  BY LogAssumption DEF LogAssumption, IInv, TypeOK
<1>3. QED
  BY <1>1, <1>2 DEF IInv, ReservationFits

LEMMA ReservationStep ==
  ASSUME IInv, TypeOK', Presence', Quota', [Next]_vars PROVE ReservationFits'
<1>0. TypeOK /\ Quota /\ Presence
  BY DEF IInv
<1>. USE <1>0 DEF At, Up, Goto, ghosts
<1>1. CASE UNCHANGED vars
  BY <1>1, ReservedLess DEF vars, Reserved, InOp
<1>2. ASSUME NEW t \in Threads, CallBegin(t) \/ BeginSleep(t)
      PROVE  ReservationFits'
  <2>1. UNCHANGED <<wrote, lh, InOp>>
    BY <1>2 DEF CallBegin, BeginSleep, InOp, TypeOK
  <2>2. QED
    BY <2>1, ReservedLess DEF Reserved
<1>3. ASSUME NEW t \in Threads, BeginOp(t) PROVE ReservationFits'
  <2>1. /\ Len(lh) + (outstanding + 1) * MAXOPBLOCKS <= LOGSIZE
        /\ lh' = lh /\ outstanding' = outstanding + 1
    BY <1>3, LogAssumption DEF BeginOp, MustWait, LogAssumption, TypeOK
  <2>2. IsFiniteSet(InOp')
    BY FS_Subset, LogAssumption DEF LogAssumption, InOp
  <2>3. outstanding' = Cardinality(InOp')
    BY DEF Presence
  <2>4. IsFiniteSet(1..MAXOPBLOCKS) /\ Cardinality(1..MAXOPBLOCKS) = MAXOPBLOCKS
    BY FS_Interval, LogAssumption DEF LogAssumption
  <2>5. /\ IsFiniteSet(InOp' \X (1..MAXOPBLOCKS))
        /\ Cardinality(InOp' \X (1..MAXOPBLOCKS)) = outstanding' * MAXOPBLOCKS
    BY <2>2, <2>3, <2>4, FS_Product
  <2>6. Reserved' \subseteq InOp' \X (1..MAXOPBLOCKS)
    BY DEF Reserved
  <2>7. /\ Cardinality(Reserved') \in Nat
        /\ Cardinality(Reserved') <= outstanding' * MAXOPBLOCKS
    BY <2>5, <2>6, FS_Subset, FS_CardinalityType
  <2>8. /\ Len(lh) \in Nat /\ LOGSIZE \in Nat
        /\ (outstanding + 1) * MAXOPBLOCKS \in Nat
    BY LogAssumption DEF LogAssumption, TypeOK
  <2>9. QED
    BY <2>1, <2>7, <2>8 DEF ReservationFits
<1>4. ASSUME NEW t \in Threads, EndOp(t) PROVE ReservationFits'
  <2>1. lh' = lh /\ \A u \in Threads : u # t => wrote'[u] = wrote[u]
    BY <1>4 DEF EndOp, TypeOK
  <2>2. InOp' \subseteq InOp \ {t} \/ UNCHANGED pc
    BY <1>4 DEF EndOp, InOp, Woken, TypeOK
  <2>3. ~committing
    BY <1>4, NobodyInCommit DEF EndOp, Presence, Somewhere, InOp
  <2>4. InOp' \subseteq InOp \ {t}
    BY <1>4, <2>3 DEF EndOp, InOp, Woken, TypeOK
  <2>5. Reserved' \subseteq Reserved
    BY <2>1, <2>4 DEF Reserved, InOp
  <2>6. QED
    BY <2>1, <2>5, ReservedLess
<1>5. ASSUME NEW t \in Threads,
             \/ WriteLog(t) \/ WriteHead(t) \/ Install(t) \/ Erase(t)
             \/ Finish(t)
      PROVE  ReservationFits'
  <2>1. InOp = {}
    BY <1>5, NobodyInCommit
       DEF WriteLog, WriteHead, Install, Erase, Finish, Committing
  <2>2. InOp' = {}
    BY <1>5, <2>1 DEF WriteLog, WriteHead, Install, Erase, Finish, InOp, Woken,
                      TypeOK
  <2>3. QED
    BY <2>2, ReservedEmpty
<1>6. ASSUME NEW t \in Threads, NEW n \in Blocks, NEW v \in Values,
             LogWrite(t, n, v)
      PROVE  ReservationFits'
  <2>. DEFINE k == Cardinality(wrote[t]) + 1
  <2>1. /\ wrote' = [wrote EXCEPT ![t] = @ \cup {n}] /\ pc' = pc
        /\ lh' = IF InHeader(lh, n) THEN lh ELSE Append(lh, n)
        /\ pc[t] = "in" /\ Cardinality(wrote[t] \cup {n}) <= OPBLOCKS
    BY <1>6 DEF LogWrite, CanWrite
  <2>2. /\ wrote'[t] = wrote[t] \cup {n} /\ InOp' = InOp /\ t \in InOp
        /\ \A u \in Threads : u # t => wrote'[u] = wrote[u]
    BY <2>1 DEF TypeOK, InOp
  <2>3. CASE n \in wrote[t]
    <3>1. UNCHANGED <<lh, wrote>>
      BY <2>1, <2>3 DEF Quota, TypeOK
    <3>2. QED
      BY <3>1, <2>2, ReservedLess DEF Reserved
  <2>4. CASE n \notin wrote[t]
    <3>1. IsFiniteSet(wrote[t]) /\ Cardinality(wrote[t]) \in Nat
      BY FS_CardinalityType DEF Quota
    <3>2. Cardinality(wrote'[t]) = k /\ k \in 1..MAXOPBLOCKS
      <4>1. Cardinality(wrote[t] \cup {n}) = k
        BY <2>4, <3>1, FS_AddElement
      <4>2. wrote'[t] = wrote[t] \cup {n}
        BY <2>2
      <4>3. k <= OPBLOCKS /\ OPBLOCKS <= MAXOPBLOCKS
        BY <2>1, <4>1, LogAssumption DEF LogAssumption
      <4>4. k \in 1..MAXOPBLOCKS
        BY <3>1, <4>3, LogAssumption DEF LogAssumption
      <4>5. QED
        BY <4>1, <4>2, <4>4
    <3>3. <<t, k>> \in Reserved
      BY <2>2, <3>1, <3>2 DEF Reserved
    <3>4. \A r \in Reserved' : r \in Reserved /\ r # <<t, k>>
      <4>1. SUFFICES ASSUME NEW u \in InOp, NEW i \in 1..MAXOPBLOCKS,
                            i > Cardinality(wrote'[u])
                     PROVE  i > Cardinality(wrote[u]) /\ ~(u = t /\ i = k)
        BY <2>2 DEF Reserved
      <4>2. CASE u = t
        BY <4>1, <4>2, <3>1, <3>2
      <4>3. CASE u # t
        BY <4>1, <4>3, <2>2 DEF InOp
      <4>4. QED
        BY <4>2, <4>3
    <3>5. /\ IsFiniteSet(Reserved \ {<<t, k>>})
          /\ Cardinality(Reserved \ {<<t, k>>}) = Cardinality(Reserved) - 1
      BY <3>3, ReservedFinite, FS_RemoveElement
    <3>6. /\ Cardinality(Reserved') \in Nat
          /\ Cardinality(Reserved') <= Cardinality(Reserved) - 1
      BY <3>4, <3>5, FS_Subset, FS_CardinalityType
    <3>7. Len(lh') <= Len(lh) + 1 /\ Len(lh') \in Nat /\ Len(lh) \in Nat
      BY <2>1, HeaderAfterWrite DEF TypeOK
    <3>8. QED
      BY <3>6, <3>7, ReservedFinite, LogAssumption
         DEF LogAssumption, IInv, ReservationFits
  <2>5. QED
    BY <2>3, <2>4
<1>7. CASE \E n \in Blocks : \/ Evict(n)
                              \/ \E t \in Threads : LogWritePanic(t, n)
  BY <1>7, ReservedLess DEF Evict, LogWritePanic, Reserved, InOp
<1>8. CASE Recover
  <2>1. InOp = {} /\ pc' = pc
    BY <1>8, NobodyInRecovery
       DEF Recover, ReadHead, RecoverInstall, RecoverErase, Booted
  <2>2. QED
    BY <2>1, ReservedEmpty DEF InOp
<1>9. CASE Crash
  BY <1>9, ReservedEmpty DEF Crash, InOp
<1>10. QED
  BY <1>1, <1>2, <1>3, <1>4, <1>5, <1>6, <1>7, <1>8, <1>9 DEF Next, Commit

-----------------------------------------------------------------------------
(* Progress, LogIsCopy, HeaderOnDisk, CacheIsDisk *)

Copies == Progress /\ LogIsCopy /\ HeaderOnDisk /\ CacheIsDisk

\* The commit under way has reached l.
Stage(l) ==
  /\ Somewhere({"write_log"}) <=> l = "write_log"
  /\ Somewhere({"write_log", "install"}) <=> l \in {"write_log", "install"}
  /\ Somewhere({"write_head"}) <=> l = "write_head"
  /\ Somewhere({"write_head", "install"}) <=> l \in {"write_head", "install"}
  /\ Somewhere({"install"}) <=> l = "install"
  /\ Somewhere({"install", "erase"}) <=> l \in {"install", "erase"}
  /\ Somewhere({"erase"}) <=> l = "erase"
  /\ Somewhere({"erase", "finish"}) <=> l \in {"erase", "finish"}

LEMMA StageNow ==
  ASSUME Presence, NEW t \in Threads, NEW l \in Committing, pc[t] = l
  PROVE  Stage(l)
BY DEF Presence, CommitAlone, Stage, Somewhere, Committing

LEMMA StageNext ==
  ASSUME Presence', NEW CONSTANT t \in Threads, NEW CONSTANT l \in Committing,
         pc'[t] = l
  PROVE  Stage(l)'
BY DEF Presence, CommitAlone, Stage, Somewhere, Committing

LEMMA NoStageNow ==
  ASSUME ~Somewhere(Committing) PROVE Stage("none")
BY DEF Stage, Somewhere, Committing

LEMMA NoStageNext ==
  ASSUME ~Somewhere(Committing)' PROVE Stage("none")'
BY DEF Stage, Somewhere, Committing

LEMMA NonEmpty ==
  ASSUME NEW s \in Seq(Blocks)
  PROVE  /\ s = <<>> <=> Len(s) = 0
         /\ s = <<>> <=> DOMAIN s = {}
         /\ Len(s) \in Nat /\ DOMAIN s = 1..Len(s)
OBVIOUS

\* Steps that neither move the commit nor write.
LEMMA CopiesFrame ==
  ASSUME IInv, UNCHANGED <<lh, tail, cache, pins, disk, logged, header>>,
         mode' = mode \/ (mode = "up" /\ mode' = "panic"),
         \A t \in Threads : pc[t] \in Committing \/ pc'[t] \in Committing
                             => pc'[t] = pc[t]
  PROVE  Copies'
<1>1. PICK l : Stage(l) /\ Stage(l)'
  <2>1. \A t \in Threads : pc[t] \in Committing <=> pc'[t] \in Committing
    OBVIOUS
  <2>2. CASE \E t \in Threads : pc[t] \in Committing
    <3>1. PICK t \in Threads : pc[t] \in Committing
      BY <2>2
    <3>2. \A u \in Threads : pc[u] \in Committing => u = t
      BY <3>1 DEF IInv, Presence, CommitAlone
    <3>3. pc'[t] = pc[t] /\ \A u \in Threads : pc'[u] \in Committing => u = t
      BY <3>1, <3>2
    <3>4. Stage(pc[t])
      BY <3>1, <3>2 DEF Stage, Somewhere, Committing
    <3>5. \A l \in Committing : pc[t] = l => Stage(l) /\ Stage(l)'
      BY <3>1, <3>2, <3>3 DEF Stage, Somewhere, Committing
    <3>6. QED
      BY <3>1, <3>5
  <2>3. CASE ~\E t \in Threads : pc[t] \in Committing
    BY <2>1, <2>3, NoStageNow, NoStageNext DEF Somewhere
  <2>4. QED
    BY <2>2, <2>3
<1>2. Progress'
  BY <1>1 DEF IInv, Progress, Stage, Distinct
<1>3. LogIsCopy'
  BY <1>1 DEF IInv, LogIsCopy, Stage
<1>4. HeaderOnDisk'
  BY <1>1 DEF IInv, HeaderOnDisk, Stage, Installed, Booted
<1>5. CacheIsDisk'
  BY <1>1 DEF IInv, CacheIsDisk, Stage, Booted
<1>6. QED
  BY <1>2, <1>3, <1>4, <1>5 DEF Copies

\* log_write adds no second entry for a block.
LEMMA DistinctAfterWrite ==
  ASSUME TypeOK, Distinct(lh), NEW n \in Blocks,
         lh' = IF InHeader(lh, n) THEN lh ELSE Append(lh, n)
  PROVE  /\ Distinct(lh')
         /\ {lh'[i] : i \in DOMAIN lh'} = {lh[i] : i \in DOMAIN lh} \cup {n}
<1>1. CASE InHeader(lh, n)
  BY <1>1 DEF InHeader
<1>2. CASE ~InHeader(lh, n)
  <2>1. lh \in Seq(Blocks) /\ lh' = Append(lh, n) /\ Len(lh) \in Nat
    BY <1>2 DEF TypeOK
  <2>2. /\ DOMAIN lh' = 1..(Len(lh) + 1) /\ lh'[Len(lh) + 1] = n
        /\ DOMAIN lh = 1..Len(lh)
        /\ \A i \in DOMAIN lh : lh'[i] = lh[i]
    BY <2>1
  <2>3. Distinct(lh')
    BY <1>2, <2>1, <2>2 DEF Distinct, InHeader
  <2>4. \A i \in DOMAIN lh' : i \in DOMAIN lh \/ i = Len(lh) + 1
    BY <2>1, <2>2
  <2>5. Len(lh) + 1 \in DOMAIN lh' /\ \A i \in DOMAIN lh : i \in DOMAIN lh'
    BY <2>1, <2>2
  <2>6. QED
    BY <2>2, <2>3, <2>4, <2>5
<1>3. QED
  BY <1>1, <1>2

LEMMA LogWriteCopies ==
  ASSUME IInv, Presence', NEW t \in Threads, NEW n \in Blocks, NEW v \in Values,
         LogWrite(t, n, v)
  PROVE  Copies'
<1>1. /\ pc[t] = "in" /\ mode = "up" /\ mode' = "up" /\ pc' = pc
      /\ lh' = IF InHeader(lh, n) THEN lh ELSE Append(lh, n)
      /\ pins' = pins \cup {n} /\ cache' = [cache EXCEPT ![n] = v]
      /\ UNCHANGED <<header, disk, logged, tail>>
  BY DEF LogWrite, CanWrite, At, Up, diskVars
<1>2. ~Somewhere(Committing) /\ ~Somewhere(Committing)'
  BY <1>1 DEF IInv, Presence, CommitAlone, Somewhere, InOp
<1>3. Stage("none") /\ Stage("none")'
  BY <1>2, NoStageNow, NoStageNext
<1>4. /\ Distinct(lh')
      /\ {lh'[i] : i \in DOMAIN lh'} = {lh[i] : i \in DOMAIN lh} \cup {n}
  BY <1>1, DistinctAfterWrite DEF IInv, Progress
<1>5. Progress'
  BY <1>1, <1>3, <1>4 DEF IInv, Progress, Stage, Distinct
<1>6. LogIsCopy'
  BY <1>3 DEF LogIsCopy, Stage
<1>7. HeaderOnDisk'
  BY <1>1, <1>3 DEF IInv, HeaderOnDisk, Stage, Booted
<1>8. CacheIsDisk'
  <2>1. \A m \in Blocks : m # n => cache'[m] = cache[m]
    BY <1>1 DEF IInv, TypeOK
  <2>2. \A m \in Blocks : cache'[m] # disk'[m] => m \in pins'
    BY <1>1, <2>1 DEF IInv, CacheIsDisk
  <2>3. pins = {lh[i] : i \in DOMAIN lh}
    BY <1>1, <1>3 DEF IInv, CacheIsDisk, Stage, Booted
  <2>4. pins' = {lh'[i] : i \in DOMAIN lh'}
    BY <1>1, <1>4, <2>3
  <2>5. QED
    BY <1>1, <1>3, <2>2, <2>4 DEF CacheIsDisk, Stage, Booted
<1>9. QED
  BY <1>5, <1>6, <1>7, <1>8 DEF Copies

LEMMA EndOpCopies ==
  ASSUME IInv, Presence', NEW t \in Threads, EndOp(t) PROVE Copies'
<1>1. /\ pc[t] = "in" /\ mode = "up"
      /\ UNCHANGED <<lh, tail, cache, pins, disk, logged, header>>
  BY DEF EndOp, At, Up, diskVars
<1>2. ~Somewhere(Committing) /\ ~committing
  BY <1>1 DEF IInv, Presence, CommitAlone, Somewhere, InOp
<1>3. Stage("none")
  BY <1>2, NoStageNow
<1>4. CASE outstanding' = 0
  <2>. PICK l \in {"finish", "write_log"} :
           l = IF lh = <<>> THEN "finish" ELSE "write_log"
    OBVIOUS
  <2>1. pc' = [pc EXCEPT ![t] = l] /\ mode' = mode
    BY <1>2, <1>4 DEF EndOp, Goto
  <2>2. pc'[t] = l /\ l \in Committing
    BY <2>1 DEF IInv, TypeOK, Committing
  <2>3. Stage(l)'
    BY <2>2, StageNext
  <2>4. Progress'
    <3>1. lh # <<>> => Len(lh) \in Nat /\ 1 <= Len(lh)
      BY NonEmpty DEF IInv, TypeOK
    <3>2. tail = 1 /\ Distinct(lh) /\ Distinct(header)
      BY <1>1, <1>3 DEF IInv, Progress, Stage
    <3>3. QED
      BY <1>1, <2>1, <2>3, <3>1, <3>2 DEF Progress, Stage, Distinct
  <2>5. LogIsCopy'
    <3>1. tail' = 1 /\ \A i \in DOMAIN lh' : ~(i < 1)
      BY <1>1, <1>3, NonEmpty DEF IInv, TypeOK, Progress, Stage
    <3>2. QED
      BY <2>3, <3>1 DEF LogIsCopy, Stage
  <2>6. HeaderOnDisk'
    BY <1>1, <1>3, <2>1, <2>3 DEF IInv, HeaderOnDisk, Stage, Booted
  <2>7. CacheIsDisk'
    BY <1>1, <1>3, <2>1, <2>3 DEF IInv, CacheIsDisk, Stage, Booted
  <2>8. QED
    BY <2>4, <2>5, <2>6, <2>7 DEF Copies
<1>5. CASE outstanding' # 0
  <2>1. pc' = Woken([pc EXCEPT ![t] = "out"]) /\ mode' = mode
    BY <1>2, <1>5 DEF EndOp, Goto
  <2>2. \A u \in Threads : pc[u] \notin Committing /\ pc'[u] \notin Committing
    BY <1>2, <2>1 DEF IInv, TypeOK, Somewhere, Committing, Woken
  <2>3. QED
    BY <1>1, <2>1, <2>2, CopiesFrame
<1>6. QED
  BY <1>4, <1>5

LEMMA WriteLogCopies ==
  ASSUME IInv, Presence', NEW t \in Threads, WriteLog(t) PROVE Copies'
<1>1. /\ pc[t] = "write_log" /\ mode = "up" /\ mode' = "up"
      /\ UNCHANGED <<lh, cache, pins, disk, header>>
      /\ logged' = [logged EXCEPT ![tail] = cache[lh[tail]]]
  BY DEF WriteLog, At, Up
<1>2. Stage("write_log")
  BY <1>1, StageNow DEF IInv, Committing
<1>3. tail \in DOMAIN lh /\ tail \in Entries /\ lh[tail] \in Blocks
  BY <1>1, TailInHeader DEF Somewhere
<1>4. /\ logged'[tail] = cache[lh[tail]]
      /\ \A i \in Entries : i # tail => logged'[i] = logged[i]
  BY <1>1, <1>3 DEF IInv, TypeOK
<1>5. lh \in Seq(Blocks) /\ tail \in Nat /\ Len(lh) \in Nat /\ DOMAIN lh = 1..Len(lh)
      /\ DOMAIN lh \subseteq Entries
  BY NonEmpty, LogAssumption DEF IInv, TypeOK, LogAssumption, Entries
<1>6. \A i \in DOMAIN lh : i < tail => logged[i] = cache[lh[i]]
  BY <1>2 DEF IInv, LogIsCopy, Stage
<1>7. \A i \in DOMAIN lh : i <= tail => logged'[i] = cache'[lh'[i]]
  BY <1>1, <1>4, <1>5, <1>6
<1>8. CASE tail < Len(lh)
  <2>1. tail' = tail + 1 /\ pc' = pc
    BY <1>8 DEF WriteLog
  <2>2. Stage("write_log")'
    BY <1>1, <2>1, StageNext DEF Committing
  <2>3. Progress'
    <3>1. Len(lh') = Len(lh) /\ tail' <= Len(lh')
      BY <1>1, <1>5, <1>8, <2>1
    <3>2. Distinct(lh) /\ Distinct(header)
      BY DEF IInv, Progress
    <3>3. QED
      BY <1>1, <2>2, <3>1, <3>2 DEF Progress, Stage, Distinct
  <2>4. LogIsCopy'
    BY <1>1, <1>5, <1>7, <2>1, <2>2 DEF LogIsCopy, Stage
  <2>5. HeaderOnDisk'
    BY <1>1, <1>2, <2>2 DEF IInv, HeaderOnDisk, Stage, Booted
  <2>6. CacheIsDisk'
    BY <1>1, <1>2, <2>2 DEF IInv, CacheIsDisk, Stage, Booted
  <2>7. QED
    BY <2>3, <2>4, <2>5, <2>6 DEF Copies
<1>9. CASE ~(tail < Len(lh))
  <2>1. tail' = 1 /\ pc' = [pc EXCEPT ![t] = "write_head"]
    BY <1>9 DEF WriteLog, Goto
  <2>2. Stage("write_head")'
    BY <2>1, StageNext DEF Committing, IInv, TypeOK
  <2>3. Progress'
    <3>1. Distinct(lh) /\ Distinct(header) /\ lh # <<>>
      BY <1>3, <1>5, NonEmpty DEF IInv, Progress
    <3>2. QED
      BY <1>1, <2>1, <2>2, <3>1 DEF Progress, Stage, Distinct
  <2>4. LogIsCopy'
    <3>1. \A i \in DOMAIN lh : i <= tail
      BY <1>5, <1>9
    <3>2. QED
      BY <1>1, <1>7, <2>2, <3>1 DEF LogIsCopy, Stage
  <2>5. HeaderOnDisk'
    BY <1>1, <1>2, <2>2 DEF IInv, HeaderOnDisk, Stage, Booted
  <2>6. CacheIsDisk'
    BY <1>1, <1>2, <2>2 DEF IInv, CacheIsDisk, Stage, Booted
  <2>7. QED
    BY <2>3, <2>4, <2>5, <2>6 DEF Copies
<1>10. QED
  BY <1>8, <1>9

LEMMA WriteHeadCopies ==
  ASSUME IInv, Presence', NEW t \in Threads, WriteHead(t) PROVE Copies'
<1>1. /\ pc[t] = "write_head" /\ mode = "up" /\ mode' = "up" /\ header' = lh
      /\ pc' = [pc EXCEPT ![t] = "install"]
      /\ UNCHANGED <<lh, tail, cache, pins, disk, logged>>
  BY DEF WriteHead, At, Up, Goto
<1>2. Stage("write_head") /\ Stage("install")'
  BY <1>1, StageNow, StageNext DEF IInv, TypeOK, Committing
<1>3. /\ tail = 1 /\ lh # <<>> /\ Distinct(lh)
      /\ lh \in Seq(Blocks)
  BY <1>1, <1>2 DEF IInv, TypeOK, Progress, Stage
<1>4. Len(lh) \in Nat /\ Len(lh) >= 1 /\ \A i \in DOMAIN lh : ~(i < 1) /\ i >= 1
  BY <1>3, NonEmpty
<1>5. Progress'
  BY <1>1, <1>2, <1>3, <1>4 DEF Progress, Stage, Distinct
<1>6. LogIsCopy'
  BY <1>1, <1>2 DEF IInv, LogIsCopy, Stage
<1>7. HeaderOnDisk'
  BY <1>1, <1>2, <1>3, <1>4 DEF HeaderOnDisk, Stage, Installed, Booted
<1>8. CacheIsDisk'
  <2>1. pins = {lh[i] : i \in DOMAIN lh}
    BY <1>1, <1>2 DEF IInv, CacheIsDisk, Stage, Booted
  <2>2. {j \in DOMAIN lh' : Somewhere({"install"})' => j >= tail'} = DOMAIN lh
    BY <1>1, <1>3, <1>4
  <2>3. pins' = {lh'[i] : i \in {j \in DOMAIN lh' :
                                 Somewhere({"install"})' => j >= tail'}}
    BY <1>1, <2>1, <2>2
  <2>4. \A n \in Blocks : cache'[n] # disk'[n] => n \in pins'
    BY <1>1 DEF IInv, CacheIsDisk
  <2>5. QED
    BY <1>1, <2>3, <2>4 DEF CacheIsDisk, Booted
<1>9. QED
  BY <1>5, <1>6, <1>7, <1>8 DEF Copies

\* Installing block tail of the header: what has come home.
LEMMA CopyHomeInstalls ==
  ASSUME IInv, Somewhere({"install"}) \/ mode = "install", CopyHome,
         UNCHANGED <<header, logged>>
  PROVE  /\ \A i \in DOMAIN header : i <= tail => disk'[header[i]] = logged[i]
         /\ tail \in DOMAIN lh /\ lh[tail] \in Blocks /\ header = lh
         /\ cache'[lh[tail]] = disk'[lh[tail]]
         /\ disk'[lh[tail]] = logged[tail]
         /\ \A n \in Blocks : n # lh[tail] => /\ cache'[n] = cache[n]
                                              /\ disk'[n] = disk[n]
<1>1. tail \in DOMAIN lh /\ tail \in Entries /\ lh[tail] \in Blocks
  BY TailInHeader DEF Somewhere
<1>2. header = lh /\ Installed(tail) /\ Distinct(lh)
  BY DEF IInv, HeaderOnDisk, Progress
<1>3. /\ cache'[lh[tail]] = logged[tail] /\ disk'[lh[tail]] = logged[tail]
      /\ \A n \in Blocks : n # lh[tail] => /\ cache'[n] = cache[n]
                                           /\ disk'[n] = disk[n]
  BY <1>1 DEF CopyHome, IInv, TypeOK
<1>4. lh \in Seq(Blocks) /\ tail \in Nat
  BY DEF IInv, TypeOK
<1>5. \A i \in DOMAIN lh : i \in Nat /\ lh[i] \in Blocks
  BY <1>4, NonEmpty
<1>6. ASSUME NEW i \in DOMAIN lh, i <= tail
      PROVE  disk'[lh[i]] = logged[i]
  <2>1. CASE i = tail
    BY <1>3, <2>1
  <2>2. CASE i # tail
    <3>1. i < tail
      BY <1>4, <1>5, <1>6, <2>2
    <3>2. lh[i] # lh[tail] /\ lh[i] \in Blocks
      BY <1>1, <1>2, <1>5, <2>2 DEF Distinct
    <3>3. QED
      BY <1>2, <1>3, <3>1, <3>2 DEF Installed
  <2>3. QED
    BY <2>1, <2>2
<1>7. QED
  BY <1>1, <1>2, <1>3, <1>6

LEMMA InstallCopies ==
  ASSUME IInv, TypeOK', Presence', NEW t \in Threads, Install(t)
  PROVE  Copies'
<1>1. /\ pc[t] = "install" /\ mode = "up" /\ mode' = "up" /\ CopyHome
      /\ pins' = pins \ {lh[tail]} /\ UNCHANGED <<logged, header>>
  BY DEF Install, At, Up
<1>2. Stage("install")
  BY <1>1, StageNow DEF IInv, Committing
<1>3. /\ \A i \in DOMAIN header : i <= tail => disk'[header[i]] = logged[i]
      /\ tail \in DOMAIN lh /\ lh[tail] \in Blocks /\ header = lh
      /\ cache'[lh[tail]] = disk'[lh[tail]]
      /\ disk'[lh[tail]] = logged[tail]
      /\ \A n \in Blocks : n # lh[tail] => /\ cache'[n] = cache[n]
                                           /\ disk'[n] = disk[n]
  BY <1>1, <1>2, CopyHomeInstalls DEF Stage
<1>4. /\ lh \in Seq(Blocks) /\ tail \in Nat /\ Len(lh) \in Nat
      /\ DOMAIN lh = 1..Len(lh) /\ Distinct(lh)
  BY NonEmpty DEF IInv, TypeOK, Progress
<1>5. /\ pins = {lh[i] : i \in {j \in DOMAIN lh : j >= tail}}
      /\ \A n \in Blocks : cache[n] # disk[n] => n \in pins
  BY <1>1, <1>2 DEF IInv, CacheIsDisk, Stage, Booted
<1>6. \A i \in DOMAIN lh : logged[i] = cache[lh[i]]
  BY <1>2 DEF IInv, LogIsCopy, Stage
<1>7. pins' = {lh[i] : i \in {j \in DOMAIN lh : j >= tail + 1}}
  <2>1. \A i \in DOMAIN lh : i >= tail /\ lh[i] # lh[tail] <=> i >= tail + 1
    BY <1>3, <1>4 DEF Distinct
  <2>2. QED
    BY <1>1, <1>5, <2>1
<1>8. \A n \in Blocks : cache'[n] # disk'[n] => n \in pins'
  BY <1>1, <1>3, <1>5
<1>9. cache' = cache
  <2>1. cache'[lh[tail]] = cache[lh[tail]]
    BY <1>3, <1>6
  <2>2. \A n \in Blocks : cache'[n] = cache[n]
    BY <1>3, <2>1
  <2>3. QED
    BY <2>2 DEF IInv, TypeOK
<1>10. CASE tail < Len(lh)
  <2>1. tail' = tail + 1 /\ pc' = pc /\ lh' = lh
    BY <1>10 DEF Install
  <2>2. Stage("install")'
    BY <1>1, <2>1, StageNext DEF Committing
  <2>3. Progress'
    <3>1. tail' <= Len(lh') /\ Distinct(lh') /\ Distinct(header')
      BY <1>1, <1>3, <1>4, <1>10, <2>1 DEF Distinct
    <3>2. QED
      BY <1>1, <2>2, <3>1 DEF Progress, Stage
  <2>4. LogIsCopy'
    BY <1>1, <1>6, <1>9, <2>1 DEF LogIsCopy
  <2>5. HeaderOnDisk'
    <3>1. \A i \in DOMAIN header : i < tail + 1 => disk'[header[i]] = logged[i]
      BY <1>3, <1>4
    <3>2. Installed(tail)' /\ header' = lh'
      BY <1>1, <1>3, <2>1, <3>1 DEF Installed
    <3>3. QED
      BY <1>1, <2>2, <3>2 DEF HeaderOnDisk, Stage, Booted
  <2>6. CacheIsDisk'
    BY <1>1, <1>7, <1>8, <2>1, <2>2 DEF CacheIsDisk, Stage, Booted
  <2>7. QED
    BY <2>3, <2>4, <2>5, <2>6 DEF Copies
<1>11. CASE ~(tail < Len(lh))
  <2>1. tail' = 1 /\ lh' = <<>> /\ pc' = [pc EXCEPT ![t] = "erase"]
    BY <1>11 DEF Install, Goto
  <2>2. Stage("erase")'
    BY <2>1, StageNext DEF Committing, IInv, TypeOK
  <2>3. DOMAIN lh' = {} /\ Distinct(lh')
    BY <2>1 DEF Distinct
  <2>4. tail = Len(lh)
    BY <1>3, <1>4, <1>11
  <2>5. Progress'
    BY <1>1, <1>3, <1>4, <2>1, <2>2, <2>3 DEF Progress, Stage, Distinct
  <2>6. LogIsCopy'
    BY <2>3 DEF LogIsCopy
  <2>7. HeaderOnDisk'
    <3>1. \A i \in DOMAIN header : disk'[header[i]] = logged[i]
      BY <1>3, <1>4, <2>4
    <3>2. Installed(LOGSIZE + 1)'
      BY <1>1, <3>1 DEF Installed
    <3>3. QED
      BY <1>1, <2>2, <3>2 DEF HeaderOnDisk, Stage, Booted
  <2>8. CacheIsDisk'
    <3>1. pins' = {}
      BY <1>4, <1>7, <2>4
    <3>2. QED
      BY <1>1, <1>8, <2>3, <3>1 DEF CacheIsDisk, Booted
  <2>9. QED
    BY <2>5, <2>6, <2>7, <2>8 DEF Copies
<1>12. QED
  BY <1>10, <1>11

LEMMA EraseCopies ==
  ASSUME IInv, Presence', NEW t \in Threads, Erase(t) PROVE Copies'
<1>1. /\ pc[t] = "erase" /\ mode = "up" /\ mode' = "up" /\ header' = lh
      /\ pc' = [pc EXCEPT ![t] = "finish"]
      /\ UNCHANGED <<lh, tail, cache, pins, disk, logged>>
  BY DEF Erase, At, Up, Goto
<1>2. Stage("erase") /\ Stage("finish")'
  BY <1>1, StageNow, StageNext DEF IInv, TypeOK, Committing
<1>3. tail = 1 /\ Distinct(lh) /\ lh = <<>> /\ DOMAIN lh = {}
  <2>1. tail = 1 /\ lh = <<>> /\ Distinct(lh)
    BY <1>1, <1>2 DEF IInv, Progress, Stage
  <2>2. QED
    BY <2>1
<1>4. Progress'
  BY <1>1, <1>2, <1>3 DEF Progress, Stage, Distinct
<1>5. LogIsCopy'
  BY <1>1, <1>3 DEF LogIsCopy
<1>6. HeaderOnDisk'
  BY <1>1, <1>2, <1>3 DEF HeaderOnDisk, Stage, Booted
<1>7. CacheIsDisk'
  BY <1>1, <1>2, <1>3 DEF IInv, CacheIsDisk, Stage, Booted
<1>8. QED
  BY <1>4, <1>5, <1>6, <1>7 DEF Copies

LEMMA FinishCopies ==
  ASSUME IInv, Presence', NEW t \in Threads, Finish(t) PROVE Copies'
<1>1. /\ pc[t] = "finish" /\ mode = "up" /\ mode' = "up"
      /\ pc' = Woken([pc EXCEPT ![t] = "out"]) /\ committing' = FALSE
      /\ UNCHANGED <<lh, tail, cache, pins, disk, logged, header>>
  BY DEF Finish, At, Up, Goto, diskVars
<1>2. Stage("finish") /\ Stage("none")'
  BY <1>1, StageNow, NoStageNext DEF IInv, Presence, Committing
<1>3. Progress'
  BY <1>1, <1>2 DEF IInv, Progress, Stage, Distinct
<1>4. LogIsCopy'
  BY <1>2 DEF LogIsCopy, Stage
<1>5. HeaderOnDisk'
  BY <1>1, <1>2 DEF IInv, HeaderOnDisk, Stage, Booted
<1>6. CacheIsDisk'
  BY <1>1, <1>2 DEF IInv, CacheIsDisk, Stage, Booted
<1>7. QED
  BY <1>3, <1>4, <1>5, <1>6 DEF Copies

LEMMA EvictCopies ==
  ASSUME IInv, NEW n \in Blocks, Evict(n) PROVE Copies'
<1>1. /\ n \notin pins /\ mode = "up" /\ cache' = [cache EXCEPT ![n] = disk[n]]
      /\ UNCHANGED <<lh, tail, pins, pc, mode, disk, logged, header>>
  BY DEF Evict, Up, diskVars
<1>2. cache' = cache
  BY <1>1 DEF IInv, CacheIsDisk, TypeOK
<1>3. QED
  BY <1>1, <1>2, CopiesFrame DEF Committing

\* While recovery runs, the stage is mode and no thread is in the log.
LEMMA RecoveryStage ==
  ASSUME IInv, ~Booted PROVE ~Somewhere(Committing) /\ Stage("none")
BY NoStageNow DEF IInv, Presence, Somewhere, Committing

LEMMA ReadHeadCopies ==
  ASSUME IInv, ReadHead, Presence' PROVE Copies'
<1>1. /\ mode = "read_head" /\ lh' = header
      /\ mode' = IF header = <<>> THEN "erase" ELSE "install"
      /\ UNCHANGED <<tail, cache, pins, pc, disk, logged, header>>
  BY DEF ReadHead, diskVars
<1>2. Stage("none") /\ Stage("none")'
  BY <1>1, RecoveryStage, NoStageNext DEF Booted, Somewhere
<1>3. tail = 1 /\ Distinct(header) /\ header \in Seq(Blocks)
  BY <1>1, <1>2 DEF IInv, TypeOK, Progress, Stage
<1>4. /\ \A i \in DOMAIN header : ~(i < 1)
      /\ header # <<>> => 1 <= Len(header)
      /\ header = <<>> => DOMAIN header = {}
  BY <1>3, NonEmpty
<1>5. Progress'
  BY <1>1, <1>2, <1>3, <1>4 DEF Progress, Stage, Distinct
<1>6. LogIsCopy'
  BY <1>2 DEF LogIsCopy, Stage
<1>7. HeaderOnDisk'
  <2>1. Installed(tail)'
    BY <1>1, <1>3, <1>4 DEF Installed
  <2>2. mode' = "erase" => Installed(LOGSIZE + 1)'
    BY <1>1, <1>4 DEF Installed
  <2>3. QED
    BY <1>1, <1>2, <2>1, <2>2 DEF HeaderOnDisk, Stage, Booted
<1>8. CacheIsDisk'
  BY <1>1 DEF IInv, CacheIsDisk, Booted
<1>9. QED
  BY <1>5, <1>6, <1>7, <1>8 DEF Copies

LEMMA RecoverInstallCopies ==
  ASSUME IInv, TypeOK', RecoverInstall, Presence' PROVE Copies'
<1>1. /\ mode = "install" /\ CopyHome
      /\ UNCHANGED <<pins, pc, logged, header>>
  BY DEF RecoverInstall
<1>2. Stage("none") /\ Stage("none")'
  BY <1>1, RecoveryStage, NoStageNext DEF Booted, Somewhere
<1>3. /\ \A i \in DOMAIN header : i <= tail => disk'[header[i]] = logged[i]
      /\ tail \in DOMAIN lh /\ lh[tail] \in Blocks /\ header = lh
      /\ cache'[lh[tail]] = disk'[lh[tail]]
      /\ \A n \in Blocks : n # lh[tail] => /\ cache'[n] = cache[n]
                                           /\ disk'[n] = disk[n]
  BY <1>1, CopyHomeInstalls
<1>4. /\ lh \in Seq(Blocks) /\ tail \in Nat /\ Len(lh) \in Nat
      /\ DOMAIN lh = 1..Len(lh) /\ Distinct(lh)
  BY NonEmpty DEF IInv, TypeOK, Progress
<1>5. pins = {} /\ \A n \in Blocks : cache[n] = disk[n]
  BY <1>1 DEF IInv, CacheIsDisk, Booted
<1>6. \A n \in Blocks : cache'[n] = disk'[n]
  BY <1>3, <1>5
<1>7. LogIsCopy'
  BY <1>2 DEF LogIsCopy, Stage
<1>8. CASE tail < Len(lh)
  <2>1. tail' = tail + 1 /\ lh' = lh /\ mode' = "install"
    BY <1>1, <1>8 DEF RecoverInstall
  <2>2. Progress'
    <3>1. tail' <= Len(lh') /\ Distinct(lh') /\ Distinct(header')
      BY <1>1, <1>3, <1>4, <1>8, <2>1 DEF Distinct
    <3>2. QED
      BY <1>2, <2>1, <3>1 DEF Progress, Stage
  <2>3. HeaderOnDisk'
    <3>1. \A i \in DOMAIN header : i < tail + 1 => disk'[header[i]] = logged[i]
      BY <1>3, <1>4
    <3>2. Installed(tail)' /\ header' = lh'
      BY <1>1, <1>3, <2>1, <3>1 DEF Installed
    <3>3. QED
      BY <1>2, <2>1, <3>2 DEF HeaderOnDisk, Stage, Booted
  <2>4. CacheIsDisk'
    BY <1>1, <1>5, <1>6, <2>1 DEF CacheIsDisk, Booted
  <2>5. QED
    BY <1>7, <2>2, <2>3, <2>4 DEF Copies
<1>9. CASE ~(tail < Len(lh))
  <2>1. tail' = 1 /\ lh' = <<>> /\ mode' = "erase"
    BY <1>9 DEF RecoverInstall
  <2>2. Distinct(lh')
    BY <2>1 DEF Distinct
  <2>3. tail = Len(lh)
    BY <1>3, <1>4, <1>9
  <2>4. Progress'
    BY <1>1, <1>2, <1>3, <1>4, <2>1, <2>2 DEF Progress, Stage, Distinct
  <2>5. HeaderOnDisk'
    <3>1. \A i \in DOMAIN header : disk'[header[i]] = logged[i]
      BY <1>3, <1>4, <2>3
    <3>2. Installed(LOGSIZE + 1)'
      BY <1>1, <3>1 DEF Installed
    <3>3. QED
      BY <1>2, <2>1, <3>2 DEF HeaderOnDisk, Stage, Booted
  <2>6. CacheIsDisk'
    BY <1>1, <1>5, <1>6, <2>1 DEF CacheIsDisk, Booted
  <2>7. QED
    BY <1>7, <2>4, <2>5, <2>6 DEF Copies
<1>10. QED
  BY <1>8, <1>9

LEMMA RecoverEraseCopies ==
  ASSUME IInv, RecoverErase PROVE Copies'
<1>1. /\ mode = "erase" /\ header' = lh /\ mode' = "up"
      /\ UNCHANGED <<lh, tail, cache, pins, pc, disk, logged>>
  BY DEF RecoverErase
<1>2. Stage("none") /\ Stage("none")'
  BY <1>1, RecoveryStage, NoStageNext DEF Booted, Somewhere
<1>3. /\ lh = <<>> /\ tail = 1 /\ Distinct(lh)
      /\ pins = {} /\ \A n \in Blocks : cache[n] = disk[n]
  BY <1>1, <1>2 DEF IInv, Progress, Stage, CacheIsDisk, Booted
<1>4. {lh[i] : i \in {j \in DOMAIN lh : FALSE => j >= tail}} = {}
  BY <1>3
<1>5. Progress'
  BY <1>1, <1>2, <1>3 DEF Progress, Stage, Distinct
<1>6. LogIsCopy'
  BY <1>2 DEF LogIsCopy, Stage
<1>7. HeaderOnDisk'
  BY <1>1, <1>2, <1>3 DEF HeaderOnDisk, Stage, Booted
<1>8. CacheIsDisk'
  BY <1>1, <1>2, <1>3, <1>4 DEF CacheIsDisk, Stage, Booted
<1>9. QED
  BY <1>5, <1>6, <1>7, <1>8 DEF Copies

LEMMA CrashCopies ==
  ASSUME IInv, Crash, Presence' PROVE Copies'
<1>1. /\ lh' = <<>> /\ tail' = 1 /\ cache' = disk /\ pins' = {}
      /\ pc' = [t \in Threads |-> "out"] /\ mode' = "read_head"
      /\ UNCHANGED <<disk, header>>
  BY DEF Crash, diskVars
<1>2. Stage("none")'
  BY <1>1, NoStageNext DEF Somewhere, Committing
<1>3. Distinct(lh')
  BY <1>1 DEF Distinct
<1>4. Progress'
  BY <1>1, <1>2, <1>3 DEF IInv, Progress, Stage, Distinct
<1>5. LogIsCopy'
  BY <1>2 DEF LogIsCopy, Stage
<1>6. HeaderOnDisk'
  BY <1>1, <1>2 DEF HeaderOnDisk, Stage, Booted
<1>7. CacheIsDisk'
  BY <1>1 DEF CacheIsDisk, Booted
<1>8. QED
  BY <1>4, <1>5, <1>6, <1>7 DEF Copies

-----------------------------------------------------------------------------
(* The invariant, and the theorems *)

LEMMA InitIInv == Init => IInv
<1>. SUFFICES ASSUME Init PROVE IInv
  OBVIOUS
<1>. USE DEF Init
<1>1. lh = <<>> /\ header = <<>> /\ mode = "read_head"
  OBVIOUS
<1>2. /\ lh \in Seq(Blocks) /\ Len(lh) = 0 /\ DOMAIN lh = {}
      /\ header \in Seq(Blocks) /\ Len(header) = 0 /\ DOMAIN header = {}
  BY <1>1
<1>3. InOp = {} /\ ~Somewhere(Committing) /\ ~Booted
  BY DEF InOp, Somewhere, Committing, Booted
<1>4. TypeOK
  <2>1. /\ lh \in Seq(Blocks) /\ Len(lh) <= LOGSIZE
        /\ header \in Seq(Blocks) /\ Len(header) <= LOGSIZE
    BY <1>2, LogAssumption DEF LogAssumption
  <2>2. /\ outstanding \in Nat /\ tail \in Nat \ {0}
        /\ ops \in 0..MaxOps /\ crashes \in 0..MaxCrashes
    BY LogAssumption DEF LogAssumption
  <2>3. /\ committing \in BOOLEAN /\ cache \in [Blocks -> Values]
        /\ disk \in [Blocks -> Values] /\ logged \in [Entries -> Values]
        /\ pins \subseteq Blocks
    OBVIOUS
  <2>4. /\ pc \in [Threads -> PCs] /\ wrote \in [Threads -> SUBSET Blocks]
        /\ mode \in {"read_head", "install", "erase", "up", "panic"}
    BY DEF PCs
  <2>5. QED
    BY <2>1, <2>2, <2>3, <2>4 DEF TypeOK
<1>5. Presence
  BY <1>3, FS_EmptySet DEF Presence, CommitAlone, Somewhere
<1>6. Quota
  BY FS_EmptySet, LogAssumption DEF Quota, LogAssumption
<1>7. Stage("none")
  BY <1>3, NoStageNow
<1>8. Progress
  BY <1>1, <1>2, <1>7 DEF Progress, Stage, Distinct
<1>9. LogIsCopy /\ HeaderOnDisk /\ CacheIsDisk
  BY <1>1, <1>2, <1>7, <1>3
     DEF LogIsCopy, HeaderOnDisk, CacheIsDisk, Stage, Installed
<1>10. ReservationFits
  <2>1. Cardinality(Reserved) = 0
    BY <1>3, FS_EmptySet DEF Reserved
  <2>2. QED
    BY <1>2, <2>1, LogAssumption DEF ReservationFits, LogAssumption
<1>11. QED
  BY <1>4, <1>5, <1>6, <1>8, <1>9, <1>10 DEF IInv

LEMMA CopiesStep ==
  ASSUME IInv, TypeOK', Presence', [Next]_vars PROVE Copies'
<1>1. CASE UNCHANGED vars
  BY <1>1, CopiesFrame DEF vars
<1>2. ASSUME NEW t \in Threads, CallBegin(t) \/ BeginSleep(t) \/ BeginOp(t)
      PROVE  Copies'
  <2>1. UNCHANGED <<lh, tail, cache, pins, disk, logged, header, mode>>
    BY <1>2 DEF CallBegin, BeginSleep, BeginOp, diskVars
  <2>2. pc[t] \notin Committing /\ \E l \in {"begin", "asleep", "in"} :
                                    pc' = [pc EXCEPT ![t] = l]
    BY <1>2 DEF CallBegin, BeginSleep, BeginOp, At, Goto, Committing
  <2>3. \A u \in Threads : pc[u] \in Committing \/ pc'[u] \in Committing
                           => pc'[u] = pc[u]
    BY <2>2 DEF Committing, IInv, TypeOK
  <2>4. QED
    BY <2>1, <2>3, CopiesFrame
<1>3. ASSUME NEW t \in Threads, NEW n \in Blocks, LogWritePanic(t, n)
      PROVE  Copies'
  BY <1>3, CopiesFrame DEF LogWritePanic, CanWrite, At, Up, diskVars
<1>4. QED
  BY <1>1, <1>2, <1>3, LogWriteCopies, EndOpCopies, WriteLogCopies,
     WriteHeadCopies, InstallCopies, EraseCopies, FinishCopies, EvictCopies,
     ReadHeadCopies, RecoverInstallCopies, RecoverEraseCopies, CrashCopies
     DEF Next, Commit, Recover

LEMMA StepIInv == IInv /\ [Next]_vars => IInv'
BY TypeStep, PresenceStep, QuotaStep, ReservationStep, CopiesStep
   DEF IInv, Copies

THEOREM Invariance == Spec => []IInv
BY InitIInv, StepIInv, PTL DEF Spec

\* The types of the variables of log.c.
THEOREM TypeCorrect == Spec => []TypeOK
BY Invariance, PTL DEF IInv

\* begin_op's guard is enough: the reservations always fit in the log.
THEOREM ReservationsFit == Spec => []ReservationFits
BY Invariance, PTL DEF IInv

\* A commit runs with no call under way, and one at a time.
THEOREM CommitsAlone == Spec => []CommitAlone
<1>1. IInv => CommitAlone
  BY DEF IInv, Presence
<1>2. QED
  BY <1>1, Invariance, PTL

\* bget may recycle any unpinned buffer, and log_write pins none that the
\* commit does not unpin.
THEOREM DirtyPinned == Spec => []DirtyIsPinned
<1>1. IInv => DirtyIsPinned
  <2>1. ASSUME IInv, Up, NEW n \in Blocks, n \in pins PROVE InHeader(lh, n)
    BY <2>1 DEF IInv, CacheIsDisk, InHeader, Up, Booted
  <2>2. QED
    BY <2>1 DEF IInv, CacheIsDisk, DirtyIsPinned
<1>2. QED
  BY <1>1, Invariance, PTL

-----------------------------------------------------------------------------
(* NoPanic *)

LEMMA RoomToWrite ==
  ASSUME IInv, Slack, NEW t \in Threads, NEW n \in Blocks, CanWrite(t, n)
  PROVE  ~Refused
<1>1. t \in InOp /\ Cardinality(wrote[t] \cup {n}) <= OPBLOCKS
  BY DEF CanWrite, At, InOp
<1>2. outstanding \in Nat \ {0}
  BY <1>1, InOpCount
<1>. DEFINE k == Cardinality(wrote[t])
            Left == {t} \X ((k + 1) .. MAXOPBLOCKS)
<1>3. IsFiniteSet(wrote[t]) /\ k \in Nat
  BY FS_CardinalityType DEF IInv, Quota
<1>4. k <= OPBLOCKS
  BY DEF IInv, Quota
<1>5. /\ MAXOPBLOCKS \in Nat /\ OPBLOCKS \in Nat /\ OPBLOCKS <= MAXOPBLOCKS
      /\ LOGSIZE \in Nat /\ NLOG \in Nat
  BY LogAssumption DEF LogAssumption
<1>6. \A i \in (k + 1) .. MAXOPBLOCKS : i \in 1 .. MAXOPBLOCKS /\ i > k
  BY <1>3, <1>5
<1>7. /\ Cardinality((k + 1) .. MAXOPBLOCKS) = MAXOPBLOCKS - k
      /\ IsFiniteSet((k + 1) .. MAXOPBLOCKS)
  <2>1. k + 1 \in Int /\ MAXOPBLOCKS \in Int
    BY <1>3, <1>5
  <2>2. /\ IsFiniteSet((k + 1) .. MAXOPBLOCKS)
        /\ Cardinality((k + 1) .. MAXOPBLOCKS)
             = IF k + 1 > MAXOPBLOCKS THEN 0 ELSE MAXOPBLOCKS - (k + 1) + 1
    BY <2>1, FS_Interval
  <2>3. QED
    BY <2>2, <1>3, <1>4, <1>5
<1>8. Left \subseteq Reserved
  BY <1>1, <1>6 DEF Reserved
<1>9. IsFiniteSet({t}) /\ Cardinality({t}) = 1
  BY FS_Singleton
<1>10. Cardinality(Left) = MAXOPBLOCKS - k
  <2>1. Cardinality(Left) = Cardinality({t}) * Cardinality((k + 1) .. MAXOPBLOCKS)
    BY <1>7, <1>9, FS_Product, Zenon
  <2>2. QED
    BY <2>1, <1>3, <1>5, <1>7, <1>9
<1>11. Cardinality(Left) <= Cardinality(Reserved)
       /\ Cardinality(Left) \in Nat /\ Cardinality(Reserved) \in Nat
  BY <1>8, ReservedFinite, FS_Subset, FS_CardinalityType
<1>12. Len(lh) \in Nat /\ Len(lh) + (MAXOPBLOCKS - k) <= LOGSIZE
  BY <1>3, <1>5, <1>10, <1>11 DEF IInv, TypeOK, ReservationFits
<1>13. Len(lh) <= LOGSIZE - (MAXOPBLOCKS - OPBLOCKS)
  BY <1>3, <1>4, <1>5, <1>12
<1>14. QED
  BY <1>2, <1>5, <1>12, <1>13 DEF Refused, Slack

\* With slack in the log, no file system call makes the kernel panic.
THEOREM NeverPanics == ASSUME Slack PROVE Spec => []NoPanic
<1>1. Init => NoPanic
  BY DEF Init, NoPanic
<1>2. IInv /\ NoPanic /\ [Next]_vars => NoPanic'
  <2>. SUFFICES ASSUME IInv, NoPanic, [Next]_vars PROVE NoPanic'
    OBVIOUS
  <2>1. ASSUME NEW t \in Threads, EndOp(t) PROVE mode' = mode
    <3>1. ~committing
      BY <2>1 DEF EndOp, At, IInv, Presence, CommitAlone, Somewhere, InOp
    <3>2. QED
      BY <2>1, <3>1 DEF EndOp
  <2>2. ASSUME NEW t \in Threads, NEW n \in Blocks, LogWritePanic(t, n)
        PROVE  FALSE
    BY <2>2, RoomToWrite DEF LogWritePanic
  <2>3. QED
    BY <2>1, <2>2 DEF NoPanic, Next, Commit, Recover, vars, diskVars, ghosts,
       CallBegin, BeginSleep, BeginOp, LogWrite, WriteLog, WriteHead, Install,
       Erase, Finish, Evict, ReadHead, RecoverInstall, RecoverErase, Crash
<1>3. QED
  BY <1>1, <1>2, Invariance, PTL DEF Spec

-----------------------------------------------------------------------------
(* The refinement of AtomicDisk *)

\* What recovery makes of each block.
LEMMA RecoveredAt ==
  ASSUME NEW h \in Seq(Blocks), Distinct(h), NEW l, NEW d
  PROVE  /\ Recovered(h, l, d) = [n \in Blocks |-> Recovered(h, l, d)[n]]
         /\ \A i \in DOMAIN h : Recovered(h, l, d)[h[i]] = l[i]
         /\ \A n \in Blocks : ~InHeader(h, n) => Recovered(h, l, d)[n] = d[n]
<1>1. ASSUME NEW i \in DOMAIN h PROVE Recovered(h, l, d)[h[i]] = l[i]
  <2>1. h[i] \in Blocks /\ InHeader(h, h[i])
    BY NonEmpty DEF InHeader
  <2>2. (CHOOSE j \in DOMAIN h : h[j] = h[i]) = i
    BY <1>1 DEF Distinct
  <2>3. QED
    BY <2>1, <2>2 DEF Recovered
<1>2. Recovered(h, l, d) = [n \in Blocks |-> Recovered(h, l, d)[n]]
  BY DEF Recovered
<1>3. ASSUME NEW n \in Blocks, ~InHeader(h, n)
      PROVE  Recovered(h, l, d)[n] = d[n]
  BY <1>3 DEF Recovered
<1>4. QED
  BY <1>1, <1>2, <1>3

\* With an empty header, or with every block home, recovery changes nothing.
LEMMA NothingToRecover ==
  ASSUME NEW h \in Seq(Blocks), Distinct(h), NEW l, NEW d \in [Blocks -> Values],
         \A i \in DOMAIN h : d[h[i]] = l[i]
  PROVE  Recovered(h, l, d) = d
<1>. DEFINE r == Recovered(h, l, d)
<1>1. /\ r = [n \in Blocks |-> r[n]]
      /\ \A i \in DOMAIN h : r[h[i]] = l[i]
      /\ \A n \in Blocks : ~InHeader(h, n) => r[n] = d[n]
  BY RecoveredAt
<1>. HIDE DEF r
<1>2. ASSUME NEW n \in Blocks PROVE r[n] = d[n]
  <2>1. CASE InHeader(h, n)
    <3>1. PICK i \in DOMAIN h : h[i] = n
      BY <2>1 DEF InHeader
    <3>2. QED
      BY <1>1, <3>1
  <2>2. CASE ~InHeader(h, n)
    BY <1>1, <2>2
  <2>3. QED
    BY <2>1, <2>2
<1>3. [n \in Blocks |-> r[n]] = [n \in Blocks |-> d[n]]
  BY <1>2
<1>4. r = d
  BY <1>1, <1>3
<1>5. QED
  BY <1>4 DEF r

\* A change of a home block that the header names is not seen.
LEMMA RecoveredFrame ==
  ASSUME NEW h \in Seq(Blocks), Distinct(h), NEW l, NEW d, NEW e,
         \A n \in Blocks : ~InHeader(h, n) => d[n] = e[n]
  PROVE  Recovered(h, l, d) = Recovered(h, l, e)
<1>1. ASSUME NEW n \in Blocks
      PROVE  Recovered(h, l, d)[n] = Recovered(h, l, e)[n]
  BY RecoveredAt DEF InHeader
<1>2. QED
  BY <1>1, RecoveredAt

LEMMA DurableIsDisk ==
  ASSUME IInv, \/ header = <<>>
               \/ Somewhere({"erase"}) \/ mode = "erase"
  PROVE  Durable = disk
<1>1. header \in Seq(Blocks) /\ Distinct(header)
  BY DEF IInv, TypeOK, Progress
<1>0. disk \in [Blocks -> Values]
  BY DEF IInv, TypeOK
<1>2. \A i \in DOMAIN header : disk[header[i]] = logged[i]
  <2>1. CASE header = <<>>
    BY <2>1
  <2>2. CASE header # <<>>
    <3>1. Installed(LOGSIZE + 1)
      BY <2>2 DEF IInv, HeaderOnDisk
    <3>2. \A i \in DOMAIN header : i < LOGSIZE + 1
      BY <1>1, NonEmpty, LogAssumption DEF LogAssumption, IInv, TypeOK
    <3>3. QED
      BY <3>1, <3>2 DEF Installed
  <2>3. QED
    BY <2>1, <2>2
<1>3. Recovered(header, logged, disk) = disk
  BY <1>0, <1>1, <1>2, NothingToRecover
<1>4. QED
  BY <1>3 DEF Durable

LEMMA InstallSteps ==
  ASSUME IInv, Somewhere({"install"}) \/ mode = "install", CopyHome,
         UNCHANGED <<header, logged>>
  PROVE  Durable' = Durable /\ (Somewhere({"install"}) => cache' = cache)
<1>1. /\ tail \in DOMAIN lh /\ lh[tail] \in Blocks /\ header = lh
      /\ cache'[lh[tail]] = disk'[lh[tail]] /\ disk'[lh[tail]] = logged[tail]
      /\ \A n \in Blocks : n # lh[tail] => /\ cache'[n] = cache[n]
                                           /\ disk'[n] = disk[n]
  BY CopyHomeInstalls
<1>2. header \in Seq(Blocks) /\ Distinct(header)
  BY DEF IInv, TypeOK, Progress
<1>3. \A n \in Blocks : ~InHeader(header, n) => disk'[n] = disk[n]
  BY <1>1 DEF InHeader
<1>4. Recovered(header, logged, disk') = Recovered(header, logged, disk)
  BY <1>2, <1>3, RecoveredFrame
<1>5. ASSUME Somewhere({"install"}) PROVE cache' = cache
  <2>1. logged[tail] = cache[lh[tail]]
    BY <1>1, <1>5 DEF IInv, LogIsCopy, Somewhere
  <2>2. \A n \in Blocks : cache'[n] = cache[n]
    BY <1>1, <2>1
  <2>3. QED
    BY <2>2 DEF CopyHome, IInv, TypeOK
<1>6. QED
  BY <1>4, <1>5 DEF Durable

LEMMA AtomicInit == Init => Atomic!Init
<1>. SUFFICES ASSUME Init PROVE Atomic!Init
  OBVIOUS
<1>1. IInv /\ header = <<>>
  BY InitIInv DEF Init
<1>2. Durable = disk
  BY <1>1, DurableIsDisk
<1>3. Memory = disk /\ InOp = {} /\ disk \in [Blocks -> Values]
  BY <1>2 DEF Init, Memory, Booted, InOp
<1>4. QED
  BY <1>2, <1>3 DEF Atomic!Init

\* The steps AtomicDisk does not see.
LEMMA AtomicStutter ==
  ASSUME IInv, IInv', [Next]_vars,
         \/ UNCHANGED vars
         \/ \E t \in Threads : \/ CallBegin(t) \/ BeginSleep(t)
                                \/ WriteLog(t) \/ Install(t) \/ Erase(t)
                                \/ Finish(t)
                                \/ \E n \in Blocks : LogWritePanic(t, n)
         \/ \E n \in Blocks : Evict(n)
         \/ Recover
  PROVE  UNCHANGED <<Memory, Durable, InOp>>
<1>. USE DEF At, Up, Goto, diskVars
<1>1. CASE UNCHANGED vars
  BY <1>1 DEF vars, Memory, Durable, InOp, Booted
<1>2. ASSUME NEW t \in Threads, CallBegin(t) \/ BeginSleep(t) \/ Finish(t)
      PROVE  UNCHANGED <<Memory, Durable, InOp>>
  <2>1. UNCHANGED <<cache, mode, disk, logged, header>>
    BY <1>2 DEF CallBegin, BeginSleep, Finish
  <2>2. InOp' = InOp
    BY <1>2 DEF CallBegin, BeginSleep, Finish, InOp, Woken, IInv, TypeOK
  <2>3. QED
    BY <2>1, <2>2 DEF Memory, Durable, Booted
<1>3. ASSUME NEW t \in Threads, WriteLog(t)
      PROVE  UNCHANGED <<Memory, Durable, InOp>>
  <2>1. UNCHANGED <<cache, mode, disk, header>> /\ mode = "up"
    BY <1>3 DEF WriteLog
  <2>2. Stage("write_log")
    BY <1>3, StageNow DEF WriteLog, IInv, Committing
  <2>3. header = <<>>
    BY <2>1, <2>2 DEF IInv, HeaderOnDisk, Stage, Booted
  <2>4. Durable = disk
    BY <2>3, DurableIsDisk
  <2>5. Durable' = disk'
    <3>1. header' \in Seq(Blocks) /\ Distinct(header') /\ DOMAIN header' = {}
      BY <2>1, <2>3 DEF IInv, TypeOK, Progress
    <3>2. disk' \in [Blocks -> Values]
      BY DEF IInv, TypeOK
    <3>3. QED
      BY <3>1, <3>2, NothingToRecover DEF Durable
  <2>6. InOp' = InOp
    BY <1>3 DEF WriteLog, InOp, IInv, TypeOK
  <2>7. QED
    BY <2>1, <2>4, <2>5, <2>6 DEF Memory, Booted
<1>4. ASSUME NEW t \in Threads, Install(t)
      PROVE  UNCHANGED <<Memory, Durable, InOp>>
  <2>1. /\ Somewhere({"install"}) /\ CopyHome
        /\ UNCHANGED <<header, logged, mode>> /\ mode = "up"
    BY <1>4 DEF Install, Somewhere
  <2>2. Durable' = Durable /\ cache' = cache
    BY <2>1, InstallSteps
  <2>3. InOp' = InOp
    BY <1>4 DEF Install, InOp, IInv, TypeOK
  <2>4. QED
    BY <2>1, <2>2, <2>3 DEF Memory, Booted
<1>5. ASSUME NEW t \in Threads, Erase(t)
      PROVE  UNCHANGED <<Memory, Durable, InOp>>
  <2>1. UNCHANGED <<cache, mode, disk>> /\ header' = lh
    BY <1>5 DEF Erase
  <2>2. Stage("erase")
    BY <1>5, StageNow DEF Erase, IInv, Committing
  <2>3. lh = <<>> /\ Durable = disk
    BY <2>2, DurableIsDisk DEF IInv, Progress, Stage
  <2>4. Durable' = disk'
    <3>1. header' \in Seq(Blocks) /\ Distinct(header') /\ DOMAIN header' = {}
      BY <2>1, <2>3 DEF IInv, TypeOK, Progress
    <3>2. disk' \in [Blocks -> Values]
      BY DEF IInv, TypeOK
    <3>3. QED
      BY <3>1, <3>2, NothingToRecover DEF Durable
  <2>5. InOp' = InOp
    BY <1>5 DEF Erase, InOp, IInv, TypeOK
  <2>6. QED
    BY <2>1, <2>3, <2>4, <2>5 DEF Memory, Booted
<1>6. ASSUME NEW t \in Threads, NEW n \in Blocks, LogWritePanic(t, n)
      PROVE  UNCHANGED <<Memory, Durable, InOp>>
  BY <1>6 DEF LogWritePanic, CanWrite, Memory, Durable, InOp, Booted
<1>7. ASSUME NEW n \in Blocks, Evict(n)
      PROVE  UNCHANGED <<Memory, Durable, InOp>>
  <2>1. UNCHANGED <<mode, disk, header, logged, pc>>
    BY <1>7 DEF Evict
  <2>2. cache' = cache
    BY <1>7 DEF Evict, IInv, CacheIsDisk, TypeOK
  <2>3. QED
    BY <2>1, <2>2 DEF Memory, Durable, InOp, Booted
<1>8. CASE ReadHead
  BY <1>8 DEF ReadHead, Memory, Durable, InOp, Booted
<1>9. CASE RecoverInstall
  <2>1. Durable' = Durable
    BY <1>9, InstallSteps DEF RecoverInstall
  <2>2. QED
    BY <1>9, <2>1 DEF RecoverInstall, Memory, Booted, InOp
<1>10. CASE RecoverErase
  <2>1. /\ mode = "erase" /\ mode' = "up" /\ header' = lh
        /\ UNCHANGED <<cache, disk, pc>>
    BY <1>10 DEF RecoverErase
  <2>2. lh = <<>> /\ Durable = disk
    BY <2>1, DurableIsDisk DEF IInv, Progress
  <2>3. Durable' = disk'
    <3>1. header' \in Seq(Blocks) /\ Distinct(header') /\ DOMAIN header' = {}
      BY <2>1, <2>2 DEF IInv, TypeOK, Progress
    <3>2. disk' \in [Blocks -> Values]
      BY DEF IInv, TypeOK
    <3>3. QED
      BY <3>1, <3>2, NothingToRecover DEF Durable
  <2>4. cache = disk
    BY <2>1 DEF IInv, CacheIsDisk, Booted, TypeOK
  <2>5. QED
    BY <2>1, <2>2, <2>3, <2>4 DEF Memory, Booted, InOp
<1>11. QED
  BY <1>1, <1>2, <1>3, <1>4, <1>5, <1>6, <1>7, <1>8, <1>9, <1>10 DEF Recover

\* The write of the header makes what the calls have logged durable at once.
LEMMA WriteHeadCommits ==
  ASSUME IInv, IInv', NEW t \in Threads, WriteHead(t) PROVE Atomic!Commit
<1>1. /\ pc[t] = "write_head" /\ mode = "up" /\ mode' = "up" /\ header' = lh
      /\ pc' = [pc EXCEPT ![t] = "install"]
      /\ UNCHANGED <<lh, cache, pins, disk, logged>>
  BY DEF WriteHead, At, Up, Goto
<1>2. Stage("write_head") /\ InOp = {}
  BY <1>1, StageNow, NobodyInCommit DEF IInv, Committing
<1>3. /\ \A i \in DOMAIN lh : logged[i] = cache[lh[i]]
      /\ pins = {lh[i] : i \in DOMAIN lh}
      /\ \A n \in Blocks : cache[n] # disk[n] => n \in pins
  BY <1>1, <1>2 DEF IInv, LogIsCopy, CacheIsDisk, Stage, Booted
<1>4. lh \in Seq(Blocks) /\ Distinct(lh)
  BY DEF IInv, TypeOK, Progress
<1>5. \A n \in Blocks : ~InHeader(lh, n) => disk[n] = cache[n]
  BY <1>3 DEF InHeader
<1>6. Recovered(lh, logged, disk) = Recovered(lh, logged, cache)
  BY <1>4, <1>5, RecoveredFrame
<1>7. cache \in [Blocks -> Values]
  BY DEF IInv, TypeOK
<1>8. \A i \in DOMAIN lh : cache[lh[i]] = logged[i]
  BY <1>3
<1>9. Recovered(lh, logged, cache) = cache
  BY <1>4, <1>7, <1>8, NothingToRecover
<1>10. Durable' = cache
  BY <1>1, <1>6, <1>9 DEF Durable
<1>11. Memory = cache /\ Memory' = cache
  BY <1>1 DEF Memory, Booted
<1>12. InOp' = InOp
  BY <1>1 DEF InOp, IInv, TypeOK
<1>13. QED
  BY <1>2, <1>10, <1>11, <1>12 DEF Atomic!Commit

LEMMA AtomicStep ==
  ASSUME IInv, IInv', [Next]_vars PROVE [Atomic!Next]_(Atomic!vars)
<1>. USE DEF At, Up, Goto, diskVars
<1>1. CASE \/ UNCHANGED vars
           \/ \E t \in Threads : \/ CallBegin(t) \/ BeginSleep(t)
                                  \/ WriteLog(t) \/ Install(t) \/ Erase(t)
                                  \/ Finish(t)
                                  \/ \E n \in Blocks : LogWritePanic(t, n)
           \/ \E n \in Blocks : Evict(n)
           \/ Recover
  BY <1>1, AtomicStutter DEF Atomic!vars
<1>2. ASSUME NEW t \in Threads, BeginOp(t) PROVE Atomic!Begin(t)
  <2>1. t \notin InOp /\ InOp' = InOp \cup {t}
    BY <1>2 DEF BeginOp, InOp, IInv, TypeOK
  <2>2. Memory' = Memory /\ Durable' = Durable
    BY <1>2 DEF BeginOp, Memory, Durable, Booted
  <2>3. QED
    BY <2>1, <2>2 DEF Atomic!Begin
<1>3. ASSUME NEW t \in Threads, NEW n \in Blocks, NEW v \in Values,
             LogWrite(t, n, v)
      PROVE  Atomic!Write(t, n, v)
  <2>1. t \in InOp /\ InOp' = InOp
    BY <1>3 DEF LogWrite, CanWrite, InOp
  <2>2. Memory = cache /\ Memory' = [cache EXCEPT ![n] = v]
    BY <1>3 DEF LogWrite, CanWrite, Memory, Booted
  <2>3. Durable' = Durable
    BY <1>3 DEF LogWrite, Durable
  <2>4. QED
    BY <2>1, <2>2, <2>3 DEF Atomic!Write
<1>4. ASSUME NEW t \in Threads, EndOp(t) PROVE Atomic!End(t)
  <2>1. t \in InOp /\ ~committing
    BY <1>4 DEF EndOp, InOp, IInv, Presence, CommitAlone, Somewhere
  <2>2. InOp' = InOp \ {t}
    BY <1>4, <2>1 DEF EndOp, InOp, Woken, IInv, TypeOK
  <2>3. Memory' = Memory /\ Durable' = Durable
    BY <1>4 DEF EndOp, Memory, Durable, Booted
  <2>4. QED
    BY <2>1, <2>2, <2>3 DEF Atomic!End
<1>5. ASSUME Crash PROVE Atomic!Crash
  <2>1. Durable' = Durable /\ ~Booted' /\ InOp' = {}
    BY <1>5 DEF Crash, Durable, Booted, InOp
  <2>2. QED
    <3>1. Memory' = Durable
      BY <2>1 DEF Memory
    <3>2. QED
      BY <2>1, <3>1 DEF Atomic!Crash
<1>6. QED
  BY <1>1, <1>2, <1>3, <1>4, <1>5, WriteHeadCommits
     DEF Next, Commit, Atomic!Next

\* The log implements AtomicDisk: the calls are atomic across crashes.
THEOREM LogImplementsAtomicDisk == Spec => CrashAtomic
<1>1. Init => Atomic!Init
  BY AtomicInit
<1>2. IInv /\ IInv' /\ [Next]_vars => [Atomic!Next]_(Atomic!vars)
  BY AtomicStep
<1>3. QED
  BY <1>1, <1>2, Invariance, PTL DEF Spec, CrashAtomic, Atomic!Spec

=============================================================================
