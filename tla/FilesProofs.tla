---------------------------- MODULE FilesProofs -----------------------------
(***************************************************************************)
(* Proofs about Files, for any number of processes, names, inodes, blocks, *)
(* requests and crashes, in every schedule: every variable has its type,   *)
(* an inode's count of references is the number of pointers to it, what a  *)
(* crash leaves is a file system, and no call comes to a panic.  The last  *)
(* two hold until a directory is changed that is taken away (strayed).     *)
(***************************************************************************)
EXTENDS FilesInvariant, FiniteSetTheorems, SequenceTheorems,
        WellFoundedInduction, TLAPS

-----------------------------------------------------------------------------
(* Paths *)

Less == {p \in Nat \X Nat : p[1] < p[2]}
LEMMA LessWellFounded == IsWellFoundedOn(Less, Nat)
BY NatLessThanWellFounded, Zenon DEF OpToRel, Less

LEMMA Least ==
  ASSUME NEW S \in SUBSET Nat, S # {}
  PROVE  \E n \in S : \A m \in S : n <= m
<1>1. \E x \in S : \A y \in S : ~ (<<y, x>> \in Less)
  BY LessWellFounded, WFMin, Zenon
<1>2. PICK x \in S : \A y \in S : ~ (<<y, x>> \in Less)
  BY <1>1
<1>3. \A y \in S : ~(y < x)
  BY <1>2 DEF Less
<1> QED BY <1>3

LEMMA SmallestIn ==
  ASSUME NEW S \in SUBSET Nat, S # {}
  PROVE  Smallest(S) \in S
BY Least DEF Smallest

\* How far something holds from the start on.
LEMMA HowFar ==
  ASSUME NEW m \in Nat, NEW B \in [1..m -> BOOLEAN]
  PROVE  \E n \in 0..m : /\ \A k \in 1..n : B[k]
                         /\ n < m => ~B[n + 1]
<1> DEFINE N == {n \in 0..m : n < m => ~B[n + 1]}
<1>1. m \in N /\ N \in SUBSET Nat
  OBVIOUS
<1>2. PICK n \in N : \A j \in N : n <= j
  BY <1>1, Least
<1>3. n \in 0..m /\ (n < m => ~B[n + 1])
  OBVIOUS
<1>4. ASSUME NEW k \in 1..n PROVE B[k]
  BY <1>2, <1>3
<1>5. QED BY <1>3, <1>4

LEMMA RunIs ==
  ASSUME NEW S, NEW p \in Seq(S)
  PROVE  /\ Run(p, TRUE) \in 0..Len(p) /\ Run(p, FALSE) \in 0..Len(p)
         /\ \A k \in 1..Run(p, TRUE) : p[k] = "/"
         /\ \A k \in 1..Run(p, FALSE) : p[k] # "/"
         /\ Run(p, TRUE) < Len(p) => p[Run(p, TRUE) + 1] # "/"
         /\ Run(p, FALSE) < Len(p) => p[Run(p, FALSE) + 1] = "/"
<1>1. ASSUME NEW slashes \in BOOLEAN
      PROVE  /\ Run(p, slashes) \in 0..Len(p)
             /\ \A k \in 1..Run(p, slashes) : (p[k] = "/") = slashes
             /\ Run(p, slashes) < Len(p) => (p[Run(p, slashes) + 1] = "/") # slashes
  <2> DEFINE B == [k \in 1..Len(p) |-> (p[k] = "/") = slashes]
  <2>1. B \in [1..Len(p) -> BOOLEAN] /\ Len(p) \in Nat
    OBVIOUS
  <2>2. PICK n \in 0..Len(p) : /\ \A k \in 1..n : B[k]
                               /\ n < Len(p) => ~B[n + 1]
    BY <2>1, HowFar
  <2>3. /\ \A k \in 1..n : k \in 1..Len(p)
        /\ n < Len(p) => n + 1 \in 1..Len(p)
    BY <2>1
  <2>4. /\ \A k \in 1..n : (p[k] = "/") = slashes
        /\ n < Len(p) => ~((p[n + 1] = "/") = slashes)
    BY <2>2, <2>3, Zenon
  <2>5. QED BY <2>4, Zenon DEF Run
<1>2. /\ TRUE \in BOOLEAN /\ FALSE \in BOOLEAN
      /\ \A c : ((c = "/") = TRUE) <=> c = "/"
      /\ \A c : ((c = "/") = FALSE) <=> c # "/"
  BY Zenon
<1>3. /\ Run(p, TRUE) \in 0..Len(p)
      /\ \A k \in 1..Run(p, TRUE) : (p[k] = "/") = TRUE
      /\ Run(p, TRUE) < Len(p) => (p[Run(p, TRUE) + 1] = "/") # TRUE
  BY <1>1, <1>2, Zenon
<1>4. /\ Run(p, FALSE) \in 0..Len(p)
      /\ \A k \in 1..Run(p, FALSE) : (p[k] = "/") = FALSE
      /\ Run(p, FALSE) < Len(p) => (p[Run(p, FALSE) + 1] = "/") # FALSE
  BY <1>1, <1>2, Zenon
<1>5. QED BY <1>2, <1>3, <1>4, Zenon

LEMMA Tails ==
  ASSUME NEW S, NEW p \in Seq(S), NEW n \in 0..Len(p)
  PROVE  LET q == SubSeq(p, n + 1, Len(p))
         IN /\ q \in Seq(S)
            /\ Len(q) = Len(p) - n
            /\ \A k \in 1..Len(q) : q[k] = p[n + k]
            /\ q = <<>> <=> n = Len(p)
<1>1. Len(p) \in Nat
  OBVIOUS
<1>2. CASE n = Len(p)
  BY <1>1, <1>2
<1>3. CASE n < Len(p)
  BY <1>1, <1>3
<1>4. QED BY <1>1, <1>2, <1>3

\* What is left of a path has its form.
LEMMA PathTail ==
  ASSUME NEW p, IsPath(p), NEW n \in 0..(Len(p) - 1)
  PROVE  IsPath(SubSeq(p, n + 1, Len(p)))
<1>1. p \in Seq(Chars) /\ Len(p) \in Nat /\ n \in 0..Len(p) /\ n # Len(p)
  BY DEF IsPath
<1> DEFINE q == SubSeq(p, n + 1, Len(p))
<1>2. /\ q \in Seq(Chars) /\ q # <<>>
      /\ Len(q) = Len(p) - n
      /\ \A k \in 1..Len(q) : q[k] = p[n + k]
  BY <1>1, Tails
<1> HIDE DEF q
<1>3. ASSUME NEW k \in 2..Len(q) PROVE "/" \in {q[k - 1], q[k]}
  BY <1>1, <1>2 DEF IsPath
<1>4. IsPath(q)
  BY <1>2, <1>3 DEF IsPath
<1> QED BY <1>4 DEF q

\* skipelem() leaves a path that starts with a name, or nothing.
LEMMA NoSlashIs ==
  ASSUME NEW S, NEW p \in Seq(S)
  PROVE  /\ NoSlash(p) \in Seq(S)
         /\ NoSlash(p) # <<>> => NoSlash(p)[1] # "/"
         /\ NoSlash(p) # <<>> /\ IsPath(p) => IsPath(NoSlash(p))
<1> DEFINE n == Run(p, TRUE)
<1>0. Len(p) \in Nat
  OBVIOUS
<1>1. /\ n \in 0..Len(p)
      /\ n < Len(p) => p[n + 1] # "/"
  BY RunIs, Zenon
<1>h. NoSlash(p) = SubSeq(p, n + 1, Len(p))
  BY DEF NoSlash
<1> HIDE DEF n
<1>2. /\ NoSlash(p) \in Seq(S)
      /\ Len(NoSlash(p)) = Len(p) - n
      /\ \A k \in 1..Len(NoSlash(p)) : NoSlash(p)[k] = p[n + k]
      /\ NoSlash(p) = <<>> <=> n = Len(p)
  BY <1>1, <1>h, Tails
<1>3. NoSlash(p) # <<>> => NoSlash(p)[1] # "/"
  BY <1>0, <1>1, <1>2
<1>4. NoSlash(p) # <<>> /\ IsPath(p) => IsPath(NoSlash(p))
  BY <1>0, <1>h, <1>1, <1>2, PathTail
<1>5. QED BY <1>2, <1>3, <1>4

LEMMA RestIs ==
  ASSUME NEW S, NEW p \in Seq(S)
  PROVE  /\ Rest(p) \in Seq(S)
         /\ Rest(p) # <<>> => Rest(p)[1] # "/"
         /\ Rest(p) # <<>> /\ IsPath(p) => IsPath(Rest(p))
<1> DEFINE n == Run(p, FALSE)
           q == SubSeq(p, n + 1, Len(p))
<1>0. Len(p) \in Nat
  OBVIOUS
<1>1. n \in 0..Len(p)
  BY RunIs, Zenon
<1>2. q \in Seq(S) /\ (q = <<>> <=> n = Len(p))
  BY <1>1, Tails, ZenonT(90)
<1>3. Rest(p) = NoSlash(q) /\ q = SubSeq(p, n + 1, Len(p))
  BY DEF Rest
<1> HIDE DEF n, q
<1>4. q # <<>> /\ IsPath(p) => IsPath(q)
  BY <1>0, <1>1, <1>2, <1>3, PathTail
<1>5. q = <<>> => NoSlash(q) = <<>>
  BY <1>2, RunIs, Tails DEF NoSlash
<1>6. QED BY <1>2, <1>3, <1>4, <1>5, NoSlashIs

\* A name is one that a directory may hold, or too long for one character.
LEMMA ElemIs ==
  ASSUME FilesAssumption, NEW p \in Strings, p # <<>>, p[1] # "/"
  PROVE  /\ Elem(p) \in Entries \cup {Junk}
         /\ IsPath(p) => Elem(p) \in Entries
<1> DEFINE n == Run(p, FALSE)
<1>0. /\ Len(p) \in Nat /\ Len(p) >= 1
      /\ p[1] \in Chars \cup {Junk}
  BY DEF Strings
<1>1. /\ n \in 0..Len(p)
      /\ \A k \in 1..n : p[k] # "/"
      /\ n < Len(p) => p[n + 1] = "/"
  BY RunIs, Zenon DEF Strings
<1>h. Elem(p) = IF n = 1 THEN p[1] ELSE Junk
  BY DEF Elem
<1> HIDE DEF n
<1>2. n = 1 => Elem(p) \in Entries \cup {Junk}
  BY <1>0, <1>h DEF Chars
<1>3. n # 1 => Elem(p) = Junk
  BY <1>h
<1>4. IsPath(p) => n = 1
  BY <1>0, <1>1 DEF IsPath
<1>5. IsPath(p) => p[1] \in Entries
  BY <1>0 DEF IsPath, Chars
<1>6. QED BY <1>2, <1>3, <1>4, <1>5, <1>h

LEMMA OverIs ==
  ASSUME NEW p \in Strings, NEW q \in Strings
  PROVE  Over(p, q) \in Strings
BY Tails DEF Strings, Over

LEMMA ReadOverIs ==
  ASSUME NEW p \in Strings, NEW q \in Strings, NEW x \in ReadOver(p, q)
  PROVE  x \in Strings
<1>1. p \o <<Junk>> \in Strings
  BY DEF Strings
<1>2. QED BY <1>1, OverIs DEF ReadOver

-----------------------------------------------------------------------------
LEMMA LocalTypes ==
  ASSUME Inv, NEW t \in Procs
  PROVE  /\ loc[t] \in Locals /\ pc[t] \in Labels /\ Own(t)
         /\ cwd[t] \in Inodes /\ ofile[t] \in [ip : Inums, writable : BOOLEAN]
BY DEF Inv, TypeOK, DataOK

LEMMA OwnKept ==
  ASSUME NEW u \in Procs, Own(u), pc'[u] = pc[u], loc'[u] = loc[u],
         ofile'[u] = ofile[u], u \in inop' <=> u \in inop
  PROVE  Own(u)'
BY DEF Own, Shape, FileOK, InOp, Due

\* What the typing of a step comes down to.
LEMMA InvStep ==
  ASSUME Inv, NEW t \in Procs, Alone(t), TypeOK', Own(t)',
         \A u \in Procs \ {t} : u \in inop' <=> u \in inop
  PROVE  Inv'
BY OwnKept DEF Inv, Alone

LEMMA GoType ==
  ASSUME Inv, NEW t \in Procs, NEW l \in Labels, NEW r \in Locals, Go(t, l, r)
  PROVE  /\ pc' \in [Procs -> Labels] /\ loc' \in [Procs -> Locals]
         /\ pc'[t] = l /\ loc'[t] = r
         /\ \A u \in Procs \ {t} : pc'[u] = pc[u] /\ loc'[u] = loc[u]
BY DEF Inv, TypeOK, Go, Goto

LEMMA OneLong ==
  ASSUME NEW S, NEW q \in Seq(S), Len(q) = 1
  PROVE  q = <<q[1]>>
OBVIOUS

LEMMA TwoLong ==
  ASSUME NEW S, NEW p \in Seq(S), Len(p) = 2
  PROVE  p[2] \in S /\ Tail(p) \in Seq(S) /\ Tail(p) = <<p[2]>>
<1>1. 2 \in 1..Len(p) /\ p # <<>> /\ 1 \in 1..1 /\ 1 + 1 = 2
  OBVIOUS
<1>2. p[2] \in S
  BY <1>1, ElementOfSeq
<1>3. /\ Len(Tail(p)) = 1 /\ Tail(p) \in Seq(S)
      /\ \A i \in 1..Len(Tail(p)) : Tail(p)[i] = p[i + 1]
  BY <1>1, HeadTailProperties
<1>4. Tail(p)[1] = p[1 + 1]
  BY <1>1, <1>3
<1>5. Tail(p)[1] = p[2]
  BY <1>1, <1>4, Zenon
<1>6. Tail(p) = <<Tail(p)[1]>>
  BY <1>3, OneLong
<1>7. QED BY <1>2, <1>3, <1>5, <1>6, Zenon

LEMMA PutsLocals ==
  ASSUME NEW r \in Locals
  PROVE  /\ \A q \in Seq(Inodes) : [r EXCEPT !.puts = q] \in Locals
         /\ [r EXCEPT !.puts = <<>>] \in Locals
BY EmptySeq DEF Locals

LEMMA NextsLabels ==
  /\ Nexts \subseteq Labels
  /\ PutAt \subseteq Labels
BY DEF Nexts, Labels, CreateAt, LinkAt, UnlinkAt, IpAt, DpAt, PutAt

LEMMA PutsType ==
  ASSUME Inv, NEW t \in Procs, pc[t] \in PutAt
  PROVE  /\ Len(loc[t].puts) \in {1, 2}
         /\ loc[t].next \in Nexts
         /\ loc[t].puts \in Seq(Inodes)
         /\ Head(loc[t].puts) = loc[t].puts[1]
         /\ Head(loc[t].puts) \in Inodes
         /\ Len(loc[t].puts) = 2 => /\ Tail(loc[t].puts) = <<loc[t].puts[2]>>
                                    /\ loc[t].puts[2] \in Inodes
<1>1. Own(t) /\ loc[t] \in Locals /\ pc[t] # "panic"
  BY LocalTypes DEF PutAt
<1>2. loc[t].puts \in Seq(Inodes) /\ Len(loc[t].puts) \in {1, 2} /\ loc[t].next \in Nexts
  BY <1>1 DEF Own, Shape, Locals
<1> DEFINE p == loc[t].puts
<1> HIDE DEF p
<1>3. p \in Seq(Inodes) /\ Len(p) \in {1, 2}
  BY <1>2 DEF p
<1>4. /\ Head(p) = p[1] /\ Head(p) \in Inodes
      /\ Len(p) = 2 => Tail(p) = <<p[2]>> /\ p[2] \in Inodes
  BY <1>3, TwoLong
<1> QED BY <1>2, <1>4 DEF p

LEMMA PutDoneType ==
  ASSUME Inv, NEW t \in Procs, pc[t] \in PutAt, PutDone(t), UNCHANGED <<procVars>>
  PROVE  /\ pc' \in [Procs -> Labels] /\ loc' \in [Procs -> Locals]
         /\ Alone(t) /\ Own(t)'
<1>1. /\ loc[t] \in Locals /\ Own(t) /\ pc[t] # "panic" /\ pc[t] # "idle"
      /\ Len(loc[t].puts) \in {1, 2}
      /\ loc[t].next \in Nexts
  BY LocalTypes, PutsType DEF PutAt
<1>2. Due(t) = loc[t].next
  BY DEF Due
<1>3. CASE Len(loc[t].puts) = 1
  <2> DEFINE r == [loc[t] EXCEPT !.puts = <<>>]
  <2>1. r \in Locals /\ loc[t].next \in Labels
    BY <1>1, NextsLabels, PutsLocals
  <2>2. Go(t, loc[t].next, r)
    BY <1>3 DEF PutDone
  <2> HIDE DEF r
  <2>3. /\ pc' \in [Procs -> Labels] /\ loc' \in [Procs -> Locals]
        /\ pc'[t] = loc[t].next /\ loc'[t] = r
        /\ Alone(t)
    BY <2>1, <2>2, GoType DEF procVars, Alone
  <2>4. Own(t)'
    BY <1>1, <1>2, <2>3 DEF r, Own, Shape, FileOK, InOp, HasOld, Has, Fits, WalkFits, Due, procVars, Nexts, PutAt, Locals
  <2>5. QED BY <2>3, <2>4
<1>4. CASE Len(loc[t].puts) = 2
  <2> DEFINE r == [loc[t] EXCEPT !.puts = Tail(@)]
  <2>1. r \in Locals /\ r.puts = <<loc[t].puts[2]>> /\ Len(r.puts) = 1
    BY <1>1, <1>4, PutsType, SMTT(90) DEF Locals
  <2>2. Go(t, "put", r)
    BY <1>4 DEF PutDone
  <2>3. "put" \in Labels
    BY DEF Labels, PutAt
  <2>r. \E q : r = [loc[t] EXCEPT !.puts = q]
    OBVIOUS
  <2> HIDE DEF r
  <2>4. /\ pc' \in [Procs -> Labels] /\ loc' \in [Procs -> Locals]
        /\ pc'[t] = "put" /\ loc'[t] = r
        /\ Alone(t)
    BY <2>1, <2>2, <2>3, GoType DEF procVars, Alone
  <2>5. Own(t)'
    BY <1>1, <1>2, <2>1, <2>4, <2>r DEF Own, Shape, FileOK, InOp, HasOld, Has, Fits, WalkFits, Due, procVars, PutAt, Locals
  <2>6. QED BY <2>4, <2>5
<1>5. QED BY <1>1, <1>3, <1>4

-----------------------------------------------------------------------------
(* The pointers a process has *)

LEMMA EmptyPuts ==
  First(<<>>) = NoInode /\ Second(<<>>) = NoInode
BY DEF First, Second

LEMMA GetIs ==
  ASSUME NEW tab \in Tables, NEW i \in Inodes
  PROVE  /\ Get(tab, i) \in Tables
         /\ \A j \in Inodes : j # i => Get(tab, i)[j] = tab[j]
         /\ tab[i].ref >= 0 => Get(tab, i)[i].ref = tab[i].ref + 1
         /\ tab[i].ref > 0 => /\ Get(tab, i)[i].valid = tab[i].valid
                              /\ Get(tab, i)[i].ino = tab[i].ino
         /\ ~(tab[i].ref > 0) => Get(tab, i)[i].valid = FALSE
<1>1. FreeDinode \in Dinodes
  BY DEF FreeDinode, Dinode, Dinodes, Types
<1>2. PICK f \in Dinodes : f = FreeDinode
  BY <1>1
<1>3. CASE tab[i].ref > 0
  <2>1. Get(tab, i) = [tab EXCEPT ![i].ref = @ + 1]
    BY <1>3 DEF Get
  <2>2. QED BY <1>3, <2>1 DEF Tables
<1>4. CASE ~(tab[i].ref > 0)
  <2>1. Get(tab, i) = [tab EXCEPT ![i] = [ref |-> 1, valid |-> FALSE, ino |-> f]]
    BY <1>2, <1>4 DEF Get
  <2> DEFINE new == [tab EXCEPT ![i] = [ref |-> 1, valid |-> FALSE, ino |-> f]]
  <2>2. /\ new \in Tables
        /\ \A j \in Inodes : j # i => new[j] = tab[j]
    BY DEF Tables
  <2>3. new[i].ref = 1 /\ new[i].valid = FALSE
    BY DEF Tables
  <2> HIDE DEF new
  <2>4. Get(tab, i) = new
    BY <2>1 DEF new
  <2>5. tab[i].ref \in Int
    BY DEF Tables
  <2>6. QED BY <1>4, <2>2, <2>3, <2>4, <2>5
<1>5. QED BY <1>3, <1>4

LEMMA CachedIs ==
  ASSUME NEW tab \in Tables, NEW i \in Inodes, NEW ino \in Dinodes
  PROVE  /\ Cached(tab, i, ino) \in Tables
         /\ \A j \in Inodes : j # i => Cached(tab, i, ino)[j] = tab[j]
         /\ Cached(tab, i, ino)[i].ref = tab[i].ref
         /\ Cached(tab, i, ino)[i].valid
         /\ Cached(tab, i, ino)[i].ino = ino
BY DEF Cached, Tables

LEMMA CachedTwice ==
  ASSUME NEW tab \in Tables, NEW i \in Inodes, NEW j \in Inodes, i # j,
         NEW x \in Dinodes, NEW y \in Dinodes, NEW new, new = Cached(Cached(tab, i, x), j, y)
  PROVE  /\ \A k \in Inodes : k # i /\ k # j => new[k] = tab[k]
         /\ new[i].valid /\ new[i].ino = x /\ new[j].valid /\ new[j].ino = y
BY DEF Cached, Tables

LEMMA InoIs ==
  ASSUME Inv, NEW i \in Inodes
  PROVE  Ino(i) \in Dinodes
BY DEF Inv, TypeOK, DataOK, Ino, Tables, Disks

LEMMA LookupIs ==
  ASSUME Inv, NEW ino \in Dinodes, NEW n \in Entries \cup {Junk}
  PROVE  Lookup(ino, n) \in Inums
BY DEF Inv, TypeOK, DataOK, Lookup, Dinodes, Disks, Inums, NoInode, NoBlock

LEMMA OnDiskIs ==
  ASSUME NEW d \in Disks, NEW i \in Inodes, NEW ino \in Dinodes
  PROVE  /\ OnDisk(d, i, ino) \in Disks
         /\ OnDisk(d, i, ino).inode[i] = ino
         /\ \A j \in Inodes : j # i => OnDisk(d, i, ino).inode[j] = d.inode[j]
         /\ OnDisk(d, i, ino).used = d.used
         /\ OnDisk(d, i, ino).ents = d.ents
         /\ OnDisk(d, i, ino).target = d.target
BY DEF OnDisk, Disks

LEMMA LinkedIs ==
  ASSUME NEW d \in Disks, NEW ino \in Dinodes, ino.addr # NoBlock,
         NEW n \in Entries, NEW i \in Inums
  PROVE  /\ Linked(d, ino, n, i) \in Disks
         /\ Linked(d, ino, n, i).inode = d.inode
         /\ Linked(d, ino, n, i).used = d.used
         /\ Linked(d, ino, n, i).ents[ino.addr][n] = i
         /\ \A b \in Blocks, m \in Entries : (b # ino.addr \/ m # n) =>
              Linked(d, ino, n, i).ents[b][m] = d.ents[b][m]
BY DEF Linked, Disks, Dinodes, NoBlock

LEMMA BallocdIs ==
  ASSUME NEW d \in Disks, NEW b \in Blocks
  PROVE  /\ Ballocd(d, b) \in Disks
         /\ Ballocd(d, b).inode = d.inode
         /\ Ballocd(d, b).used = d.used \cup {b}
         /\ \A m \in Entries : Ballocd(d, b).ents[b][m] = NoInode
         /\ \A c \in Blocks : c # b => Ballocd(d, b).ents[c] = d.ents[c]
<1>1. NoEntries \in [Entries -> Inums] /\ <<>> \in Strings
  BY EmptySeq DEF NoEntries, Inums, Strings
<1>2. PICK q \in Strings : q = <<>>
  BY <1>1
<1> DEFINE new == [d EXCEPT !.used = @ \cup {b},
                            !.ents[b] = NoEntries, !.target[b] = q]
<1>3. Ballocd(d, b) = new
  BY <1>2 DEF Ballocd
<1>4. /\ new \in Disks
      /\ new.inode = d.inode
      /\ new.used = d.used \cup {b}
  BY <1>1 DEF Disks
<1>5. /\ new.ents[b] = NoEntries
      /\ \A c \in Blocks : c # b => new.ents[c] = d.ents[c]
  BY <1>1 DEF Disks
<1> HIDE DEF new
<1>6. \A m \in Entries : NoEntries[m] = NoInode
  BY DEF NoEntries
<1>7. QED BY <1>3, <1>4, <1>5, <1>6

LEMMA BfreedIs ==
  ASSUME NEW d \in Disks, NEW b
  PROVE  /\ Bfreed(d, b) \in Disks
         /\ Bfreed(d, b).inode = d.inode
         /\ Bfreed(d, b).used = d.used \ {b}
         /\ Bfreed(d, b).ents = d.ents
         /\ Bfreed(d, b).target = d.target
BY DEF Bfreed, Disks

LEMMA Finish ==
  ASSUME Inv, NEW t \in Procs, NEW l \in Labels, NEW r \in Locals, Go(t, l, r),
         UNCHANGED procVars, DataOK', Own(t)'
  PROVE  Inv'
BY GoType, InvStep DEF Alone, procVars, TypeOK

\* Of a process that is putting nothing.
LEMMA NoPuts ==
  ASSUME Inv, NEW t \in Procs, pc[t] \notin PutAt \cup {"panic"}
  PROVE  /\ loc[t].puts = <<>>
         /\ First(loc[t].puts) = NoInode /\ Second(loc[t].puts) = NoInode
         /\ Due(t) = pc[t]
BY EmptyPuts, LocalTypes DEF Own, Shape, Due

LEMMA PutThenIs ==
  ASSUME Inv, NEW t \in Procs, NEW r \in Locals, NEW s \in Seq(Inodes),
         Len(s) \in {1, 2}, NEW l \in Nexts, PutThen(t, r, s, l)
  PROVE  /\ pc' \in [Procs -> Labels] /\ loc' \in [Procs -> Locals]
         /\ pc'[t] = "put" /\ Due(t)' = l
         /\ loc'[t] = [r EXCEPT !.puts = s, !.next = l]
         /\ \A u \in Procs \ {t} : pc'[u] = pc[u] /\ loc'[u] = loc[u]
<1> DEFINE q == [r EXCEPT !.puts = s, !.next = l]
<1>1. q \in Locals /\ q.next = l
  BY DEF Locals
<1>2. Go(t, "put", q)
  BY DEF PutThen
<1>3. "put" \in Labels /\ "put" \in PutAt
  BY DEF Labels, PutAt
<1> HIDE DEF q
<1>4. /\ pc' \in [Procs -> Labels] /\ loc' \in [Procs -> Locals]
      /\ pc'[t] = "put" /\ loc'[t] = q
      /\ \A u \in Procs \ {t} : pc'[u] = pc[u] /\ loc'[u] = loc[u]
  BY <1>1, <1>2, <1>3, GoType
<1>5. Due(t)' = l
  BY <1>1, <1>3, <1>4 DEF Due
<1> QED BY <1>4, <1>5 DEF q

\* A sequence of one or two inodes.
LEMMA Puts1 ==
  ASSUME NEW i \in Inodes
  PROVE  /\ <<i>> \in Seq(Inodes) /\ Len(<<i>>) \in {1, 2}
         /\ First(<<i>>) = i /\ Second(<<i>>) = NoInode
BY DEF First, Second

LEMMA Puts2 ==
  ASSUME NEW i \in Inodes, NEW j \in Inodes
  PROVE  /\ <<i, j>> \in Seq(Inodes) /\ Len(<<i, j>>) \in {1, 2}
         /\ First(<<i, j>>) = i /\ Second(<<i, j>>) = j
BY DEF First, Second

-----------------------------------------------------------------------------
LEMMA WorldTypes ==
  ASSUME Inv
  PROVE  /\ disk \in Disks /\ committed \in Disks /\ itable \in Tables
         /\ DataOK
BY DEF Inv, TypeOK, DataOK

\* What starting a walk leaves: a table, a process at "walk" with such locals.
WalkStarted(t, r, parent, ret, bad) ==
  \E i \in Inodes, q \in Strings :
     /\ i \in {ROOTINO, cwd[t]}
     /\ itable' = Get(itable, i) /\ itable' \in Tables
     /\ pc' \in [Procs -> Labels] /\ loc' \in [Procs -> Locals]
     /\ pc'[t] = "walk" /\ Due(t)' = "walk"
     /\ loc'[t] = [r EXCEPT !.path = q, !.parent = parent, !.ip = i,
                            !.ret = ret, !.bad = bad]
     /\ \A u \in Procs \ {t} : pc'[u] = pc[u] /\ loc'[u] = loc[u]
     /\ q # <<>> => q[1] # "/"
     /\ parent /\ q # <<>> => IsPath(q)

LEMMA WalkStarts ==
  ASSUME Inv, RefNat, NEW t \in Procs, NEW r \in Locals, NEW p \in Strings,
         NEW parent \in BOOLEAN, NEW ret \in Rets, NEW bad \in {"end", "link_bad"},
         parent => IsPath(p),
         StartWalk(t, r, p, parent, ret, bad)
  PROVE  WalkStarted(t, r, parent, ret, bad)
<1>1. /\ From(t, p) \in {ROOTINO, cwd[t]} /\ From(t, p) \in Inodes
      /\ NoSlash(p) \in Strings
      /\ NoSlash(p) # <<>> => NoSlash(p)[1] # "/"
      /\ parent /\ NoSlash(p) # <<>> => IsPath(NoSlash(p))
  BY FilesAssumption, LocalTypes, NoSlashIs DEF FilesAssumption, ROOTINO, Inodes, From,
       Strings
<1>2. PICK i \in Inodes, q \in Strings : i = From(t, p) /\ q = NoSlash(p)
  BY <1>1
<1> DEFINE x == [r EXCEPT !.path = q, !.parent = parent, !.ip = i,
                          !.ret = ret, !.bad = bad]
<1>3. x \in Locals
  BY ZenonT(90) DEF Locals, Inums
<1>4. itable' = Get(itable, i) /\ Go(t, "walk", x)
  BY <1>2 DEF StartWalk
<1>5. "walk" \in Labels /\ "walk" \notin PutAt
  BY DEF Labels, IpAt, PutAt
<1> HIDE DEF x
<1>6. /\ pc' \in [Procs -> Labels] /\ loc' \in [Procs -> Locals]
      /\ pc'[t] = "walk" /\ Due(t)' = "walk" /\ loc'[t] = x
      /\ \A u \in Procs \ {t} : pc'[u] = pc[u] /\ loc'[u] = loc[u]
  BY <1>3, <1>4, <1>5, GoType DEF Due
<1>7. itable' \in Tables
  BY <1>4, GetIs, WorldTypes
<1> QED BY <1>1, <1>2, <1>4, <1>6, <1>7 DEF x, WalkStarted

-----------------------------------------------------------------------------
(* Each action keeps the types, and the counts right. *)

LEMMA PanicTypes ==
  ASSUME Inv, NEW t \in Procs, Panic(t), pc[t] # "idle"
  PROVE  Inv' /\ RefStep(t)
<1>1. /\ pc' \in [Procs -> Labels] /\ pc'[t] = "panic"
      /\ \A u \in Procs \ {t} : pc'[u] = pc[u]
      /\ UNCHANGED <<disk, committed, itable, lock, cwd, ofile, inop, loc, events,
                     orphans, dropped, strayed>>
  BY DEF Panic, Goto, Inv, TypeOK, Labels, fsVars, tableVars, procVars, history
<1>2. Own(t)'
  BY <1>1, LocalTypes DEF Own, Shape, FileOK, InOp
<1>3. TypeOK' /\ Alone(t)
  BY <1>1 DEF Inv, TypeOK, DataOK, Alone
<1>4. RefStep(t)
  BY <1>1 DEF RefStep, Counted_
<1> QED BY <1>1, <1>2, <1>3, <1>4, InvStep

LEMMA DropTypes ==
  ASSUME Inv, NEW t \in Procs, pc[t] \in PutAt, Drop(t),
         UNCHANGED <<fsVars, procVars, events, history>>,
         lock' \in [Inodes -> Procs \cup {Nobody}]
  PROVE  Inv' /\ RefStep(t)
<1> DEFINE i == Head(loc[t].puts)
<1>1. /\ i \in Inodes /\ i = loc[t].puts[1]
      /\ Len(loc[t].puts) \in {1, 2} /\ loc[t] \in Locals
      /\ Len(loc[t].puts) = 2 => /\ Tail(loc[t].puts) = <<loc[t].puts[2]>>
                                 /\ loc[t].puts[2] \in Inodes
  BY PutsType, LocalTypes
<1>2. /\ itable' = [itable EXCEPT ![i].ref = @ - 1] /\ PutDone(t)
      /\ UNCHANGED <<disk, committed, cwd, ofile, inop, events, orphans, dropped, strayed>>
  BY DEF Drop, fsVars, procVars, history
<1> HIDE DEF i
<1>3. /\ pc' \in [Procs -> Labels] /\ loc' \in [Procs -> Locals]
      /\ Alone(t) /\ Own(t)'
  BY <1>2, PutDoneType
<1>4. /\ itable' \in Tables
      /\ \A j \in Inodes : itable'[j].ref = itable[j].ref - One(j = i)
  BY <1>1, <1>2, WorldTypes DEF Tables, One
<1>5. TypeOK'
  BY <1>2, <1>3, <1>4 DEF Inv, TypeOK, DataOK
<1>6. /\ loc'[t].ip = loc[t].ip /\ loc'[t].dp = loc[t].dp /\ loc'[t].old = loc[t].old
      /\ First(loc[t].puts) = i
      /\ First(loc'[t].puts) = Second(loc[t].puts)
      /\ Second(loc'[t].puts) = NoInode
  BY <1>1, <1>2, EmptyPuts, Puts1 DEF Inv, TypeOK, PutDone, Go, Locals, First, Second
<1>7. ASSUME NEW j \in Inodes
      PROVE  itable'[j].ref - dropped'[j] - Counted_(t, j)'
               = itable[j].ref - dropped[j] - Counted_(t, j)
  <2>1. One(NoInode = j) = 0
    BY DEF One, NoInode, Inodes
  <2>2. Counted_(t, j) = Counted_(t, j)' + One(j = i)
    BY <1>2, <1>6, <2>1 DEF Counted_, Count, One
  <2>3. dropped'[j] = dropped[j] /\ dropped[j] \in Nat /\ itable[j].ref \in Int
    BY <1>2, WorldTypes DEF DataOK, Tables
  <2>4. Counted_(t, j)' \in Int /\ One(j = i) \in Int
    BY DEF Counted_, Count, One
  <2>5. QED BY <1>4, <2>2, <2>3, <2>4
<1> QED BY <1>2, <1>3, <1>5, <1>7, InvStep DEF RefStep

LEMMA RefSame ==
  ASSUME NEW t \in Procs, loc'[t] = loc[t], cwd'[t] = cwd[t], ofile'[t] = ofile[t],
         dropped' = dropped, \A j \in Inodes : itable'[j].ref = itable[j].ref
  PROVE  RefStep(t)
BY DEF RefStep, Counted_, Count

LEMMA GetRef ==
  ASSUME NEW tab \in Tables, NEW i \in Inodes, tab[i].ref >= 0
  PROVE  \A j \in Inodes : Get(tab, i)[j].ref = tab[j].ref + One(j = i)
<1>1. \A j \in Inodes : j # i => Get(tab, i)[j].ref = tab[j].ref
  BY GetIs
<1>2. Get(tab, i)[i].ref = tab[i].ref + 1
  BY GetIs
<1>3. \A j \in Inodes : tab[j].ref \in Int
  BY DEF Tables
<1>4. QED BY <1>1, <1>2, <1>3 DEF One

LEMMA CachedRef ==
  ASSUME NEW tab \in Tables, NEW i \in Inodes, NEW ino \in Dinodes
  PROVE  \A j \in Inodes : Cached(tab, i, ino)[j].ref = tab[j].ref
BY CachedIs

\* The pointers of a process that is at no iput; the same, once it is.
LEMMA RefMoves ==
  ASSUME Inv, NEW t \in Procs, pc[t] \notin PutAt \cup {"panic"},
         itable' \in Tables, UNCHANGED <<dropped, cwd, ofile>>,
         NEW p \in Inums, NEW q \in Inums, NEW g \in Inums,
         First(loc'[t].puts) = p, Second(loc'[t].puts) = q,
         \A j \in Inodes : itable'[j].ref = itable[j].ref + One(j = g),
         \A j \in Inodes :
            One(loc'[t].ip = j) + One(loc'[t].dp = j) + One(loc'[t].old = j)
              + One(p = j) + One(q = j)
            = One(loc[t].ip = j) + One(loc[t].dp = j) + One(loc[t].old = j) + One(g = j)
  PROVE  RefStep(t)
<1>1. ASSUME NEW j \in Inodes
      PROVE  itable'[j].ref - dropped'[j] - Counted_(t, j)'
               = itable[j].ref - dropped[j] - Counted_(t, j)
  <2>1. One(NoInode = j) = 0 /\ One(j = g) = One(g = j)
    BY DEF One, NoInode, Inodes
  <2>2. Counted_(t, j)' = Counted_(t, j) + One(g = j)
    BY NoPuts, <2>1 DEF Counted_, Count, One
  <2>3. dropped'[j] = dropped[j] /\ dropped[j] \in Nat /\ itable[j].ref \in Int
    BY WorldTypes DEF DataOK, Tables
  <2>4. Counted_(t, j) \in Int /\ One(g = j) \in Int
    BY DEF Counted_, Count, One
  <2>5. QED BY <2>1, <2>2, <2>3, <2>4
<1>2. QED BY <1>1 DEF RefStep

LEMMA PutGoto ==
  ASSUME Inv, NEW t \in Procs, pc[t] \in PutAt, NEW l \in PutAt \cup {"panic"},
         Goto(t, l), UNCHANGED <<loc, procVars>>
  PROVE  /\ pc' \in [Procs -> Labels] /\ loc' \in [Procs -> Locals]
         /\ Own(t)' /\ Alone(t)
<1>1. /\ pc' \in [Procs -> Labels] /\ pc'[t] = l
      /\ \A u \in Procs \ {t} : pc'[u] = pc[u]
      /\ loc' = loc /\ loc' \in [Procs -> Locals]
  BY NextsLabels DEF Goto, Inv, TypeOK, Labels
<1>2. Own(t) /\ pc[t] # "panic" /\ pc[t] # "idle" /\ pc[t] # "create_get"
      /\ l # "idle" /\ l # "create_get"
  BY LocalTypes DEF PutAt
<1>3. Own(t)'
  BY <1>1, <1>2 DEF Own, Shape, FileOK, InOp, procVars, Due
<1>4. QED BY <1>1, <1>3 DEF Alone, procVars

LEMMA PutTypes ==
  ASSUME Inv, NEW t \in Procs, Put(t)
  PROVE  Inv' /\ RefStep(t)
<1> DEFINE i == Head(loc[t].puts)
<1>1. pc[t] \in PutAt /\ UNCHANGED <<fsVars, procVars, events, history>> /\ i \in Inodes
  BY PutsType DEF Put, At, PutAt
<1>2. CASE ~Last(i)
  BY <1>1, <1>2, DropTypes, WorldTypes DEF Put, DataOK
<1>3. CASE Last(i)
  <2> DEFINE l == IF Free(i) THEN "put_free" ELSE "panic"
  <2>1. /\ Goto(t, l) /\ l \in PutAt \cup {"panic"}
        /\ lock' = [lock EXCEPT ![i] = t] \/ lock' = lock
        /\ UNCHANGED <<itable, loc>>
    BY <1>3 DEF Put, Locked, PutAt
  <2> HIDE DEF i, l
  <2>2. /\ pc' \in [Procs -> Labels] /\ loc' \in [Procs -> Locals]
        /\ Own(t)' /\ Alone(t)
    BY <1>1, <2>1, PutGoto
  <2>3. DataOK'
    BY <1>1, <2>1, WorldTypes DEF DataOK, fsVars, procVars, history
  <2>4. Inv'
    BY <1>1, <2>2, <2>3, InvStep DEF TypeOK, procVars
  <2>5. RefStep(t)
    BY <1>1, <2>1, RefSame DEF procVars, history
  <2>6. QED BY <2>4, <2>5
<1>4. QED BY <1>2, <1>3

LEMMA PutFreeTypes ==
  ASSUME Inv, NEW t \in Procs, PutFree(t)
  PROVE  Inv' /\ RefStep(t)
<1> DEFINE i == Head(loc[t].puts)
           ino == itable[i].ino
           l == IF ino.addr \in disk.used \cup {NoBlock} THEN "put_inval" ELSE "panic"
<1>1. /\ pc[t] \in PutAt /\ i \in Inodes
      /\ UNCHANGED <<committed, lock, procVars, loc, events, history>>
      /\ disk' = OnDisk(Bfreed(disk, ino.addr), i, FreeDinode)
      /\ itable' = Cached(itable, i, FreeDinode)
      /\ Goto(t, l) /\ l \in PutAt \cup {"panic"}
  BY PutsType DEF PutFree, At, PutAt
<1>2. FreeDinode \in Dinodes
  BY DEF FreeDinode, Dinode, Dinodes, Types
<1> HIDE DEF i, ino, l
<1>3. /\ disk' \in Disks /\ itable' \in Tables
      /\ \A j \in Inodes : itable'[j].ref = itable[j].ref
  BY <1>1, <1>2, WorldTypes, BfreedIs, OnDiskIs, CachedIs, CachedRef
<1>4. /\ pc' \in [Procs -> Labels] /\ loc' \in [Procs -> Locals]
      /\ Own(t)' /\ Alone(t)
  BY <1>1, PutGoto
<1>5. DataOK'
  BY <1>1, <1>3, WorldTypes DEF DataOK, procVars, history
<1>6. RefStep(t)
  BY <1>1, <1>3, RefSame DEF procVars, history
<1> QED BY <1>1, <1>4, <1>5, <1>6, InvStep, SMTT(90) DEF TypeOK, procVars

LEMMA PutInvalTypes ==
  ASSUME Inv, NEW t \in Procs, PutInval(t)
  PROVE  Inv' /\ RefStep(t)
<1> DEFINE i == Head(loc[t].puts)
<1>1. /\ pc[t] \in PutAt /\ i \in Inodes
      /\ UNCHANGED <<fsVars, procVars, loc, events, history>>
      /\ itable' = [itable EXCEPT ![i].valid = FALSE]
      /\ lock' = [lock EXCEPT ![i] = Nobody]
      /\ Goto(t, "put_drop") /\ "put_drop" \in PutAt \cup {"panic"}
  BY PutsType DEF PutInval, At, PutAt, Unlocked
<1> HIDE DEF i
<1>3. /\ itable' \in Tables
      /\ \A j \in Inodes : itable'[j].ref = itable[j].ref
  BY <1>1, WorldTypes DEF Tables
<1>4. /\ pc' \in [Procs -> Labels] /\ loc' \in [Procs -> Locals]
      /\ Own(t)' /\ Alone(t)
  BY <1>1, PutGoto
<1>5. DataOK'
  BY <1>1, <1>3, WorldTypes DEF DataOK, fsVars, procVars, history
<1>6. RefStep(t)
  BY <1>1, <1>3, RefSame DEF procVars, history
<1> QED BY <1>1, <1>4, <1>5, <1>6, InvStep DEF TypeOK, procVars

LEMMA IputTypes ==
  ASSUME Inv, NEW t \in Procs, Iput(t)
  PROVE  Inv' /\ RefStep(t)
BY DropTypes, WorldTypes, PutTypes, PutFreeTypes, PutInvalTypes DEF PutDrop, At, PutAt,
     DataOK, Iput

-----------------------------------------------------------------------------
\* What a process's locals look like where it is.
LEMMA Here ==
  ASSUME Inv, NEW t \in Procs, pc[t] \notin PutAt \cup {"panic"}
  PROVE  /\ loc[t] \in Locals
         /\ loc[t].ip # NoInode <=> pc[t] \in IpAt
         /\ loc[t].dp # NoInode <=> pc[t] \in DpAt
         /\ loc[t].ip \in Inums /\ loc[t].dp \in Inums /\ loc[t].old \in Inums
         /\ loc[t].puts = <<>>
         /\ loc[t].inum # NoInode <=> pc[t] = "create_get"
         /\ (pc[t] # "walk" /\ pc[t] # "unlock_dp") =>
              (loc[t].old # NoInode <=> pc[t] \in {"link_path", "link_dir", "link_bad"})
BY LocalTypes DEF Own, Shape, HasOld, Has, Due, Locals

\* iput of one inode that the process no longer points to, and on to l.
LEMMA PutOneTypes ==
  ASSUME Inv, NEW t \in Procs, pc[t] \notin PutAt \cup {"panic", "idle"},
         NEW r \in Locals, NEW i \in Inodes, NEW l \in Nexts,
         PutThen(t, r, <<i>>, l), UNCHANGED procVars
  PROVE  /\ pc' \in [Procs -> Labels] /\ loc' \in [Procs -> Locals]
         /\ Alone(t)
         /\ pc'[t] = "put" /\ Due(t)' = l
         /\ loc'[t] \in Locals
         /\ loc'[t].ip = r.ip /\ loc'[t].dp = r.dp /\ loc'[t].old = r.old
         /\ loc'[t].call = r.call /\ loc'[t].arg = r.arg /\ loc'[t].path = r.path
         /\ loc'[t].parent = r.parent /\ loc'[t].name = r.name /\ loc'[t].ret = r.ret
         /\ loc'[t].bad = r.bad /\ loc'[t].inum = r.inum /\ loc'[t].depth = r.depth
         /\ loc'[t].puts = <<i>> /\ loc'[t].next = l
         /\ First(loc'[t].puts) = i /\ Second(loc'[t].puts) = NoInode
<1>1. /\ pc' \in [Procs -> Labels] /\ loc' \in [Procs -> Locals]
      /\ pc'[t] = "put" /\ Due(t)' = l
      /\ loc'[t] = [r EXCEPT !.puts = <<i>>, !.next = l]
      /\ \A u \in Procs \ {t} : pc'[u] = pc[u] /\ loc'[u] = loc[u]
  BY PutThenIs, Puts1
<1>2. PICK s \in Seq(Inodes) : s = <<i>>
  BY Puts1
<1>3. loc'[t] = [r EXCEPT !.puts = s, !.next = l]
  BY <1>1, <1>2
<1>4. /\ loc'[t] \in Locals
      /\ loc'[t].ip = r.ip /\ loc'[t].dp = r.dp /\ loc'[t].old = r.old
      /\ loc'[t].call = r.call /\ loc'[t].arg = r.arg /\ loc'[t].path = r.path
      /\ loc'[t].parent = r.parent /\ loc'[t].name = r.name /\ loc'[t].ret = r.ret
      /\ loc'[t].bad = r.bad /\ loc'[t].inum = r.inum /\ loc'[t].depth = r.depth
      /\ loc'[t].puts = s /\ loc'[t].next = l
  BY <1>3 DEF Locals
<1>5. Alone(t)
  BY <1>1 DEF Alone, procVars
<1> QED BY <1>1, <1>2, <1>4, <1>5, Puts1

\* The same, with what it leaves the process: the call goes on at l with r.
LEMMA StepPut ==
  ASSUME Inv, NEW t \in Procs, pc[t] \notin PutAt \cup {"panic", "idle"},
         NEW r \in Locals, NEW i \in Inodes, NEW l \in Nexts,
         PutThen(t, r, <<i>>, l), UNCHANGED <<procVars, dropped>>, DataOK',
         Has(l, r), Fits(l, r), r.inum = NoInode,
         NEW g \in Inums,
         \A j \in Inodes : itable'[j].ref = itable[j].ref + One(j = g),
         \A j \in Inodes :
            One(r.ip = j) + One(r.dp = j) + One(r.old = j) + One(i = j)
            = One(loc[t].ip = j) + One(loc[t].dp = j) + One(loc[t].old = j) + One(g = j)
  PROVE  Inv' /\ RefStep(t)
<1>1. /\ pc' \in [Procs -> Labels] /\ loc' \in [Procs -> Locals]
      /\ Alone(t)
      /\ pc'[t] = "put" /\ Due(t)' = l
      /\ loc'[t] \in Locals
      /\ loc'[t].ip = r.ip /\ loc'[t].dp = r.dp /\ loc'[t].old = r.old
      /\ loc'[t].call = r.call /\ loc'[t].arg = r.arg /\ loc'[t].path = r.path
      /\ loc'[t].parent = r.parent /\ loc'[t].name = r.name /\ loc'[t].ret = r.ret
      /\ loc'[t].bad = r.bad /\ loc'[t].inum = r.inum
      /\ loc'[t].puts = <<i>> /\ loc'[t].next = l
      /\ First(loc'[t].puts) = i /\ Second(loc'[t].puts) = NoInode
  BY PutOneTypes
<1>2. Has(l, loc'[t]) /\ Fits(l, loc'[t])
  BY <1>1 DEF Has, HasOld, Fits, WalkFits
<1>3. Shape(t)'
  BY <1>1, <1>2, Puts1 DEF Shape, Nexts, PutAt
<1>4. Own(t)'
  BY <1>1, <1>3, LocalTypes DEF Own, FileOK, InOp, procVars
<1>5. Inv'
  BY <1>1, <1>4, InvStep DEF TypeOK, procVars
<1>6. /\ itable' \in Tables /\ NoInode \in Inums /\ i \in Inums
      /\ UNCHANGED <<dropped, cwd, ofile>>
  BY DEF DataOK, Inums, procVars
<1>7. ASSUME NEW j \in Inodes
      PROVE  One(loc'[t].ip = j) + One(loc'[t].dp = j) + One(loc'[t].old = j)
               + One(i = j) + One(NoInode = j)
               = One(loc[t].ip = j) + One(loc[t].dp = j) + One(loc[t].old = j) + One(g = j)
  BY <1>1 DEF One, NoInode, Inodes
<1>8. RefStep(t)
  BY <1>1, <1>6, <1>7, RefMoves
<1> QED BY <1>5, <1>8

\* A step within a call, to a label l with the locals r.
LEMMA StepGo ==
  ASSUME Inv, NEW t \in Procs, pc[t] \notin PutAt \cup {"panic", "idle"},
         NEW r \in Locals, NEW l \in Labels \ (PutAt \cup {"panic", "idle", "write"}),
         Go(t, l, r), UNCHANGED <<procVars, dropped>>, DataOK',
         Has(l, r), Fits(l, r), r.inum # NoInode <=> l = "create_get", r.puts = <<>>,
         NEW g \in Inums,
         \A j \in Inodes : itable'[j].ref = itable[j].ref + One(j = g),
         \A j \in Inodes :
            One(r.ip = j) + One(r.dp = j) + One(r.old = j)
            = One(loc[t].ip = j) + One(loc[t].dp = j) + One(loc[t].old = j) + One(g = j)
  PROVE  Inv' /\ RefStep(t)
<1>1. /\ pc' \in [Procs -> Labels] /\ loc' \in [Procs -> Locals]
      /\ Alone(t)
      /\ pc'[t] = l /\ Due(t)' = l /\ loc'[t] = r
      /\ First(loc'[t].puts) = NoInode /\ Second(loc'[t].puts) = NoInode
  BY GoType, EmptyPuts DEF Alone, procVars, Due
<1>3. Shape(t)'
  BY <1>1 DEF Shape
<1>4. Own(t)'
  BY <1>1, <1>3, LocalTypes DEF Own, FileOK, InOp, procVars
<1>5. Inv'
  BY <1>1, <1>4, InvStep DEF TypeOK, procVars
<1>6. /\ itable' \in Tables /\ NoInode \in Inums
      /\ UNCHANGED <<dropped, cwd, ofile>>
  BY DEF DataOK, Inums, procVars
<1>7. ASSUME NEW j \in Inodes
      PROVE  One(loc'[t].ip = j) + One(loc'[t].dp = j) + One(loc'[t].old = j)
               + One(NoInode = j) + One(NoInode = j)
               = One(loc[t].ip = j) + One(loc[t].dp = j) + One(loc[t].old = j) + One(g = j)
  BY <1>1 DEF One, NoInode, Inodes
<1>8. RefStep(t)
  BY <1>1, <1>6, <1>7, RefMoves
<1> QED BY <1>5, <1>8

\* What is known of a process that is at no iput.
LEMMA Known ==
  ASSUME Inv, NEW t \in Procs, pc[t] \notin PutAt \cup {"panic"}
  PROVE  /\ loc[t] \in Locals /\ loc[t].puts = <<>>
         /\ Has(pc[t], loc[t]) /\ Fits(pc[t], loc[t])
         /\ loc[t].inum # NoInode <=> pc[t] = "create_get"
BY LocalTypes DEF Own, Shape, Due

LEMMA NoneMore ==
  ASSUME Inv, UNCHANGED itable
  PROVE  /\ NoInode \in Inums
         /\ \A j \in Inodes : itable'[j].ref = itable[j].ref + One(j = NoInode)
BY WorldTypes DEF One, Tables, Inums, NoInode, Inodes

LEMMA CachedMore ==
  ASSUME Inv, NEW i \in Inodes, NEW ino \in Dinodes, itable' = Cached(itable, i, ino)
  PROVE  /\ NoInode \in Inums /\ itable' \in Tables
         /\ \A j \in Inodes : itable'[j].ref = itable[j].ref + One(j = NoInode)
<1>1. itable' \in Tables /\ \A j \in Inodes : itable'[j].ref = itable[j].ref
  BY CachedIs, CachedRef, WorldTypes
<1>2. QED BY <1>1, WorldTypes DEF One, Tables, Inums, NoInode, Inodes

LEMMA CachedGetMore ==
  ASSUME Inv, RefNat, NEW i \in Inodes, NEW ino \in Dinodes, NEW g \in Inodes,
         itable' = Get(Cached(itable, i, ino), g)
  PROVE  /\ g \in Inums /\ itable' \in Tables
         /\ \A j \in Inodes : itable'[j].ref = itable[j].ref + One(j = g)
<1>1. PICK tab \in Tables : tab = Cached(itable, i, ino)
  BY CachedIs, WorldTypes
<1>2. \A j \in Inodes : tab[j].ref = itable[j].ref
  BY <1>1, CachedRef, WorldTypes
<1>3. tab[g].ref >= 0
  BY <1>2 DEF RefNat
<1>4. itable' = Get(tab, g)
  BY <1>1
<1>5. \A j \in Inodes : Get(tab, g)[j].ref = tab[j].ref + One(j = g)
  BY <1>3, GetRef
<1>6. Get(tab, g) \in Tables
  BY GetIs
<1>7. QED BY <1>2, <1>4, <1>5, <1>6 DEF Inums

LEMMA WalkFailsTypes ==
  ASSUME Inv, NEW t \in Procs, pc[t] = "walk", WalkFails(t), DataOK',
         UNCHANGED <<procVars, dropped>>,
         \A j \in Inodes : itable'[j].ref = itable[j].ref + One(j = NoInode)
  PROVE  Inv' /\ RefStep(t)
<1> DEFINE r == [loc[t] EXCEPT !.ip = NoInode]
           l == loc[t].bad
<1>1. pc[t] \notin PutAt \cup {"panic", "idle"}
  BY DEF PutAt
<1>2. /\ loc[t] \in Locals /\ Has("walk", loc[t]) /\ WalkFits(loc[t])
      /\ loc[t].inum = NoInode
  BY <1>1, Known DEF Fits
<1>3. /\ l \in Nexts /\ loc[t].ip \in Inodes /\ NoInode \in Inums
  BY <1>2 DEF Nexts, Has, IpAt, WalkFits, Inums, Locals
<1>4. PutThen(t, r, <<loc[t].ip>>, l)
  BY DEF WalkFails
<1>5. /\ r \in Locals /\ r.ip = NoInode /\ r.dp = loc[t].dp /\ r.old = loc[t].old
      /\ r.inum = loc[t].inum /\ r.call = loc[t].call /\ r.ret = loc[t].ret
  BY <1>2, <1>3 DEF Locals
<1>6. Has(l, r) /\ Fits(l, r)
  BY <1>2, <1>5 DEF Has, HasOld, Fits, WalkFits, IpAt, DpAt, CreateAt, LinkAt, UnlinkAt,
                    NamedAt, AfterWalk, WithPath, Makes
<1> HIDE DEF r, l
<1>7. ASSUME NEW j \in Inodes
      PROVE  One(r.ip = j) + One(r.dp = j) + One(r.old = j) + One(loc[t].ip = j)
               = One(loc[t].ip = j) + One(loc[t].dp = j) + One(loc[t].old = j) + One(NoInode = j)
  BY <1>5 DEF One
<1> QED BY <1>1, <1>2, <1>3, <1>4, <1>5, <1>6, <1>7, StepPut

\* The data that a step leaves alone.
LEMMA DataKept ==
  ASSUME Inv, itable' \in Tables, lock' \in [Inodes -> Procs \cup {Nobody}],
         disk' \in Disks, committed' = committed, UNCHANGED <<procVars, events, orphans, dropped>>,
         strayed' \in BOOLEAN
  PROVE  DataOK'
BY WorldTypes DEF DataOK, procVars

LEMMA LockTypes ==
  ASSUME Inv, NEW t \in Procs, NEW i, Locked(t, i) \/ Unlocked(i) \/ lock' = lock
  PROVE  lock' \in [Inodes -> Procs \cup {Nobody}]
BY WorldTypes DEF DataOK, Locked, Unlocked

LEMMA StrayedType ==
  ASSUME Inv
  PROVE  strayed \in BOOLEAN
BY WorldTypes DEF DataOK

LEMMA WalkEndTypes ==
  ASSUME Inv, RefNat, NEW t \in Procs, WalkEnd(t)
  PROVE  Inv' /\ RefStep(t)
<1>1. /\ pc[t] = "walk" /\ pc[t] \notin PutAt \cup {"panic", "idle"}
      /\ UNCHANGED <<fsVars, tableVars, procVars, events, history>>
  BY DEF WalkEnd, At, PutAt
<1>2. DataOK'
  BY <1>1, WorldTypes DEF DataOK, fsVars, tableVars, procVars, history
<1>3. CASE loc[t].parent
  BY <1>1, <1>2, <1>3, NoneMore, WalkFailsTypes DEF WalkEnd, tableVars, history
<1>4. CASE ~loc[t].parent
  <2> DEFINE l == loc[t].ret
  <2>1. Goto(t, l) /\ UNCHANGED loc
    BY <1>4 DEF WalkEnd
  <2>2. /\ loc[t] \in Locals /\ Has("walk", loc[t]) /\ WalkFits(loc[t])
        /\ loc[t].inum = NoInode /\ loc[t].puts = <<>>
    BY <1>1, Known DEF Fits
  <2>3. Go(t, l, loc[t])
    BY <2>1, <2>2 DEF Go, Inv, TypeOK
  <2>4. /\ l \in {"open", "chdir", "link", "open_next"}
        /\ l \in Labels \ (PutAt \cup {"panic", "idle", "write"}) /\ l # "create_get"
    BY <1>4, <2>2 DEF WalkFits, Labels, IpAt, PutAt, AfterWalk, WithPath, Makes
  <2>5. Has(l, loc[t])
    BY <2>2, <2>4, <1>4 DEF Has, HasOld, IpAt, DpAt, WalkFits
  <2>6. Fits(l, loc[t])
    BY <2>2, <2>4 DEF Fits, WalkFits, CreateAt, LinkAt, UnlinkAt, NamedAt, AfterWalk, WithPath, Makes
  <2> HIDE DEF l
  <2>7. NoInode \in Inums
        /\ \A j \in Inodes : itable'[j].ref = itable[j].ref + One(j = NoInode)
    BY <1>1, NoneMore DEF tableVars
  <2>8. ASSUME NEW j \in Inodes
        PROVE  One(loc[t].ip = j) + One(loc[t].dp = j) + One(loc[t].old = j)
                = One(loc[t].ip = j) + One(loc[t].dp = j) + One(loc[t].old = j) + One(NoInode = j)
    BY DEF One, NoInode, Inodes
  <2>9. UNCHANGED <<procVars, dropped>>
    BY <1>1 DEF history
  <2>10. QED BY <1>1, <1>2, <2>2, <2>3, <2>4, <2>5, <2>6, <2>7, <2>8, <2>9, StepGo
<1>5. QED BY <1>3, <1>4

LEMMA WalkTypes ==
  ASSUME Inv, RefNat, NEW t \in Procs, Walk(t)
  PROVE  Inv' /\ RefStep(t)
<1> DEFINE r == loc[t]
           ino == Ino(r.ip)
           name == Elem(r.path)
           atparent == r.parent /\ Rest(r.path) = <<>>
           next == Lookup(ino, name)
           tab == Cached(itable, r.ip, ino)
<1>1. /\ pc[t] = "walk" /\ pc[t] \notin PutAt \cup {"panic", "idle"}
      /\ r.path # <<>>
  BY DEF Walk, At, PutAt
<1>2. /\ r \in Locals /\ Has("walk", r) /\ WalkFits(r)
      /\ r.inum = NoInode /\ r.puts = <<>>
  BY <1>1, Known DEF Fits
<1>3. r.ip \in Inodes /\ ino \in Dinodes /\ r.ip # NoInode
  BY <1>2, InoIs DEF Has, IpAt, Inums, Locals
<1>4. /\ name \in Entries \cup {Junk} /\ next \in Inums
      /\ r.parent => name \in Entries
  BY <1>1, <1>2, <1>3, ElemIs, LookupIs, FilesAssumption DEF Locals, WalkFits
<1>5. /\ Rest(r.path) \in Strings
      /\ Rest(r.path) # <<>> => Rest(r.path)[1] # "/"
      /\ Rest(r.path) # <<>> /\ r.parent => IsPath(Rest(r.path))
  BY <1>1, <1>2, RestIs DEF Locals, Strings, WalkFits
<1>6. CASE Panic(t)
  BY <1>1, <1>6, PanicTypes
<1>7. CASE WalkOn(t) /\ UNCHANGED <<fsVars, lock, procVars, events, orphans, dropped>>
  <2>1. lock' \in [Inodes -> Procs \cup {Nobody}] /\ disk' \in Disks
        /\ UNCHANGED <<committed, procVars, events, orphans, dropped>>
    BY <1>7, LockTypes, WorldTypes DEF fsVars
  <2>2. CASE itable' = tab /\ WalkFails(t) /\ UNCHANGED strayed
    BY <1>1, <1>3, <2>1, <2>2, CachedMore, DataKept, StrayedType, WalkFailsTypes
  <2>3. CASE /\ ino.type = "dir" /\ atparent /\ itable' = tab
             /\ Go(t, r.ret, [r EXCEPT !.dp = r.ip, !.ip = NoInode, !.name = name])
             /\ UNCHANGED strayed
    <3> DEFINE q == [r EXCEPT !.dp = r.ip, !.ip = NoInode, !.name = name]
               l == r.ret
    <3>1. /\ q \in Locals /\ q.dp = r.ip /\ q.ip = NoInode /\ q.name = name
          /\ q.old = r.old /\ q.inum = r.inum /\ q.puts = r.puts /\ q.call = r.call
          /\ q.arg = r.arg /\ q.ret = r.ret
      BY <1>2, <1>4, ZenonT(90) DEF Locals, Inums
    <3>2. /\ l \in {"create", "unlink", "link_dir"}
          /\ l \in Labels \ (PutAt \cup {"panic", "idle", "write"}) /\ l # "create_get"
      BY <1>2, <2>3 DEF WalkFits, Labels, DpAt, PutAt
    <3>3. Go(t, l, q)
      BY <2>3
    <3> HIDE DEF q
    <3>4. Has(l, q)
      BY <1>2, <1>3, <3>1, <3>2 DEF Has, HasOld, IpAt, DpAt
    <3>5. Fits(l, q)
      BY <1>2, <1>4, <2>3, <3>1, <3>2 DEF Fits, WalkFits, CreateAt, LinkAt, UnlinkAt, NamedAt, AfterWalk, WithPath, Makes
    <3> HIDE DEF l, tab
    <3>6. /\ NoInode \in Inums /\ itable' \in Tables
          /\ \A j \in Inodes : itable'[j].ref = itable[j].ref + One(j = NoInode)
      BY <1>3, <2>3, CachedMore DEF tab
    <3>7. ASSUME NEW j \in Inodes
          PROVE  One(q.ip = j) + One(q.dp = j) + One(q.old = j)
                  = One(loc[t].ip = j) + One(loc[t].dp = j) + One(loc[t].old = j) + One(NoInode = j)
      BY <1>2, <3>1 DEF One, NoInode, Inodes, Has, DpAt
    <3>8. DataOK'
      BY <2>1, <2>3, <3>6, DataKept, StrayedType
    <3>9. q.puts = <<>> /\ (q.inum # NoInode <=> l = "create_get")
      BY <1>2, <3>1, <3>2
    <3>10. QED BY <1>1, <2>1, <3>1, <3>2, <3>3, <3>4, <3>5, <3>6, <3>7, <3>8, <3>9, StepGo
  <2>4. CASE /\ ino.type = "dir" /\ ~atparent /\ next # NoInode
             /\ itable' = Get(tab, next)
             /\ strayed' = (strayed \/ (Removed(ino) /\ name = ".."))
             /\ PutThen(t, [r EXCEPT !.ip = next, !.path = Rest(@)], <<r.ip>>, "walk")
    <3> DEFINE q == [r EXCEPT !.ip = next, !.path = Rest(@)]
    <3>1. /\ q \in Locals /\ q.ip = next /\ q.path = Rest(r.path)
          /\ q.dp = r.dp /\ q.old = r.old /\ q.inum = r.inum /\ q.call = r.call
          /\ q.arg = r.arg /\ q.ret = r.ret /\ q.bad = r.bad /\ q.parent = r.parent
      BY <1>2, <1>4, <1>5 DEF Locals
    <3>2. PutThen(t, q, <<r.ip>>, "walk") /\ "walk" \in Nexts
      BY <2>4 DEF Nexts
    <3> HIDE DEF q
    <3>3. Has("walk", q)
      BY <1>2, <2>4, <3>1 DEF Has, HasOld, IpAt, DpAt
    <3>4. Fits("walk", q)
      BY <1>2, <1>5, <3>1 DEF Fits, WalkFits, CreateAt, LinkAt, UnlinkAt, NamedAt
    <3>5. next \in Inodes
      BY <1>4, <2>4 DEF Inums
    <3>6. /\ next \in Inums /\ itable' \in Tables
          /\ \A j \in Inodes : itable'[j].ref = itable[j].ref + One(j = next)
      BY <1>3, <2>4, <3>5, CachedGetMore
    <3> HIDE DEF next, tab, name, ino
    <3>7. ASSUME NEW j \in Inodes
          PROVE  One(q.ip = j) + One(q.dp = j) + One(q.old = j) + One(r.ip = j)
                  = One(loc[t].ip = j) + One(loc[t].dp = j) + One(loc[t].old = j) + One(next = j)
      BY <3>1 DEF One
    <3>8. strayed' \in BOOLEAN
      BY <2>4, StrayedType
    <3>9. DataOK'
      BY <2>1, <3>6, <3>8, DataKept
    <3>10. q.inum = NoInode
      BY <1>2, <3>1
    <3>11. QED
      BY <1>1, <1>3, <2>1, <3>1, <3>2, <3>3, <3>4, <3>6, <3>7, <3>9, <3>10, StepPut
  <2>5. QED BY <1>7, <2>2, <2>3, <2>4 DEF WalkOn
<1>8. QED BY <1>6, <1>7 DEF Walk

LEMMA NoLocalsIs ==
  /\ NoLocals \in Locals
  /\ NoLocals.ip = NoInode /\ NoLocals.dp = NoInode /\ NoLocals.old = NoInode
  /\ NoLocals.inum = NoInode /\ NoLocals.puts = <<>>
BY EmptySeq DEF Strings, NoLocals, Locals, Inums, Entries

\* begin_op(): the process is in a call from here on.
LEMMA StepBegin ==
  ASSUME Inv, NEW t \in Procs, pc[t] = "idle", inop' = inop \cup {t},
         pc' \in [Procs -> Labels], loc' \in [Procs -> Locals], Alone(t),
         DataOK', Shape(t)', FileOK(t)', pc'[t] # "idle"
  PROVE  Inv'
BY InvStep DEF Own, InOp, TypeOK

LEMMA CountedType ==
  ASSUME Inv, Counted
  PROVE  events' \in Nat
BY WorldTypes DEF DataOK, Counted

LEMMA CallTypes ==
  ASSUME Inv, RefNat, NEW t \in Procs, NEW z \in Requests, Call(t, z[1], z[2], z[3])
  PROVE  Inv' /\ RefStep(t)
<1> DEFINE call == z[1]
           p == z[2]
           q == z[3]
           arg == IF call \in {"open", "trunc"} THEN p ELSE q
           r == [NoLocals EXCEPT !.call = call, !.arg = arg]
           parent == call \in Makes \cup {"unlink"}
           ret == AfterWalk(call)
<1>1. /\ call \in WithPath /\ IsPath(p) /\ q \in Seq(Chars)
      /\ call \in {"symlink", "link"} => IsPath(q)
  BY FilesAssumption DEF FilesAssumption
<1>2. /\ p \in Strings /\ q \in Strings
  BY <1>1 DEF IsPath, Strings, Chars
<1>3. /\ pc[t] = "idle" /\ Counted /\ inop' = inop \cup {t}
      /\ StartWalk(t, r, p, parent, ret, "end")
      /\ UNCHANGED <<disk, committed, lock, cwd, ofile, orphans, dropped, strayed>>
  BY DEF Call, Begins, At, fsVars, history
<1>4. /\ parent \in BOOLEAN /\ ret \in Rets
      /\ parent <=> ret \in {"create", "unlink", "link_dir"}
      /\ ret # "link_dir"
  BY <1>1 DEF AfterWalk, Rets, WithPath, Makes
<1>5. /\ r \in Locals /\ r.call = call /\ r.arg = arg
      /\ r.ip = NoInode /\ r.dp = NoInode /\ r.old = NoInode
      /\ r.inum = NoInode /\ r.puts = <<>>
  BY <1>1, <1>2, NoLocalsIs DEF Locals
<1> HIDE DEF r, parent, ret, p, q, call, arg
<1>i. (parent => IsPath(p)) /\ "end" \in {"end", "link_bad"}
  BY <1>1
<1>b. WalkStarted(t, r, parent, ret, "end")
  BY <1>2, <1>3, <1>4, <1>5, <1>i, WalkStarts
<1>6. PICK i \in Inodes, path \in Strings :
           /\ i \in {ROOTINO, cwd[t]}
           /\ itable' = Get(itable, i) /\ itable' \in Tables
           /\ pc' \in [Procs -> Labels] /\ loc' \in [Procs -> Locals]
           /\ pc'[t] = "walk" /\ Due(t)' = "walk"
           /\ loc'[t] = [r EXCEPT !.path = path, !.parent = parent, !.ip = i,
                                  !.ret = ret, !.bad = "end"]
           /\ \A u \in Procs \ {t} : pc'[u] = pc[u] /\ loc'[u] = loc[u]
           /\ path # <<>> => path[1] # "/"
           /\ parent /\ path # <<>> => IsPath(path)
  BY <1>b DEF WalkStarted
<1>7. /\ loc'[t].ip = i /\ loc'[t].dp = NoInode /\ loc'[t].old = NoInode
      /\ loc'[t].inum = NoInode /\ loc'[t].puts = <<>>
      /\ loc'[t].call = call /\ loc'[t].arg = arg
      /\ loc'[t].path = path /\ loc'[t].parent = parent /\ loc'[t].ret = ret
      /\ loc'[t].bad = "end"
  BY <1>5, <1>6 DEF Locals
<1>8. Alone(t)
  BY <1>3, <1>6 DEF Alone
<1>9. Has("walk", loc'[t])
  BY <1>4, <1>7 DEF Has, HasOld, IpAt, DpAt, Inodes, NoInode
<1>10. Fits("walk", loc'[t])
  BY <1>1, <1>4, <1>6, <1>7 DEF Fits, WalkFits, CreateAt, LinkAt, UnlinkAt, NamedAt, ret, parent, arg
<1>11. Shape(t)'
  BY <1>6, <1>7, <1>9, <1>10 DEF Shape, PutAt
<1>12. FileOK(t)'
  BY <1>3, LocalTypes DEF Own, FileOK
<1>13. DataOK'
  BY <1>3, <1>6, WorldTypes, CountedType DEF DataOK
<1>14. Inv'
  BY <1>3, <1>6, <1>8, <1>11, <1>12, <1>13, StepBegin
<1>15. RefStep(t)
  <2>1. pc[t] \notin PutAt \cup {"panic"} /\ i \in Inums /\ NoInode \in Inums
    BY <1>3 DEF PutAt, Inums
  <2>2. First(loc'[t].puts) = NoInode /\ Second(loc'[t].puts) = NoInode
    BY <1>7, EmptyPuts
  <2>3. loc[t].ip = NoInode /\ loc[t].dp = NoInode /\ loc[t].old = NoInode
    BY <1>3, <2>1, Known DEF Has, HasOld, IpAt, DpAt
  <2>4. \A j \in Inodes : itable'[j].ref = itable[j].ref + One(j = i)
    BY <1>6, GetRef, WorldTypes DEF RefNat
  <2>5. ASSUME NEW j \in Inodes
        PROVE  One(loc'[t].ip = j) + One(loc'[t].dp = j) + One(loc'[t].old = j)
                 + One(NoInode = j) + One(NoInode = j)
                 = One(loc[t].ip = j) + One(loc[t].dp = j) + One(loc[t].old = j) + One(i = j)
    BY <1>7, <2>3 DEF One, NoInode, Inodes
  <2>6. itable' \in Tables /\ UNCHANGED <<dropped, cwd, ofile>>
    BY <1>3, <1>6
  <2>7. QED BY <2>1, <2>2, <2>4, <2>5, <2>6, RefMoves
<1> QED BY <1>14, <1>15

LEMMA BeginWriteTypes ==
  ASSUME Inv, NEW t \in Procs, BeginWrite(t)
  PROVE  Inv' /\ RefStep(t)
<1> DEFINE r == [NoLocals EXCEPT !.call = "write"]
<1>1. /\ pc[t] = "idle" /\ Counted /\ inop' = inop \cup {t}
      /\ ofile[t].writable
      /\ Go(t, "write", r)
      /\ UNCHANGED <<disk, committed, itable, lock, cwd, ofile, orphans, dropped, strayed>>
  BY DEF BeginWrite, Begins, At, fsVars, tableVars, history
<1>2. /\ r \in Locals /\ r.ip = NoInode /\ r.dp = NoInode /\ r.old = NoInode
      /\ r.inum = NoInode /\ r.puts = <<>>
  BY NoLocalsIs DEF Locals
<1> HIDE DEF r
<1>3. "write" \in Labels /\ "write" \notin PutAt
  BY DEF Labels, PutAt
<1>4. /\ pc' \in [Procs -> Labels] /\ loc' \in [Procs -> Locals]
      /\ pc'[t] = "write" /\ Due(t)' = "write" /\ loc'[t] = r
      /\ Alone(t)
  BY <1>1, <1>2, <1>3, GoType DEF Alone, Due
<1>5. Has("write", r) /\ Fits("write", r)
  BY <1>2 DEF Has, HasOld, Fits, IpAt, DpAt, CreateAt, LinkAt, UnlinkAt, NamedAt
<1>6. Shape(t)'
  BY <1>1, <1>2, <1>3, <1>4, <1>5 DEF Shape
<1>7. FileOK(t)'
  BY <1>1, LocalTypes DEF Own, FileOK
<1>8. DataOK'
  BY <1>1, WorldTypes, CountedType DEF DataOK
<1>9. Inv'
  BY <1>1, <1>4, <1>6, <1>7, <1>8, StepBegin
<1>10. RefStep(t)
  <2>1. pc[t] \notin PutAt \cup {"panic"} /\ NoInode \in Inums /\ itable' \in Tables
    BY <1>1, WorldTypes DEF PutAt, Inums
  <2>2. First(loc'[t].puts) = NoInode /\ Second(loc'[t].puts) = NoInode
    BY <1>2, <1>4, EmptyPuts
  <2>3. loc[t].ip = NoInode /\ loc[t].dp = NoInode /\ loc[t].old = NoInode
    BY <1>1, <2>1, Known DEF Has, HasOld, IpAt, DpAt
  <2>4. \A j \in Inodes : itable'[j].ref = itable[j].ref + One(j = NoInode)
    BY <1>1, NoneMore
  <2>5. ASSUME NEW j \in Inodes
        PROVE  One(loc'[t].ip = j) + One(loc'[t].dp = j) + One(loc'[t].old = j)
                 + One(NoInode = j) + One(NoInode = j)
                 = One(loc[t].ip = j) + One(loc[t].dp = j) + One(loc[t].old = j) + One(NoInode = j)
    BY <1>2, <1>4, <2>3 DEF One, NoInode, Inodes
  <2>6. QED BY <1>1, <2>1, <2>2, <2>4, <2>5, RefMoves
<1> QED BY <1>9, <1>10

LEMMA CloseTypes ==
  ASSUME Inv, NEW t \in Procs, Close(t)
  PROVE  Inv' /\ RefStep(t)
<1> DEFINE r == [NoLocals EXCEPT !.call = "close"]
           i == ofile[t].ip
<1>1. /\ pc[t] = "idle" /\ Counted /\ inop' = inop \cup {t}
      /\ ofile[t] # NoFile /\ ofile' = [ofile EXCEPT ![t] = NoFile]
      /\ PutThen(t, r, <<i>>, "end")
      /\ UNCHANGED <<disk, committed, itable, lock, cwd, orphans, dropped, strayed>>
  BY DEF Close, Begins, At, fsVars, tableVars, history
<1>2. /\ r \in Locals /\ r.ip = NoInode /\ r.dp = NoInode /\ r.old = NoInode
      /\ r.inum = NoInode
  BY NoLocalsIs DEF Locals
<1>3. /\ i \in Inodes /\ i # NoInode
      /\ loc[t].ip = NoInode /\ loc[t].dp = NoInode /\ loc[t].old = NoInode
      /\ loc[t].puts = <<>>
  <2>1. i # NoInode
    BY <1>1, LocalTypes DEF Own, FileOK
  <2>2. i \in Inodes
    BY <2>1, LocalTypes DEF Inums
  <2>3. QED BY <1>1, <2>1, <2>2, Known DEF Has, HasOld, IpAt, DpAt, PutAt
<1>4. "end" \in Nexts /\ "put" \in PutAt
  BY DEF Nexts, PutAt
<1> HIDE DEF r, i
<1>5. /\ pc' \in [Procs -> Labels] /\ loc' \in [Procs -> Locals]
      /\ pc'[t] = "put" /\ Due(t)' = "end"
      /\ loc'[t] = [r EXCEPT !.puts = <<i>>, !.next = "end"]
      /\ \A u \in Procs \ {t} : pc'[u] = pc[u] /\ loc'[u] = loc[u]
  BY <1>1, <1>2, <1>3, <1>4, PutThenIs, Puts1
<1>6. PICK s \in Seq(Inodes) : s = <<i>>
  BY <1>3, Puts1
<1>7. /\ loc'[t].ip = NoInode /\ loc'[t].dp = NoInode /\ loc'[t].old = NoInode
      /\ loc'[t].inum = NoInode /\ loc'[t].puts = s /\ loc'[t].next = "end"
  BY <1>2, <1>5, <1>6 DEF Locals
<1>8. ofile \in [Procs -> [ip : Inums, writable : BOOLEAN]] /\ ofile'[t] = NoFile
      /\ \A u \in Procs \ {t} : ofile'[u] = ofile[u]
  BY <1>1, WorldTypes DEF DataOK
<1>9. Alone(t)
  BY <1>1, <1>5, <1>8 DEF Alone
<1>10. Has("end", loc'[t]) /\ Fits("end", loc'[t])
  BY <1>7 DEF Has, HasOld, Fits, IpAt, DpAt, CreateAt, LinkAt, UnlinkAt, NamedAt
<1>11. Shape(t)'
  BY <1>3, <1>4, <1>5, <1>6, <1>7, <1>10, Puts1 DEF Shape
<1>12. FileOK(t)'
  BY <1>8 DEF FileOK
<1>13. DataOK'
  BY <1>1, WorldTypes, CountedType DEF NoFile, Inums, DataOK
<1>14. Inv'
  BY <1>1, <1>5, <1>9, <1>11, <1>12, <1>13, StepBegin
<1>15. RefStep(t)
  BY <1>1, <1>3, <1>6, <1>7, <1>8, Puts1, EmptyPuts DEF NoFile, i, Counted_, Count, One,
       RefStep
<1> QED BY <1>14, <1>15

LEMMA EndTypes ==
  ASSUME Inv, NEW t \in Procs, End(t)
  PROVE  Inv' /\ RefStep(t)
<1>1. /\ pc[t] = "end" /\ pc[t] \notin PutAt \cup {"panic"}
      /\ committed' = Commit(t) /\ inop' = inop \ {t}
      /\ Go(t, "idle", NoLocals)
      /\ UNCHANGED <<disk, itable, lock, cwd, ofile, events, orphans, dropped, strayed>>
  BY DEF End, At, tableVars, history, PutAt
<1>2. "idle" \in Labels /\ "idle" \notin PutAt
  BY DEF Labels, PutAt
<1>3. /\ pc' \in [Procs -> Labels] /\ loc' \in [Procs -> Locals]
      /\ pc'[t] = "idle" /\ Due(t)' = "idle" /\ loc'[t] = NoLocals
      /\ Alone(t)
  BY <1>1, <1>2, NoLocalsIs, GoType DEF Alone, Due
<1>4. Has("idle", NoLocals) /\ Fits("idle", NoLocals)
  BY NoLocalsIs DEF Has, HasOld, Fits, IpAt, DpAt, CreateAt, LinkAt, UnlinkAt, NamedAt
<1>5. Shape(t)'
  BY <1>2, <1>3, <1>4, NoLocalsIs DEF Shape
<1>6. Own(t)'
  BY <1>1, <1>3, <1>5, LocalTypes DEF Own, FileOK, InOp
<1>7. DataOK'
  BY <1>1, WorldTypes DEF DataOK, Commit
<1>8. Inv'
  BY <1>1, <1>3, <1>6, <1>7, InvStep DEF TypeOK
<1>9. RefStep(t)
  <2>1. NoInode \in Inums /\ itable' \in Tables
    BY <1>1, WorldTypes DEF Inums
  <2>2. First(loc'[t].puts) = NoInode /\ Second(loc'[t].puts) = NoInode
    BY <1>3, NoLocalsIs, EmptyPuts
  <2>3. loc[t].ip = NoInode /\ loc[t].dp = NoInode /\ loc[t].old = NoInode
    BY <1>1, Known DEF Has, HasOld, IpAt, DpAt
  <2>4. \A j \in Inodes : itable'[j].ref = itable[j].ref + One(j = NoInode)
    BY <1>1, NoneMore
  <2>5. ASSUME NEW j \in Inodes
        PROVE  One(loc'[t].ip = j) + One(loc'[t].dp = j) + One(loc'[t].old = j)
                 + One(NoInode = j) + One(NoInode = j)
                 = One(loc[t].ip = j) + One(loc[t].dp = j) + One(loc[t].old = j) + One(NoInode = j)
    BY <1>3, <2>3, NoLocalsIs DEF One, NoInode, Inodes
  <2>6. QED BY <1>1, <2>1, <2>2, <2>4, <2>5, RefMoves
<1> QED BY <1>8, <1>9

\* No pointer but the one to inode i changes hands: ip, dp or old to the iput.
LEMMA PutIpTypes ==
  ASSUME Inv, NEW t \in Procs, pc[t] \notin PutAt \cup {"panic", "idle"},
         loc[t].ip # NoInode, loc[t].inum = NoInode, NEW l \in Nexts,
         PutThen(t, [loc[t] EXCEPT !.ip = NoInode], <<loc[t].ip>>, l),
         UNCHANGED <<procVars, dropped>>, DataOK',
         Has(l, [loc[t] EXCEPT !.ip = NoInode]), Fits(l, [loc[t] EXCEPT !.ip = NoInode]),
         \A j \in Inodes : itable'[j].ref = itable[j].ref + One(j = NoInode)
  PROVE  Inv' /\ RefStep(t)
<1> DEFINE r == [loc[t] EXCEPT !.ip = NoInode]
<1>1. loc[t] \in Locals
  BY LocalTypes
<1>2. loc[t].ip \in Inodes /\ NoInode \in Inums
  BY <1>1 DEF Locals, Inums
<1>3. r \in Locals /\ r.ip = NoInode /\ r.dp = loc[t].dp /\ r.old = loc[t].old
      /\ r.inum = NoInode
  BY <1>1, <1>2 DEF Locals
<1> HIDE DEF r
<1>4. ASSUME NEW j \in Inodes
      PROVE  One(r.ip = j) + One(r.dp = j) + One(r.old = j) + One(loc[t].ip = j)
               = One(loc[t].ip = j) + One(loc[t].dp = j) + One(loc[t].old = j) + One(NoInode = j)
  BY <1>3 DEF One
<1>5. PutThen(t, r, <<loc[t].ip>>, l) /\ Has(l, r) /\ Fits(l, r)
  BY DEF r
<1> QED BY <1>2, <1>3, <1>4, <1>5, StepPut

LEMMA PutDpTypes ==
  ASSUME Inv, NEW t \in Procs, pc[t] \notin PutAt \cup {"panic", "idle"},
         loc[t].dp # NoInode, loc[t].inum = NoInode, NEW l \in Nexts,
         PutThen(t, [loc[t] EXCEPT !.dp = NoInode], <<loc[t].dp>>, l),
         UNCHANGED <<procVars, dropped>>, DataOK',
         Has(l, [loc[t] EXCEPT !.dp = NoInode]), Fits(l, [loc[t] EXCEPT !.dp = NoInode]),
         \A j \in Inodes : itable'[j].ref = itable[j].ref + One(j = NoInode)
  PROVE  Inv' /\ RefStep(t)
<1> DEFINE r == [loc[t] EXCEPT !.dp = NoInode]
<1>1. loc[t] \in Locals
  BY LocalTypes
<1>2. loc[t].dp \in Inodes /\ NoInode \in Inums
  BY <1>1 DEF Locals, Inums
<1>3. r \in Locals /\ r.ip = loc[t].ip /\ r.dp = NoInode /\ r.old = loc[t].old
      /\ r.inum = NoInode
  BY <1>1, <1>2 DEF Locals
<1> HIDE DEF r
<1>4. ASSUME NEW j \in Inodes
      PROVE  One(r.ip = j) + One(r.dp = j) + One(r.old = j) + One(loc[t].dp = j)
               = One(loc[t].ip = j) + One(loc[t].dp = j) + One(loc[t].old = j) + One(NoInode = j)
  BY <1>3 DEF One
<1>5. PutThen(t, r, <<loc[t].dp>>, l) /\ Has(l, r) /\ Fits(l, r)
  BY DEF r
<1> QED BY <1>2, <1>3, <1>4, <1>5, StepPut

\* A step to label l with the locals as they are.
LEMMA GotoTypes ==
  ASSUME Inv, NEW t \in Procs, pc[t] \notin PutAt \cup {"panic", "idle", "create_get"},
         NEW l \in Labels \ (PutAt \cup {"panic", "idle", "write", "create_get"}),
         Goto(t, l), UNCHANGED <<loc, procVars, dropped>>, DataOK',
         Has(l, loc[t]), Fits(l, loc[t]),
         \A j \in Inodes : itable'[j].ref = itable[j].ref + One(j = NoInode)
  PROVE  Inv' /\ RefStep(t)
<1>1. /\ loc[t] \in Locals /\ loc[t].inum = NoInode /\ loc[t].puts = <<>>
      /\ NoInode \in Inums
  BY Known DEF Inums
<1>2. Go(t, l, loc[t])
  BY DEF Go, Inv, TypeOK
<1>3. ASSUME NEW j \in Inodes
      PROVE  One(loc[t].ip = j) + One(loc[t].dp = j) + One(loc[t].old = j)
               = One(loc[t].ip = j) + One(loc[t].dp = j) + One(loc[t].old = j) + One(NoInode = j)
  BY DEF One, NoInode, Inodes
<1>4. l # "create_get"
  OBVIOUS
<1> QED BY <1>1, <1>2, <1>3, <1>4, StepGo

\* iunlockput(ip) and the end of a call that has no other pointer.
LEMMA GiveUpTypes ==
  ASSUME Inv, NEW t \in Procs, pc[t] \notin PutAt \cup {"panic", "idle", "create_get"},
         loc[t].ip # NoInode, loc[t].dp = NoInode, loc[t].old = NoInode,
         NEW tab, GiveUp(t, loc[t], tab),
         UNCHANGED <<procVars, dropped>>, DataOK',
         \A j \in Inodes : itable'[j].ref = itable[j].ref + One(j = NoInode)
  PROVE  Inv' /\ RefStep(t)
<1> DEFINE r == [loc[t] EXCEPT !.ip = NoInode]
<1>1. loc[t] \in Locals /\ loc[t].inum = NoInode /\ "end" \in Nexts
  BY Known DEF Nexts
<1>2. r.ip = NoInode /\ r.dp = NoInode /\ r.old = NoInode
  BY <1>1 DEF Locals
<1> HIDE DEF r
<1>3. Has("end", r) /\ Fits("end", r)
  BY <1>2 DEF Has, HasOld, Fits, IpAt, DpAt, CreateAt, LinkAt, UnlinkAt, NamedAt
<1>4. PutThen(t, [loc[t] EXCEPT !.ip = NoInode], <<loc[t].ip>>, "end")
  BY DEF GiveUp
<1>5. /\ Has("end", [loc[t] EXCEPT !.ip = NoInode])
      /\ Fits("end", [loc[t] EXCEPT !.ip = NoInode])
  BY <1>3 DEF r
<1> QED BY <1>1, <1>4, <1>5, PutIpTypes

-----------------------------------------------------------------------------
LEMMA UnlockParentTypes ==
  ASSUME Inv, RefNat, NEW t \in Procs, UnlockParent(t)
  PROVE  Inv' /\ RefStep(t)
<1> DEFINE l == IF loc[t].call = "link" THEN "link_bad" ELSE "end"
           r == [loc[t] EXCEPT !.dp = NoInode]
<1>1. /\ pc[t] = "unlock_dp" /\ pc[t] \notin PutAt \cup {"panic", "idle"}
      /\ Unlocked(loc[t].dp)
      /\ PutThen(t, [loc[t] EXCEPT !.dp = NoInode], <<loc[t].dp>>, l)
      /\ UNCHANGED <<disk, committed, itable, procVars, events, orphans, dropped, strayed>>
  BY DEF UnlockParent, ParentUnlocked, At, PutAt, fsVars, history
<1>2. /\ loc[t] \in Locals /\ Has("unlock_dp", loc[t]) /\ Fits("unlock_dp", loc[t])
      /\ loc[t].inum = NoInode
  BY <1>1, Known
<1>3. /\ r.ip = loc[t].ip /\ r.dp = NoInode /\ r.old = loc[t].old /\ r.call = loc[t].call
  BY <1>2 DEF Locals
<1> HIDE DEF r
<1>4. Has(l, r) /\ Fits(l, r) /\ loc[t].dp # NoInode /\ l \in Nexts
  BY <1>2, <1>3 DEF Has, HasOld, Fits, IpAt, DpAt, CreateAt, LinkAt, UnlinkAt, NamedAt, Nexts
<1>5. DataOK'
  BY <1>1, DataKept, LockTypes, WorldTypes, StrayedType
<1>6. Has(l, [loc[t] EXCEPT !.dp = NoInode]) /\ Fits(l, [loc[t] EXCEPT !.dp = NoInode])
  BY <1>4 DEF r
<1> HIDE DEF l
<1> QED BY <1>1, <1>2, <1>4, <1>5, <1>6, NoneMore, PutDpTypes

LEMMA CreateTypes ==
  ASSUME Inv, RefNat, NEW t \in Procs, Create(t)
  PROVE  Inv' /\ RefStep(t)
<1> DEFINE r == loc[t]
           ino == Ino(r.dp)
           i == Lookup(ino, r.name)
           tab == Cached(itable, r.dp, ino)
<1>1. pc[t] = "create" /\ pc[t] \notin PutAt \cup {"panic", "idle", "create_get"}
  BY DEF Create, At, PutAt
<1>2. /\ r \in Locals /\ Has("create", r) /\ Fits("create", r)
      /\ r.inum = NoInode /\ r.puts = <<>>
  BY <1>1, Known
<1>3. /\ r.dp \in Inodes /\ ino \in Dinodes /\ r.dp # NoInode
      /\ r.ip = NoInode /\ r.old = NoInode /\ r.name \in Entries
  BY <1>2, InoIs DEF Has, HasOld, IpAt, DpAt, Inums, Locals, Fits, NamedAt
<1>4. i \in Inums
  BY <1>3, LookupIs
<1>5. CASE Panic(t)
  BY <1>1, <1>5, PanicTypes
<1>6. CASE /\ i # NoInode
           /\ itable' = Get(tab, i)
           /\ strayed' = (strayed \/ (Removed(ino) /\ r.name = ".."))
           /\ PutThen(t, [r EXCEPT !.ip = i, !.dp = NoInode], <<r.dp>>, "create_found")
           /\ UNCHANGED <<fsVars, lock, procVars, events, orphans, dropped>>
  <2> DEFINE q == [r EXCEPT !.ip = i, !.dp = NoInode]
  <2>1. PutThen(t, q, <<r.dp>>, "create_found") /\ "create_found" \in Nexts
    BY <1>6 DEF Nexts
  <2>2. i \in Inodes
    BY <1>4, <1>6 DEF Inums
  <2> HIDE DEF i
  <2>3. /\ q \in Locals /\ q.ip = i /\ q.dp = NoInode /\ q.old = NoInode
        /\ q.call = r.call /\ q.inum = NoInode
    BY <1>2, <1>3, <2>2 DEF Locals, Inums
  <2> HIDE DEF q
  <2>4. Has("create_found", q) /\ Fits("create_found", q)
    BY <1>2, <1>6, <2>3 DEF Has, HasOld, Fits, IpAt, DpAt, CreateAt, LinkAt, UnlinkAt, NamedAt
  <2>5. /\ i \in Inums /\ itable' \in Tables
        /\ \A j \in Inodes : itable'[j].ref = itable[j].ref + One(j = i)
    BY <1>3, <1>6, <2>2, CachedGetMore
  <2> HIDE DEF tab, ino
  <2>6. strayed' \in BOOLEAN
    BY <1>6, StrayedType
  <2>7. DataOK'
    BY <1>6, <2>5, <2>6, DataKept, WorldTypes DEF fsVars, DataOK
  <2>8. ASSUME NEW j \in Inodes
        PROVE  One(q.ip = j) + One(q.dp = j) + One(q.old = j) + One(r.dp = j)
                = One(loc[t].ip = j) + One(loc[t].dp = j) + One(loc[t].old = j) + One(i = j)
    BY <1>3, <2>3 DEF One, NoInode, Inodes
  <2>9. UNCHANGED <<procVars, dropped>>
    BY <1>6
  <2>10. QED BY <1>1, <1>3, <2>1, <2>3, <2>4, <2>5, <2>7, <2>8, <2>9, StepPut
<1>7. CASE /\ itable' = tab
           /\ Locked(t, r.dp)
           /\ Goto(t, "create_alloc")
           /\ strayed' = (strayed \/ Removed(ino))
           /\ UNCHANGED <<fsVars, procVars, loc, events, orphans, dropped>>
  <2>1. /\ itable' \in Tables
        /\ \A j \in Inodes : itable'[j].ref = itable[j].ref + One(j = NoInode)
    BY <1>3, <1>7, CachedMore
  <2>2. Has("create_alloc", loc[t]) /\ Fits("create_alloc", loc[t])
    BY <1>2 DEF Has, HasOld, Fits, IpAt, DpAt, CreateAt, LinkAt, UnlinkAt, NamedAt
  <2> HIDE DEF tab, ino
  <2>3. DataOK'
    BY <1>7, <2>1, DataKept, WorldTypes, LockTypes, StrayedType DEF fsVars
  <2>4. "create_alloc" \in Labels \ (PutAt \cup {"panic", "idle", "write", "create_get"})
    BY DEF Labels, CreateAt, PutAt
  <2>5. UNCHANGED <<loc, procVars, dropped>> /\ Goto(t, "create_alloc")
    BY <1>7
  <2>6. QED BY <1>1, <2>1, <2>2, <2>3, <2>4, <2>5, GotoTypes
<1>8. QED BY <1>5, <1>6, <1>7 DEF Create

LEMMA CreateFoundTypes ==
  ASSUME Inv, RefNat, NEW t \in Procs, CreateFound(t)
  PROVE  Inv' /\ RefStep(t)
<1> DEFINE r == loc[t]
           ino == Ino(r.ip)
           tab == Cached(itable, r.ip, ino)
<1>1. pc[t] = "create_found" /\ pc[t] \notin PutAt \cup {"panic", "idle", "create_get"}
  BY DEF CreateFound, At, PutAt
<1>2. /\ r \in Locals /\ Has("create_found", r) /\ Fits("create_found", r)
      /\ r.inum = NoInode /\ r.puts = <<>>
  BY <1>1, Known
<1>3. /\ r.ip \in Inodes /\ ino \in Dinodes /\ r.ip # NoInode
      /\ r.dp = NoInode /\ r.old = NoInode
  BY <1>2, InoIs DEF Has, HasOld, IpAt, DpAt, Inums, Locals
<1>5. CASE Panic(t)
  BY <1>1, <1>5, PanicTypes
<1>6. CASE /\ r.call # "mkdir"
           /\ itable' = tab
           /\ Locked(t, r.ip)
           /\ Goto(t, IF r.call = "creat" THEN "opened" ELSE "symlink_write")
           /\ UNCHANGED <<fsVars, procVars, loc, events, history>>
  <2> DEFINE l == IF r.call = "creat" THEN "opened" ELSE "symlink_write"
  <2>1. /\ itable' \in Tables
        /\ \A j \in Inodes : itable'[j].ref = itable[j].ref + One(j = NoInode)
    BY <1>3, <1>6, CachedMore
  <2>2. Has(l, loc[t]) /\ Fits(l, loc[t])
    BY <1>2, <1>6 DEF Has, HasOld, Fits, IpAt, DpAt, CreateAt, LinkAt, UnlinkAt, NamedAt, Makes
  <2>3. l \in Labels \ (PutAt \cup {"panic", "idle", "write", "create_get"})
    BY DEF Labels, IpAt, PutAt
  <2>4. Goto(t, l)
    BY <1>6
  <2> HIDE DEF tab, ino, l
  <2>5. DataOK'
    BY <1>6, <2>1, DataKept, WorldTypes, LockTypes, StrayedType DEF fsVars, history
  <2>6. UNCHANGED <<loc, procVars, dropped>>
    BY <1>6 DEF history
  <2>7. QED BY <1>1, <2>1, <2>2, <2>3, <2>4, <2>5, <2>6, GotoTypes
<1>7. CASE GiveUp(t, r, tab) /\ UNCHANGED <<fsVars, lock, procVars, events, history>>
  <2>1. /\ itable' \in Tables
        /\ \A j \in Inodes : itable'[j].ref = itable[j].ref + One(j = NoInode)
    BY <1>3, <1>7, CachedMore DEF GiveUp
  <2> HIDE DEF tab, ino
  <2>2. DataOK' /\ UNCHANGED <<procVars, dropped>>
    BY <1>7, <2>1, DataKept, WorldTypes, LockTypes, StrayedType DEF fsVars, history
  <2>3. QED BY <1>1, <1>3, <1>7, <2>1, <2>2, GiveUpTypes
<1>8. QED BY <1>5, <1>6, <1>7 DEF CreateFound

LEMMA LinkedType ==
  ASSUME NEW d \in Disks, NEW ino, NEW n \in Entries, NEW i \in Inums
  PROVE  Linked(d, ino, n, i) \in Disks
BY DEF Linked, Disks

LEMMA UnusedIs ==
  ASSUME NEW d \in Disks, Unused(d) # {}
  PROVE  Smallest(Unused(d)) \in Blocks /\ Smallest(Unused(d)) \in Unused(d)
<1>1. Unused(d) \subseteq Blocks /\ Blocks \subseteq Nat
  BY FilesAssumption DEF FilesAssumption, Unused, Blocks
<1> QED BY <1>1, SmallestIn

LEMMA FirstFreeIs ==
  ASSUME NEW d \in Disks, {i \in Inodes : d.inode[i].type = "none"} # {}
  PROVE  LET i == Smallest({j \in Inodes : d.inode[j].type = "none"})
         IN i \in Inodes /\ d.inode[i].type = "none"
<1> DEFINE S == {j \in Inodes : d.inode[j].type = "none"}
<1>1. S \in SUBSET Nat
  BY DEF Inodes
<1>2. Smallest(S) \in S
  BY <1>1, SmallestIn
<1>3. QED BY <1>2

LEMMA CreateAllocTypes ==
  ASSUME Inv, RefNat, NEW t \in Procs, CreateAlloc(t)
  PROVE  Inv' /\ RefStep(t)
<1> DEFINE r == loc[t]
           free == {i \in Inodes : disk.inode[i].type = "none"}
           i == Smallest(free)
<1>1. /\ pc[t] = "create_alloc" /\ pc[t] \notin PutAt \cup {"panic", "idle", "create_get"}
      /\ UNCHANGED <<committed, itable, procVars, events, orphans, dropped, strayed>>
  BY DEF CreateAlloc, At, PutAt, history
<1>2. /\ r \in Locals /\ Has("create_alloc", r) /\ Fits("create_alloc", r)
      /\ r.inum = NoInode /\ r.puts = <<>>
  BY <1>1, Known
<1>3. /\ r.dp # NoInode /\ r.ip = NoInode /\ r.old = NoInode /\ r.call \in Makes
  BY <1>2 DEF Has, HasOld, IpAt, DpAt, Fits, CreateAt
<1>4. CASE /\ free # {}
           /\ disk' = OnDisk(disk, i, Dinode(TypeMade(r.call), 0, NoBlock))
           /\ Go(t, "create_get", [r EXCEPT !.inum = i])
           /\ UNCHANGED lock
  <2> DEFINE q == [r EXCEPT !.inum = i]
  <2>1. i \in Inodes
    BY <1>4, FirstFreeIs, WorldTypes
  <2>2. Dinode(TypeMade(r.call), 0, NoBlock) \in Dinodes
    BY <1>3 DEF Dinode, Dinodes, TypeMade, Makes, Types
  <2>3. Go(t, "create_get", q)
    BY <1>4
  <2>4. disk' \in Disks
    BY <1>4, <2>1, <2>2, OnDiskIs, WorldTypes
  <2> HIDE DEF i
  <2>5. /\ q \in Locals /\ q.ip = r.ip /\ q.dp = r.dp /\ q.old = r.old
        /\ q.call = r.call /\ q.inum = i /\ q.puts = r.puts /\ q.name = r.name
    BY <1>2, <2>1 DEF Locals, Inums
  <2> HIDE DEF q
  <2>6. Has("create_get", q) /\ Fits("create_get", q)
    BY <1>2, <2>5 DEF Has, HasOld, Fits, IpAt, DpAt, CreateAt, LinkAt, UnlinkAt, NamedAt
  <2>7. DataOK'
    BY <1>1, <1>4, <2>4, DataKept, WorldTypes, LockTypes, StrayedType
  <2>8. "create_get" \in Labels \ (PutAt \cup {"panic", "idle", "write"})
    BY DEF Labels, CreateAt, PutAt
  <2>9. ASSUME NEW j \in Inodes
        PROVE  One(q.ip = j) + One(q.dp = j) + One(q.old = j)
                = One(loc[t].ip = j) + One(loc[t].dp = j) + One(loc[t].old = j) + One(NoInode = j)
    BY <2>5 DEF One, NoInode, Inodes
  <2>10. q.inum # NoInode /\ q.puts = <<>>
    BY <1>2, <2>1, <2>5 DEF NoInode, Inodes
  <2>11. QED BY <1>1, <2>3, <2>5, <2>6, <2>7, <2>8, <2>9, <2>10, NoneMore, StepGo
<1>5. CASE /\ Unlocked(r.dp)
           /\ PutThen(t, [r EXCEPT !.dp = NoInode], <<r.dp>>, "end")
           /\ UNCHANGED disk
  <2> DEFINE q == [r EXCEPT !.dp = NoInode]
  <2>1. q.ip = NoInode /\ q.dp = NoInode /\ q.old = NoInode
    BY <1>2, <1>3 DEF Locals
  <2> HIDE DEF q
  <2>2. Has("end", q) /\ Fits("end", q)
    BY <2>1 DEF Has, HasOld, Fits, IpAt, DpAt, CreateAt, LinkAt, UnlinkAt, NamedAt
  <2>3. /\ Has("end", [r EXCEPT !.dp = NoInode]) /\ Fits("end", [r EXCEPT !.dp = NoInode])
        /\ "end" \in Nexts
    BY <2>2 DEF q, Nexts
  <2>4. DataOK'
    BY <1>1, <1>5, DataKept, WorldTypes, LockTypes, StrayedType
  <2>5. QED BY <1>1, <1>2, <1>3, <1>5, <2>3, <2>4, NoneMore, PutDpTypes
<1>6. QED BY <1>4, <1>5 DEF CreateAlloc

LEMMA CreateGetTypes ==
  ASSUME Inv, RefNat, NEW t \in Procs, CreateGet(t)
  PROVE  Inv' /\ RefStep(t)
<1> DEFINE r == loc[t]
           i == loc[t].inum
           q == [loc[t] EXCEPT !.ip = loc[t].inum, !.inum = NoInode]
<1>1. /\ pc[t] = "create_get" /\ pc[t] \notin PutAt \cup {"panic", "idle"}
      /\ itable' = Get(itable, i) /\ Go(t, "create_fill", q)
      /\ UNCHANGED <<disk, committed, lock, procVars, events, orphans, dropped, strayed>>
  BY DEF CreateGet, At, PutAt, fsVars, history
<1>2. /\ r \in Locals /\ Has("create_get", r) /\ Fits("create_get", r)
      /\ r.inum # NoInode /\ r.puts = <<>>
  BY <1>1, Known
<1>3. i \in Inodes /\ i \in Inums /\ r.ip = NoInode /\ r.old = NoInode
  BY <1>2 DEF Locals, Inums, Has, HasOld, IpAt
<1>4. /\ q \in Locals /\ q.ip = i /\ q.dp = r.dp /\ q.old = r.old
      /\ q.call = r.call /\ q.inum = NoInode /\ q.puts = <<>> /\ q.name = r.name
  BY <1>2, <1>3 DEF Locals, Inums
<1> HIDE DEF q
<1>5. Has("create_fill", q) /\ Fits("create_fill", q)
  BY <1>2, <1>3, <1>4 DEF Has, HasOld, Fits, IpAt, DpAt, CreateAt, LinkAt, UnlinkAt, NamedAt
<1> HIDE DEF i
<1>6. itable' \in Tables /\ \A j \in Inodes : itable'[j].ref = itable[j].ref + One(j = i)
  <2>1. itable[i].ref >= 0 /\ itable \in Tables
    BY <1>3, WorldTypes DEF RefNat
  <2>2. Get(itable, i) \in Tables
    BY <1>3, <2>1, GetIs
  <2>3. \A j \in Inodes : Get(itable, i)[j].ref = itable[j].ref + One(j = i)
    BY <1>3, <2>1, GetRef
  <2>4. QED BY <1>1, <2>2, <2>3
<1>7. DataOK'
  BY <1>1, <1>6, DataKept, WorldTypes, LockTypes, StrayedType
<1>8. "create_fill" \in Labels \ (PutAt \cup {"panic", "idle", "write"})
  BY DEF Labels, CreateAt, PutAt
<1>9. ASSUME NEW j \in Inodes
      PROVE  One(q.ip = j) + One(q.dp = j) + One(q.old = j)
              = One(loc[t].ip = j) + One(loc[t].dp = j) + One(loc[t].old = j) + One(i = j)
  BY <1>3, <1>4 DEF One, NoInode, Inodes
<1> QED BY <1>1, <1>3, <1>4, <1>5, <1>6, <1>7, <1>8, <1>9, StepGo

LEMMA CreateFillTypes ==
  ASSUME Inv, RefNat, NEW t \in Procs, CreateFill(t)
  PROVE  Inv' /\ RefStep(t)
<1> DEFINE r == loc[t]
           type == Ino(r.ip).type
           isdir == r.call = "mkdir"
           b == IF isdir THEN Smallest(Unused(disk)) ELSE NoBlock
           new == Dinode(type, 1, b)
           dir == Ino(r.dp)
           dirnew == [dir EXCEPT !.nlink = IF isdir THEN @ + 1 ELSE @]
           blocks == IF isdir
                     THEN Linked(Linked(Ballocd(disk, b), new, ".", r.ip),
                                 new, "..", r.dp)
                     ELSE disk
           failed == Dinode(type, 0, NoBlock)
<1>1. pc[t] = "create_fill" /\ pc[t] \notin PutAt \cup {"panic", "idle", "create_get"}
  BY DEF CreateFill, At, PutAt
<1>2. /\ r \in Locals /\ Has("create_fill", r) /\ Fits("create_fill", r)
      /\ r.inum = NoInode /\ r.puts = <<>>
  BY <1>1, Known
<1>3. /\ r.ip \in Inodes /\ r.dp \in Inodes /\ r.ip # NoInode /\ r.dp # NoInode
      /\ r.old = NoInode /\ r.name \in Entries /\ r.call \in Makes
  BY <1>2 DEF Has, HasOld, IpAt, DpAt, Inums, Locals, Fits, NamedAt, CreateAt
<1>4. dir \in Dinodes /\ Ino(r.ip) \in Dinodes
  BY <1>3, InoIs
<1>5. CASE Panic(t)
  BY <1>1, <1>5, PanicTypes
<1>6. CASE /\ ~isdir \/ Unused(disk) # {}
           /\ disk' = OnDisk(OnDisk(Linked(blocks, dir, r.name, r.ip),
                                    r.ip, new), r.dp, dirnew)
           /\ itable' = Cached(Cached(itable, r.ip, new), r.dp, dirnew)
           /\ lock' = [lock EXCEPT ![r.dp] = Nobody, ![r.ip] = t]
           /\ PutThen(t, [r EXCEPT !.dp = NoInode], <<r.dp>>, "created")
           /\ UNCHANGED <<committed, procVars, events, history>>
  <2>1. b \in Blocks \cup {NoBlock} /\ (isdir => b \in Blocks)
    BY <1>6, UnusedIs, WorldTypes
  <2>2. new \in Dinodes /\ dirnew \in Dinodes
    <3> HIDE DEF b, isdir
    <3> QED BY <1>4, <2>1 DEF Dinodes, Dinode
  <2>3. /\ "." \in Entries /\ ".." \in Entries /\ r.ip \in Inums /\ r.dp \in Inums
    BY <1>3 DEF Entries, Inums
  <2>4. blocks \in Disks
    <3>1. CASE isdir
      <4> HIDE DEF b, new, isdir
      <4> QED BY <2>1, <2>3, <3>1, WorldTypes, BallocdIs, LinkedType
    <3>2. QED BY <3>1, WorldTypes
  <2> HIDE DEF b, new, dirnew, blocks, dir, isdir, type
  <2>5. /\ disk' \in Disks
    BY <1>3, <1>6, <2>2, <2>3, <2>4, OnDiskIs, LinkedType
  <2>6. /\ itable' \in Tables
        /\ \A j \in Inodes : itable'[j].ref = itable[j].ref + One(j = NoInode)
    <3>1. PICK tab \in Tables : tab = Cached(itable, r.ip, new)
      BY <1>3, <2>2, CachedIs, WorldTypes
    <3>2. \A j \in Inodes : tab[j].ref = itable[j].ref
      BY <1>3, <2>2, <3>1, CachedRef, WorldTypes
    <3>3. itable' = Cached(tab, r.dp, dirnew)
      BY <1>6, <3>1
    <3>4. itable' \in Tables /\ \A j \in Inodes : itable'[j].ref = tab[j].ref
      <4>1. Cached(tab, r.dp, dirnew) \in Tables
        BY <1>3, <2>2, CachedIs
      <4>2. \A j \in Inodes : Cached(tab, r.dp, dirnew)[j].ref = tab[j].ref
        BY <1>3, <2>2, CachedRef
      <4>3. QED BY <3>3, <4>1, <4>2
    <3>5. QED BY <3>2, <3>4, WorldTypes DEF One, Tables, NoInode, Inodes
  <2>7. lock' \in [Inodes -> Procs \cup {Nobody}]
    BY <1>6, WorldTypes DEF DataOK
  <2>8. DataOK' /\ UNCHANGED <<procVars, dropped>>
    BY <1>6, <2>5, <2>6, <2>7, DataKept, StrayedType DEF history
  <2> DEFINE q == [r EXCEPT !.dp = NoInode]
  <2>9. q.ip = r.ip /\ q.dp = NoInode /\ q.old = NoInode /\ q.call = r.call
    BY <1>2, <1>3 DEF Locals
  <2> HIDE DEF q
  <2>10. Has("created", q) /\ Fits("created", q)
    BY <1>3, <2>9 DEF Has, HasOld, Fits, IpAt, DpAt, CreateAt, LinkAt, UnlinkAt, NamedAt
  <2>11. /\ Has("created", [r EXCEPT !.dp = NoInode]) /\ Fits("created", [r EXCEPT !.dp = NoInode])
         /\ "created" \in Nexts
    BY <2>10 DEF q, Nexts
  <2>12. QED BY <1>1, <1>2, <1>3, <1>6, <2>6, <2>8, <2>11, PutDpTypes
<1>7. CASE /\ disk' = OnDisk(disk, r.ip, failed)
           /\ itable' = Cached(itable, r.ip, failed)
           /\ PutThen(t, [r EXCEPT !.ip = NoInode], <<r.ip>>, "unlock_dp")
           /\ UNCHANGED <<committed, lock, procVars, events, history>>
  <2>1. failed \in Dinodes
    BY <1>4 DEF Dinodes, Dinode
  <2> HIDE DEF failed
  <2>2. /\ itable' \in Tables /\ disk' \in Disks
        /\ \A j \in Inodes : itable'[j].ref = itable[j].ref + One(j = NoInode)
    BY <1>3, <1>7, <2>1, CachedMore, OnDiskIs, WorldTypes
  <2>3. DataOK' /\ UNCHANGED <<procVars, dropped>>
    BY <1>7, <2>2, DataKept, StrayedType, LockTypes DEF history
  <2> DEFINE q == [r EXCEPT !.ip = NoInode]
  <2>4. q.ip = NoInode /\ q.dp = r.dp /\ q.old = NoInode /\ q.call = r.call
    BY <1>2, <1>3 DEF Locals
  <2> HIDE DEF q
  <2>5. Has("unlock_dp", q) /\ Fits("unlock_dp", q)
    BY <1>3, <2>4 DEF Has, HasOld, Fits, IpAt, DpAt, CreateAt, LinkAt, UnlinkAt, NamedAt, Makes
  <2>6. /\ Has("unlock_dp", [r EXCEPT !.ip = NoInode]) /\ Fits("unlock_dp", [r EXCEPT !.ip = NoInode])
        /\ "unlock_dp" \in Nexts
    BY <2>5 DEF q, Nexts
  <2>7. QED BY <1>1, <1>2, <1>3, <1>7, <2>2, <2>3, <2>6, PutIpTypes
<1>8. QED BY <1>5, <1>6, <1>7 DEF CreateFill

LEMMA CreatedTypes ==
  ASSUME Inv, RefNat, NEW t \in Procs, Created(t)
  PROVE  Inv' /\ RefStep(t)
<1> DEFINE r == loc[t]
<1>1. /\ pc[t] = "created" /\ pc[t] \notin PutAt \cup {"panic", "idle", "create_get"}
      /\ UNCHANGED <<disk, committed, procVars, events, orphans, dropped, strayed>>
  BY DEF Created, At, PutAt, fsVars, history
<1>2. /\ r \in Locals /\ Has("created", r) /\ Fits("created", r)
      /\ r.inum = NoInode /\ r.puts = <<>>
  BY <1>1, Known
<1>3. /\ r.ip # NoInode /\ r.dp = NoInode /\ r.old = NoInode /\ r.call \in Makes
  BY <1>2 DEF Has, HasOld, IpAt, DpAt, Fits, CreateAt
<1>4. CASE r.call = "mkdir"
  <2>1. GiveUp(t, r, itable) /\ itable' = itable /\ Unlocked(r.ip)
    BY <1>4 DEF Created, GiveUp
  <2>2. DataOK'
    BY <1>1, <2>1, DataKept, LockTypes, StrayedType, WorldTypes
  <2>3. QED BY <1>1, <1>3, <2>1, <2>2, NoneMore, GiveUpTypes
<1>5. CASE r.call # "mkdir"
  <2> DEFINE l == IF r.call = "creat" THEN "opened" ELSE "symlink_write"
  <2>1. Goto(t, l) /\ UNCHANGED <<tableVars, loc>>
    BY <1>5 DEF Created
  <2>2. DataOK'
    BY <1>1, <2>1, DataKept, LockTypes, StrayedType, WorldTypes DEF tableVars
  <2>3. Has(l, loc[t]) /\ Fits(l, loc[t])
    BY <1>2, <1>3, <1>5 DEF Has, HasOld, Fits, IpAt, DpAt, CreateAt, LinkAt, UnlinkAt, NamedAt, Makes
  <2>4. l \in Labels \ (PutAt \cup {"panic", "idle", "write", "create_get"})
    BY DEF Labels, IpAt, PutAt
  <2> HIDE DEF l
  <2>5. QED BY <1>1, <2>1, <2>2, <2>3, <2>4, NoneMore, GotoTypes DEF tableVars
<1>6. QED BY <1>4, <1>5

LEMMA TargetType ==
  ASSUME NEW d \in Disks, NEW b, NEW p \in Strings
  PROVE  [d EXCEPT !.target[b] = p] \in Disks
BY ZenonT(90) DEF Disks

LEMMA SymlinkWriteTypes ==
  ASSUME Inv, RefNat, NEW t \in Procs, SymlinkWrite(t)
  PROVE  Inv' /\ RefStep(t)
<1> DEFINE r == loc[t]
           ino == Ino(r.ip)
           b == IF ino.addr # NoBlock THEN ino.addr ELSE Smallest(Unused(disk))
           new == [ino EXCEPT !.addr = b]
           d == IF ino.addr # NoBlock THEN disk ELSE Ballocd(disk, b)
           e == OnDisk(d, r.ip, new)
<1>1. pc[t] = "symlink_write" /\ pc[t] \notin PutAt \cup {"panic", "idle", "create_get"}
  BY DEF SymlinkWrite, At, PutAt
<1>2. /\ r \in Locals /\ Has("symlink_write", r) /\ Fits("symlink_write", r)
      /\ r.inum = NoInode /\ r.puts = <<>>
  BY <1>1, Known
<1>3. /\ r.ip \in Inodes /\ r.ip # NoInode /\ r.dp = NoInode /\ r.old = NoInode
      /\ r.call = "symlink" /\ ino \in Dinodes
  BY <1>2, InoIs DEF Has, HasOld, IpAt, DpAt, Fits, CreateAt, Inums, Locals
<1>4. CASE /\ ino.addr # NoBlock \/ Unused(disk) # {}
           /\ disk' = [e EXCEPT !.target[b] = Over(r.arg, @)]
           /\ Unlocked(r.ip)
           /\ GiveUp(t, r, Cached(itable, r.ip, new))
           /\ UNCHANGED <<committed, procVars, events, history>>
  <2>1. b \in Blocks
    BY <1>3, <1>4, UnusedIs, WorldTypes DEF Dinodes
  <2>2. d \in Disks
    <3> HIDE DEF b
    <3> QED BY <2>1, BallocdIs, WorldTypes
  <2>3. new \in Dinodes
    <3> HIDE DEF b, ino
    <3> QED BY <1>3, <2>1 DEF Dinodes
  <2> HIDE DEF b, ino, d, new
  <2>4. e \in Disks
    BY <1>3, <2>2, <2>3, OnDiskIs
  <2> HIDE DEF e
  <2>5. e.target[b] \in Strings /\ r.arg \in Strings
    BY <1>2, <2>1, <2>4 DEF Disks, Locals
  <2>6. PICK p \in Strings : p = Over(r.arg, e.target[b])
    BY <2>5, OverIs
  <2>7. disk' = [e EXCEPT !.target[b] = p]
    BY <1>4, <2>6
  <2>8. disk' \in Disks
    BY <2>4, <2>6, <2>7, TargetType
  <2>9. /\ itable' \in Tables
        /\ \A j \in Inodes : itable'[j].ref = itable[j].ref + One(j = NoInode)
    BY <1>3, <1>4, <2>3, CachedMore DEF GiveUp
  <2>10. DataOK' /\ UNCHANGED <<procVars, dropped>>
    BY <1>4, <2>8, <2>9, DataKept, LockTypes, StrayedType DEF history
  <2>11. QED BY <1>1, <1>3, <1>4, <2>9, <2>10, GiveUpTypes, SMTT(90)
<1>5. CASE Goto(t, "full") /\ UNCHANGED <<fsVars, tableVars, procVars, loc, events, history>>
  <2>1. DataOK' /\ UNCHANGED <<procVars, dropped, loc, itable>>
    BY <1>5, DataKept, LockTypes, StrayedType, WorldTypes DEF fsVars, tableVars, history
  <2>2. Has("full", loc[t]) /\ Fits("full", loc[t])
    BY <1>2, <1>3 DEF Has, HasOld, Fits, IpAt, DpAt, CreateAt, LinkAt, UnlinkAt, NamedAt
  <2>3. "full" \in Labels \ (PutAt \cup {"panic", "idle", "write", "create_get"})
    BY DEF Labels, IpAt, PutAt
  <2>4. QED BY <1>1, <1>5, <2>1, <2>2, <2>3, NoneMore, GotoTypes
<1>6. QED BY <1>4, <1>5, Zenon DEF SymlinkWrite

LEMMA OpenTypes ==
  ASSUME Inv, RefNat, NEW t \in Procs, Open(t)
  PROVE  Inv' /\ RefStep(t)
<1> DEFINE r == loc[t]
           ino == Ino(r.ip)
           tab == Cached(itable, r.ip, ino)
<1>1. pc[t] = "open" /\ pc[t] \notin PutAt \cup {"panic", "idle", "create_get"}
  BY DEF Open, At, PutAt
<1>2. /\ r \in Locals /\ Has("open", r) /\ Fits("open", r)
      /\ r.inum = NoInode /\ r.puts = <<>>
  BY <1>1, Known
<1>3. /\ r.ip \in Inodes /\ r.ip # NoInode /\ r.dp = NoInode /\ r.old = NoInode
      /\ r.call \in {"open", "trunc"} /\ ino \in Dinodes
  BY <1>2, InoIs DEF Has, HasOld, IpAt, DpAt, Fits, Inums, Locals
<1>4. CASE Panic(t)
  BY <1>1, <1>4, PanicTypes
<1>5. CASE GiveUp(t, r, tab) /\ UNCHANGED <<fsVars, lock, procVars, events, history>>
  <2>1. /\ itable' \in Tables
        /\ \A j \in Inodes : itable'[j].ref = itable[j].ref + One(j = NoInode)
    BY <1>3, <1>5, CachedMore DEF GiveUp
  <2> HIDE DEF tab, ino
  <2>2. DataOK' /\ UNCHANGED <<procVars, dropped>>
    BY <1>5, <2>1, DataKept, WorldTypes, LockTypes, StrayedType DEF fsVars, history
  <2>3. QED BY <1>1, <1>3, <1>5, <2>1, <2>2, GiveUpTypes
<1>6. CASE /\ ino.addr # NoBlock
           /\ itable' = tab
           /\ \E p \in ReadOver(disk.target[ino.addr], r.arg) :
                PutThen(t, [r EXCEPT !.ip = NoInode, !.arg = p], <<r.ip>>, "open_link")
           /\ UNCHANGED <<fsVars, lock, procVars, events, history>>
  <2>1. PICK p \in ReadOver(disk.target[ino.addr], r.arg) :
               PutThen(t, [r EXCEPT !.ip = NoInode, !.arg = p], <<r.ip>>, "open_link")
    BY <1>6
  <2>2. p \in Strings
    BY <1>2, <1>3, <1>6, WorldTypes, ReadOverIs DEF Dinodes, Disks, Locals
  <2>3. /\ itable' \in Tables
        /\ \A j \in Inodes : itable'[j].ref = itable[j].ref + One(j = NoInode)
    BY <1>3, <1>6, CachedMore
  <2>4. DataOK' /\ UNCHANGED <<procVars, dropped>>
    BY <1>6, <2>3, DataKept, WorldTypes, LockTypes, StrayedType DEF fsVars, history
  <2> DEFINE q == [r EXCEPT !.ip = NoInode, !.arg = p]
  <2> HIDE DEF tab, ino
  <2>5. /\ q \in Locals /\ q.ip = NoInode /\ q.dp = NoInode /\ q.old = NoInode
        /\ q.call = r.call /\ q.inum = NoInode
    BY <1>2, <1>3, <2>2 DEF Locals, Inums
  <2>6. PutThen(t, q, <<r.ip>>, "open_link") /\ "open_link" \in Nexts
    BY <2>1 DEF Nexts
  <2> HIDE DEF q
  <2>7. Has("open_link", q) /\ Fits("open_link", q)
    BY <1>3, <2>5 DEF Has, HasOld, Fits, IpAt, DpAt, CreateAt, LinkAt, UnlinkAt, NamedAt
  <2>8. ASSUME NEW j \in Inodes
        PROVE  One(q.ip = j) + One(q.dp = j) + One(q.old = j) + One(r.ip = j)
                = One(loc[t].ip = j) + One(loc[t].dp = j) + One(loc[t].old = j) + One(NoInode = j)
    BY <1>3, <2>5 DEF One, NoInode, Inodes
  <2>9. NoInode \in Inums
    BY DEF Inums
  <2>10. QED BY <1>1, <1>3, <2>3, <2>4, <2>5, <2>6, <2>7, <2>8, <2>9, StepPut
<1>7. CASE /\ itable' = tab
           /\ Locked(t, r.ip)
           /\ Goto(t, "opened")
           /\ UNCHANGED <<fsVars, procVars, loc, events, history>>
  <2>1. /\ itable' \in Tables
        /\ \A j \in Inodes : itable'[j].ref = itable[j].ref + One(j = NoInode)
    BY <1>3, <1>7, CachedMore
  <2> HIDE DEF tab, ino
  <2>2. DataOK' /\ UNCHANGED <<procVars, dropped, loc>> /\ Goto(t, "opened")
    BY <1>7, <2>1, DataKept, WorldTypes, LockTypes, StrayedType DEF fsVars, history
  <2>3. Has("opened", loc[t]) /\ Fits("opened", loc[t])
    BY <1>2, <1>3 DEF Has, HasOld, Fits, IpAt, DpAt, CreateAt, LinkAt, UnlinkAt, NamedAt
  <2>4. "opened" \in Labels \ (PutAt \cup {"panic", "idle", "write", "create_get"})
    BY DEF Labels, IpAt, PutAt
  <2>5. QED BY <1>1, <2>1, <2>2, <2>3, <2>4, GotoTypes
<1>8. QED BY <1>4, <1>5, <1>6, <1>7 DEF Open

\* The walks that come after the first one of a call.
LEMMA WalkAgainTypes ==
  ASSUME Inv, RefNat, NEW t \in Procs,
         NEW parent \in BOOLEAN, NEW ret \in Rets, NEW bad \in {"end", "link_bad"},
         \/ pc[t] = "open_link" /\ parent = FALSE /\ ret = "open_next" /\ bad = "end"
         \/ pc[t] = "link_path" /\ parent = TRUE /\ ret = "link_dir" /\ bad = "link_bad",
         WalkStarted(t, loc[t], parent, ret, bad),
         UNCHANGED <<fsVars, lock, procVars, events, history>>
  PROVE  Inv' /\ RefStep(t)
<1> DEFINE r == loc[t]
<1>1. /\ pc[t] \notin PutAt \cup {"panic", "idle", "create_get"}
      /\ UNCHANGED <<disk, committed, lock, cwd, ofile, inop, events, orphans, dropped, strayed>>
  BY DEF PutAt, fsVars, procVars, history
<1>2. /\ r \in Locals /\ Has(pc[t], r) /\ Fits(pc[t], r)
      /\ r.inum = NoInode /\ r.puts = <<>>
  BY <1>1, Known
<1>3. PICK i \in Inodes, path \in Strings :
           /\ i \in {ROOTINO, cwd[t]}
           /\ itable' = Get(itable, i) /\ itable' \in Tables
           /\ pc' \in [Procs -> Labels] /\ loc' \in [Procs -> Locals]
           /\ pc'[t] = "walk" /\ Due(t)' = "walk"
           /\ loc'[t] = [r EXCEPT !.path = path, !.parent = parent, !.ip = i,
                                  !.ret = ret, !.bad = bad]
           /\ \A u \in Procs \ {t} : pc'[u] = pc[u] /\ loc'[u] = loc[u]
           /\ path # <<>> => path[1] # "/"
           /\ parent /\ path # <<>> => IsPath(path)
  BY DEF WalkStarted
<1>4. /\ loc'[t].ip = i /\ loc'[t].dp = r.dp /\ loc'[t].old = r.old
      /\ loc'[t].inum = NoInode /\ loc'[t].puts = <<>>
      /\ loc'[t].call = r.call /\ loc'[t].arg = r.arg
      /\ loc'[t].path = path /\ loc'[t].parent = parent /\ loc'[t].ret = ret
      /\ loc'[t].bad = bad
  BY <1>2, <1>3 DEF Locals
<1>5. r.ip = NoInode /\ r.dp = NoInode
  BY <1>2 DEF Has, IpAt, DpAt
<1>6. Alone(t)
  BY <1>1, <1>3 DEF Alone
<1>7. Has("walk", loc'[t])
  BY <1>2, <1>4, <1>5 DEF Has, HasOld, IpAt, DpAt, Inodes, NoInode
<1>8. Fits("walk", loc'[t])
  BY <1>2, <1>3, <1>4 DEF Fits, WalkFits, CreateAt, LinkAt, UnlinkAt, NamedAt
<1>9. Shape(t)'
  BY <1>3, <1>4, <1>7, <1>8 DEF Shape, PutAt
<1>10. Own(t)'
  BY <1>1, <1>3, <1>9, LocalTypes DEF Own, FileOK, InOp
<1>11. DataOK'
  BY <1>1, <1>3, WorldTypes DEF DataOK
<1>12. Inv'
  BY <1>1, <1>3, <1>6, <1>10, <1>11, InvStep DEF TypeOK
<1>13. RefStep(t)
  <2>1. pc[t] \notin PutAt \cup {"panic"} /\ i \in Inums /\ NoInode \in Inums
    BY <1>1 DEF Inums
  <2>2. First(loc'[t].puts) = NoInode /\ Second(loc'[t].puts) = NoInode
    BY <1>4, EmptyPuts
  <2>4. \A j \in Inodes : itable'[j].ref = itable[j].ref + One(j = i)
    BY <1>3, GetRef, WorldTypes DEF RefNat
  <2>5. ASSUME NEW j \in Inodes
        PROVE  One(loc'[t].ip = j) + One(loc'[t].dp = j) + One(loc'[t].old = j)
                 + One(NoInode = j) + One(NoInode = j)
                 = One(loc[t].ip = j) + One(loc[t].dp = j) + One(loc[t].old = j) + One(i = j)
    BY <1>4, <1>5 DEF One, NoInode, Inodes
  <2>6. itable' \in Tables /\ UNCHANGED <<dropped, cwd, ofile>>
    BY <1>1, <1>3
  <2>7. QED BY <2>1, <2>2, <2>4, <2>5, <2>6, RefMoves
<1> QED BY <1>12, <1>13

LEMMA OpenLinkTypes ==
  ASSUME Inv, RefNat, NEW t \in Procs, OpenLink(t)
  PROVE  Inv' /\ RefStep(t)
<1>1. /\ pc[t] = "open_link"
      /\ StartWalk(t, loc[t], loc[t].arg, FALSE, "open_next", "end")
      /\ UNCHANGED <<fsVars, lock, procVars, events, history>>
  BY DEF OpenLink, At
<1>2. loc[t] \in Locals /\ loc[t].arg \in Strings /\ "open_next" \in Rets
  BY LocalTypes DEF Locals, Rets
<1>3. WalkStarted(t, loc[t], FALSE, "open_next", "end")
  BY <1>1, <1>2, WalkStarts
<1> QED BY <1>1, <1>2, <1>3, WalkAgainTypes

LEMMA OpenNextTypes ==
  ASSUME Inv, RefNat, NEW t \in Procs, OpenNext(t)
  PROVE  Inv' /\ RefStep(t)
<1> DEFINE r == loc[t]
<1>1. /\ pc[t] = "open_next" /\ pc[t] \notin PutAt \cup {"panic", "idle", "create_get"}
      /\ UNCHANGED <<disk, committed, itable, lock, cwd, ofile, inop, events, orphans, strayed>>
  BY DEF OpenNext, At, PutAt, fsVars, tableVars, procVars
<1>2. /\ r \in Locals /\ Has("open_next", r) /\ Fits("open_next", r)
      /\ r.inum = NoInode /\ r.puts = <<>>
  BY <1>1, Known
<1>3. /\ r.ip \in Inodes /\ r.ip # NoInode /\ r.dp = NoInode /\ r.old = NoInode
      /\ r.call \in {"open", "trunc"}
  BY <1>2 DEF Has, HasOld, IpAt, DpAt, Fits, Inums, Locals
<1>4. CASE /\ dropped' = [dropped EXCEPT ![r.ip] = @ + 1]
           /\ Go(t, "end", [r EXCEPT !.ip = NoInode])
  <2> DEFINE q == [r EXCEPT !.ip = NoInode]
  <2>1. /\ q \in Locals /\ q.ip = NoInode /\ q.dp = NoInode /\ q.old = NoInode
        /\ q.inum = NoInode /\ q.puts = <<>>
    BY <1>2, <1>3 DEF Locals, Inums
  <2>2. Go(t, "end", q) /\ "end" \in Labels /\ "end" \notin PutAt
    BY <1>4 DEF Labels, PutAt
  <2> HIDE DEF q
  <2>3. /\ pc' \in [Procs -> Labels] /\ loc' \in [Procs -> Locals]
        /\ pc'[t] = "end" /\ Due(t)' = "end" /\ loc'[t] = q
        /\ Alone(t)
    BY <1>1, <2>1, <2>2, GoType DEF Alone, Due
  <2>4. Has("end", q) /\ Fits("end", q)
    BY <2>1 DEF Has, HasOld, Fits, IpAt, DpAt, CreateAt, LinkAt, UnlinkAt, NamedAt
  <2>5. Own(t)'
    BY <1>1, <2>1, <2>2, <2>3, <2>4, LocalTypes DEF Own, Shape, FileOK, InOp
  <2>6. /\ dropped' \in [Inodes -> Nat]
        /\ \A j \in Inodes : dropped'[j] = dropped[j] + One(j = r.ip)
    BY <1>3, <1>4, WorldTypes DEF DataOK, One
  <2>7. DataOK'
    BY <1>1, <2>6, WorldTypes DEF DataOK
  <2>8. Inv'
    BY <1>1, <2>3, <2>5, <2>7, InvStep DEF TypeOK
  <2>9. ASSUME NEW j \in Inodes
        PROVE  itable'[j].ref - dropped'[j] - Counted_(t, j)'
                 = itable[j].ref - dropped[j] - Counted_(t, j)
    <3>1. Counted_(t, j) = Counted_(t, j)' + One(j = r.ip)
      BY <1>1, <1>2, <1>3, <2>1, <2>3, EmptyPuts DEF Counted_, Count, One, NoInode, Inodes
    <3>2. /\ dropped[j] \in Nat /\ itable[j].ref \in Int /\ itable'[j] = itable[j]
          /\ Counted_(t, j)' \in Int /\ One(j = r.ip) \in Int
      BY <1>1, WorldTypes DEF DataOK, Tables, Counted_, Count, One
    <3>3. QED BY <2>6, <3>1, <3>2
  <2>10. QED BY <2>8, <2>9 DEF RefStep
<1>5. CASE Go(t, "open", [r EXCEPT !.depth = @ + 1]) /\ UNCHANGED dropped
  <2> DEFINE q == [r EXCEPT !.depth = @ + 1]
  <2>1. /\ q \in Locals /\ q.ip = r.ip /\ q.dp = NoInode /\ q.old = NoInode
        /\ q.inum = NoInode /\ q.puts = <<>> /\ q.call = r.call
    BY <1>2, <1>3 DEF Locals
  <2>2. Go(t, "open", q) /\ "open" \in Labels \ (PutAt \cup {"panic", "idle", "write"})
    BY <1>5 DEF Labels, PutAt, IpAt
  <2> HIDE DEF q
  <2>3. Has("open", q) /\ Fits("open", q)
    BY <1>3, <2>1 DEF Has, HasOld, Fits, IpAt, DpAt, CreateAt, LinkAt, UnlinkAt, NamedAt
  <2>4. DataOK'
    BY <1>1, <1>5, WorldTypes DEF DataOK
  <2>5. ASSUME NEW j \in Inodes
        PROVE  One(q.ip = j) + One(q.dp = j) + One(q.old = j)
                = One(loc[t].ip = j) + One(loc[t].dp = j) + One(loc[t].old = j) + One(NoInode = j)
    BY <1>3, <2>1 DEF One, NoInode, Inodes
  <2>6. UNCHANGED <<procVars, dropped>>
    BY <1>1, <1>5 DEF procVars
  <2>7. QED BY <1>1, <2>1, <2>2, <2>3, <2>4, <2>5, <2>6, NoneMore, StepGo
<1>6. QED BY <1>4, <1>5 DEF OpenNext

LEMMA OpenedTypes ==
  ASSUME Inv, RefNat, NEW t \in Procs, Opened(t)
  PROVE  Inv' /\ RefStep(t)
<1> DEFINE r == loc[t]
           ino == itable[r.ip].ino
           new == [ino EXCEPT !.addr = NoBlock]
           file == [ip |-> r.ip, writable |-> r.call # "open"]
<1>1. /\ pc[t] = "opened" /\ pc[t] \notin PutAt \cup {"panic", "idle", "create_get"}
      /\ Unlocked(r.ip)
      /\ UNCHANGED <<committed, cwd, inop, events, orphans, dropped, strayed>>
  BY DEF Opened, At, PutAt, history
<1>2. /\ r \in Locals /\ Has("opened", r) /\ Fits("opened", r)
      /\ r.inum = NoInode /\ r.puts = <<>>
  BY <1>1, Known
<1>3. /\ r.ip \in Inodes /\ r.ip # NoInode /\ r.dp = NoInode /\ r.old = NoInode
      /\ ino \in Dinodes
  BY <1>2, WorldTypes DEF Has, HasOld, IpAt, DpAt, Inums, Locals, Tables
<1>4. CASE GiveUp(t, r, itable) /\ UNCHANGED <<disk, ofile>>
  <2>1. itable' = itable
    BY <1>4 DEF GiveUp
  <2>2. DataOK' /\ UNCHANGED <<procVars, dropped>>
    BY <1>1, <1>4, <2>1, DataKept, WorldTypes, LockTypes, StrayedType DEF procVars
  <2>3. QED BY <1>1, <1>3, <1>4, <2>1, <2>2, NoneMore, GiveUpTypes
<1>5. CASE /\ ofile[t] = NoFile
           /\ ofile' = [ofile EXCEPT ![t] = file]
           /\ Go(t, "end", [r EXCEPT !.ip = NoInode])
           /\ \/ /\ disk' = OnDisk(Bfreed(disk, ino.addr), r.ip, new)
                 /\ itable' = Cached(itable, r.ip, new)
              \/ UNCHANGED <<disk, itable>>
  <2> DEFINE q == [r EXCEPT !.ip = NoInode]
  <2>1. /\ q \in Locals /\ q.ip = NoInode /\ q.dp = NoInode /\ q.old = NoInode
        /\ q.inum = NoInode /\ q.puts = <<>>
    BY <1>2, <1>3 DEF Locals, Inums
  <2>2. Go(t, "end", q) /\ "end" \in Labels /\ "end" \notin PutAt
    BY <1>5 DEF Labels, PutAt
  <2> HIDE DEF q
  <2>3. file \in [ip : Inums, writable : BOOLEAN] /\ file.ip = r.ip
    BY <1>3 DEF Inums
  <2>4. new \in Dinodes
    BY <1>3 DEF Dinodes
  <2> HIDE DEF file, new, ino
  <2>5. /\ pc' \in [Procs -> Labels] /\ loc' \in [Procs -> Locals]
        /\ pc'[t] = "end" /\ Due(t)' = "end" /\ loc'[t] = q
        /\ \A u \in Procs \ {t} : pc'[u] = pc[u] /\ loc'[u] = loc[u]
    BY <2>1, <2>2, GoType DEF Due
  <2>6. /\ ofile'[t] = file
        /\ ofile' \in [Procs -> [ip : Inums, writable : BOOLEAN]]
        /\ \A u \in Procs \ {t} : ofile'[u] = ofile[u]
    BY <1>5, <2>3, WorldTypes DEF DataOK
  <2>7. Alone(t)
    BY <1>1, <2>5, <2>6 DEF Alone
  <2>8. Has("end", q) /\ Fits("end", q)
    BY <2>1 DEF Has, HasOld, Fits, IpAt, DpAt, CreateAt, LinkAt, UnlinkAt, NamedAt
  <2>9. Own(t)'
    BY <1>1, <1>3, <2>1, <2>2, <2>3, <2>5, <2>6, <2>8, LocalTypes DEF Own, Shape, FileOK, InOp
  <2>10. /\ itable' \in Tables /\ disk' \in Disks
         /\ \A j \in Inodes : itable'[j].ref = itable[j].ref
    <3>1. CASE UNCHANGED <<disk, itable>>
      BY <3>1, WorldTypes
    <3>2. CASE /\ disk' = OnDisk(Bfreed(disk, ino.addr), r.ip, new)
               /\ itable' = Cached(itable, r.ip, new)
      <4>1. Bfreed(disk, ino.addr) \in Disks
        BY BfreedIs, WorldTypes
      <4>2. disk' \in Disks
        BY <1>3, <2>4, <3>2, <4>1, OnDiskIs
      <4>3. QED BY <1>3, <2>4, <3>2, <4>2, CachedIs, CachedRef, WorldTypes
    <3>3. QED BY <1>5, <3>1, <3>2
  <2>11. DataOK'
    BY <1>1, <2>6, <2>10, WorldTypes, LockTypes DEF DataOK
  <2>12. Inv'
    BY <1>1, <2>5, <2>7, <2>9, <2>11, InvStep DEF TypeOK
  <2>13. ASSUME NEW j \in Inodes PROVE Counted_(t, j)' = Counted_(t, j)
    BY <1>1, <1>2, <1>3, <1>5, <2>1, <2>3, <2>5, <2>6, EmptyPuts DEF Counted_, Count, One, NoFile
  <2>14. QED BY <1>1, <2>10, <2>12, <2>13 DEF RefStep
<1>6. QED BY <1>4, <1>5 DEF Opened

LEMMA ChdirTypes ==
  ASSUME Inv, RefNat, NEW t \in Procs, Chdir(t)
  PROVE  Inv' /\ RefStep(t)
<1> DEFINE r == loc[t]
           ino == Ino(r.ip)
           tab == Cached(itable, r.ip, ino)
           old == cwd[t]
<1>1. pc[t] = "chdir" /\ pc[t] \notin PutAt \cup {"panic", "idle", "create_get"}
  BY DEF Chdir, At, PutAt
<1>2. /\ r \in Locals /\ Has("chdir", r) /\ Fits("chdir", r)
      /\ r.inum = NoInode /\ r.puts = <<>>
  BY <1>1, Known
<1>3. /\ r.ip \in Inodes /\ r.ip # NoInode /\ r.dp = NoInode /\ r.old = NoInode
      /\ ino \in Dinodes /\ old \in Inodes
  BY <1>2, InoIs, LocalTypes DEF Has, HasOld, IpAt, DpAt, Inums, Locals
<1>4. CASE Panic(t)
  BY <1>1, <1>4, PanicTypes
<1>5. CASE GiveUp(t, r, tab) /\ UNCHANGED <<fsVars, lock, procVars, events, history>>
  <2>1. /\ itable' \in Tables
        /\ \A j \in Inodes : itable'[j].ref = itable[j].ref + One(j = NoInode)
    BY <1>3, <1>5, CachedMore DEF GiveUp
  <2> HIDE DEF tab, ino
  <2>2. DataOK' /\ UNCHANGED <<procVars, dropped>>
    BY <1>5, <2>1, DataKept, WorldTypes, LockTypes, StrayedType DEF fsVars, history
  <2>3. QED BY <1>1, <1>3, <1>5, <2>1, <2>2, GiveUpTypes
<1>6. CASE /\ itable' = tab
           /\ cwd' = [cwd EXCEPT ![t] = r.ip]
           /\ PutThen(t, [r EXCEPT !.ip = NoInode], <<cwd[t]>>, "end")
           /\ UNCHANGED <<fsVars, lock, ofile, inop, events, history>>
  <2> DEFINE q == [r EXCEPT !.ip = NoInode]
  <2>1. /\ q \in Locals /\ q.ip = NoInode /\ q.dp = NoInode /\ q.old = NoInode
        /\ q.inum = NoInode
    BY <1>2, <1>3 DEF Locals, Inums
  <2>2. PutThen(t, q, <<old>>, "end") /\ "end" \in Nexts /\ "put" \in PutAt
    BY <1>6 DEF Nexts, PutAt
  <2>3. itable' \in Tables /\ \A j \in Inodes : itable'[j].ref = itable[j].ref
    BY <1>3, <1>6, CachedIs, CachedRef, WorldTypes
  <2>4. /\ cwd' \in [Procs -> Inodes] /\ cwd'[t] = r.ip
        /\ \A u \in Procs \ {t} : cwd'[u] = cwd[u]
    BY <1>3, <1>6, WorldTypes DEF DataOK
  <2>5. UNCHANGED <<disk, committed, lock, ofile, inop, events, orphans, dropped, strayed>>
    BY <1>6 DEF fsVars, history
  <2> HIDE DEF q, tab, ino
  <2>6. DataOK'
    BY <2>3, <2>4, <2>5, WorldTypes DEF DataOK
  <2>7. PICK s \in Seq(Inodes) : /\ s = <<old>> /\ Len(s) \in {1, 2}
                                 /\ First(s) = old /\ Second(s) = NoInode
    BY <1>3, Puts1
  <2>9. /\ pc' \in [Procs -> Labels] /\ loc' \in [Procs -> Locals]
        /\ pc'[t] = "put" /\ Due(t)' = "end"
        /\ loc'[t] = [q EXCEPT !.puts = s, !.next = "end"]
        /\ \A u \in Procs \ {t} : pc'[u] = pc[u] /\ loc'[u] = loc[u]
    <3> HIDE DEF old
    <3>1. /\ pc' \in [Procs -> Labels] /\ loc' \in [Procs -> Locals]
          /\ pc'[t] = "put" /\ Due(t)' = "end"
          /\ loc'[t] = [q EXCEPT !.puts = <<old>>, !.next = "end"]
          /\ \A u \in Procs \ {t} : pc'[u] = pc[u] /\ loc'[u] = loc[u]
      BY <1>3, <2>1, <2>2, PutThenIs, Puts1
    <3>2. QED BY <2>7, <3>1
  <2>10. /\ loc'[t].ip = NoInode /\ loc'[t].dp = NoInode /\ loc'[t].old = NoInode
         /\ loc'[t].inum = NoInode /\ loc'[t].puts = s /\ loc'[t].next = "end"
    BY <2>1, <2>9 DEF Locals
  <2>11. Alone(t)
    BY <2>4, <2>5, <2>9 DEF Alone
  <2>12. Has("end", loc'[t]) /\ Fits("end", loc'[t])
    BY <2>10 DEF Has, HasOld, Fits, IpAt, DpAt, CreateAt, LinkAt, UnlinkAt, NamedAt
  <2>13. Shape(t)'
    BY <2>2, <2>7, <2>9, <2>10, <2>12 DEF Shape
  <2>14. Own(t)'
    BY <1>1, <2>2, <2>5, <2>9, <2>13, LocalTypes DEF Own, FileOK, InOp
  <2>15. Inv'
    BY <2>5, <2>6, <2>9, <2>11, <2>14, InvStep DEF TypeOK
  <2>16. ASSUME NEW j \in Inodes PROVE Counted_(t, j)' = Counted_(t, j)
    <3>1. /\ ofile'[t].ip = ofile[t].ip /\ cwd'[t] = r.ip /\ cwd[t] = old
          /\ First(loc'[t].puts) = old /\ Second(loc'[t].puts) = NoInode
          /\ First(r.puts) = NoInode /\ Second(r.puts) = NoInode
      BY <1>2, <2>4, <2>5, <2>7, <2>10, EmptyPuts
    <3> HIDE DEF old
    <3>2. QED BY <1>3, <2>10, <3>1 DEF Counted_, Count, One
  <2>17. QED BY <2>3, <2>5, <2>15, <2>16 DEF RefStep
<1>7. QED BY <1>4, <1>5, <1>6 DEF Chdir

LEMMA WriteTypes ==
  ASSUME Inv, RefNat, NEW t \in Procs, Write(t)
  PROVE  Inv' /\ RefStep(t)
<1> DEFINE i == ofile[t].ip
           ino == Ino(i)
           grows == ino.addr = NoBlock /\ Unused(disk) # {}
           b == Smallest(Unused(disk))
           new == IF grows THEN [ino EXCEPT !.addr = b] ELSE ino
           d == IF grows THEN Ballocd(disk, b) ELSE disk
<1>1. pc[t] = "write" /\ pc[t] \notin PutAt \cup {"panic", "idle", "create_get"}
  BY DEF Write, At, PutAt
<1>2. /\ loc[t] \in Locals /\ Has("write", loc[t]) /\ Fits("write", loc[t])
      /\ loc[t].inum = NoInode /\ loc[t].puts = <<>>
  BY <1>1, Known
<1>3. i \in Inodes /\ ino \in Dinodes
  BY <1>1, LocalTypes, InoIs DEF Own, FileOK, NoFile, Shape, Due, Inums
<1>4. CASE Panic(t)
  BY <1>1, <1>4, PanicTypes
<1>5. CASE /\ itable' = Cached(itable, i, new)
           /\ disk' = OnDisk(d, i, new)
           /\ Goto(t, "end")
           /\ UNCHANGED <<committed, lock, procVars, loc, events, history>>
  <2>1. new \in Dinodes /\ d \in Disks
    <3>1. CASE grows
      <4>1. b \in Blocks
        BY <3>1, UnusedIs, WorldTypes
      <4> HIDE DEF b, ino
      <4>2. [ino EXCEPT !.addr = b] \in Dinodes
        BY <1>3, <4>1 DEF Dinodes
      <4>3. QED BY <3>1, <4>1, <4>2, BallocdIs, WorldTypes
    <3>2. QED BY <1>3, <3>1, WorldTypes
  <2> HIDE DEF new, d, ino, i
  <2>2. /\ itable' \in Tables /\ disk' \in Disks
        /\ \A j \in Inodes : itable'[j].ref = itable[j].ref + One(j = NoInode)
    BY <1>3, <1>5, <2>1, CachedMore, OnDiskIs
  <2>3. DataOK' /\ UNCHANGED <<procVars, dropped, loc>> /\ Goto(t, "end")
    BY <1>5, <2>2, DataKept, LockTypes, StrayedType DEF history
  <2>4. Has("end", loc[t]) /\ Fits("end", loc[t])
    BY <1>2 DEF Has, HasOld, Fits, IpAt, DpAt, CreateAt, LinkAt, UnlinkAt, NamedAt
  <2>5. "end" \in Labels \ (PutAt \cup {"panic", "idle", "write", "create_get"})
    BY DEF Labels, IpAt, PutAt
  <2>6. QED BY <1>1, <2>2, <2>3, <2>4, <2>5, GotoTypes
<1>6. QED BY <1>4, <1>5 DEF Write

LEMMA LinkTypes ==
  ASSUME Inv, RefNat, NEW t \in Procs, Link(t)
  PROVE  Inv' /\ RefStep(t)
<1> DEFINE r == loc[t]
           ino == Ino(r.ip)
           new == [ino EXCEPT !.nlink = @ + 1]
           q == [r EXCEPT !.old = r.ip, !.ip = NoInode]
<1>1. pc[t] = "link" /\ pc[t] \notin PutAt \cup {"panic", "idle", "create_get"}
  BY DEF Link, At, PutAt
<1>2. /\ r \in Locals /\ Has("link", r) /\ Fits("link", r)
      /\ r.inum = NoInode /\ r.puts = <<>>
  BY <1>1, Known
<1>3. /\ r.ip \in Inodes /\ r.ip # NoInode /\ r.dp = NoInode /\ r.old = NoInode
      /\ ino \in Dinodes
  BY <1>2, InoIs, LocalTypes DEF Has, HasOld, IpAt, DpAt, Inums, Locals
<1>4. CASE Panic(t)
  BY <1>1, <1>4, PanicTypes
<1>5. CASE /\ GiveUp(t, r, Cached(itable, r.ip, ino))
           /\ UNCHANGED <<fsVars, lock, procVars, events, history>>
  <2>1. /\ itable' \in Tables
        /\ \A j \in Inodes : itable'[j].ref = itable[j].ref + One(j = NoInode)
    BY <1>3, <1>5, CachedMore DEF GiveUp
  <2> HIDE DEF ino
  <2>2. DataOK' /\ UNCHANGED <<procVars, dropped>>
    BY <1>5, <2>1, DataKept, WorldTypes, LockTypes, StrayedType DEF fsVars, history
  <2>3. QED BY <1>1, <1>3, <1>5, <2>1, <2>2, GiveUpTypes
<1>6. CASE /\ disk' = OnDisk(disk, r.ip, new)
           /\ itable' = Cached(itable, r.ip, new)
           /\ Go(t, "link_path", q)
           /\ UNCHANGED <<committed, lock, procVars, events, history>>
  <2>1. new \in Dinodes
    <3> HIDE DEF ino
    <3> QED BY <1>3 DEF Dinodes
  <2> HIDE DEF new, ino
  <2>2. /\ itable' \in Tables /\ disk' \in Disks
        /\ \A j \in Inodes : itable'[j].ref = itable[j].ref + One(j = NoInode)
    BY <1>3, <1>6, <2>1, CachedMore, OnDiskIs, WorldTypes
  <2>3. DataOK' /\ UNCHANGED <<procVars, dropped>>
    BY <1>6, <2>2, DataKept, LockTypes, StrayedType DEF history
  <2>4. /\ q \in Locals /\ q.ip = NoInode /\ q.dp = NoInode /\ q.old = r.ip
        /\ q.call = r.call /\ q.inum = NoInode /\ q.puts = <<>> /\ q.arg = r.arg
    BY <1>2, <1>3 DEF Locals, Inums
  <2> HIDE DEF q
  <2>5. Has("link_path", q) /\ Fits("link_path", q)
    BY <1>2, <1>3, <2>4 DEF Has, HasOld, Fits, IpAt, DpAt, CreateAt, LinkAt, UnlinkAt, NamedAt
  <2>6. "link_path" \in Labels \ (PutAt \cup {"panic", "idle", "write"})
    BY DEF Labels, LinkAt, PutAt
  <2>7. ASSUME NEW j \in Inodes
        PROVE  One(q.ip = j) + One(q.dp = j) + One(q.old = j)
                = One(loc[t].ip = j) + One(loc[t].dp = j) + One(loc[t].old = j) + One(NoInode = j)
    BY <1>3, <2>4 DEF One, NoInode, Inodes
  <2>8. NoInode \in Inums
    BY DEF Inums
  <2>9. QED BY <1>1, <1>6, <2>2, <2>3, <2>4, <2>5, <2>6, <2>7, <2>8, StepGo
<1>7. QED BY <1>4, <1>5, <1>6 DEF Link

LEMMA LinkPathTypes ==
  ASSUME Inv, RefNat, NEW t \in Procs, LinkPath(t)
  PROVE  Inv' /\ RefStep(t)
<1>1. /\ pc[t] = "link_path" /\ pc[t] \notin PutAt \cup {"panic"}
      /\ StartWalk(t, loc[t], loc[t].arg, TRUE, "link_dir", "link_bad")
      /\ UNCHANGED <<fsVars, lock, procVars, events, history>>
  BY DEF LinkPath, At, PutAt
<1>2. loc[t] \in Locals /\ loc[t].arg \in Strings /\ "link_dir" \in Rets
  BY LocalTypes DEF Locals, Rets
<1>3. IsPath(loc[t].arg)
  BY <1>1, Known DEF Fits
<1>4. WalkStarted(t, loc[t], TRUE, "link_dir", "link_bad")
  BY <1>1, <1>2, <1>3, WalkStarts
<1> QED BY <1>1, <1>2, <1>4, WalkAgainTypes

LEMMA LinkDirTypes ==
  ASSUME Inv, RefNat, NEW t \in Procs, LinkDir(t)
  PROVE  Inv' /\ RefStep(t)
<1> DEFINE r == loc[t]
           ino == Ino(r.dp)
           i == Lookup(ino, r.name)
           tab == Cached(itable, r.dp, ino)
<1>1. pc[t] = "link_dir" /\ pc[t] \notin PutAt \cup {"panic", "idle", "create_get"}
  BY DEF LinkDir, At, PutAt
<1>2. /\ r \in Locals /\ Has("link_dir", r) /\ Fits("link_dir", r)
      /\ r.inum = NoInode /\ r.puts = <<>>
  BY <1>1, Known
<1>3. /\ r.dp \in Inodes /\ ino \in Dinodes /\ r.dp # NoInode /\ r.old # NoInode
      /\ r.ip = NoInode /\ r.old \in Inodes /\ r.name \in Entries
  BY <1>2, InoIs DEF Has, HasOld, IpAt, DpAt, Inums, Locals, Fits, NamedAt
<1>4. i \in Inums
  BY <1>3, LookupIs
<1>5. CASE Panic(t)
  BY <1>1, <1>5, PanicTypes
<1>6. CASE /\ disk' = Linked(disk, ino, r.name, r.old)
           /\ itable' = tab
           /\ strayed' = (strayed \/ Removed(ino))
           /\ PutThen(t, [r EXCEPT !.dp = NoInode, !.old = NoInode],
                      <<r.dp, r.old>>, "end")
           /\ UNCHANGED <<committed, lock, procVars, events, orphans, dropped>>
  <2> DEFINE q == [r EXCEPT !.dp = NoInode, !.old = NoInode]
             a == r.dp
             b == r.old
  <2>1. /\ q \in Locals /\ q.ip = NoInode /\ q.dp = NoInode /\ q.old = NoInode
        /\ q.inum = NoInode
    BY <1>2, <1>3 DEF Locals, Inums
  <2>2. /\ PutThen(t, q, <<a, b>>, "end") /\ "end" \in Nexts /\ "put" \in PutAt
        /\ a \in Inodes /\ b \in Inodes
    BY <1>3, <1>6 DEF Nexts, PutAt
  <2>3. itable' \in Tables /\ \A j \in Inodes : itable'[j].ref = itable[j].ref + One(j = NoInode)
    BY <1>3, <1>6, CachedMore
  <2>4. disk' \in Disks
    <3>1. r.old \in Inums
      BY <1>3 DEF Inums
    <3> HIDE DEF ino
    <3>2. QED BY <1>3, <1>6, <3>1, LinkedType, WorldTypes
  <2> HIDE DEF q, a, b, tab, ino
  <2>5. DataOK' /\ UNCHANGED <<cwd, ofile, inop, dropped>>
    BY <1>6, <2>3, <2>4, DataKept, LockTypes, StrayedType DEF procVars
  <2>6. /\ pc' \in [Procs -> Labels] /\ loc' \in [Procs -> Locals]
        /\ pc'[t] = "put" /\ Due(t)' = "end"
        /\ loc'[t] = [q EXCEPT !.puts = <<a, b>>, !.next = "end"]
        /\ \A u \in Procs \ {t} : pc'[u] = pc[u] /\ loc'[u] = loc[u]
    BY <2>1, <2>2, PutThenIs, Puts2
  <2>7. PICK s \in Seq(Inodes) : /\ s = <<a, b>> /\ Len(s) \in {1, 2}
                                 /\ First(s) = a /\ Second(s) = b
    BY <2>2, Puts2
  <2>8. loc'[t] = [q EXCEPT !.puts = s, !.next = "end"]
    BY <2>6, <2>7
  <2>9. /\ loc'[t].ip = NoInode /\ loc'[t].dp = NoInode /\ loc'[t].old = NoInode
        /\ loc'[t].inum = NoInode /\ loc'[t].puts = s /\ loc'[t].next = "end"
    BY <2>1, <2>8 DEF Locals
  <2>10. Alone(t)
    BY <2>5, <2>6 DEF Alone
  <2>11. Has("end", loc'[t]) /\ Fits("end", loc'[t])
    BY <2>9 DEF Has, HasOld, Fits, IpAt, DpAt, CreateAt, LinkAt, UnlinkAt, NamedAt
  <2>12. Shape(t)'
    BY <2>2, <2>6, <2>7, <2>9, <2>11 DEF Shape
  <2>13. Own(t)'
    BY <1>1, <2>2, <2>5, <2>6, <2>12, LocalTypes DEF Own, FileOK, InOp
  <2>14. Inv'
    BY <2>5, <2>6, <2>10, <2>13, InvStep DEF TypeOK
  <2>15. a \in Inums /\ b \in Inums /\ NoInode \in Inums /\ r.dp = a /\ r.old = b
    BY <2>2 DEF Inums, a, b
  <2>16. ASSUME NEW j \in Inodes
         PROVE  One(loc'[t].ip = j) + One(loc'[t].dp = j) + One(loc'[t].old = j)
                  + One(a = j) + One(b = j)
                  = One(loc[t].ip = j) + One(loc[t].dp = j) + One(loc[t].old = j) + One(NoInode = j)
    BY <1>3, <2>9, <2>15 DEF One, NoInode, Inodes
  <2>17. First(loc'[t].puts) = a /\ Second(loc'[t].puts) = b
    BY <2>7, <2>9
  <2>18. RefStep(t)
    BY <1>1, <2>3, <2>5, <2>15, <2>16, <2>17, RefMoves
  <2>19. QED BY <2>14, <2>18
<1>7. CASE /\ i # NoInode
           /\ itable' = Get(tab, i)
           /\ Locked(t, r.dp)
           /\ strayed' = (strayed \/ (Removed(ino) /\ r.name = ".."))
           /\ PutThen(t, r, <<i>>, "unlock_dp")
           /\ UNCHANGED <<fsVars, procVars, events, orphans, dropped>>
  <2>1. i \in Inodes /\ "unlock_dp" \in Nexts
    BY <1>4, <1>7 DEF Inums, Nexts
  <2> HIDE DEF i
  <2>2. /\ i \in Inums /\ itable' \in Tables
        /\ \A j \in Inodes : itable'[j].ref = itable[j].ref + One(j = i)
    BY <1>3, <1>7, <2>1, CachedGetMore
  <2> HIDE DEF tab, ino
  <2>3. strayed' \in BOOLEAN /\ lock' \in [Inodes -> Procs \cup {Nobody}]
    BY <1>7, StrayedType, LockTypes
  <2>4. DataOK' /\ UNCHANGED <<procVars, dropped>>
    BY <1>7, <2>2, <2>3, DataKept, WorldTypes DEF fsVars
  <2>5. Has("unlock_dp", r) /\ Fits("unlock_dp", r)
    BY <1>2 DEF Has, HasOld, Fits, IpAt, DpAt, CreateAt, LinkAt, UnlinkAt, NamedAt
  <2>6. ASSUME NEW j \in Inodes
        PROVE  One(r.ip = j) + One(r.dp = j) + One(r.old = j) + One(i = j)
                = One(loc[t].ip = j) + One(loc[t].dp = j) + One(loc[t].old = j) + One(i = j)
    OBVIOUS
  <2>7. PutThen(t, r, <<i>>, "unlock_dp")
    BY <1>7
  <2>8. QED BY <1>1, <1>2, <2>1, <2>2, <2>4, <2>5, <2>6, <2>7, StepPut
<1>8. QED BY <1>5, <1>6, <1>7 DEF LinkDir

LEMMA LinkBadTypes ==
  ASSUME Inv, RefNat, NEW t \in Procs, LinkBad(t)
  PROVE  Inv' /\ RefStep(t)
<1> DEFINE r == loc[t]
           i == loc[t].old
           ino == Ino(i)
           new == [ino EXCEPT !.nlink = @ - 1]
           q == [r EXCEPT !.old = NoInode]
<1>1. /\ pc[t] = "link_bad" /\ pc[t] \notin PutAt \cup {"panic", "idle", "create_get"}
      /\ disk' = OnDisk(disk, i, new)
      /\ itable' = Cached(itable, i, new)
      /\ PutThen(t, q, <<i>>, "end")
      /\ UNCHANGED <<committed, lock, procVars, events, orphans, dropped, strayed>>
  BY DEF LinkBad, At, PutAt, history
<1>2. /\ r \in Locals /\ Has("link_bad", r) /\ Fits("link_bad", r)
      /\ r.inum = NoInode /\ r.puts = <<>>
  BY <1>1, Known
<1>3. /\ i \in Inodes /\ i # NoInode /\ r.dp = NoInode /\ r.ip = NoInode
      /\ ino \in Dinodes
  BY <1>2, InoIs DEF Has, HasOld, IpAt, DpAt, Inums, Locals
<1>4. new \in Dinodes
  <2> HIDE DEF ino
  <2> QED BY <1>3 DEF Dinodes
<1>5. /\ q \in Locals /\ q.ip = NoInode /\ q.dp = NoInode /\ q.old = NoInode
      /\ q.inum = NoInode
  BY <1>2, <1>3 DEF Locals, Inums
<1> HIDE DEF q, new, ino
<1>6. /\ itable' \in Tables /\ disk' \in Disks
      /\ \A j \in Inodes : itable'[j].ref = itable[j].ref + One(j = NoInode)
  BY <1>1, <1>3, <1>4, CachedMore, OnDiskIs, WorldTypes
<1>7. DataOK'
  BY <1>1, <1>6, DataKept, LockTypes, StrayedType
<1>8. Has("end", q) /\ Fits("end", q) /\ "end" \in Nexts /\ NoInode \in Inums
  BY <1>5 DEF Has, HasOld, Fits, IpAt, DpAt, CreateAt, LinkAt, UnlinkAt, NamedAt, Nexts, Inums
<1>9. ASSUME NEW j \in Inodes
      PROVE  One(q.ip = j) + One(q.dp = j) + One(q.old = j) + One(i = j)
              = One(loc[t].ip = j) + One(loc[t].dp = j) + One(loc[t].old = j) + One(NoInode = j)
  BY <1>3, <1>5 DEF One, NoInode, Inodes
<1> HIDE DEF i
<1> QED BY <1>1, <1>3, <1>5, <1>6, <1>7, <1>8, <1>9, StepPut

LEMMA UnlinkTypes ==
  ASSUME Inv, RefNat, NEW t \in Procs, Unlink(t)
  PROVE  Inv' /\ RefStep(t)
<1> DEFINE r == loc[t]
           ino == Ino(r.dp)
           i == IF r.name \in Names THEN Lookup(ino, r.name) ELSE NoInode
           tab == Cached(itable, r.dp, ino)
<1>1. pc[t] = "unlink" /\ pc[t] \notin PutAt \cup {"panic", "idle", "create_get"}
  BY DEF Unlink, At, PutAt
<1>2. /\ r \in Locals /\ Has("unlink", r) /\ Fits("unlink", r)
      /\ r.inum = NoInode /\ r.puts = <<>>
  BY <1>1, Known
<1>3. /\ r.dp \in Inodes /\ ino \in Dinodes /\ r.dp # NoInode /\ r.old = NoInode
      /\ r.ip = NoInode /\ r.name \in Entries
  BY <1>2, InoIs DEF Has, HasOld, IpAt, DpAt, Inums, Locals, Fits, NamedAt
<1>4. i \in Inums
  BY <1>3, LookupIs DEF Inums
<1>5. CASE Panic(t)
  BY <1>1, <1>5, PanicTypes
<1>6. CASE /\ itable' = tab
           /\ PutThen(t, [r EXCEPT !.dp = NoInode], <<r.dp>>, "end")
           /\ UNCHANGED lock
           /\ UNCHANGED <<fsVars, procVars, events, history>>
  <2> DEFINE q == [r EXCEPT !.dp = NoInode]
  <2>1. q.ip = NoInode /\ q.dp = NoInode /\ q.old = NoInode
    BY <1>2, <1>3 DEF Locals
  <2> HIDE DEF q
  <2>2. Has("end", q) /\ Fits("end", q) /\ "end" \in Nexts
    BY <2>1 DEF Has, HasOld, Fits, IpAt, DpAt, CreateAt, LinkAt, UnlinkAt, NamedAt, Nexts
  <2>3. /\ itable' \in Tables
        /\ \A j \in Inodes : itable'[j].ref = itable[j].ref + One(j = NoInode)
    BY <1>3, <1>6, CachedMore
  <2> HIDE DEF tab, ino
  <2>4. DataOK' /\ UNCHANGED <<procVars, dropped>>
    BY <1>6, <2>3, DataKept, LockTypes, WorldTypes, StrayedType DEF fsVars, history
  <2>5. Has("end", [r EXCEPT !.dp = NoInode]) /\ Fits("end", [r EXCEPT !.dp = NoInode])
    BY <2>2 DEF q
  <2>6. QED BY <1>1, <1>2, <1>3, <1>6, <2>2, <2>3, <2>4, <2>5, PutDpTypes
<1>7. CASE /\ i # NoInode
           /\ itable' = Get(tab, i)
           /\ Locked(t, r.dp)
           /\ Go(t, "unlink_lock", [r EXCEPT !.ip = i])
           /\ UNCHANGED <<fsVars, procVars, events, history>>
  <2> DEFINE q == [r EXCEPT !.ip = i]
  <2>1. i \in Inodes /\ "unlink_lock" \in Labels \ (PutAt \cup {"panic", "idle", "write"})
    BY <1>4, <1>7 DEF Inums, Labels, PutAt, UnlinkAt
  <2>2. Go(t, "unlink_lock", q)
    BY <1>7
  <2> HIDE DEF i
  <2>3. /\ q \in Locals /\ q.ip = i /\ q.dp = r.dp /\ q.old = r.old
        /\ q.inum = NoInode /\ q.puts = <<>> /\ q.call = r.call /\ q.name = r.name
    BY <1>2, <1>4 DEF Locals
  <2> HIDE DEF q
  <2>4. /\ i \in Inums /\ itable' \in Tables
        /\ \A j \in Inodes : itable'[j].ref = itable[j].ref + One(j = i)
    BY <1>3, <1>7, <2>1, CachedGetMore
  <2> HIDE DEF tab, ino
  <2>5. DataOK' /\ UNCHANGED <<procVars, dropped>>
    BY <1>7, <2>4, DataKept, WorldTypes, LockTypes, StrayedType DEF fsVars, history
  <2>6. Has("unlink_lock", q) /\ Fits("unlink_lock", q)
    BY <1>2, <1>7, <2>3 DEF Has, HasOld, Fits, IpAt, DpAt, CreateAt, LinkAt, UnlinkAt, NamedAt
  <2>7. ASSUME NEW j \in Inodes
        PROVE  One(q.ip = j) + One(q.dp = j) + One(q.old = j)
                = One(loc[t].ip = j) + One(loc[t].dp = j) + One(loc[t].old = j) + One(i = j)
    BY <1>3, <2>3 DEF One, NoInode, Inodes
  <2>8. QED BY <1>1, <2>1, <2>2, <2>3, <2>4, <2>5, <2>6, <2>7, StepGo
<1>8. QED BY <1>5, <1>6, <1>7 DEF Unlink

LEMMA UnlinkLockTypes ==
  ASSUME Inv, RefNat, NEW t \in Procs, UnlinkLock(t)
  PROVE  Inv' /\ RefStep(t)
<1> DEFINE r == loc[t]
           ino == Ino(r.ip)
           tab == Cached(itable, r.ip, ino)
           isdir == ino.type = "dir"
           dir == Ino(r.dp)
           dirnew == [dir EXCEPT !.nlink = IF isdir THEN @ - 1 ELSE @]
<1>1. pc[t] = "unlink_lock" /\ pc[t] \notin PutAt \cup {"panic", "idle", "create_get"}
  BY DEF UnlinkLock, At, PutAt
<1>2. /\ r \in Locals /\ Has("unlink_lock", r) /\ Fits("unlink_lock", r)
      /\ r.inum = NoInode /\ r.puts = <<>>
  BY <1>1, Known
<1>3. /\ r.dp \in Inodes /\ dir \in Dinodes /\ r.dp # NoInode /\ r.old = NoInode
      /\ r.ip \in Inodes /\ ino \in Dinodes /\ r.ip # NoInode /\ r.name \in Entries
      /\ r.call = "unlink"
  BY <1>2, InoIs DEF Has, HasOld, IpAt, DpAt, Inums, Locals, Fits, NamedAt, UnlinkAt
<1>4. CASE Panic(t)
  BY <1>1, <1>4, PanicTypes
<1>5. CASE /\ itable' = tab
           /\ PutThen(t, [r EXCEPT !.ip = NoInode], <<r.ip>>, "unlock_dp")
           /\ UNCHANGED <<fsVars, lock, procVars, events, history>>
  <2> DEFINE q == [r EXCEPT !.ip = NoInode]
  <2>1. q.ip = NoInode /\ q.dp = r.dp /\ q.old = NoInode /\ q.call = r.call
    BY <1>2, <1>3 DEF Locals
  <2> HIDE DEF q
  <2>2. Has("unlock_dp", q) /\ Fits("unlock_dp", q) /\ "unlock_dp" \in Nexts
    BY <1>3, <2>1 DEF Has, HasOld, Fits, IpAt, DpAt, CreateAt, LinkAt, UnlinkAt, NamedAt, Nexts
  <2>3. /\ itable' \in Tables
        /\ \A j \in Inodes : itable'[j].ref = itable[j].ref + One(j = NoInode)
    BY <1>3, <1>5, CachedMore
  <2> HIDE DEF tab, ino
  <2>4. DataOK' /\ UNCHANGED <<procVars, dropped>>
    BY <1>5, <2>3, DataKept, LockTypes, WorldTypes, StrayedType DEF fsVars, history
  <2>5. Has("unlock_dp", [r EXCEPT !.ip = NoInode]) /\ Fits("unlock_dp", [r EXCEPT !.ip = NoInode])
    BY <2>2 DEF q
  <2>6. QED BY <1>1, <1>2, <1>3, <1>5, <2>2, <2>3, <2>4, <2>5, PutIpTypes
<1>6. CASE /\ disk' = OnDisk(Linked(disk, dir, r.name, NoInode), r.dp, dirnew)
           /\ itable' = Cached(tab, r.dp, dirnew)
           /\ lock' = [lock EXCEPT ![r.dp] = Nobody, ![r.ip] = t]
           /\ PutThen(t, [r EXCEPT !.dp = NoInode], <<r.dp>>, "unlink_last")
           /\ UNCHANGED <<committed, procVars, events, history>>
  <2> DEFINE q == [r EXCEPT !.dp = NoInode]
  <2>1. q.ip = r.ip /\ q.dp = NoInode /\ q.old = NoInode /\ q.call = r.call
    BY <1>2, <1>3 DEF Locals
  <2> HIDE DEF q
  <2>2. Has("unlink_last", q) /\ Fits("unlink_last", q) /\ "unlink_last" \in Nexts
    BY <1>3, <2>1 DEF Has, HasOld, Fits, IpAt, DpAt, CreateAt, LinkAt, UnlinkAt, NamedAt, Nexts
  <2>3. dirnew \in Dinodes
    <3> HIDE DEF dir, isdir
    <3> QED BY <1>3 DEF Dinodes
  <2>4. tab \in Tables /\ \A j \in Inodes : tab[j].ref = itable[j].ref
    BY <1>3, CachedIs, CachedRef, WorldTypes
  <2> HIDE DEF tab, dirnew, dir, ino, isdir
  <2>5. Cached(tab, r.dp, dirnew) \in Tables
    BY <1>3, <2>3, <2>4, CachedIs
  <2>6. \A j \in Inodes : Cached(tab, r.dp, dirnew)[j].ref = tab[j].ref
    BY <1>3, <2>3, <2>4, CachedRef
  <2>7. /\ itable' \in Tables
        /\ \A j \in Inodes : itable'[j].ref = itable[j].ref + One(j = NoInode)
    BY <1>6, <2>4, <2>5, <2>6, WorldTypes DEF One, Tables, NoInode, Inodes
  <2>8. disk' \in Disks
    BY <1>3, <1>6, <2>3, LinkedType, WorldTypes, OnDiskIs DEF Inums
  <2>9. lock' \in [Inodes -> Procs \cup {Nobody}]
    BY <1>6, WorldTypes DEF DataOK
  <2>10. DataOK' /\ UNCHANGED <<procVars, dropped>>
    BY <1>6, <2>7, <2>8, <2>9, DataKept, StrayedType DEF history
  <2>11. /\ Has("unlink_last", [r EXCEPT !.dp = NoInode])
         /\ Fits("unlink_last", [r EXCEPT !.dp = NoInode])
    BY <2>2 DEF q
  <2>12. QED BY <1>1, <1>2, <1>3, <1>6, <2>2, <2>7, <2>10, <2>11, PutDpTypes
<1>7. QED BY <1>4, <1>5, <1>6 DEF UnlinkLock

LEMMA UnlinkLastTypes ==
  ASSUME Inv, RefNat, NEW t \in Procs, UnlinkLast(t)
  PROVE  Inv' /\ RefStep(t)
<1> DEFINE r == loc[t]
           ino == itable[r.ip].ino
           new == [ino EXCEPT !.nlink = @ - 1]
<1>1. /\ pc[t] = "unlink_last" /\ pc[t] \notin PutAt \cup {"panic", "idle", "create_get"}
      /\ disk' = OnDisk(disk, r.ip, new)
      /\ Unlocked(r.ip)
      /\ GiveUp(t, r, Cached(itable, r.ip, new))
      /\ UNCHANGED <<committed, procVars, events, orphans, dropped, strayed>>
  BY DEF UnlinkLast, At, PutAt, history
<1>2. /\ r \in Locals /\ Has("unlink_last", r) /\ Fits("unlink_last", r)
      /\ r.inum = NoInode /\ r.puts = <<>>
  BY <1>1, Known
<1>3. /\ r.ip \in Inodes /\ r.ip # NoInode /\ r.dp = NoInode /\ r.old = NoInode
      /\ ino \in Dinodes
  BY <1>2, WorldTypes DEF Has, HasOld, IpAt, DpAt, Inums, Locals, Tables
<1>4. new \in Dinodes
  <2> HIDE DEF ino
  <2> QED BY <1>3 DEF Dinodes
<1> HIDE DEF new, ino
<1>5. /\ itable' \in Tables /\ disk' \in Disks
      /\ \A j \in Inodes : itable'[j].ref = itable[j].ref + One(j = NoInode)
  BY <1>1, <1>3, <1>4, CachedMore, OnDiskIs, WorldTypes DEF GiveUp
<1>6. DataOK'
  BY <1>1, <1>5, DataKept, LockTypes, StrayedType
<1> QED BY <1>1, <1>3, <1>5, <1>6, GiveUpTypes

LEMMA StepTypes ==
  ASSUME Inv, RefNat, NEW t \in Procs, Step(t) \/ NewCall(t)
  PROVE  Inv' /\ RefStep(t)
<1>1. CASE Step(t)
  <2>1. CASE \/ End(t) \/ UnlockParent(t) \/ Iput(t) \/ Namex(t)
             \/ Create(t) \/ CreateFound(t) \/ CreateAlloc(t) \/ CreateGet(t)
    BY <2>1, EndTypes, UnlockParentTypes, IputTypes, WalkEndTypes, WalkTypes, CreateTypes,
       CreateFoundTypes, CreateAllocTypes, CreateGetTypes DEF Namex
  <2>2. CASE \/ CreateFill(t) \/ Created(t) \/ SymlinkWrite(t)
             \/ Open(t) \/ OpenLink(t) \/ OpenNext(t) \/ Opened(t)
             \/ Chdir(t) \/ Write(t)
    BY <2>2, CreateFillTypes, CreatedTypes, SymlinkWriteTypes, OpenTypes, OpenLinkTypes,
       OpenNextTypes, OpenedTypes, ChdirTypes, WriteTypes
  <2>3. CASE \/ Link(t) \/ LinkPath(t) \/ LinkDir(t) \/ LinkBad(t)
             \/ Unlink(t) \/ UnlinkLock(t) \/ UnlinkLast(t)
    BY <2>3, LinkTypes, LinkPathTypes, LinkDirTypes, LinkBadTypes, UnlinkTypes,
       UnlinkLockTypes, UnlinkLastTypes
  <2>4. QED BY <1>1, <2>1, <2>2, <2>3 DEF Step
<1>2. CASE NewCall(t)
  BY <1>2, CallTypes, BeginWriteTypes, CloseTypes DEF NewCall
<1>3. QED BY <1>1, <1>2

LEMMA SlotPointer ==
  ASSUME NEW c \in Inums, NEW o \in Inums, NEW r \in Locals, NEW k \in 1..7, NEW i \in Inodes
  PROVE  (/\ k \in DOMAIN (<<c, o, r.ip, r.dp, r.old>> \o r.puts)
          /\ (<<c, o, r.ip, r.dp, r.old>> \o r.puts)[k] = i)
         <=> SlotOf(c, o, r, k) = i
<1>1. PICK x, y, z \in Inums, p \in Seq(Inodes) :
            x = r.ip /\ y = r.dp /\ z = r.old /\ p = r.puts
  BY DEF Locals
<1>a. <<c, o, x, y, z>> \in Seq(Inums)
  OBVIOUS
<1>2. PICK s \in Seq(Inums) : s = <<c, o, x, y, z>>
  BY <1>a
<1>3. /\ Len(s) = 5 /\ s[1] = c /\ s[2] = o /\ s[3] = x /\ s[4] = y /\ s[5] = z
  BY <1>2
<1>4. p \in Seq(Inums) /\ Len(p) \in Nat
  BY DEF Inums
<1>5. /\ DOMAIN (s \o p) = 1..(5 + Len(p))
      /\ \A j \in 1..(5 + Len(p)) : (s \o p)[j] = IF j <= 5 THEN s[j] ELSE p[j - 5]
  <2>1. /\ s \o p \in Seq(Inums) /\ Len(s \o p) = Len(s) + Len(p)
        /\ \A j \in 1..(Len(s) + Len(p)) : (s \o p)[j] = IF j <= Len(s) THEN s[j] ELSE p[j - Len(s)]
    BY <1>4, ConcatProperties
  <2>2. DOMAIN (s \o p) = 1..Len(s \o p)
    BY <2>1
  <2>3. QED BY <1>3, <2>1, <2>2
<1>6. i # NoInode
  BY DEF Inodes, NoInode
<1>7. /\ SlotOf(c, o, r, 1) = c /\ SlotOf(c, o, r, 2) = o /\ SlotOf(c, o, r, 3) = x
      /\ SlotOf(c, o, r, 4) = y /\ SlotOf(c, o, r, 5) = z
      /\ SlotOf(c, o, r, 6) = First(p) /\ SlotOf(c, o, r, 7) = Second(p)
  BY <1>1 DEF SlotOf
<1>8. (k \in DOMAIN (s \o p) /\ (s \o p)[k] = i) <=> SlotOf(c, o, r, k) = i
  <2>1. k = 1 \/ k = 2 \/ k = 3 \/ k = 4 \/ k = 5 \/ k = 6 \/ k = 7
    OBVIOUS
  <2> DEFINE v == SlotOf(c, o, r, k)
             q == s \o p
  <2>2. /\ k = 1 => v = c
        /\ k = 2 => v = o
        /\ k = 3 => v = x
        /\ k = 4 => v = y
        /\ k = 5 => v = z
        /\ k = 6 => v = First(p)
        /\ k = 7 => v = Second(p)
    BY <1>7
  <2>3. /\ DOMAIN q = 1..(5 + Len(p))
        /\ \A j \in 1..(5 + Len(p)) : q[j] = IF j <= 5 THEN s[j] ELSE p[j - 5]
    BY <1>5
  <2> HIDE DEF v, q
  <2>4. k <= 5 => (k \in DOMAIN q /\ q[k] = s[k])
    BY <1>4, <2>3
  <2>5. k <= 5 => s[k] = v
    BY <1>3, <2>1, <2>2
  <2>6. k > 5 => (k \in DOMAIN q <=> Len(p) >= k - 5)
    BY <1>4, <2>3
  <2>7. k > 5 /\ Len(p) >= k - 5 => q[k] = p[k - 5]
    BY <1>4, <2>3
  <2>8. First(p) = (IF Len(p) >= 1 THEN p[1] ELSE NoInode)
        /\ Second(p) = (IF Len(p) >= 2 THEN p[2] ELSE NoInode)
    BY DEF First, Second
  <2>9. CASE k <= 5
    BY <2>4, <2>5, <2>9 DEF v, q
  <2>10. CASE k = 6
    BY <1>4, <1>6, <2>2, <2>6, <2>7, <2>8, <2>10 DEF v, q
  <2>11. CASE k = 7
    BY <1>4, <1>6, <2>2, <2>6, <2>7, <2>8, <2>11 DEF v, q
  <2>12. QED BY <2>1, <2>9, <2>10, <2>11
<1>9. s \o p = <<c, o, r.ip, r.dp, r.old>> \o r.puts
  BY <1>1, <1>2
<1> QED BY <1>8, <1>9

LEMMA HoldingIs ==
  ASSUME Inv, NEW i \in Inodes
  PROVE  Holding(i) = {x \in Procs \X (1..7) : /\ x[2] \in DOMAIN Pointers(x[1])
                                               /\ Pointers(x[1])[x[2]] = i}
<1>1. ASSUME NEW u \in Procs, NEW k \in 1..7
      PROVE  (k \in DOMAIN Pointers(u) /\ Pointers(u)[k] = i) <=> Slot(u, k) = i
  <2>1. cwd[u] \in Inums /\ ofile[u].ip \in Inums /\ loc[u] \in Locals
    BY LocalTypes DEF Inums
  <2>2. PICK c \in Inums, o \in Inums, r \in Locals :
              c = cwd[u] /\ o = ofile[u].ip /\ r = loc[u]
    BY <2>1
  <2>3. (/\ k \in DOMAIN (<<c, o, r.ip, r.dp, r.old>> \o r.puts)
         /\ (<<c, o, r.ip, r.dp, r.old>> \o r.puts)[k] = i)
        <=> SlotOf(c, o, r, k) = i
    BY SlotPointer
  <2>4. Pointers(u) = <<c, o, r.ip, r.dp, r.old>> \o r.puts
    BY <2>2 DEF Pointers
  <2>5. Slot(u, k) = SlotOf(c, o, r, k)
    BY <2>2 DEF Slot
  <2>6. QED BY <2>3, <2>4, <2>5, Zenon
<1>2. ASSUME NEW x \in Procs \X (1..7) PROVE x[1] \in Procs /\ x[2] \in 1..7
  OBVIOUS
<1> QED BY <1>1, <1>2 DEF Holding, Places

\* Adding up the places of one process.
LEMMA HoldersCount ==
  ASSUME NEW f \in [Places -> Inums], NEW t \in Procs, NEW i
  PROVE  /\ Cardinality(All(f, i)) \in Nat /\ Cardinality(Others(f, t, i)) \in Nat
         /\ Cardinality(All(f, i)) = Cardinality(Others(f, t, i))
                 + OneAt(f, t, 1, i) + OneAt(f, t, 2, i) + OneAt(f, t, 3, i)
                 + OneAt(f, t, 4, i) + OneAt(f, t, 5, i) + OneAt(f, t, 6, i)
                 + OneAt(f, t, 7, i)
<1> DEFINE G(n) == {x \in Places : f[x] = i /\ (x[1] # t \/ x[2] <= n)}
<1>1. IsFiniteSet(Places)
  <2>0. 1 \in Int /\ 7 \in Int
    OBVIOUS
  <2>1. IsFiniteSet(1..7) /\ IsFiniteSet(Procs)
    BY <2>0, FS_Interval, FilesAssumption DEF FilesAssumption
  <2>2. QED BY <2>1, FS_Product DEF Places
<1>2. \A n \in 0..7 : IsFiniteSet(G(n)) /\ Cardinality(G(n)) \in Nat
  BY <1>1, FS_Subset, FS_CardinalityType
<1>3. ASSUME NEW n \in 0..6
      PROVE  Cardinality(G(n + 1)) = Cardinality(G(n)) + OneAt(f, t, n + 1, i)
  <2>1. <<t, n + 1>> \in Places /\ n \in 0..7
    BY DEF Places
  <2>2. \A x \in Places : x[1] = t /\ x[2] <= n + 1 /\ ~(x[2] <= n) => x = <<t, n + 1>>
    BY DEF Places
  <2>3. CASE f[<<t, n + 1>>] = i
    <3>1. G(n + 1) = G(n) \cup {<<t, n + 1>>}
      BY <2>1, <2>2, <2>3 DEF Places
    <3>2. <<t, n + 1>> \notin G(n)
      OBVIOUS
    <3>3. IsFiniteSet(G(n))
      BY <1>2, <2>1
    <3> HIDE DEF G
    <3>4. Cardinality(G(n) \cup {<<t, n + 1>>}) = Cardinality(G(n)) + 1
      BY <3>2, <3>3, FS_AddElement
    <3>5. QED BY <2>3, <3>1, <3>4 DEF One, OneAt
  <2>4. CASE f[<<t, n + 1>>] # i
    <3>1. G(n + 1) = G(n)
      BY <2>2, <2>4 DEF Places
    <3>2. Cardinality(G(n)) \in Nat
      BY <1>2, <2>1
    <3> HIDE DEF G
    <3>3. QED BY <2>4, <3>1, <3>2 DEF One, OneAt
  <2>5. QED BY <2>3, <2>4
<1>4. G(0) = Others(f, t, i) /\ G(7) = All(f, i)
  BY DEF Places, All, Others
<1>5. /\ Cardinality(G(0)) \in Nat /\ Cardinality(G(7)) \in Nat
  BY <1>2
<1> HIDE DEF G
<1>6. /\ Cardinality(G(1)) = Cardinality(G(0)) + OneAt(f, t, 1, i)
      /\ Cardinality(G(2)) = Cardinality(G(1)) + OneAt(f, t, 2, i)
      /\ Cardinality(G(3)) = Cardinality(G(2)) + OneAt(f, t, 3, i)
      /\ Cardinality(G(4)) = Cardinality(G(3)) + OneAt(f, t, 4, i)
      /\ Cardinality(G(5)) = Cardinality(G(4)) + OneAt(f, t, 5, i)
      /\ Cardinality(G(6)) = Cardinality(G(5)) + OneAt(f, t, 6, i)
      /\ Cardinality(G(7)) = Cardinality(G(6)) + OneAt(f, t, 7, i)
  BY <1>3
<1>7. /\ OneAt(f, t, 1, i) \in Nat /\ OneAt(f, t, 2, i) \in Nat /\ OneAt(f, t, 3, i) \in Nat
      /\ OneAt(f, t, 4, i) \in Nat /\ OneAt(f, t, 5, i) \in Nat /\ OneAt(f, t, 6, i) \in Nat
      /\ OneAt(f, t, 7, i) \in Nat
  BY DEF One, OneAt
<1>8. \A n \in 0..7 : Cardinality(G(n)) \in Nat
  BY <1>2
<1>9. Cardinality(G(7)) = Cardinality(G(0))
                 + OneAt(f, t, 1, i) + OneAt(f, t, 2, i) + OneAt(f, t, 3, i)
                 + OneAt(f, t, 4, i) + OneAt(f, t, 5, i) + OneAt(f, t, 6, i)
                 + OneAt(f, t, 7, i)
  BY <1>5, <1>6, <1>7
<1> QED BY <1>4, <1>5, <1>9, Zenon

LEMMA GotoAlone ==
  ASSUME Inv, NEW t \in Procs, NEW l, Goto(t, l)
  PROVE  \A u \in Procs \ {t} : pc'[u] = pc[u]
BY DEF Inv, TypeOK, Goto

LEMMA LocAlone ==
  ASSUME Inv, NEW t \in Procs, NEW r, loc' = loc \/ loc' = [loc EXCEPT ![t] = r]
  PROVE  \A u \in Procs \ {t} : loc'[u] = loc[u]
BY DEF Inv, TypeOK

LEMMA MovesAlone ==
  ASSUME Inv, NEW t \in Procs, Moves(t), UNCHANGED <<cwd, ofile>>
  PROVE  Alone(t)
BY GotoAlone, LocAlone DEF Moves, Alone

LEMMA GoMoves ==
  ASSUME NEW t, NEW l, NEW r, Go(t, l, r)
  PROVE  Moves(t)
BY Zenon DEF Go, Moves

LEMMA GotoMoves ==
  ASSUME NEW t, NEW l, Goto(t, l), UNCHANGED loc
  PROVE  Moves(t)
BY Zenon DEF Moves

LEMMA PutThenMoves ==
  ASSUME NEW t, NEW l, NEW r, NEW s, PutThen(t, r, s, l)
  PROVE  Moves(t)
BY GoMoves DEF PutThen

LEMMA PanicMoves ==
  ASSUME NEW t, Panic(t)
  PROVE  Moves(t) /\ UNCHANGED <<cwd, ofile>>
BY GotoMoves DEF Panic, procVars

LEMMA GiveUpMoves ==
  ASSUME NEW t, NEW r, NEW tab, GiveUp(t, r, tab)
  PROVE  Moves(t)
BY PutThenMoves DEF GiveUp

LEMMA DropMoves ==
  ASSUME NEW t, Drop(t)
  PROVE  Moves(t)
BY GoMoves DEF Drop, PutDone

LEMMA StartWalkMoves ==
  ASSUME NEW t, NEW r, NEW p, NEW parent, NEW ret, NEW bad, StartWalk(t, r, p, parent, ret, bad)
  PROVE  Moves(t)
BY GoMoves DEF StartWalk

LEMMA StepAlone ==
  ASSUME Inv, NEW t \in Procs, Step(t) \/ NewCall(t)
  PROVE  Alone(t)
<1>1. CASE End(t) \/ UnlockParent(t)
  BY <1>1, GoMoves, PutThenMoves, MovesAlone DEF End, UnlockParent, procVars
<1>2. CASE Iput(t)
  BY <1>2, DropMoves, GotoMoves, MovesAlone DEF Put, procVars, PutFree, PutInval,
       PutDrop, Iput
<1>3. CASE Namex(t)
  BY <1>3, PutThenMoves, GotoMoves, MovesAlone, GoMoves, PanicMoves DEF WalkEnd,
       WalkFails, procVars, Walk, WalkOn, Namex
<1>4. CASE Create(t) \/ CreateFound(t)
  BY <1>4, PutThenMoves, GotoMoves, GiveUpMoves, PanicMoves, MovesAlone DEF Create, CreateFound, procVars
<1>5. CASE CreateAlloc(t) \/ CreateGet(t)
  BY <1>5, PutThenMoves, GoMoves, MovesAlone DEF CreateAlloc, CreateGet, procVars
<1>6. CASE CreateFill(t) \/ Created(t)
  BY <1>6, PutThenMoves, GotoMoves, GiveUpMoves, PanicMoves, MovesAlone, SMTT(90) DEF CreateFill, Created, procVars
<1>7. CASE SymlinkWrite(t) \/ Open(t)
  BY <1>7, PutThenMoves, GotoMoves, GiveUpMoves, PanicMoves, MovesAlone, Zenon DEF SymlinkWrite, Open, procVars
<1>8. CASE OpenLink(t) \/ OpenNext(t)
  BY <1>8, StartWalkMoves, GoMoves, MovesAlone DEF OpenLink, OpenNext, procVars
<1>9. CASE Opened(t)
  BY <1>9, GoMoves, GiveUpMoves, GotoAlone, LocAlone DEF Opened, Inv, TypeOK, DataOK,
       Moves, Alone
<1>10. CASE Chdir(t)
  BY <1>10, PutThenMoves, GiveUpMoves, PanicMoves, GotoAlone, LocAlone DEF Chdir,
       procVars, Inv, TypeOK, DataOK, Moves, Alone
<1>11. CASE Write(t)
  BY <1>11, GotoMoves, PanicMoves, MovesAlone DEF Write, procVars
<1>12. CASE Link(t) \/ LinkPath(t)
  BY <1>12, GoMoves, GiveUpMoves, PanicMoves, StartWalkMoves, MovesAlone DEF Link, LinkPath, procVars
<1>13. CASE LinkDir(t) \/ LinkBad(t)
  BY <1>13, PutThenMoves, PanicMoves, MovesAlone DEF LinkDir, LinkBad, procVars
<1>14. CASE Unlink(t)
  BY <1>14, PutThenMoves, GoMoves, PanicMoves, MovesAlone DEF Unlink, procVars
<1>15. CASE UnlinkLock(t) \/ UnlinkLast(t)
  BY <1>15, PutThenMoves, GiveUpMoves, PanicMoves, MovesAlone DEF UnlinkLock, UnlinkLast, procVars
<1>16. CASE NewCall(t)
  <2>1. CASE \E q \in Requests : Call(t, q[1], q[2], q[3])
    BY <2>1, StartWalkMoves, MovesAlone DEF Call
  <2>2. CASE BeginWrite(t)
    BY <2>2, GoMoves, MovesAlone DEF BeginWrite
  <2>3. CASE Close(t)
    BY <2>3, PutThenMoves, GotoAlone, LocAlone DEF Close, Inv, TypeOK, DataOK, Moves,
         Alone
  <2>4. QED BY <1>16, <2>1, <2>2, <2>3 DEF NewCall
<1>17. QED
  BY <1>1, <1>2, <1>3, <1>4, <1>5, <1>6, <1>7, <1>8, <1>9, <1>10, <1>11, <1>12, <1>13,
     <1>14, <1>15, <1>16 DEF Step

LEMMA PlaceIs ==
  ASSUME NEW x \in Places
  PROVE  x[1] \in Procs /\ x[2] \in 1..7
BY DEF Places

LEMMA SlotType ==
  ASSUME NEW c \in Inums, NEW o \in Inums, NEW r \in Locals, NEW k \in 1..7
  PROVE  SlotOf(c, o, r, k) \in Inums
<1>1. r.ip \in Inums /\ r.dp \in Inums /\ r.old \in Inums
  BY DEF Locals
<1>2. PICK p \in Seq(Inodes) : p = r.puts
  BY DEF Locals
<1>3. First(p) \in Inums /\ Second(p) \in Inums
  BY ElementOfSeq DEF First, Second, Inums
<1>4. k = 1 \/ k = 2 \/ k = 3 \/ k = 4 \/ k = 5 \/ k = 6 \/ k = 7
  OBVIOUS
<1> QED BY <1>1, <1>2, <1>3, <1>4 DEF SlotOf

\* The holders of inode i, counted with process t apart, in any state.
LEMMA HoldingCount ==
  ASSUME NEW c \in [Procs -> Inodes], NEW o \in [Procs -> [ip : Inums, writable : BOOLEAN]],
         NEW l \in [Procs -> Locals], NEW t \in Procs, NEW i
  PROVE  /\ Cardinality(Others(SlotsOf(c, o, l), t, i)) \in Nat
         /\ Cardinality(All(SlotsOf(c, o, l), i)) \in Nat
         /\ Cardinality(All(SlotsOf(c, o, l), i))
              = Cardinality(Others(SlotsOf(c, o, l), t, i)) + Count(c[t], o[t].ip, l[t], i)
<1> DEFINE f == SlotsOf(c, o, l)
           R == Others(f, t, i)
           H == All(f, i)
<1>1. f \in [Places -> Inums]
  BY PlaceIs, SlotType DEF Inums, SlotsOf
<1>2. ASSUME NEW k \in 1..7 PROVE f[<<t, k>>] = SlotOf(c[t], o[t].ip, l[t], k)
  BY DEF Places, SlotsOf
<1>3. /\ f[<<t, 1>>] = c[t] /\ f[<<t, 2>>] = o[t].ip /\ f[<<t, 3>>] = l[t].ip
      /\ f[<<t, 4>>] = l[t].dp /\ f[<<t, 5>>] = l[t].old
      /\ f[<<t, 6>>] = First(l[t].puts) /\ f[<<t, 7>>] = Second(l[t].puts)
  <2>1. 1 \in 1..7 /\ 2 \in 1..7 /\ 3 \in 1..7 /\ 4 \in 1..7 /\ 5 \in 1..7 /\ 6 \in 1..7 /\ 7 \in 1..7
    OBVIOUS
  <2>2. /\ f[<<t, 1>>] = SlotOf(c[t], o[t].ip, l[t], 1)
        /\ f[<<t, 2>>] = SlotOf(c[t], o[t].ip, l[t], 2)
        /\ f[<<t, 3>>] = SlotOf(c[t], o[t].ip, l[t], 3)
        /\ f[<<t, 4>>] = SlotOf(c[t], o[t].ip, l[t], 4)
        /\ f[<<t, 5>>] = SlotOf(c[t], o[t].ip, l[t], 5)
        /\ f[<<t, 6>>] = SlotOf(c[t], o[t].ip, l[t], 6)
        /\ f[<<t, 7>>] = SlotOf(c[t], o[t].ip, l[t], 7)
    BY <1>2, <2>1, Zenon
  <2> HIDE DEF f
  <2>3. QED BY <2>2 DEF SlotOf
<1> HIDE DEF f, R, H
<1>a. PICK g \in [Places -> Inums] : g = f
  BY <1>1
<1>b. /\ Cardinality(All(g, i)) \in Nat /\ Cardinality(Others(g, t, i)) \in Nat
      /\ Cardinality(All(g, i)) = Cardinality(Others(g, t, i))
                 + OneAt(g, t, 1, i) + OneAt(g, t, 2, i) + OneAt(g, t, 3, i)
                 + OneAt(g, t, 4, i) + OneAt(g, t, 5, i) + OneAt(g, t, 6, i)
                 + OneAt(g, t, 7, i)
  BY HoldersCount
<1>c. H = All(g, i) /\ R = Others(g, t, i)
  BY <1>a DEF H, R
<1>4. /\ Cardinality(H) \in Nat /\ Cardinality(R) \in Nat
      /\ Cardinality(H) = Cardinality(R)
                 + One(f[<<t, 1>>] = i) + One(f[<<t, 2>>] = i) + One(f[<<t, 3>>] = i)
                 + One(f[<<t, 4>>] = i) + One(f[<<t, 5>>] = i) + One(f[<<t, 6>>] = i)
                 + One(f[<<t, 7>>] = i)
  BY <1>a, <1>b, <1>c DEF OneAt
<1>5. Cardinality(H) = Cardinality(R)
        + One(c[t] = i) + One(o[t].ip = i) + One(l[t].ip = i) + One(l[t].dp = i)
        + One(l[t].old = i) + One(First(l[t].puts) = i) + One(Second(l[t].puts) = i)
  BY <1>3, <1>4, Zenon
<1>7. Cardinality(H) = Cardinality(R) + Count(c[t], o[t].ip, l[t], i)
  <2> DEFINE a1 == One(c[t] = i)
             a2 == One(o[t].ip = i)
             a3 == One(l[t].ip = i)
             a4 == One(l[t].dp = i)
             a5 == One(l[t].old = i)
             a6 == One(First(l[t].puts) = i)
             a7 == One(Second(l[t].puts) = i)
  <2>1. /\ a1 \in Nat /\ a2 \in Nat /\ a3 \in Nat /\ a4 \in Nat /\ a5 \in Nat /\ a6 \in Nat /\ a7 \in Nat
    BY DEF One
  <2>2. Count(c[t], o[t].ip, l[t], i) = a1 + a2 + a3 + a4 + a5 + a6 + a7
    BY DEF Count
  <2>3. Cardinality(H) = Cardinality(R) + a1 + a2 + a3 + a4 + a5 + a6 + a7
    BY <1>5
  <2> HIDE DEF a1, a2, a3, a4, a5, a6, a7, H, R
  <2>4. Cardinality(R) \in Nat
    BY <1>4
  <2>5. QED BY <2>1, <2>2, <2>3, <2>4
<1> QED BY <1>4, <1>7 DEF f, R, H

LEMMA RefIsNat ==
  ASSUME Inv, RefExact
  PROVE  RefNat
<1>1. IsFiniteSet(Places)
  <2>0. 1 \in Int /\ 7 \in Int
    OBVIOUS
  <2>1. IsFiniteSet(1..7) /\ IsFiniteSet(Procs)
    BY <2>0, FS_Interval, FilesAssumption DEF FilesAssumption
  <2>2. QED BY <2>1, FS_Product DEF Places
<1>2. ASSUME NEW i \in Inodes PROVE itable[i].ref >= 0
  <2>1. Cardinality(Holding(i)) \in Nat
    BY <1>1, FS_Subset, FS_CardinalityType DEF Holding
  <2>2. QED BY <2>1, WorldTypes DEF RefExact, DataOK
<1> QED BY <1>2 DEF RefNat

LEMMA HoldingSlots ==
  /\ \A i : Holding(i) = {x \in Places : SlotsOf(cwd, ofile, loc)[x] = i}
  /\ \A i : Holding(i)' = {x \in Places : SlotsOf(cwd', ofile', loc')[x] = i}
BY DEF Holding, SlotsOf, Slot

\* What a step does to one process's pointers, it does to the table's counts.
LEMMA RefExactStep ==
  ASSUME Inv, Inv', RefExact, NEW t \in Procs, Alone(t), RefStep(t)
  PROVE  RefExact'
<1>1. ASSUME NEW i \in Inodes
      PROVE  itable'[i].ref = dropped'[i] + Cardinality(Holding(i)')
  <2> DEFINE f == SlotsOf(cwd, ofile, loc)
             g == SlotsOf(cwd', ofile', loc')
             F == Others(f, t, i)
             G == Others(g, t, i)
  <2>1. F = G
    <3>1. ASSUME NEW x \in Places, x[1] # t PROVE f[x] = g[x]
      BY <3>1, PlaceIs DEF Alone, SlotsOf
    <3> HIDE DEF f, g
    <3>2. QED BY <3>1 DEF Others
  <2>2. /\ cwd \in [Procs -> Inodes] /\ ofile \in [Procs -> [ip : Inums, writable : BOOLEAN]]
        /\ loc \in [Procs -> Locals]
        /\ cwd' \in [Procs -> Inodes] /\ ofile' \in [Procs -> [ip : Inums, writable : BOOLEAN]]
        /\ loc' \in [Procs -> Locals]
    BY DEF Inv, TypeOK, DataOK
  <2>3. /\ Cardinality(F) \in Nat
        /\ Cardinality(All(f, i)) \in Nat
        /\ Cardinality(All(f, i)) = Cardinality(F) + Counted_(t, i)
    BY <2>2, HoldingCount, SMTT(90) DEF Counted_
  <2>4. /\ Cardinality(All(g, i)) \in Nat
        /\ Cardinality(All(g, i)) = Cardinality(G) + Counted_(t, i)'
    BY <2>2, HoldingCount, SMTT(90) DEF Counted_
  <2>5. /\ Holding(i) = All(f, i)
        /\ Holding(i)' = All(g, i)
    BY HoldingSlots DEF All
  <2> HIDE DEF f, g, F, G
  <2>6. /\ itable[i].ref = dropped[i] + Cardinality(Holding(i))
        /\ itable'[i].ref - dropped'[i] - Counted_(t, i)' = itable[i].ref - dropped[i] - Counted_(t, i)
    BY DEF RefExact, RefStep
  <2>7. /\ dropped[i] \in Nat /\ dropped'[i] \in Nat /\ itable[i].ref \in Int /\ itable'[i].ref \in Int
    BY DEF Inv, TypeOK, DataOK, Tables
  <2>8. Counted_(t, i) \in Int /\ Counted_(t, i)' \in Int
    BY DEF Counted_, Count, One
  <2> DEFINE h == Cardinality(Holding(i))
             k == Cardinality(Holding(i)')
             a == Counted_(t, i)
             b == Counted_(t, i)'
  <2>9. h \in Nat /\ k \in Nat /\ a \in Int /\ b \in Int /\ k - b = h - a
    BY <2>1, <2>3, <2>4, <2>5, <2>8
  <2>10. itable[i].ref = dropped[i] + h
         /\ itable'[i].ref - dropped'[i] - b = itable[i].ref - dropped[i] - a
    BY <2>6
  <2> HIDE DEF h, k, a, b
  <2>11. itable'[i].ref = dropped'[i] + k
    BY <2>7, <2>9, <2>10
  <2>12. QED BY <2>11 DEF k
<1> QED BY <1>1 DEF RefExact

\* After a start of the machine each process points to the root, and to nothing else.
Booted == /\ itable = BootTable
          /\ cwd = [t \in Procs |-> ROOTINO]
          /\ ofile = [t \in Procs |-> NoFile]
          /\ inop = {}
          /\ pc = [t \in Procs |-> "idle"]
          /\ loc = [t \in Procs |-> NoLocals]
          /\ lock = [i \in Inodes |-> Nobody]
          /\ dropped = [i \in Inodes |-> 0]

LEMMA BootConstants ==
  /\ BootTable \in Tables
  /\ ROOTINO \in Inodes
  /\ NoFile \in [ip : Inums, writable : BOOLEAN] /\ NoFile.ip = NoInode
  /\ NoLocals \in Locals /\ Has("idle", NoLocals) /\ Fits("idle", NoLocals)
<1>1. FreeDinode \in Dinodes
  BY DEF FreeDinode, Dinode, Dinodes, Types
<1>2. Cardinality(Procs) \in Int
  BY FilesAssumption, FS_CardinalityType DEF FilesAssumption
<1>3. BootTable \in Tables
  BY <1>1, <1>2 DEF BootTable, Tables
<1>4. ROOTINO \in Inodes
  BY FilesAssumption DEF FilesAssumption, ROOTINO, Inodes
<1>5. Has("idle", NoLocals) /\ Fits("idle", NoLocals)
  BY NoLocalsIs DEF Has, HasOld, Fits, IpAt, DpAt, CreateAt, LinkAt, UnlinkAt, NamedAt
<1> QED BY <1>3, <1>4, <1>5, NoLocalsIs DEF NoFile, Inums

LEMMA BootInv ==
  ASSUME Booted, disk \in Disks, committed \in Disks, events \in Nat, orphans \subseteq Inodes,
         strayed \in BOOLEAN
  PROVE  Inv
<1>1. DataOK
  BY BootConstants DEF Booted, DataOK
<1>2. "idle" \in Labels /\ "idle" \notin PutAt
  BY DEF Labels, PutAt
<1>3. TypeOK
  BY <1>1, <1>2, BootConstants DEF Booted, TypeOK
<1>4. ASSUME NEW t \in Procs PROVE Own(t)
  BY <1>2, BootConstants, NoLocalsIs DEF Booted, Due, Shape, Own, FileOK, InOp
<1> QED BY <1>3, <1>4 DEF Inv

LEMMA BootRef ==
  ASSUME Booted
  PROVE  RefExact
<1>1. ASSUME NEW u \in Procs, NEW k \in 1..7, NEW i \in Inodes
      PROVE  Slot(u, k) = i <=> (k = 1 /\ i = ROOTINO)
  <2>1. cwd[u] = ROOTINO /\ ofile[u].ip = NoInode /\ loc[u] = NoLocals
    BY BootConstants DEF Booted
  <2>2. i # NoInode
    BY DEF Inodes, NoInode
  <2>3. /\ SlotOf(ROOTINO, NoInode, NoLocals, 1) = ROOTINO
        /\ SlotOf(ROOTINO, NoInode, NoLocals, 2) = NoInode
        /\ SlotOf(ROOTINO, NoInode, NoLocals, 3) = NoInode
        /\ SlotOf(ROOTINO, NoInode, NoLocals, 4) = NoInode
        /\ SlotOf(ROOTINO, NoInode, NoLocals, 5) = NoInode
        /\ SlotOf(ROOTINO, NoInode, NoLocals, 6) = NoInode
        /\ SlotOf(ROOTINO, NoInode, NoLocals, 7) = NoInode
    BY NoLocalsIs, EmptyPuts DEF SlotOf
  <2>4. k = 1 \/ k = 2 \/ k = 3 \/ k = 4 \/ k = 5 \/ k = 6 \/ k = 7
    OBVIOUS
  <2>5. Slot(u, k) = SlotOf(ROOTINO, NoInode, NoLocals, k)
    BY <2>1 DEF Slot
  <2>6. QED BY <2>2, <2>3, <2>4, <2>5
<1>2. ASSUME NEW i \in Inodes, i # ROOTINO PROVE Holding(i) = {}
  BY <1>1, <1>2, PlaceIs DEF Holding
<1>3. Holding(ROOTINO) = Procs \X {1}
  BY <1>1, BootConstants DEF Holding, Places
<1>4. /\ IsFiniteSet(Procs) /\ Cardinality(Procs) \in Nat
      /\ IsFiniteSet({1}) /\ Cardinality({1}) = 1
  BY FilesAssumption, FS_CardinalityType, FS_Singleton DEF FilesAssumption
<1>5. Cardinality(Procs \X {1}) = Cardinality(Procs) * 1
  BY <1>4, FS_Product
<1>6. Cardinality({}) = 0
  BY FS_EmptySet
<1>7. ASSUME NEW i \in Inodes
      PROVE  itable[i].ref = (IF i = ROOTINO THEN Cardinality(Procs) ELSE 0) /\ dropped[i] = 0
  BY DEF Booted, BootTable
<1>8. Cardinality(Procs \X {1}) = Cardinality(Procs)
  BY <1>4, <1>5
<1>9. ASSUME NEW i \in Inodes PROVE itable[i].ref = dropped[i] + Cardinality(Holding(i))
  <2>1. CASE i = ROOTINO
    BY <1>3, <1>4, <1>7, <1>8, <2>1
  <2>2. CASE i # ROOTINO
    BY <1>2, <1>6, <1>7, <2>2
  <2>3. QED BY <2>1, <2>2
<1> QED BY <1>9 DEF RefExact

LEMMA InitTypes ==
  ASSUME Init
  PROVE  Inv /\ RefExact
<1>1. /\ Dinode("dir", 2, 1) \in Dinodes /\ Dinode("dir", 1, 2) \in Dinodes
      /\ Dinode("file", 1, NoBlock) \in Dinodes /\ FreeDinode \in Dinodes
  BY FilesAssumption DEF FilesAssumption, Dinode, Dinodes, Types, FreeDinode, Blocks
<1>2. /\ 1 \in Blocks /\ 2 \in Blocks /\ 2 \in Inodes /\ 3 \in Inodes
      /\ DirName \in Entries /\ FileName \in Entries /\ "." \in Entries /\ ".." \in Entries
  BY FilesAssumption DEF FilesAssumption, Blocks, Inodes, Entries
<1>3. /\ NoEntries \in [Entries -> Inums]
      /\ ROOTINO \in Inums /\ 2 \in Inums /\ 3 \in Inums
  BY <1>2, BootConstants DEF NoEntries, Inums
<1>4. /\ [NoEntries EXCEPT !["."] = ROOTINO, ![".."] = ROOTINO, ![DirName] = 2] \in [Entries -> Inums]
      /\ [NoEntries EXCEPT !["."] = 2, ![".."] = ROOTINO, ![FileName] = 3] \in [Entries -> Inums]
  BY <1>2, <1>3
<1>5. PICK q \in Strings : q = <<>>
  BY EmptySeq DEF Strings
<1>6. PICK d1, d2, d3, d4 \in Dinodes, e1, e2, e3 \in [Entries -> Inums] :
            /\ d1 = Dinode("dir", 2, 1) /\ d2 = Dinode("dir", 1, 2)
            /\ d3 = Dinode("file", 1, NoBlock) /\ d4 = FreeDinode
            /\ e1 = [NoEntries EXCEPT !["."] = ROOTINO, ![".."] = ROOTINO, ![DirName] = 2]
            /\ e2 = [NoEntries EXCEPT !["."] = 2, ![".."] = ROOTINO, ![FileName] = 3]
            /\ e3 = NoEntries
  BY <1>1, <1>3, <1>4
<1>7. disk = [inode  |-> [i \in Inodes |-> CASE i = ROOTINO -> d1 [] i = 2 -> d2
                                             [] i = 3 -> d3 [] OTHER -> d4],
              used   |-> {1, 2},
              ents   |-> [b \in Blocks |-> CASE b = 1 -> e1 [] b = 2 -> e2 [] OTHER -> e3],
              target |-> [b \in Blocks |-> q]]
  BY <1>5, <1>6 DEF Init
<1>8. disk \in Disks
  BY <1>2, <1>7 DEF Disks
<1>9. Booted /\ committed = disk /\ events = 0 /\ orphans = {} /\ strayed = FALSE
  BY DEF Init, Booted
<1> QED BY <1>8, <1>9, BootInv, BootRef

\* The state after a start of the machine is a good one.
BootState == /\ Booted
             /\ disk \in Disks /\ committed \in Disks /\ events \in Nat
             /\ orphans \subseteq Inodes /\ strayed \in BOOLEAN

LEMMA BootGood == BootState => Inv /\ RefExact
BY BootInv, BootRef DEF BootState

LEMMA CrashTypes ==
  ASSUME Inv, Crash
  PROVE  Inv2'
<1>1. BootState'
  BY DEF Inv, TypeOK, DataOK, Crash, Counted, Booted, BootState
<1>2. (BootState => Inv /\ RefExact)'
  BY BootGood, PTL
<1> QED BY <1>1, <1>2 DEF Inv2

LEMMA Inv2Inductive == Inv2 /\ [Next]_vars => Inv2'
<1> SUFFICES ASSUME Inv2, [Next]_vars PROVE Inv2'
  OBVIOUS
<1>1. Inv /\ RefExact /\ RefNat
  BY RefIsNat DEF Inv2
<1>2. CASE Crash
  BY <1>1, <1>2, CrashTypes
<1>3. ASSUME NEW t \in Procs, Step(t) \/ NewCall(t) PROVE Inv2'
  BY <1>1, <1>3, StepTypes, StepAlone, RefExactStep DEF Inv2
<1>4. CASE UNCHANGED vars
  <2>1. /\ UNCHANGED fsVars /\ UNCHANGED tableVars /\ UNCHANGED procVars
        /\ pc' = pc /\ loc' = loc /\ events' = events /\ UNCHANGED history
    BY <1>4 DEF vars
  <2>2. /\ disk' = disk /\ committed' = committed /\ itable' = itable /\ lock' = lock
        /\ cwd' = cwd /\ ofile' = ofile /\ inop' = inop
        /\ orphans' = orphans /\ dropped' = dropped /\ strayed' = strayed
    BY <2>1 DEF fsVars, tableVars, procVars, history
  <2>3. TypeOK'
    BY <1>1, <2>1, <2>2 DEF Inv, TypeOK, DataOK
  <2>4. ASSUME NEW u \in Procs PROVE Own(u)'
    BY <1>1, <2>1, <2>2, OwnKept DEF Inv
  <2>5. RefExact'
    BY <1>1, <2>1, <2>2 DEF RefExact, Holding, Slot
  <2>6. QED BY <2>3, <2>4, <2>5 DEF Inv2, Inv
<1>5. QED BY <1>2, <1>3, <1>4 DEF Next

LEMMA Inv2Always == Spec => []Inv2
<1>1. Init => Inv2
  BY InitTypes DEF Inv2
<1>2. QED BY <1>1, Inv2Inductive, PTL DEF Spec

\* Every variable has its type, and the locals of each call fit the point of
\* sysfile.c or fs.c it has come to.
THEOREM TypeCorrect == Spec => []TypeOK
<1>1. Inv2 => TypeOK
  BY DEF Inv2, Inv
<1>2. QED BY <1>1, Inv2Always, PTL

\* ip->ref is the number of pointers to the inode that calls, descriptors and
\* working directories have; sys_open's dropped ones are counted too.
THEOREM RefsAreExact == Spec => []RefIsPointers
<1>1. Inv2 => RefIsPointers
  BY HoldingIs DEF Inv2, RefExact, RefIsPointers
<1>2. QED BY <1>1, Inv2Always, PTL

-----------------------------------------------------------------------------
(* References *)

LEMMA SlotIs ==
  ASSUME NEW t \in Procs, NEW i
  PROVE  /\ cwd[t] = i <=> Slot(t, 1) = i
         /\ ofile[t].ip = i <=> Slot(t, 2) = i
         /\ loc[t].ip = i <=> Slot(t, 3) = i
         /\ loc[t].dp = i <=> Slot(t, 4) = i
         /\ loc[t].old = i <=> Slot(t, 5) = i
         /\ First(loc[t].puts) = i <=> Slot(t, 6) = i
         /\ Second(loc[t].puts) = i <=> Slot(t, 7) = i
BY DEF Slot, SlotOf

LEMMA HasPlace ==
  ASSUME NEW t \in Procs, NEW i, HasSlot(t, i)
  PROVE  \E k \in 1..7 : <<t, k>> \in Holding(i)
<1>1. ASSUME NEW k \in 1..7, Slot(t, k) = i PROVE <<t, k>> \in Holding(i)
  BY <1>1 DEF Places, Holding
<1>2. 1 \in 1..7 /\ 2 \in 1..7 /\ 3 \in 1..7 /\ 4 \in 1..7 /\ 5 \in 1..7 /\ 6 \in 1..7 /\ 7 \in 1..7
  OBVIOUS
<1>3. \/ Slot(t, 1) = i \/ Slot(t, 2) = i \/ Slot(t, 3) = i \/ Slot(t, 4) = i
      \/ Slot(t, 5) = i \/ Slot(t, 6) = i \/ Slot(t, 7) = i
  BY SlotIs DEF HasSlot
<1> QED BY <1>1, <1>2, <1>3, Zenon

LEMMA PlacesFinite == IsFiniteSet(Places)
<1>1. 1 \in Int /\ 7 \in Int
  OBVIOUS
<1>2. IsFiniteSet(1..7) /\ IsFiniteSet(Procs)
  BY <1>1, FS_Interval, FilesAssumption DEF FilesAssumption
<1> QED BY <1>2, FS_Product DEF Places

LEMMA HoldingFinite ==
  ASSUME NEW i
  PROVE  IsFiniteSet(Holding(i)) /\ Cardinality(Holding(i)) \in Nat
BY PlacesFinite, FS_Subset, FS_CardinalityType DEF Holding

LEMMA TwoElements ==
  ASSUME NEW S, IsFiniteSet(S), NEW x \in S, NEW y \in S, x # y
  PROVE  Cardinality(S) >= 2
<1>1. IsFiniteSet({x}) /\ Cardinality({x}) = 1
  BY FS_Singleton
<1>2. Cardinality({x} \cup {y}) = 2
  BY <1>1, FS_AddElement
<1>3. {x} \cup {y} \in SUBSET S
  OBVIOUS
<1>4. Cardinality({x} \cup {y}) <= Cardinality(S)
  BY <1>3, FS_Subset
<1>5. Cardinality(S) \in Nat
  BY FS_CardinalityType
<1> QED BY <1>2, <1>4, <1>5

LEMMA OneElement ==
  ASSUME NEW S, IsFiniteSet(S), NEW x \in S
  PROVE  Cardinality(S) >= 1
BY FS_CardinalityType, FS_EmptySet

\* A pointer is counted.
LEMMA RefPositive ==
  ASSUME Inv2, NEW i \in Inodes
  PROVE  /\ \A t \in Procs : HasSlot(t, i) => itable[i].ref > 0
         /\ dropped[i] > 0 => itable[i].ref > 0
<1>1. /\ itable[i].ref = dropped[i] + Cardinality(Holding(i))
      /\ dropped[i] \in Nat /\ Cardinality(Holding(i)) \in Nat
  BY HoldingFinite DEF Inv2, RefExact, Inv, TypeOK, DataOK
<1>2. ASSUME NEW t \in Procs, HasSlot(t, i) PROVE Cardinality(Holding(i)) >= 1
  BY <1>2, HasPlace, HoldingFinite, OneElement
<1> QED BY <1>1, <1>2

\* Of the only pointer to an inode there is no second.
LEMMA RefOne ==
  ASSUME Inv2, NEW i \in Inodes, itable[i].ref = 1, NEW t \in Procs,
         NEW k \in 1..7, Slot(t, k) = i
  PROVE  /\ dropped[i] = 0
         /\ \A u \in Procs \ {t} : ~HasSlot(u, i)
         /\ \A m \in 1..7 : Slot(t, m) = i => m = k
<1>1. /\ itable[i].ref = dropped[i] + Cardinality(Holding(i))
      /\ dropped[i] \in Nat /\ Cardinality(Holding(i)) \in Nat
  BY HoldingFinite DEF Inv2, RefExact, Inv, TypeOK, DataOK
<1>2. ASSUME NEW u \in Procs, NEW m \in 1..7, Slot(u, m) = i PROVE <<u, m>> \in Holding(i)
  BY <1>2 DEF Places, Holding
<1>3. Cardinality(Holding(i)) >= 1
  BY <1>2, HoldingFinite, OneElement
<1>4. dropped[i] = 0 /\ ~(Cardinality(Holding(i)) >= 2)
  BY <1>1, <1>3
<1>5. \A x, y \in Holding(i) : x = y
  BY <1>4, HoldingFinite, TwoElements
<1>6. ASSUME NEW u \in Procs \ {t}, HasSlot(u, i) PROVE FALSE
  BY <1>2, <1>5, <1>6, HasPlace
<1>7. ASSUME NEW m \in 1..7, Slot(t, m) = i PROVE m = k
  BY <1>2, <1>5, <1>7
<1> QED BY <1>4, <1>6, <1>7

LEMMA RefOnePut ==
  ASSUME Inv2, NEW i \in Inodes, itable[i].ref = 1, NEW t \in Procs, First(loc[t].puts) = i
  PROVE  /\ dropped[i] = 0
         /\ \A u \in Procs \ {t} : ~HasSlot(u, i) /\ ~Uses(u, i)
         /\ cwd[t] # i /\ ofile[t].ip # i /\ loc[t].ip # i /\ loc[t].dp # i
         /\ loc[t].old # i /\ Second(loc[t].puts) # i
<1>1. 1 \in 1..7 /\ 2 \in 1..7 /\ 3 \in 1..7 /\ 4 \in 1..7 /\ 5 \in 1..7 /\ 6 \in 1..7 /\ 7 \in 1..7
  OBVIOUS
<1>2. Slot(t, 6) = i
  BY SlotIs
<1>3. /\ dropped[i] = 0
      /\ \A u \in Procs \ {t} : ~HasSlot(u, i)
      /\ \A m \in 1..7 : Slot(t, m) = i => m = 6
  BY <1>1, <1>2, RefOne
<1>4. \A u : Uses(u, i) => HasSlot(u, i)
  BY DEF Uses, HasSlot
<1>5. /\ Slot(t, 1) # i /\ Slot(t, 2) # i /\ Slot(t, 3) # i /\ Slot(t, 4) # i
      /\ Slot(t, 5) # i /\ Slot(t, 7) # i
  BY <1>1, <1>3
<1> QED BY <1>3, <1>4, <1>5, SlotIs

LEMMA RefOneIp ==
  ASSUME Inv2, NEW i \in Inodes, itable[i].ref = 1, NEW t \in Procs, loc[t].ip = i
  PROVE  /\ dropped[i] = 0
         /\ \A u \in Procs \ {t} : ~HasSlot(u, i) /\ ~Uses(u, i)
         /\ cwd[t] # i /\ ofile[t].ip # i /\ loc[t].dp # i /\ loc[t].old # i
         /\ First(loc[t].puts) # i /\ Second(loc[t].puts) # i
<1>1. 1 \in 1..7 /\ 2 \in 1..7 /\ 3 \in 1..7 /\ 4 \in 1..7 /\ 5 \in 1..7 /\ 6 \in 1..7 /\ 7 \in 1..7
  OBVIOUS
<1>2. Slot(t, 3) = i
  BY SlotIs
<1>3. /\ dropped[i] = 0
      /\ \A u \in Procs \ {t} : ~HasSlot(u, i)
      /\ \A m \in 1..7 : Slot(t, m) = i => m = 3
  BY <1>1, <1>2, RefOne
<1>4. \A u : Uses(u, i) => HasSlot(u, i)
  BY DEF Uses, HasSlot
<1>5. /\ Slot(t, 1) # i /\ Slot(t, 2) # i /\ Slot(t, 6) # i /\ Slot(t, 4) # i
      /\ Slot(t, 5) # i /\ Slot(t, 7) # i
  BY <1>1, <1>3
<1> QED BY <1>3, <1>4, <1>5, SlotIs

-----------------------------------------------------------------------------
(* Who holds a lock has a pointer to the inode. *)

LEMMA HoldsHas ==
  ASSUME NEW t, NEW i, Holds(t, i)
  PROVE  HasSlot(t, i) /\ (Uses(t, i) \/ Freed(t, i))
BY DEF Holds, HasSlot, Uses, Freeing, Freed, Window

LEMMA UsesHas ==
  ASSUME NEW t, NEW i, Uses(t, i)
  PROVE  HasSlot(t, i)
BY DEF HasSlot, Uses

LEMMA FreeLock ==
  ASSUME Good, NEW i \in Inodes, lock[i] = Nobody
  PROVE  \A u \in Procs : ~Holds(u, i)
BY FilesAssumption DEF Good, Sound, LocksOK, FilesAssumption

LEMMA MyLock ==
  ASSUME Good, NEW t \in Procs, NEW i \in Inodes, lock[i] \in {Nobody, t}
  PROVE  \A u \in Procs \ {t} : ~Holds(u, i)
BY FilesAssumption DEF Good, Sound, LocksOK, FilesAssumption

\* What a process that may take the lock of an inode finds is what is on disk.
LEMMA InoDisk ==
  ASSUME Good, NEW t \in Procs, NEW i \in Inodes, lock[i] \in {Nobody, t}, ~Freed(t, i)
  PROVE  Ino(i) = disk.inode[i]
BY MyLock DEF Holds, Good, Sound, Coherent, Ino

-----------------------------------------------------------------------------
(* Counting links *)

LEMMA LinksFinite ==
  ASSUME NEW d, NEW dy, NEW i
  PROVE  IsFiniteSet(Links(d, dy, i)) /\ Cardinality(Links(d, dy, i)) \in Nat
<1>1. IsFiniteSet(Inodes)
  BY FilesAssumption, FS_Interval DEF FilesAssumption, Inodes
<1>2. IsFiniteSet(LinkNames)
  BY FilesAssumption, FS_Singleton, FS_Union DEF FilesAssumption, LinkNames
<1>3. IsFiniteSet(Inodes \X LinkNames)
  BY <1>1, <1>2, FS_Product
<1>4. Links(d, dy, i) \in SUBSET (Inodes \X LinkNames)
  BY DEF Links
<1> QED BY <1>3, <1>4, FS_Subset, FS_CardinalityType

LEMMA ProcsFinite ==
  ASSUME NEW S \in SUBSET Procs
  PROVE  IsFiniteSet(S) /\ Cardinality(S) \in Nat
BY FilesAssumption, FS_Subset, FS_CardinalityType DEF FilesAssumption

LEMMA PendingProcs ==
  ASSUME NEW i \in Inodes
  PROVE  Pending[i] \in SUBSET Procs /\ NoPending[i] = {}
BY DEF Pending, NoPending

LEMMA Counted1 ==
  ASSUME NEW d, NEW dy, NEW pend, CountsOK(d, dy, pend), NEW i \in Inodes,
         pend[i] \in SUBSET Procs
  PROVE  /\ d.inode[i].nlink \in Nat
         /\ d.inode[i].nlink = 0 => Links(d, dy, i) = {} /\ pend[i] = {}
         /\ Links(d, dy, i) # {} => d.inode[i].nlink >= 1
         /\ pend[i] # {} => d.inode[i].nlink >= 1
         /\ Links(d, dy, i) # {} /\ pend[i] # {} => d.inode[i].nlink >= 2
<1> DEFINE L == Links(d, dy, i)
           P == pend[i]
           n == d.inode[i].nlink
<1>1. n = Cardinality(L) + Cardinality(P)
  BY DEF CountsOK
<1>2. /\ IsFiniteSet(L) /\ Cardinality(L) \in Nat
      /\ IsFiniteSet(P) /\ Cardinality(P) \in Nat
  BY LinksFinite, ProcsFinite
<1>3. (L # {} => Cardinality(L) >= 1) /\ (P # {} => Cardinality(P) >= 1)
  <2> HIDE DEF L, P
  <2>1. QED BY <1>2, OneElement
<1> HIDE DEF L, P, n
<1>4. /\ n \in Nat
      /\ n = 0 => L = {} /\ P = {}
      /\ L # {} => n >= 1
      /\ P # {} => n >= 1
      /\ L # {} /\ P # {} => n >= 2
  BY <1>1, <1>2, <1>3
<1> QED BY <1>4 DEF L, P, n

LEMMA NewMade ==
  ASSUME Inv, NEW t \in Procs, NEW i, New(t, i)
  PROVE  loc[t].call \in Makes /\ TypeMade(loc[t].call) \in {"file", "dir", "symlink"}
<1>1. pc[t] \in CreateAt /\ pc[t] \notin PutAt \cup {"panic"}
  BY DEF New, CreateAt, PutAt
<1>2. loc[t].call \in Makes
  BY <1>1, LocalTypes DEF Own, Shape, Fits, Due
<1> QED BY <1>2 DEF TypeMade, Makes

LEMMA FreeNlink ==
  ASSUME NEW d, BlocksOK(d), NEW i \in Inodes, d.inode[i].type = "none"
  PROVE  d.inode[i].nlink = 0 /\ d.inode[i].addr = NoBlock
BY DEF BlocksOK, FreeDinode, Dinode

LEMMA CountedFresh ==
  ASSUME Good, NEW i \in Inodes, disk.inode[i].nlink # 0, NEW t \in Procs
  PROVE  Fresh(t, i)
<1>1. Type(i) # "none"
  BY FreeNlink DEF Good, Sound, TreeOK, Tree, Type
<1>2. ASSUME NEW u \in Procs, New(u, i) PROVE FALSE
  <2>1. disk.inode[i] = Dinode(TypeMade(loc[u].call), 0, NoBlock)
    BY <1>2 DEF Good, Sound, OwnOK, NewOK
  <2>2. QED BY <2>1 DEF Dinode
<1>3. ASSUME NEW u \in Procs, Freeing(u, i) PROVE FALSE
  BY <1>3 DEF Good, Sound, OwnOK, PutOK
<1> QED BY <1>1, <1>2, <1>3 DEF Fresh

LEMMA DyingLocked ==
  ASSUME Good, NEW t \in Procs, NEW i \in Inodes, lock[i] \in {Nobody, t},
         ~DyingAt(t, i)
  PROVE  i \notin Dying
BY MyLock DEF DyingAt, Holds, LockIp, Dying

\* What a lookup in a directory that is not removed finds.
LEMMA LookupFresh ==
  ASSUME Good, NEW t \in Procs, NEW j \in Inodes, Type(j) = "dir", Uses(t, j),
         lock[j] = Nobody, NEW n \in Entries \cup {Junk},
         NEW i, i = Lookup(disk.inode[j], n), i # NoInode,
         ~(Removed(disk.inode[j]) /\ n = "..")
  PROVE  /\ i \in Inodes
         /\ Uses(t, i) \/ Fresh(t, i)
         /\ n # "." => disk.inode[i].nlink # 0
<1> DEFINE ino == disk.inode[j]
<1>0. disk \in Disks /\ ino \in Dinodes /\ Inv
  BY WorldTypes DEF Good, Inv2, Disks
<1>1. i \in Inodes
  BY <1>0, LookupIs DEF Inums
<1>2. n # Junk /\ ino.addr # NoBlock /\ i = Ent(disk, j, n) /\ n \in Entries
  BY DEF Lookup, Ent
<1>3. DotsOK(disk, Dying) /\ CountsOK(disk, Dying, Pending)
  BY DEF Good, Sound, TreeOK, Tree
<1>4. Ent(disk, j, ".") = j
  BY <1>2, <1>3 DEF DotsOK, Type
<1>5. CASE n = "."
  BY <1>1, <1>2, <1>4, <1>5
<1>6. CASE n # "."
  <2>1. n \in LinkNames
    BY <1>2, <1>6 DEF Entries, LinkNames
  <2>2. j \in LiveDirs(disk, Dying)
    <3>1. ~DyingAt(t, j)
      BY FreeLock DEF DyingAt, Holds, LockIp
    <3>2. j \notin Dying
      BY <3>1, DyingLocked
    <3>3. ino.nlink \in Nat
      BY <1>3, Counted1, PendingProcs
    <3>4. CASE ino.nlink = 0
      BY <1>2, <1>3, <2>1, <3>4 DEF LinkNames, Removed, LiveDirs, DotsOK, Type
    <3>5. CASE ino.nlink # 0
      BY <3>2, <3>3, <3>5 DEF LiveDirs, Type
    <3>6. QED BY <3>4, <3>5
  <2>3. <<j, n>> \in Links(disk, Dying, i)
    BY <1>2, <2>1, <2>2 DEF Links
  <2>4. disk.inode[i].nlink >= 1 /\ disk.inode[i].nlink \in Nat
    BY <1>1, <1>3, <2>3, Counted1, PendingProcs
  <2>5. disk.inode[i].nlink # 0
    BY <2>4
  <2>6. QED BY <1>1, <2>5, CountedFresh
<1>7. QED BY <1>5, <1>6

\* A live directory has its entries "." and "..".
LEMMA NoDots ==
  ASSUME NEW d, NEW dy, DotsOK(d, dy), ParentsOK(d, dy), RootOK(d, dy),
         NEW j \in LiveDirs(d, dy), NEW n \in Entries, Ent(d, j, n) = NoInode
  PROVE  n \in Names
BY DEF LiveDirs, DotsOK, Inodes, NoInode, RootOK, ParentsOK, Entries

-----------------------------------------------------------------------------
(* What a step of process t leaves the others *)

LEMMA Others_ ==
  ASSUME NEW t \in Procs, Alone(t), NEW u \in Procs \ {t}
  PROVE  /\ pc'[u] = pc[u] /\ loc'[u] = loc[u] /\ cwd'[u] = cwd[u] /\ ofile'[u] = ofile[u]
         /\ Due(u)' = Due(u)
         /\ \A i : /\ HasSlot(u, i)' <=> HasSlot(u, i)
                   /\ Uses(u, i)' <=> Uses(u, i)
                   /\ New(u, i)' <=> New(u, i)
                   /\ Freeing(u, i)' <=> Freeing(u, i)
                   /\ Freed(u, i)' <=> Freed(u, i)
                   /\ Holds(u, i)' <=> Holds(u, i)
                   /\ DyingAt(u, i)' <=> DyingAt(u, i)
                   /\ PendingAt(u, i)' <=> PendingAt(u, i)
                   /\ Writes(u, i)' <=> Writes(u, i)
<1>1. pc'[u] = pc[u] /\ loc'[u] = loc[u] /\ cwd'[u] = cwd[u] /\ ofile'[u] = ofile[u]
  BY DEF Alone
<1>2. Due(u)' = Due(u)
  BY <1>1 DEF Due
<1>3. \A i : /\ HasSlot(u, i)' <=> HasSlot(u, i)
             /\ Uses(u, i)' <=> Uses(u, i)
  BY <1>1 DEF HasSlot, Uses
<1>4. \A i : /\ New(u, i)' <=> New(u, i)
             /\ Freeing(u, i)' <=> Freeing(u, i)
             /\ Freed(u, i)' <=> Freed(u, i)
             /\ DyingAt(u, i)' <=> DyingAt(u, i)
  BY <1>1, <1>2 DEF New, Freeing, Freed, DyingAt
<1>5. \A i : /\ Holds(u, i)' <=> Holds(u, i)
             /\ PendingAt(u, i)' <=> PendingAt(u, i)
             /\ Writes(u, i)' <=> Writes(u, i)
  BY <1>1, <1>2, <1>4 DEF Holds, PendingAt, Writes
<1> QED BY <1>1, <1>2, <1>3, <1>4, <1>5

\* The only pointer to an inode stays the only one.
LEMMA FreeingKept ==
  ASSUME Good, Inv2', NEW t \in Procs, Alone(t), RefStep(t), SlotsGuar(t),
         NEW u \in Procs \ {t}, NEW i \in Inodes, Freeing(u, i)
  PROVE  itable'[i].ref = 1
<1>1. itable[i].ref = 1 /\ First(loc[u].puts) = i
  BY DEF Good, Sound, OwnOK, PutOK, Freeing
<1>2. Inv2
  BY DEF Good
<1>3. dropped[i] = 0 /\ \A v \in Procs \ {u} : ~HasSlot(v, i) /\ ~Uses(v, i)
  BY <1>1, <1>2, RefOnePut
<1>4. ~HasSlot(t, i) /\ ~Uses(t, i)
  BY <1>3
<1>5. ~Fresh(t, i)
  BY DEF Fresh
<1>6. ~HasSlot(t, i)' /\ dropped'[i] = 0
  BY <1>3, <1>4, <1>5 DEF SlotsGuar
<1>7. Counted_(t, i) = 0
  BY <1>4 DEF HasSlot, Counted_, Count, One
<1>8. Counted_(t, i)' = 0
  BY <1>6 DEF HasSlot, Counted_, Count, One
<1>9. itable'[i].ref - 0 - 0 = 1 - 0 - 0
  BY <1>1, <1>3, <1>6, <1>7, <1>8 DEF RefStep
<1>10. itable'[i].ref \in Int
  BY DEF Inv2, Inv, TypeOK, DataOK, Tables
<1> QED BY <1>9, <1>10

LEMMA PutKept ==
  ASSUME Good, Inv2', NEW t \in Procs, Alone(t), RefStep(t), SlotsGuar(t), TableGuar(t),
         DiskGuar(t), NEW u \in Procs \ {t}
  PROVE  PutOK(u)'
<1>1. ASSUME NEW i \in Inodes, Freeing(u, i)'
      PROVE  /\ itable'[i].ref = 1 /\ itable'[i].valid
             /\ Type(i)' # "none" /\ disk'.inode[i].nlink = 0
  <2>1. Freeing(u, i) /\ Holds(u, i) /\ ~Freed(u, i)
    BY <1>1, Others_ DEF Holds, Freeing, Freed
  <2>2. itable[i].valid /\ Type(i) # "none" /\ disk.inode[i].nlink = 0
    BY <2>1 DEF Good, Sound, OwnOK, PutOK
  <2>3. disk'.inode[i] = disk.inode[i] /\ itable'[i].valid
    BY <2>1, <2>2 DEF DiskGuar, TableGuar
  <2>4. itable'[i].ref = 1
    BY <2>1, FreeingKept
  <2>5. QED BY <2>2, <2>3, <2>4 DEF Type
<1>2. ASSUME NEW i \in Inodes, Freed(u, i)'
      PROVE  itable'[i].valid /\ itable'[i].ino = FreeDinode /\ loc'[u].ip # i /\ loc'[u].dp # i
  BY <1>2, Others_ DEF Holds, Good, Sound, OwnOK, PutOK, TableGuar
<1> QED BY <1>1, <1>2 DEF PutOK

LEMMA NewKept ==
  ASSUME Good, NEW t \in Procs, Alone(t), SlotsGuar(t), DiskGuar(t), NEW u \in Procs \ {t}
  PROVE  NewOK(u)'
<1> SUFFICES ASSUME NEW i \in Inodes, New(u, i)'
             PROVE  /\ disk'.inode[i] = Dinode(TypeMade(loc'[u].call), 0, NoBlock)
                    /\ dropped'[i] = 0
                    /\ \A v \in Procs : v # u => ~Uses(v, i)' /\ ~New(v, i)'
                    /\ cwd'[u] # i /\ ofile'[u].ip # i /\ loc'[u].dp # i /\ loc'[u].old # i
  BY DEF NewOK
<1>1. /\ pc'[u] = pc[u] /\ loc'[u] = loc[u] /\ cwd'[u] = cwd[u] /\ ofile'[u] = ofile[u]
      /\ New(u, i)
  BY Others_
<1>2. /\ disk.inode[i] = Dinode(TypeMade(loc[u].call), 0, NoBlock)
      /\ dropped[i] = 0
      /\ \A v \in Procs : v # u => ~Uses(v, i) /\ ~New(v, i)
      /\ cwd[u] # i /\ ofile[u].ip # i /\ loc[u].dp # i /\ loc[u].old # i
  BY <1>1 DEF Good, Sound, OwnOK, NewOK
<1>3. disk'.inode[i] = disk.inode[i]
  BY <1>1 DEF DiskGuar
<1>4. ~Fresh(t, i) /\ ~Uses(t, i) /\ ~New(t, i) /\ t # u
  BY <1>1, <1>2 DEF Fresh
<1>5. Type(i) # "none"
  BY <1>1, <1>2, NewMade DEF Good, Inv2, Type, Dinode
<1>6. ~Uses(t, i)' /\ ~New(t, i)' /\ dropped'[i] = 0
  BY <1>2, <1>4, <1>5 DEF SlotsGuar
<1>7. ASSUME NEW v \in Procs, v # u PROVE ~Uses(v, i)' /\ ~New(v, i)'
  BY <1>2, <1>6, <1>7, Others_
<1> QED BY <1>1, <1>2, <1>3, <1>6, <1>7

LEMMA NotNoInode == \A i \in Inodes : i # NoInode
BY DEF Inodes, NoInode

LEMMA DirsKept ==
  ASSUME Good, NEW t \in Procs, Alone(t), DiskGuar(t), NEW u \in Procs \ {t}
  PROVE  DirsOK(u)'
<1>1. pc'[u] = pc[u] /\ loc'[u] = loc[u] /\ cwd'[u] = cwd[u] /\ ofile'[u] = ofile[u]
  BY Others_
<1>2. DirsOK(u) /\ cwd[u] \in Inodes /\ loc[u] \in Locals
  BY LocalTypes DEF Good, Inv2, Sound, OwnOK
<1>3. ASSUME NEW i \in Inodes, Uses(u, i) PROVE Type(i)' = Type(i)
  BY <1>3 DEF DiskGuar
<1>4. Type(cwd[u])' = Type(cwd[u])
  BY <1>1, <1>2, <1>3 DEF Uses, Type
<1>5. loc[u].dp # NoInode => Type(loc[u].dp)' = Type(loc[u].dp)
  BY <1>1, <1>2, <1>3 DEF Uses, Locals, Inums, Type
<1>6. loc[u].old # NoInode => Type(loc[u].old)' = Type(loc[u].old)
  BY <1>1, <1>2, <1>3 DEF Uses, Locals, Inums, Type
<1> QED BY <1>1, <1>2, <1>4, <1>5, <1>6 DEF DirsOK, Type

LEMMA AtKept ==
  ASSUME Good, NEW t \in Procs, Alone(t), DiskGuar(t), TableGuar(t), NEW u \in Procs \ {t}
  PROVE  AtOK(u)'
<1> DEFINE l == Due(u)
           r == loc[u]
<1>1. /\ pc'[u] = pc[u] /\ loc'[u] = loc[u] /\ cwd'[u] = cwd[u] /\ ofile'[u] = ofile[u]
      /\ Due(u)' = Due(u)
  BY Others_
<1>2. AtOK(u) /\ loc[u] \in Locals /\ Own(u) /\ pc[u] # "panic"
  BY LocalTypes DEF Good, Inv2, Sound, OwnOK
<1>3. Has(l, r) /\ (l = "write" => ofile[u].writable)
  BY <1>2 DEF Own, Shape
<1>4. l \in LockIp => r.ip \in Inodes /\ Holds(u, r.ip) /\ Uses(u, r.ip)
  BY <1>2, <1>3 DEF Has, IpAt, LockIp, Locals, Inums, Holds, Uses
<1>5. l \in LockDp => r.dp \in Inodes /\ Holds(u, r.dp)
  BY <1>2, <1>3 DEF Has, DpAt, LockDp, Locals, Inums, Holds, Uses
<1>6. l = "write" => ofile[u].ip \in Inodes /\ Uses(u, ofile[u].ip)
  BY <1>2, <1>3, LocalTypes DEF Good, Inv2, Own, FileOK, NoFile, Inums, Uses
<1>7. l \in LockIp => /\ disk'.inode[r.ip] = disk.inode[r.ip]
                      /\ itable[r.ip].valid /\ itable'[r.ip].valid
  BY <1>2, <1>4 DEF AtOK, Good, Sound, OwnOK, PutOK, DiskGuar, TableGuar
<1>8. l \in LockDp => DirKept(r.dp)
  BY <1>5 DEF DiskGuar
<1>9. l = "write" => Type(ofile[u].ip)' = Type(ofile[u].ip)
  BY <1>1, <1>6 DEF DiskGuar, Type
<1>10. l \in {"create_alloc", "create_get", "create_fill", "unlink_lock"} =>
         /\ r.dp \in LiveDirs(disk, Dying)' /\ r.name \in Names
         /\ Ent(disk', r.dp, r.name) = Ent(disk, r.dp, r.name)
  BY <1>2, <1>8 DEF AtOK, LockDp, Entries, DirKept
<1>11. /\ l \in {"symlink_write", "full"} => disk'.inode[r.ip].type = "symlink"
       /\ l = "created" => disk'.inode[r.ip].type = TypeMade(r.call)
       /\ l = "opened" => disk'.inode[r.ip].type \in {"file", "dir"}
       /\ l \in LockIp => itable'[r.ip].valid
       /\ l = "unlink_last" => (disk'.inode[r.ip].type = "dir" => disk'.inode[r.ip].nlink = 1)
  BY <1>2, <1>7 DEF AtOK, LockIp, Type
<1>12. /\ l \in {"create_alloc", "create_get", "create_fill"} =>
            /\ r.dp \in LiveDirs(disk, Dying)' /\ r.name \in Names
            /\ Ent(disk', r.dp, r.name) = NoInode
       /\ l = "unlink_lock" =>
            /\ r.dp \in LiveDirs(disk, Dying)' /\ r.name \in Names
            /\ Ent(disk', r.dp, r.name) = r.ip
  BY <1>2, <1>10 DEF AtOK
<1>13. l = "write" => disk'.inode[ofile[u].ip].type = "file"
  BY <1>1, <1>2, <1>9 DEF AtOK, Type
<1> HIDE DEF l
<1> QED BY <1>1, <1>11, <1>12, <1>13 DEF AtOK, Type, l

LEMMA OthersKept ==
  ASSUME Good, Inv2', NEW t \in Procs, Alone(t), RefStep(t),
         SlotsGuar(t), TableGuar(t), DiskGuar(t)
  PROVE  \A u \in Procs \ {t} : OwnOK(u)'
BY Others_, PutKept, NewKept, DirsKept, AtKept DEF Good, Sound, OwnOK

\* What a step of process t has to keep.
LEMMA Frame ==
  ASSUME Good, Inv2', NEW t \in Procs, Alone(t), RefStep(t),
         SlotsGuar(t), LocksGuar(t), TableGuar(t), DiskGuar(t), WritesGuar(t),
         OwnOK(t)', TreeOK', CommittedOK'
  PROVE  Good'
<1>1. \A u \in Procs : OwnOK(u)'
  BY OthersKept
<1>2. LinksOK'
  BY Others_ DEF Good, Sound, LinksOK, WritesGuar
<1>3. UsedOK'
  BY Others_ DEF SlotsGuar, DiskGuar, Good, Sound, UsedOK
<1>4. LocksOK'
  BY Others_ DEF LocksGuar, Good, Sound, LocksOK
<1>5. Coherent'
  BY Others_ DEF Type, Good, Sound, Coherent, TableGuar
<1> QED BY <1>1, <1>2, <1>3, <1>4, <1>5 DEF Good, Sound

-----------------------------------------------------------------------------
(* Locks *)

LEMMA LockSame ==
  ASSUME Good, NEW t \in Procs, UNCHANGED lock,
         \A i \in Inodes : Holds(t, i)' <=> Holds(t, i)
  PROVE  LocksGuar(t)
BY DEF Good, Sound, LocksOK, LocksGuar

LEMMA LockTaken ==
  ASSUME Good, NEW t \in Procs, NEW k \in Inodes, Locked(t, k), lock[k] = Nobody,
         \A i \in Inodes : Holds(t, i)' <=> Holds(t, i) \/ i = k
  PROVE  LocksGuar(t)
<1>1. lock \in [Inodes -> Procs \cup {Nobody}]
  BY DEF Good, Inv2, Inv, TypeOK, DataOK
<1>2. \A i \in Inodes : lock'[i] = IF i = k THEN t ELSE lock[i]
  BY <1>1 DEF Locked
<1>3. \A i \in Inodes : lock[i] = t <=> Holds(t, i)
  BY DEF Good, Sound, LocksOK
<1>4. ASSUME NEW i \in Inodes
      PROVE  /\ \A u \in Procs \ {t} : lock'[i] = u <=> lock[i] = u
             /\ lock'[i] = t <=> Holds(t, i)'
  BY <1>2, <1>3, FilesAssumption DEF FilesAssumption
<1> QED BY <1>4 DEF LocksGuar

LEMMA LockGiven ==
  ASSUME Good, NEW t \in Procs, NEW k \in Inodes, Unlocked(k), lock[k] = t,
         \A i \in Inodes : Holds(t, i)' <=> Holds(t, i) /\ i # k
  PROVE  LocksGuar(t)
<1>1. lock \in [Inodes -> Procs \cup {Nobody}]
  BY DEF Good, Inv2, Inv, TypeOK, DataOK
<1>2. \A i \in Inodes : lock'[i] = IF i = k THEN Nobody ELSE lock[i]
  BY <1>1 DEF Unlocked
<1>3. \A i \in Inodes : lock[i] = t <=> Holds(t, i)
  BY DEF Good, Sound, LocksOK
<1>4. ASSUME NEW i \in Inodes
      PROVE  /\ \A u \in Procs \ {t} : lock'[i] = u <=> lock[i] = u
             /\ lock'[i] = t <=> Holds(t, i)'
  BY <1>2, <1>3, FilesAssumption DEF FilesAssumption
<1> QED BY <1>4 DEF LocksGuar

LockMoves(t, a, b) == lock' = [lock EXCEPT ![a] = Nobody, ![b] = t]
LEMMA LockMoved ==
  ASSUME Good, NEW t \in Procs, NEW a \in Inodes, NEW b \in Inodes,
         LockMoves(t, a, b), lock[a] = t, lock[b] = Nobody,
         \A i \in Inodes : Holds(t, i)' <=> (Holds(t, i) /\ i # a) \/ i = b
  PROVE  LocksGuar(t)
<1>1. lock \in [Inodes -> Procs \cup {Nobody}]
  BY DEF Good, Inv2, Inv, TypeOK, DataOK
<1>2. \A i \in Inodes : lock'[i] = IF i = b THEN t ELSE IF i = a THEN Nobody ELSE lock[i]
  BY <1>1 DEF LockMoves
<1>3. \A i \in Inodes : lock[i] = t <=> Holds(t, i)
  BY DEF Good, Sound, LocksOK
<1>4. ASSUME NEW i \in Inodes
      PROVE  /\ \A u \in Procs \ {t} : lock'[i] = u <=> lock[i] = u
             /\ lock'[i] = t <=> Holds(t, i)'
  BY <1>2, <1>3, FilesAssumption DEF FilesAssumption
<1> QED BY <1>4 DEF LocksGuar

-----------------------------------------------------------------------------
(* The table, when the disk stays as it is *)

LEMMA TabSame ==
  ASSUME NEW t \in Procs, UNCHANGED itable
  PROVE  TabQuiet(t)
BY DEF TabQuiet

LEMMA TabCached ==
  ASSUME Good, NEW t \in Procs, NEW j \in Inodes, itable' = Cached(itable, j, Ino(j)),
         lock[j] \in {Nobody, t}, Type(j) # "none"
  PROVE  TabQuiet(t)
BY WorldTypes, InoIs, CachedIs DEF Good, Inv2, TabQuiet

LEMMA GetNat ==
  ASSUME Good, NEW i \in Inodes
  PROVE  itable[i].ref \in Nat
BY RefIsNat, WorldTypes DEF Good, Inv2, RefNat, Tables

LEMMA TabGet ==
  ASSUME Good, NEW t \in Procs, NEW g \in Inodes, itable' = Get(itable, g)
  PROVE  TabQuiet(t)
<1>1. itable \in Tables
  BY WorldTypes DEF Good, Inv2
<1>2. itable[g].ref \in Nat
  BY GetNat
<1>3. /\ \A i \in Inodes : i # g => itable'[i] = itable[i]
      /\ itable[g].ref > 0 => /\ itable'[g].valid = itable[g].valid
                              /\ itable'[g].ino = itable[g].ino
      /\ ~(itable[g].ref > 0) => itable'[g].valid = FALSE
  BY <1>1, GetIs
<1>4. itable[g].ref > 0 \/ (itable[g].ref = 0 /\ itable'[g].valid = FALSE)
  BY <1>2, <1>3
<1> QED BY <1>3, <1>4 DEF TabQuiet

LEMMA TabCachedGet ==
  ASSUME Good, NEW t \in Procs, NEW j \in Inodes, NEW g \in Inodes,
         itable' = Get(Cached(itable, j, Ino(j)), g),
         lock[j] \in {Nobody, t}, Type(j) # "none", HasSlot(t, j)
  PROVE  TabQuiet(t)
<1>1. Inv /\ itable \in Tables /\ Ino(j) \in Dinodes
  BY WorldTypes, InoIs DEF Good, Inv2
<1>2. PICK tab \in Tables : tab = Cached(itable, j, Ino(j))
  BY <1>1, CachedIs
<1>3. /\ \A i \in Inodes : i # j => tab[i] = itable[i]
      /\ tab[j].valid /\ tab[j].ino = Ino(j) /\ tab[j].ref = itable[j].ref
  BY <1>1, <1>2, CachedIs
<1>4. itable' = Get(tab, g)
  BY <1>2
<1> DEFINE new == Get(tab, g)
<1>9. /\ \A i \in Inodes : i # g => new[i] = tab[i]
      /\ tab[g].ref > 0 => /\ new[g].valid = tab[g].valid
                           /\ new[g].ino = tab[g].ino
      /\ ~(tab[g].ref > 0) => new[g].valid = FALSE
  BY GetIs
<1> HIDE DEF new
<1>5. /\ \A i \in Inodes : i # g => itable'[i] = tab[i]
      /\ tab[g].ref > 0 => /\ itable'[g].valid = tab[g].valid
                           /\ itable'[g].ino = tab[g].ino
      /\ ~(tab[g].ref > 0) => itable'[g].valid = FALSE
  BY <1>4, <1>9 DEF new
<1>6. itable[g].ref \in Nat /\ itable[j].ref > 0
  BY GetNat, RefPositive DEF Good
<1>7. tab[g].ref = itable[g].ref
  BY <1>3
<1>8. ASSUME NEW i \in Inodes
      PROVE  \/ itable'[i].valid = itable[i].valid /\ itable'[i].ino = itable[i].ino
             \/ ~itable'[i].valid /\ itable[i].ref = 0
             \/ /\ itable'[i].valid /\ itable'[i].ino = Ino(i)
                /\ lock[i] \in {Nobody, t} /\ Type(i) # "none"
  BY <1>3, <1>5, <1>6, <1>7
<1> QED BY <1>8 DEF TabQuiet

LEMMA QuietTable ==
  ASSUME Good, NEW t \in Procs, UNCHANGED disk, TabQuiet(t), pc[t] # "put_inval"
  PROVE  TableGuar(t)
<1> SUFFICES ASSUME NEW i \in Inodes
             PROVE
    /\ (\E u \in Procs \ {t} : Holds(u, i)) /\ itable[i].valid
         => itable'[i].valid /\ itable'[i].ino = itable[i].ino
    /\ itable'[i].valid =>
         \/ itable'[i].ino = disk'.inode[i] /\ Type(i)' # "none"
         \/ Freed(t, i)'
         \/ /\ itable[i].valid /\ itable'[i].ino = itable[i].ino
            /\ disk'.inode[i] = disk.inode[i] /\ ~Freed(t, i)
  BY DEF TableGuar
<1>1. ~Freed(t, i)
  BY DEF Freed
<1>2. CASE itable'[i].valid = itable[i].valid /\ itable'[i].ino = itable[i].ino
  BY <1>1, <1>2
<1>3. CASE ~itable'[i].valid /\ itable[i].ref = 0
  BY <1>3, HoldsHas, RefPositive DEF Good
<1>4. CASE /\ itable'[i].valid /\ itable'[i].ino = Ino(i)
           /\ lock[i] \in {Nobody, t} /\ Type(i) # "none"
  BY <1>1, <1>4, MyLock, InoDisk DEF Type
<1> QED BY <1>2, <1>3, <1>4 DEF TabQuiet

-----------------------------------------------------------------------------
(* Steps that leave the disk as it is *)

LEMMA DueSame ==
  ASSUME NEW t \in Procs, Alone(t), SameDue(t)
  PROVE  Dying' = Dying /\ Pending' = Pending
BY Others_ DEF SameDue, Dying, Pending

LEMMA Quiet ==
  ASSUME Good, Inv2', NEW t \in Procs, Alone(t), RefStep(t), UNCHANGED <<disk, committed>>,
         pc[t] # "put_inval", SameDue(t), SlotsQuiet(t), LocksGuar(t), TabQuiet(t),
         WritesQuiet(t), OwnOK(t)'
  PROVE  Good'
<1>1. Dying' = Dying /\ Pending' = Pending
  BY DueSame
<1>2. TreeOK' /\ CommittedOK'
  BY <1>1 DEF Good, Sound, TreeOK, CommittedOK
<1>3. DiskGuar(t)
  BY <1>1 DEF DiskGuar, Type, DirKept, Ent, LiveDirs
<1>4. TableGuar(t)
  BY QuietTable
<1>5. SlotsGuar(t)
  BY DEF SlotsQuiet, SlotsGuar, Fresh, Type, Good, Sound, UsedOK
<1>6. WritesGuar(t)
  BY DEF WritesQuiet, WritesGuar
<1> QED BY <1>2, <1>3, <1>4, <1>5, <1>6, Frame

-----------------------------------------------------------------------------
(* Where a step leads *)

LEMMA NextsNotPut ==
  \A l \in Nexts : l \notin PutAt \cup {"panic", "create_get", "create_fill"}
BY DEF Nexts, PutAt

LEMMA LandsPut ==
  ASSUME Inv, NEW t \in Procs, pc[t] \notin PutAt \cup {"panic", "idle"},
         NEW r \in Locals, NEW i \in Inodes, NEW l \in Nexts,
         PutThen(t, r, <<i>>, l), UNCHANGED procVars
  PROVE  Lands(t, l, r, i, NoInode)
BY PutOneTypes, NextsNotPut DEF Lands

LEMMA LandsGo ==
  ASSUME Inv, NEW t \in Procs, NEW l \in Labels \ (PutAt \cup {"panic"}), NEW r \in Locals,
         Go(t, l, r), r.puts = <<>>
  PROVE  Lands(t, l, r, NoInode, NoInode)
BY GoType, EmptyPuts DEF Due, Lands

LEMMA LandsGoto ==
  ASSUME Inv, NEW t \in Procs, pc[t] \notin PutAt \cup {"panic"},
         NEW l \in Labels \ (PutAt \cup {"panic"}), Goto(t, l), UNCHANGED loc
  PROVE  Lands(t, l, loc[t], NoInode, NoInode)
<1>1. pc'[t] = l /\ loc'[t] = loc[t]
  BY DEF Goto, Inv, TypeOK
<1>2. Due(t)' = l
  BY <1>1 DEF Due
<1>3. First(loc[t].puts) = NoInode /\ Second(loc[t].puts) = NoInode
  BY NoPuts
<1> QED BY <1>1, <1>2, <1>3 DEF Lands

LEMMA LandsMeans ==
  ASSUME NEW t \in Procs, NEW l, NEW r, NEW a, NEW b, Lands(t, l, r, a, b), NEW i
  PROVE  /\ HasSlot(t, i)' <=> \/ cwd'[t] = i \/ ofile'[t].ip = i
                               \/ r.ip = i \/ r.dp = i \/ r.old = i \/ a = i \/ b = i
         /\ Uses(t, i)' <=> HasSlot(t, i)'
         /\ ~Freeing(t, i)' /\ ~Freed(t, i)'
         /\ Holds(t, i)' <=> (l \in LockIp /\ r.ip = i) \/ (l \in LockDp /\ r.dp = i)
         /\ DyingAt(t, i)' <=> l = "unlink_last" /\ r.ip = i
         /\ PendingAt(t, i)' <=> r.old = i \/ (l = "unlink_last" /\ r.ip = i)
         /\ New(t, i)' <=> /\ pc'[t] = l
                           /\ \/ l = "create_get" /\ r.inum = i
                              \/ l = "create_fill" /\ r.ip = i
<1>1. /\ pc'[t] \in {"put", l} /\ l \notin PutAt /\ l # "panic"
      /\ Due(t)' = l
      /\ loc'[t].ip = r.ip /\ loc'[t].dp = r.dp /\ loc'[t].old = r.old
      /\ loc'[t].inum = r.inum
      /\ First(loc'[t].puts) = a /\ Second(loc'[t].puts) = b
  BY DEF Lands
<1>2. /\ pc'[t] \notin Window /\ pc'[t] # "put_free" /\ pc'[t] # "put_inval"
  BY <1>1 DEF PutAt, Window
<1>3. /\ HasSlot(t, i)' <=> \/ cwd'[t] = i \/ ofile'[t].ip = i
                            \/ r.ip = i \/ r.dp = i \/ r.old = i \/ a = i \/ b = i
      /\ Uses(t, i)' <=> HasSlot(t, i)'
  BY <1>1, <1>2 DEF HasSlot, Uses
<1>4. ~Freeing(t, i)' /\ ~Freed(t, i)'
  BY <1>2 DEF Freeing, Freed
<1>5. Holds(t, i)' <=> (l \in LockIp /\ r.ip = i) \/ (l \in LockDp /\ r.dp = i)
  BY <1>1, <1>4 DEF Holds
<1>6. /\ DyingAt(t, i)' <=> l = "unlink_last" /\ r.ip = i
      /\ PendingAt(t, i)' <=> r.old = i \/ (l = "unlink_last" /\ r.ip = i)
  BY <1>1 DEF DyingAt, PendingAt
<1>7. New(t, i)' <=> /\ pc'[t] = l
                     /\ \/ l = "create_get" /\ r.inum = i
                        \/ l = "create_fill" /\ r.ip = i
  BY <1>1 DEF New
<1> QED BY <1>3, <1>4, <1>5, <1>6, <1>7

\* Where a process is that is not in iput.
LEMMA HereMeans ==
  ASSUME Inv, NEW t \in Procs, pc[t] \notin PutAt \cup {"panic"}
  PROVE  /\ Due(t) = pc[t]
         /\ \A i \in Inodes :
              /\ HasSlot(t, i) <=> \/ cwd[t] = i \/ ofile[t].ip = i
                                   \/ loc[t].ip = i \/ loc[t].dp = i \/ loc[t].old = i
              /\ Uses(t, i) <=> HasSlot(t, i)
              /\ ~Freeing(t, i) /\ ~Freed(t, i)
              /\ Holds(t, i) <=> \/ pc[t] \in LockIp /\ loc[t].ip = i
                                 \/ pc[t] \in LockDp /\ loc[t].dp = i
              /\ DyingAt(t, i) <=> pc[t] = "unlink_last" /\ loc[t].ip = i
              /\ PendingAt(t, i) <=> loc[t].old = i \/ (pc[t] = "unlink_last" /\ loc[t].ip = i)
<1>1. /\ Due(t) = pc[t]
      /\ First(loc[t].puts) = NoInode /\ Second(loc[t].puts) = NoInode
  BY NoPuts
<1>2. /\ pc[t] \notin Window /\ pc[t] # "put_free" /\ pc[t] # "put_inval"
  BY DEF PutAt, Window
<1>3. ASSUME NEW i \in Inodes
      PROVE  /\ HasSlot(t, i) <=> \/ cwd[t] = i \/ ofile[t].ip = i
                                  \/ loc[t].ip = i \/ loc[t].dp = i \/ loc[t].old = i
             /\ Uses(t, i) <=> HasSlot(t, i)
             /\ ~Freeing(t, i) /\ ~Freed(t, i)
  BY <1>1, <1>2, NotNoInode DEF HasSlot, Uses, Freeing, Freed
<1>4. ASSUME NEW i \in Inodes
      PROVE  /\ Holds(t, i) <=> \/ pc[t] \in LockIp /\ loc[t].ip = i
                                \/ pc[t] \in LockDp /\ loc[t].dp = i
             /\ DyingAt(t, i) <=> pc[t] = "unlink_last" /\ loc[t].ip = i
             /\ PendingAt(t, i) <=> loc[t].old = i \/ (pc[t] = "unlink_last" /\ loc[t].ip = i)
  BY <1>1, <1>3 DEF Holds, DyingAt, PendingAt
<1> QED BY <1>1, <1>3, <1>4

-----------------------------------------------------------------------------
(* Locks, by label *)

LEMMA LandLock ==
  ASSUME Inv, NEW t \in Procs, pc[t] \notin PutAt \cup {"panic"},
         NEW l, NEW r, NEW a, NEW b, Lands(t, l, r, a, b)
  PROVE  \A i \in Inodes : /\ Holds(t, i) <=> HeldAt(pc[t], loc[t], i)
                           /\ Holds(t, i)' <=> HeldAt(l, r, i)
BY HereMeans, LandsMeans DEF HeldAt

LEMMA LandSame ==
  ASSUME Good, NEW t \in Procs, pc[t] \notin PutAt \cup {"panic"},
         NEW l, NEW r, NEW a, NEW b, Lands(t, l, r, a, b), UNCHANGED lock,
         \A i \in Inodes : HeldAt(l, r, i) <=> HeldAt(pc[t], loc[t], i)
  PROVE  LocksGuar(t)
BY LandLock, LockSame DEF Good, Inv2

LEMMA LandTaken ==
  ASSUME Good, NEW t \in Procs, pc[t] \notin PutAt \cup {"panic"},
         NEW l, NEW r, NEW a, NEW b, Lands(t, l, r, a, b),
         NEW k \in Inodes, Locked(t, k), Free(k),
         \A i \in Inodes : HeldAt(l, r, i) <=> HeldAt(pc[t], loc[t], i) \/ i = k
  PROVE  LocksGuar(t)
BY LandLock, LockTaken DEF Good, Inv2, Free

LEMMA HeldLock ==
  ASSUME Good, NEW t \in Procs, pc[t] \notin PutAt \cup {"panic"},
         NEW k \in Inodes, HeldAt(pc[t], loc[t], k)
  PROVE  lock[k] = t
BY HereMeans DEF Good, Inv2, HeldAt, Sound, LocksOK

LEMMA LandGiven ==
  ASSUME Good, NEW t \in Procs, pc[t] \notin PutAt \cup {"panic"},
         NEW l, NEW r, NEW a, NEW b, Lands(t, l, r, a, b),
         NEW k \in Inodes, Unlocked(k), HeldAt(pc[t], loc[t], k),
         \A i \in Inodes : HeldAt(l, r, i) <=> HeldAt(pc[t], loc[t], i) /\ i # k
  PROVE  LocksGuar(t)
BY HeldLock, LandLock, LockGiven DEF Good, Inv2

LEMMA LandMoved ==
  ASSUME Good, NEW t \in Procs, pc[t] \notin PutAt \cup {"panic"},
         NEW l, NEW r, NEW a, NEW b, Lands(t, l, r, a, b),
         NEW k \in Inodes, NEW m \in Inodes, LockMoves(t, k, m),
         HeldAt(pc[t], loc[t], k), Free(m),
         \A i \in Inodes : HeldAt(l, r, i) <=> (HeldAt(pc[t], loc[t], i) /\ i # k) \/ i = m
  PROVE  LocksGuar(t)
BY HeldLock, LandLock, LockMoved DEF Good, Inv2, Free

LEMMA LandFree ==
  ASSUME Good, NEW t \in Procs, pc[t] \notin PutAt \cup {"panic"},
         NEW l, NEW r, NEW a, NEW b, Lands(t, l, r, a, b), UNCHANGED lock,
         l \notin LockIp \cup LockDp, pc[t] \notin LockIp \cup LockDp
  PROVE  LocksGuar(t)
BY LandSame DEF HeldAt

-----------------------------------------------------------------------------
(* What is true where a step leads *)

LEMMA PutLanded ==
  ASSUME NEW t \in Procs, NEW l, NEW r, NEW a, NEW b, Lands(t, l, r, a, b)
  PROVE  PutOK(t)'
BY LandsMeans DEF PutOK

LEMMA NewLanded ==
  ASSUME NEW t \in Procs, NEW l, NEW r, NEW a, NEW b, Lands(t, l, r, a, b),
         l \notin {"create_get", "create_fill"}
  PROVE  NewOK(t)'
BY LandsMeans DEF NewOK

LEMMA AtPlain ==
  ASSUME NEW t \in Procs, NEW l \in Plain, NEW r, NEW a, NEW b, Lands(t, l, r, a, b)
  PROVE  AtOK(t)'
BY DEF Lands, AtOK, Plain, LockIp, LockDp

LEMMA WritesNone ==
  ASSUME Inv, NEW t \in Procs, pc[t] \notin PutAt \cup WritesAt
  PROVE  WritesQuiet(t)
BY DEF WritesQuiet, Writes, New, Due, WritesAt

-----------------------------------------------------------------------------
(* A step that leaves the disk as it is *)

\* An inode that process t may have a new pointer to.
Found(t, g) == g = NoInode \/ Uses(t, g) \/ Fresh(t, g)

LEMMA QuietStep ==
  ASSUME Good, Inv2', NEW t \in Procs, Alone(t), RefStep(t), UNCHANGED <<disk, committed>>,
         pc[t] \notin PutAt \cup {"panic", "unlink_last"},
         NEW l, NEW r, NEW a, NEW b, NEW g, Lands(t, l, r, a, b), Found(t, g),
         l \notin {"create_get", "create_fill", "unlink_last"}, r.old = loc[t].old,
         {r.ip, r.dp, a, b, cwd'[t], ofile'[t].ip}
           \subseteq {cwd[t], ofile[t].ip, loc[t].ip, loc[t].dp, loc[t].old, g, NoInode},
         \A i \in Inodes : dropped'[i] # dropped[i] => Uses(t, i),
         cwd'[t] = cwd[t] \/ Type(cwd'[t]) = "dir",
         r.dp \in {NoInode, loc[t].dp} \/ Type(r.dp) = "dir",
         LocksGuar(t), TabQuiet(t), WritesQuiet(t), AtOK(t)'
  PROVE  Good'
<1>1. Inv /\ DirsOK(t)
  BY DEF Good, Inv2, Sound, OwnOK
<1>2. SameDue(t)
  BY <1>1, LandsMeans, HereMeans DEF SameDue
<1>3. SlotsQuiet(t)
  BY <1>1, LandsMeans, NotNoInode, UsesHas, HereMeans DEF HasSlot, Found, SlotsQuiet
<1>4. DirsOK(t)'
  BY <1>1 DEF DirsOK, Lands, Type
<1>5. pc'[t] # "panic"
  BY DEF Lands
<1>6. OwnOK(t)'
  BY <1>4, <1>5, PutLanded, NewLanded DEF OwnOK
<1>7. pc[t] # "put_inval"
  BY DEF PutAt
<1> QED BY <1>2, <1>3, <1>6, <1>7, Quiet

-----------------------------------------------------------------------------
(* namex *)

LEMMA GoodInv ==
  ASSUME Good
  PROVE  Inv /\ Inv2 /\ RefNat
BY RefIsNat DEF Good, Inv2

\* What ilock finds of an inode that a process uses.
LEMMA Ilock ==
  ASSUME Good, NEW t \in Procs, pc[t] \notin PutAt \cup {"panic"},
         NEW i \in Inodes, i \in {ofile[t].ip, loc[t].ip, loc[t].dp, loc[t].old}, Free(i)
  PROVE  /\ Uses(t, i) /\ HasSlot(t, i) /\ lock[i] \in {Nobody, t}
         /\ Ino(i) = disk.inode[i] /\ Ino(i) \in Dinodes /\ Type(i) # "none"
         /\ Ino(i).type # "none"
<1>1. Inv
  BY GoodInv
<1>2. Uses(t, i) /\ HasSlot(t, i) /\ ~Freed(t, i) /\ lock[i] \in {Nobody, t}
  BY <1>1, HereMeans DEF Free
<1>3. Ino(i) = disk.inode[i] /\ Ino(i) \in Dinodes
  BY <1>1, <1>2, InoDisk, InoIs
<1>4. Type(i) # "none"
  BY <1>2 DEF Good, Sound, UsedOK
<1> QED BY <1>2, <1>3, <1>4 DEF Type

LEMMA FoundNone ==
  ASSUME NEW t
  PROVE  Found(t, NoInode)
BY DEF Found

\* Labels of calls that hold no lock, and where iput leads to from there.
LEMMA Unlocked_ ==
  /\ {"end", "link_bad", "walk", "create_found", "open_link"} \subseteq Nexts \cap Plain
  /\ \A l \in {"end", "link_bad", "walk", "create_found", "open_link", "create", "unlink",
               "link_dir", "open", "chdir", "link", "open_next", "link_path", "idle", "write"} :
       /\ l \notin LockIp \cup LockDp /\ l \in Labels \ (PutAt \cup {"panic"})
       /\ l \notin {"create_get", "create_fill", "unlink_last"}
       /\ l # "write" => l \in Plain
       /\ l \notin PutAt \cup WritesAt
BY DEF Nexts, Plain, LockIp, LockDp, Labels, CreateAt, LinkAt, UnlinkAt, IpAt, DpAt, PutAt, WritesAt

LEMMA WalkFailsSound ==
  ASSUME NEW t \in Procs, Going(t), pc[t] = "walk", WalkFails(t), TabQuiet(t),
         UNCHANGED <<fsVars, lock, procVars, dropped>>
  PROVE  Good'
<1> DEFINE r == loc[t]
           q == [r EXCEPT !.ip = NoInode]
           l == r.bad
<1>1. pc[t] \notin PutAt \cup {"panic", "idle", "unlink_last"}
  BY DEF PutAt
<1>2. /\ Inv /\ r \in Locals /\ Has("walk", r) /\ Fits("walk", r)
  BY <1>1, GoodInv, Known DEF Going
<1>3. /\ r.ip \in Inodes /\ l \in {"end", "link_bad"}
      /\ q \in Locals /\ q.ip = NoInode /\ q.dp = r.dp /\ q.old = r.old
  BY <1>2 DEF Has, IpAt, Fits, WalkFits, Locals, Inums
<1>4. UNCHANGED procVars /\ UNCHANGED <<disk, committed, lock, cwd, ofile, dropped>>
  BY DEF fsVars, procVars
<1>5. PutThen(t, q, <<r.ip>>, l)
  BY DEF WalkFails
<1> HIDE DEF q, l
<1>6. Lands(t, l, q, r.ip, NoInode)
  BY <1>1, <1>2, <1>3, <1>4, <1>5, LandsPut, Unlocked_
<1>7. LocksGuar(t) /\ WritesQuiet(t) /\ AtOK(t)'
  <2>1. l \in Plain /\ l \notin LockIp \cup LockDp /\ pc[t] \notin LockIp \cup LockDp
        /\ pc[t] \notin PutAt \cup WritesAt
    BY <1>3, Unlocked_
  <2>2. QED BY <1>1, <1>2, <1>4, <1>6, <2>1, LandFree, WritesNone, AtPlain DEF Going
<1>8. l \notin {"create_get", "create_fill", "unlink_last"}
  BY <1>3
<1> QED BY <1>1, <1>3, <1>4, <1>6, <1>7, <1>8, FoundNone, QuietStep DEF Going

LEMMA WalkEndSound ==
  ASSUME NEW t \in Procs, Going(t), WalkEnd(t)
  PROVE  Good'
<1>1. /\ pc[t] = "walk" /\ pc[t] \notin PutAt \cup {"panic", "idle", "unlink_last"}
      /\ UNCHANGED <<fsVars, tableVars, procVars, events, history>>
  BY DEF WalkEnd, At, PutAt
<1>2. UNCHANGED <<fsVars, lock, procVars, dropped>> /\ UNCHANGED itable
      /\ UNCHANGED <<disk, committed, lock, cwd, ofile, dropped>>
  BY <1>1 DEF tableVars, history, fsVars, procVars
<1>3. TabQuiet(t)
  BY <1>2, TabSame
<1>4. CASE loc[t].parent
  BY <1>1, <1>2, <1>3, <1>4, WalkFailsSound DEF WalkEnd
<1>5. CASE ~loc[t].parent
  <2> DEFINE l == loc[t].ret
  <2>1. Goto(t, l) /\ UNCHANGED loc
    BY <1>5 DEF WalkEnd
  <2>2. Inv /\ WalkFits(loc[t])
    BY <1>1, GoodInv, Known DEF Fits, Going
  <2>3. l \in {"open", "chdir", "link", "open_next"}
    BY <1>5, <2>2 DEF WalkFits, AfterWalk, WithPath, Makes
  <2> HIDE DEF l
  <2>4. Lands(t, l, loc[t], NoInode, NoInode)
    BY <1>1, <2>1, <2>2, <2>3, LandsGoto, Unlocked_
  <2>5. LocksGuar(t) /\ WritesQuiet(t) /\ AtOK(t)'
    <3>1. l \in Plain /\ l \notin LockIp \cup LockDp /\ pc[t] \notin LockIp \cup LockDp
          /\ pc[t] \notin PutAt \cup WritesAt
      BY <1>1, <2>3, Unlocked_
    <3>2. QED BY <1>1, <1>2, <2>2, <2>4, <3>1, LandFree, WritesNone, AtPlain DEF Going
  <2>6. l \notin {"create_get", "create_fill", "unlink_last"}
    BY <2>3
  <2>7. QED BY <1>1, <1>2, <1>3, <2>4, <2>5, <2>6, FoundNone, QuietStep DEF Going
<1> QED BY <1>4, <1>5

LEMMA WalkSound ==
  ASSUME NEW t \in Procs, Going(t), Walk(t)
  PROVE  Good'
<1> DEFINE r == loc[t]
           ino == Ino(r.ip)
           name == Elem(r.path)
           atparent == r.parent /\ Rest(r.path) = <<>>
           next == Lookup(ino, name)
           tab == Cached(itable, r.ip, ino)
<1>1. /\ pc[t] = "walk" /\ pc[t] \notin PutAt \cup {"panic", "idle", "unlink_last"}
      /\ r.path # <<>> /\ Free(r.ip)
  BY DEF Walk, At, PutAt
<1>2. /\ Good /\ Inv /\ r \in Locals /\ Has("walk", r) /\ WalkFits(r)
      /\ r.inum = NoInode /\ r.puts = <<>>
  BY <1>1, GoodInv, Known DEF Fits, Going
<1>3. r.ip \in Inodes
  BY <1>2 DEF Has, IpAt, Inums, Locals
<1>4. /\ Uses(t, r.ip) /\ HasSlot(t, r.ip) /\ lock[r.ip] \in {Nobody, t}
      /\ ino = disk.inode[r.ip] /\ ino \in Dinodes /\ Type(r.ip) # "none" /\ ino.type # "none"
  BY <1>1, <1>2, <1>3, Ilock
<1>5. /\ name \in Entries \cup {Junk} /\ next \in Inums
      /\ r.parent => name \in Entries
  BY <1>1, <1>2, <1>4, ElemIs, LookupIs, FilesAssumption DEF Locals, WalkFits
<1>6. /\ WalkOn(t) /\ UNCHANGED <<fsVars, lock, procVars, dropped>>
      /\ UNCHANGED <<disk, committed, lock, cwd, ofile, dropped>>
  BY <1>4 DEF Walk, fsVars, procVars
<1>7. CASE itable' = tab /\ WalkFails(t)
  BY <1>1, <1>2, <1>3, <1>4, <1>6, <1>7, TabCached, WalkFailsSound
<1>8. CASE /\ ino.type = "dir" /\ atparent /\ itable' = tab
           /\ Go(t, r.ret, [r EXCEPT !.dp = r.ip, !.ip = NoInode, !.name = name])
  <2> DEFINE q == [r EXCEPT !.dp = r.ip, !.ip = NoInode, !.name = name]
             l == r.ret
  <2>1. /\ q \in Locals /\ q.dp = r.ip /\ q.ip = NoInode /\ q.old = r.old /\ q.puts = <<>>
    BY <1>2, <1>3, <1>5, <1>8, ZenonT(90) DEF Locals, Inums
  <2>2. l \in {"create", "unlink", "link_dir"}
    BY <1>2, <1>8 DEF WalkFits
  <2>3. Go(t, l, q)
    BY <1>8
  <2> HIDE DEF q, l
  <2>4. Lands(t, l, q, NoInode, NoInode)
    BY <1>2, <2>1, <2>2, <2>3, LandsGo, Unlocked_
  <2>5. LocksGuar(t) /\ WritesQuiet(t) /\ AtOK(t)' /\ TabQuiet(t)
    <3>1. l \in Plain /\ l \notin LockIp \cup LockDp /\ pc[t] \notin LockIp \cup LockDp
          /\ pc[t] \notin PutAt \cup WritesAt
      BY <1>1, <2>2, Unlocked_
    <3>2. QED
      BY <1>1, <1>2, <1>3, <1>4, <1>6, <1>8, <2>4, <3>1, LandFree, WritesNone, AtPlain, TabCached
  <2>6. l \notin {"create_get", "create_fill", "unlink_last"} /\ Type(q.dp) = "dir"
    BY <1>4, <1>8, <2>1, <2>2 DEF Type
  <2>7. QED BY <1>1, <1>6, <2>1, <2>4, <2>5, <2>6, FoundNone, QuietStep DEF Going
<1>9. CASE /\ ino.type = "dir" /\ next # NoInode
           /\ itable' = Get(tab, next)
           /\ strayed' = (strayed \/ (Removed(ino) /\ name = ".."))
           /\ PutThen(t, [r EXCEPT !.ip = next, !.path = Rest(@)], <<r.ip>>, "walk")
  <2> DEFINE q == [r EXCEPT !.ip = next, !.path = Rest(@)]
  <2>1. /\ q \in Locals /\ q.ip = next /\ q.dp = r.dp /\ q.old = r.old
    BY <1>1, <1>2, <1>5, RestIs DEF Locals, Strings
  <2>2. PutThen(t, q, <<r.ip>>, "walk")
    BY <1>9
  <2> HIDE DEF q
  <2>3. Lands(t, "walk", q, r.ip, NoInode)
    BY <1>1, <1>2, <1>3, <1>6, <2>1, <2>2, LandsPut, Unlocked_
  <2>4. ~(Removed(disk.inode[r.ip]) /\ name = "..")
    BY <1>4, <1>9 DEF Going
  <2>5. Type(r.ip) = "dir" /\ lock[r.ip] = Nobody
    BY <1>1, <1>4, <1>9 DEF Type, Free
  <2>6. /\ next = Lookup(disk.inode[r.ip], name) /\ next # NoInode
        /\ name \in Entries \cup {Junk} /\ Uses(t, r.ip) /\ Good
    BY <1>2, <1>4, <1>5, <1>9
  <2> HIDE DEF next, name, ino
  <2>7. next \in Inodes /\ Found(t, next)
    BY <1>3, <2>4, <2>5, <2>6, LookupFresh DEF Found
  <2>8. LocksGuar(t) /\ WritesQuiet(t) /\ AtOK(t)' /\ TabQuiet(t)
    <3>1. "walk" \in Plain /\ "walk" \notin LockIp \cup LockDp
          /\ pc[t] \notin PutAt \cup WritesAt
      BY <1>1, Unlocked_
    <3>2. TabQuiet(t)
      BY <1>2, <1>3, <1>4, <1>9, <2>7, TabCachedGet DEF ino
    <3>3. QED BY <1>1, <1>2, <1>6, <2>3, <3>1, <3>2, LandFree, WritesNone, AtPlain
  <2>9. QED BY <1>1, <1>6, <2>1, <2>3, <2>7, <2>8, QuietStep DEF Going
<1> QED BY <1>6, <1>7, <1>8, <1>9 DEF WalkOn

-----------------------------------------------------------------------------
(* Giving an inode up *)

LEMMA GiveIpSound ==
  ASSUME NEW t \in Procs, Going(t), pc[t] \notin PutAt \cup {"panic", "idle", "unlink_last"},
         pc[t] \in IpAt, NEW l \in {"end", "link_bad", "open_link", "unlock_dp"},
         NEW q \in Locals, q.ip = NoInode, q.dp = loc[t].dp, q.old = loc[t].old,
         PutThen(t, q, <<loc[t].ip>>, l),
         UNCHANGED <<disk, committed, procVars, dropped>>, TabQuiet(t), WritesQuiet(t),
         \/ UNCHANGED lock /\ pc[t] \notin LockIp /\ (pc[t] \in LockDp <=> l \in LockDp)
         \/ Unlocked(loc[t].ip) /\ pc[t] \in LockIp /\ l \notin LockDp
  PROVE  Good'
<1> DEFINE r == loc[t]
<1>1. /\ Good /\ Inv /\ r \in Locals /\ Has(pc[t], r)
  BY GoodInv, Known DEF Going
<1>2. /\ r.ip \in Inodes
  BY <1>1 DEF Has, IpAt, Locals, Inums
<1>3. UNCHANGED procVars /\ UNCHANGED <<disk, committed, cwd, ofile, dropped>>
  BY DEF procVars
<1>4. PutThen(t, q, <<r.ip>>, l)
  OBVIOUS
<1>5. l \in Nexts /\ l \in Plain /\ l \notin {"create_get", "create_fill", "unlink_last"}
      /\ l \notin LockIp
  BY Unlocked_ DEF Nexts, Plain, LockIp
<1>6. Lands(t, l, q, r.ip, NoInode)
  BY <1>1, <1>2, <1>3, <1>4, <1>5, LandsPut
<1>7. LocksGuar(t)
  BY <1>1, <1>2, <1>5, <1>6, LandSame, LandGiven DEF HeldAt, LockIp, LockDp
<1>8. AtOK(t)'
  BY <1>5, <1>6, AtPlain
<1> QED BY <1>2, <1>3, <1>5, <1>6, <1>7, <1>8, FoundNone, QuietStep DEF Going

LEMMA PutIpSound ==
  ASSUME NEW t \in Procs, Going(t), pc[t] \notin PutAt \cup {"panic", "idle", "unlink_last"},
         pc[t] \in IpAt, NEW l \in {"end", "link_bad", "open_link", "unlock_dp"},
         PutThen(t, [loc[t] EXCEPT !.ip = NoInode], <<loc[t].ip>>, l),
         UNCHANGED <<disk, committed, procVars, dropped>>, TabQuiet(t), WritesQuiet(t),
         \/ UNCHANGED lock /\ pc[t] \notin LockIp /\ (pc[t] \in LockDp <=> l \in LockDp)
         \/ Unlocked(loc[t].ip) /\ pc[t] \in LockIp /\ l \notin LockDp
  PROVE  Good'
<1> DEFINE q == [loc[t] EXCEPT !.ip = NoInode]
<1>1. /\ q \in Locals /\ q.ip = NoInode /\ q.dp = loc[t].dp /\ q.old = loc[t].old
  BY GoodInv, LocalTypes DEF Going, Locals, Inums
<1>2. PutThen(t, q, <<loc[t].ip>>, l)
  OBVIOUS
<1> HIDE DEF q
<1>3. UNCHANGED <<disk, committed, procVars, dropped>>
  OBVIOUS
<1> QED BY <1>1, <1>2, <1>3, GiveIpSound

LEMMA PutDpSound ==
  ASSUME NEW t \in Procs, Going(t), pc[t] \notin PutAt \cup {"panic", "idle", "unlink_last"},
         pc[t] \in DpAt, NEW l \in {"end", "link_bad"},
         PutThen(t, [loc[t] EXCEPT !.dp = NoInode], <<loc[t].dp>>, l),
         UNCHANGED <<disk, committed, procVars, dropped>>, TabQuiet(t), WritesQuiet(t),
         pc[t] \notin LockIp,
         \/ UNCHANGED lock /\ pc[t] \notin LockDp
         \/ Unlocked(loc[t].dp) /\ pc[t] \in LockDp
  PROVE  Good'
<1> DEFINE r == loc[t]
           q == [r EXCEPT !.dp = NoInode]
<1>1. /\ Good /\ Inv /\ r \in Locals /\ Has(pc[t], r)
  BY GoodInv, Known DEF Going
<1>2. /\ r.dp \in Inodes
      /\ q \in Locals /\ q.dp = NoInode /\ q.ip = r.ip /\ q.old = r.old
  BY <1>1 DEF Has, DpAt, Locals, Inums
<1>3. UNCHANGED procVars /\ UNCHANGED <<disk, committed, cwd, ofile, dropped>>
  BY DEF procVars
<1>4. PutThen(t, q, <<r.dp>>, l)
  OBVIOUS
<1> HIDE DEF q
<1>5. l \in Nexts /\ l \in Plain /\ l \notin {"create_get", "create_fill", "unlink_last"}
      /\ l \notin LockIp \cup LockDp
  BY Unlocked_
<1>6. Lands(t, l, q, r.dp, NoInode)
  BY <1>1, <1>2, <1>3, <1>4, <1>5, LandsPut
<1>7. LocksGuar(t)
  BY <1>1, <1>2, <1>5, <1>6, LandFree, LandGiven DEF HeldAt
<1>8. AtOK(t)'
  BY <1>5, <1>6, AtPlain
<1> QED BY <1>2, <1>3, <1>5, <1>6, <1>7, <1>8, FoundNone, QuietStep DEF Going

LEMMA UnlockParentSound ==
  ASSUME NEW t \in Procs, Going(t), UnlockParent(t)
  PROVE  Good'
<1> DEFINE l == IF loc[t].call = "link" THEN "link_bad" ELSE "end"
<1>1. /\ pc[t] = "unlock_dp" /\ Unlocked(loc[t].dp)
      /\ PutThen(t, [loc[t] EXCEPT !.dp = NoInode], <<loc[t].dp>>, l)
      /\ UNCHANGED <<disk, committed, procVars, dropped>> /\ UNCHANGED itable
  BY DEF UnlockParent, At, ParentUnlocked, fsVars, procVars, history
<1>2. /\ pc[t] \notin PutAt \cup {"panic", "idle", "unlink_last"} /\ pc[t] \in DpAt
      /\ pc[t] \notin PutAt \cup WritesAt /\ pc[t] \in LockDp /\ pc[t] \notin LockIp
  BY <1>1 DEF PutAt, DpAt, WritesAt, LockDp, LockIp
<1>3. TabQuiet(t) /\ WritesQuiet(t)
  BY <1>1, <1>2, TabSame, WritesNone, GoodInv DEF Going
<1>4. l \in {"end", "link_bad"}
  OBVIOUS
<1> HIDE DEF l
<1> QED BY <1>1, <1>2, <1>3, <1>4, PutDpSound

-----------------------------------------------------------------------------
(* create(), as long as the disk stays as it is *)

\* A directory that is not removed and nobody holds is live.
LEMMA NotRemoved ==
  ASSUME Good, NEW t \in Procs, NEW j \in Inodes, Type(j) = "dir",
         lock[j] = Nobody, ~Removed(disk.inode[j])
  PROVE  j \in LiveDirs(disk, Dying)
<1>1. ~DyingAt(t, j)
  BY FreeLock DEF DyingAt, Holds, LockIp
<1>2. j \notin Dying
  BY <1>1, DyingLocked
<1>3. disk.inode[j].nlink \in Nat /\ disk.inode[j].nlink # 0
  BY Counted1, PendingProcs DEF Good, Sound, TreeOK, Tree, Removed
<1> QED BY <1>2, <1>3 DEF LiveDirs, Type

LEMMA LiveEntry ==
  ASSUME Good, NEW j \in LiveDirs(disk, Dying), NEW n \in Entries
  PROVE  Lookup(disk.inode[j], n) = Ent(disk, j, n)
<1>1. DotsOK(disk, Dying) /\ n # Junk
  BY FilesAssumption DEF Good, Sound, TreeOK, Tree, FilesAssumption, Entries, Junk
<1>2. disk.inode[j].addr # NoBlock
  BY <1>1 DEF DotsOK, LiveDirs
<1> QED BY <1>1, <1>2 DEF Lookup, Ent

LEMMA LandsDying ==
  ASSUME NEW t \in Procs, Going(t), pc[t] \notin PutAt \cup {"panic", "unlink_last"},
         NEW l, NEW r, NEW a, NEW b, Lands(t, l, r, a, b),
         l # "unlink_last", r.old = loc[t].old
  PROVE  Dying' = Dying /\ Pending' = Pending
BY GoodInv, LandsMeans, HereMeans, DueSame DEF SameDue, Going

LEMMA CreateSound ==
  ASSUME NEW t \in Procs, Going(t), Create(t)
  PROVE  Good'
<1> DEFINE r == loc[t]
           ino == Ino(r.dp)
           i == Lookup(ino, r.name)
           tab == Cached(itable, r.dp, ino)
<1>1. /\ pc[t] = "create" /\ pc[t] \notin PutAt \cup {"panic", "idle", "unlink_last"}
      /\ Free(r.dp)
  BY DEF Create, At, PutAt
<1>2. /\ Good /\ Inv /\ r \in Locals /\ Has("create", r) /\ r.name \in Entries /\ DirsOK(t)
      /\ r.puts = <<>>
  BY <1>1, GoodInv, Known DEF Fits, NamedAt, Going, Good, Sound, OwnOK
<1>3. r.dp \in Inodes /\ r.dp # NoInode /\ r.ip = NoInode
  BY <1>2 DEF Has, IpAt, DpAt, Inums, Locals
<1>4. /\ Uses(t, r.dp) /\ HasSlot(t, r.dp) /\ lock[r.dp] \in {Nobody, t}
      /\ ino = disk.inode[r.dp] /\ ino \in Dinodes /\ Type(r.dp) = "dir" /\ ino.type = "dir"
  BY <1>1, <1>2, <1>3, Ilock DEF DirsOK, Type
<1>5. i \in Inums /\ lock[r.dp] = Nobody
  BY <1>1, <1>2, <1>4, LookupIs DEF Free
<1>6. CASE /\ i # NoInode
           /\ itable' = Get(tab, i)
           /\ strayed' = (strayed \/ (Removed(ino) /\ r.name = ".."))
           /\ PutThen(t, [r EXCEPT !.ip = i, !.dp = NoInode], <<r.dp>>, "create_found")
           /\ UNCHANGED <<fsVars, lock, procVars, events, orphans, dropped>>
  <2> DEFINE q == [r EXCEPT !.ip = i, !.dp = NoInode]
  <2>1. /\ q \in Locals /\ q.ip = i /\ q.dp = NoInode /\ q.old = r.old
    BY <1>2, <1>5 DEF Locals, Inums
  <2>2. /\ PutThen(t, q, <<r.dp>>, "create_found")
        /\ UNCHANGED procVars /\ UNCHANGED <<disk, committed, lock, cwd, ofile, dropped>>
    BY <1>6 DEF fsVars, procVars
  <2>3. /\ i = Lookup(disk.inode[r.dp], r.name) /\ i # NoInode
        /\ r.name \in Entries \cup {Junk}
        /\ ~(Removed(disk.inode[r.dp]) /\ r.name = "..")
    BY <1>2, <1>4, <1>6 DEF Going
  <2>4. itable' = Get(Cached(itable, r.dp, Ino(r.dp)), i)
    BY <1>6
  <2> HIDE DEF q, i, ino
  <2>5. Lands(t, "create_found", q, r.dp, NoInode)
    BY <1>1, <1>2, <1>3, <2>1, <2>2, LandsPut, Unlocked_
  <2>6. i \in Inodes /\ Found(t, i)
    BY <1>2, <1>3, <1>4, <1>5, <2>3, LookupFresh DEF Found
  <2>7. LocksGuar(t) /\ WritesQuiet(t) /\ AtOK(t)' /\ TabQuiet(t)
    <3>1. "create_found" \in Plain /\ "create_found" \notin LockIp \cup LockDp
          /\ "create" \notin LockIp \cup LockDp /\ "create" \notin PutAt \cup WritesAt
      BY Unlocked_
    <3>2. TabQuiet(t)
      BY <1>2, <1>3, <1>4, <2>4, <2>6, TabCachedGet
    <3>3. QED BY <1>1, <1>2, <2>2, <2>5, <3>1, <3>2, LandFree, WritesNone, AtPlain
  <2>8. QED BY <1>1, <1>3, <2>1, <2>2, <2>5, <2>6, <2>7, QuietStep DEF Going
<1>7. CASE /\ i = NoInode
           /\ itable' = tab
           /\ Locked(t, r.dp)
           /\ Goto(t, "create_alloc")
           /\ strayed' = (strayed \/ Removed(ino))
           /\ UNCHANGED <<fsVars, procVars, loc, events, orphans, dropped>>
  <2> DEFINE l == "create_alloc"
  <2>1. UNCHANGED loc /\ UNCHANGED <<disk, committed, cwd, ofile, dropped>>
    BY <1>7 DEF fsVars, procVars
  <2>2. l \in Labels \ (PutAt \cup {"panic"}) /\ l \in LockDp /\ l \notin LockIp
    BY DEF Labels, CreateAt, PutAt, LockDp, LockIp
  <2>3. Lands(t, l, r, NoInode, NoInode)
    BY <1>1, <1>2, <1>7, <2>1, <2>2, LandsGoto
  <2>4. "create" \notin LockIp \cup LockDp /\ "create" \notin PutAt \cup WritesAt
    BY Unlocked_
  <2>5. LocksGuar(t)
    <3>1. \A k \in Inodes : HeldAt(l, r, k) <=> HeldAt(pc[t], loc[t], k) \/ k = r.dp
      BY <1>1, <2>2, <2>4 DEF HeldAt
    <3>2. QED BY <1>1, <1>2, <1>3, <1>7, <2>3, <3>1, LandTaken
  <2>6. TabQuiet(t) /\ WritesQuiet(t)
    BY <1>1, <1>2, <1>3, <1>4, <1>7, <2>4, TabCached, WritesNone
  <2>7. r.dp \in LiveDirs(disk, Dying)
    BY <1>2, <1>3, <1>4, <1>5, <1>7, NotRemoved DEF Going
  <2>8. r.name \in Names /\ Ent(disk, r.dp, r.name) = NoInode
    BY <1>2, <1>4, <1>7, <2>7, LiveEntry, NoDots DEF Good, Sound, TreeOK, Tree
  <2>9. Dying' = Dying
    BY <1>1, <2>3, LandsDying
  <2>10. AtOK(t)'
    BY <2>1, <2>2, <2>3, <2>7, <2>8, <2>9 DEF Lands, AtOK
  <2>11. QED BY <1>1, <2>1, <2>3, <2>5, <2>6, <2>10, FoundNone, QuietStep DEF Going
<1> QED BY <1>4, <1>6, <1>7 DEF Create

LEMMA CreateFoundSound ==
  ASSUME NEW t \in Procs, Going(t), CreateFound(t)
  PROVE  Good'
<1> DEFINE r == loc[t]
           ino == Ino(r.ip)
<1>1. /\ pc[t] = "create_found" /\ pc[t] \notin PutAt \cup {"panic", "idle", "unlink_last"}
      /\ Free(r.ip)
  BY DEF CreateFound, At, PutAt
<1>2. /\ Good /\ Inv /\ r \in Locals /\ Has("create_found", r) /\ r.puts = <<>>
      /\ r.call \in Makes
  BY <1>1, GoodInv, Known DEF Fits, CreateAt, Going
<1>3. r.ip \in Inodes /\ "create_found" \in IpAt
  BY <1>2 DEF Has, IpAt, Inums, Locals
<1>4. /\ Uses(t, r.ip) /\ HasSlot(t, r.ip) /\ lock[r.ip] \in {Nobody, t}
      /\ ino = disk.inode[r.ip] /\ ino \in Dinodes /\ Type(r.ip) # "none" /\ ino.type # "none"
  BY <1>1, <1>2, <1>3, Ilock
<1>5. "create_found" \notin LockIp \cup LockDp /\ "create_found" \notin PutAt \cup WritesAt
  BY Unlocked_
<1>6. WritesQuiet(t)
  BY <1>1, <1>2, <1>5, WritesNone
<1>7. CASE /\ GiveUp(t, r, Cached(itable, r.ip, ino))
           /\ UNCHANGED <<fsVars, lock, procVars, events, history>>
  <2>1. TabQuiet(t)
    BY <1>2, <1>3, <1>4, <1>7, TabCached DEF GiveUp
  <2>2. "end" \notin LockDp
    BY DEF LockDp
  <2>3. /\ PutThen(t, [loc[t] EXCEPT !.ip = NoInode], <<loc[t].ip>>, "end")
        /\ UNCHANGED <<disk, committed, procVars, dropped>> /\ UNCHANGED lock
    BY <1>7 DEF GiveUp, fsVars, history
  <2>4. QED BY <1>1, <1>3, <1>5, <1>6, <2>1, <2>2, <2>3, PutIpSound
<1>8. CASE /\ r.call # "mkdir" /\ ino.type = TypeMade(r.call)
           /\ itable' = Cached(itable, r.ip, ino)
           /\ Locked(t, r.ip)
           /\ Goto(t, IF r.call = "creat" THEN "opened" ELSE "symlink_write")
           /\ UNCHANGED <<fsVars, procVars, loc, events, history>>
  <2> DEFINE l == IF r.call = "creat" THEN "opened" ELSE "symlink_write"
  <2>1. UNCHANGED loc /\ UNCHANGED <<disk, committed, cwd, ofile, dropped>>
    BY <1>8 DEF fsVars, procVars, history
  <2>2. /\ l \in Labels \ (PutAt \cup {"panic"}) /\ l \in LockIp /\ l \notin LockDp
        /\ l \notin {"create_get", "create_fill", "unlink_last"}
    BY DEF Labels, IpAt, PutAt, LockDp, LockIp
  <2>3. /\ l = "opened" => Type(r.ip) = "file"
        /\ l = "symlink_write" => Type(r.ip) = "symlink"
        /\ l \in {"opened", "symlink_write"}
    BY <1>2, <1>4, <1>8 DEF Makes, TypeMade, Type
  <2>4. Goto(t, l)
    BY <1>8
  <2> HIDE DEF l
  <2>5. Lands(t, l, r, NoInode, NoInode)
    BY <1>1, <1>2, <2>1, <2>2, <2>4, LandsGoto
  <2>6. LocksGuar(t)
    <3>1. \A k \in Inodes : HeldAt(l, r, k) <=> HeldAt(pc[t], loc[t], k) \/ k = r.ip
      BY <1>1, <1>5, <2>2 DEF HeldAt
    <3>2. QED BY <1>1, <1>2, <1>3, <1>8, <2>5, <3>1, LandTaken
  <2>7. TabQuiet(t)
    BY <1>2, <1>3, <1>4, <1>8, TabCached
  <2>8. itable'[r.ip].valid
    BY <1>2, <1>3, <1>4, <1>8, WorldTypes, CachedIs
  <2>9. AtOK(t)'
    BY <2>1, <2>3, <2>5, <2>8 DEF Lands, AtOK, Type
  <2>10. QED
    BY <1>1, <1>6, <2>1, <2>2, <2>5, <2>6, <2>7, <2>9, FoundNone, QuietStep DEF Going
<1> QED BY <1>4, <1>7, <1>8 DEF CreateFound

\* No inode is left.
LEMMA CreateAllocFails ==
  ASSUME NEW t \in Procs, Going(t), pc[t] = "create_alloc", Unlocked(loc[t].dp),
         PutThen(t, [loc[t] EXCEPT !.dp = NoInode], <<loc[t].dp>>, "end"),
         UNCHANGED <<disk, committed, itable, procVars, dropped>>
  PROVE  Good'
<1>1. /\ pc[t] \notin PutAt \cup {"panic", "idle", "unlink_last"} /\ pc[t] \in DpAt
      /\ pc[t] \notin PutAt \cup WritesAt /\ pc[t] \in LockDp /\ pc[t] \notin LockIp
  BY DEF PutAt, DpAt, WritesAt, LockDp, LockIp
<1>2. TabQuiet(t) /\ WritesQuiet(t)
  BY <1>1, TabSame, WritesNone, GoodInv DEF Going
<1>3. UNCHANGED <<disk, committed, procVars, dropped>>
  OBVIOUS
<1> QED BY <1>1, <1>2, <1>3, PutDpSound

\* A new inode is nobody's but who made it.
LEMMA NewFresh ==
  ASSUME Good, NEW t \in Procs, NEW i \in Inodes, New(t, i)
  PROVE  Fresh(t, i)
<1>1. NewOK(t) /\ Inv
  BY GoodInv DEF Good, Sound, OwnOK
<1>2. Type(i) # "none"
  BY <1>1, NewMade DEF NewOK, Dinode, Type
<1>3. ASSUME NEW u \in Procs \ {t} PROVE ~New(u, i) /\ ~Freeing(u, i)
  BY <1>1 DEF NewOK, Freeing, Uses, Window
<1> QED BY <1>2, <1>3 DEF Fresh

LEMMA CreateGetSound ==
  ASSUME NEW t \in Procs, Going(t), CreateGet(t)
  PROVE  Good'
<1> DEFINE r == loc[t]
           q == [r EXCEPT !.ip = r.inum, !.inum = NoInode]
<1>1. /\ pc[t] = "create_get" /\ pc[t] \notin PutAt \cup {"panic", "idle", "unlink_last"}
      /\ itable' = Get(itable, r.inum) /\ Go(t, "create_fill", q)
      /\ UNCHANGED <<disk, committed, lock, cwd, ofile, dropped>>
  BY DEF CreateGet, At, PutAt, fsVars, procVars, history
<1>2. /\ Good /\ Inv /\ r \in Locals /\ Has("create_get", r) /\ r.puts = <<>>
      /\ r.inum # NoInode /\ NewOK(t) /\ AtOK(t) /\ DirsOK(t)
  BY <1>1, GoodInv, Known DEF Going, Good, Sound, OwnOK
<1>3. /\ r.inum \in Inodes /\ r.ip = NoInode /\ r.dp # NoInode /\ r.dp \in Inodes
      /\ q \in Locals /\ q.ip = r.inum /\ q.dp = r.dp /\ q.old = r.old /\ q.name = r.name
      /\ q.call = r.call /\ q.puts = <<>>
  BY <1>2 DEF Has, IpAt, DpAt, Locals, Inums
<1>4. "create_fill" \in Labels \ (PutAt \cup {"panic"})
  BY DEF Labels, CreateAt, PutAt
<1> HIDE DEF q
<1>5. Lands(t, "create_fill", q, NoInode, NoInode) /\ pc'[t] = "create_fill"
  BY <1>1, <1>2, <1>3, <1>4, LandsGo, GoType
<1>6. /\ \A i \in Inodes : New(t, i) <=> i = r.inum
      /\ \A i \in Inodes : New(t, i)' <=> i = r.inum
  BY <1>1, <1>3, <1>5, LandsMeans DEF New
<1>7. Fresh(t, r.inum) /\ New(t, r.inum)
  BY <1>2, <1>3, <1>6, NewFresh
<1>8. SlotsQuiet(t)
  <2>1. ASSUME NEW i \in Inodes
        PROVE  /\ HasSlot(t, i)' => HasSlot(t, i) \/ Fresh(t, i)
               /\ Uses(t, i)' <=> HasSlot(t, i)'
               /\ Uses(t, i) <=> HasSlot(t, i)
    <3>1. HasSlot(t, i)' <=> \/ cwd[t] = i \/ ofile[t].ip = i
                             \/ r.inum = i \/ r.dp = i \/ r.old = i
      BY <1>1, <1>3, <1>5, LandsMeans, NotNoInode
    <3>2. HasSlot(t, i)' => HasSlot(t, i) \/ r.inum = i
      BY <3>1 DEF HasSlot
    <3>3. QED BY <1>1, <1>2, <1>5, <1>7, <3>2, LandsMeans, HereMeans
  <2>2. QED BY <1>1, <1>6, <2>1 DEF SlotsQuiet
<1>9. SameDue(t)
  BY <1>1, <1>2, <1>3, <1>5, LandsMeans, HereMeans DEF SameDue
<1>10. Dying' = Dying
  BY <1>9, DueSame DEF Going
<1>11. LocksGuar(t)
  BY <1>1, <1>2, <1>3, <1>5, LandSame DEF HeldAt, LockIp, LockDp
<1>12. TabQuiet(t)
  BY <1>1, <1>2, <1>3, TabGet
<1>13. WritesQuiet(t)
  BY <1>1, <1>2, <1>6, HereMeans DEF Writes, WritesQuiet
<1>14. NewOK(t)'
  <2>1. PICK k \in Inodes : k = r.inum
    BY <1>3
  <2>2. ASSUME NEW u \in Procs, u # t PROVE ~Uses(u, k)' /\ ~New(u, k)'
    BY <1>2, <1>6, <2>1, <2>2, Others_ DEF Going, NewOK
  <2>3. /\ loc'[t].dp = r.dp /\ loc'[t].old = r.old /\ loc'[t].call = r.call
    BY <1>3, <1>5 DEF Lands
  <2>4. /\ disk.inode[k] = Dinode(TypeMade(r.call), 0, NoBlock) /\ dropped[k] = 0
        /\ cwd[t] # k /\ ofile[t].ip # k /\ r.dp # k /\ r.old # k
    BY <1>2, <1>6, <2>1 DEF NewOK
  <2>5. \A i \in Inodes : New(t, i)' <=> i = k
    BY <1>6, <2>1
  <2>6. QED BY <1>1, <2>2, <2>3, <2>4, <2>5 DEF NewOK
<1>15. AtOK(t)'
  BY <1>1, <1>2, <1>3, <1>5, <1>10, HereMeans DEF Lands, AtOK, LockIp
<1>16. OwnOK(t)'
  BY <1>1, <1>2, <1>3, <1>5, <1>14, <1>15, PutLanded DEF DirsOK, Lands, Type, OwnOK
<1>17. pc[t] # "put_inval"
  BY <1>1
<1> QED BY <1>1, <1>8, <1>9, <1>11, <1>12, <1>13, <1>16, <1>17, Quiet DEF Going

\* No block is left for a directory.
LEMMA CreateFillFails ==
  ASSUME NEW t \in Procs, Going(t), pc[t] = "create_fill", Free(loc[t].ip),
         loc[t].call = "mkdir", NEW failed, failed = Dinode(Ino(loc[t].ip).type, 0, NoBlock),
         disk' = OnDisk(disk, loc[t].ip, failed), itable' = Cached(itable, loc[t].ip, failed),
         PutThen(t, [loc[t] EXCEPT !.ip = NoInode], <<loc[t].ip>>, "unlock_dp"),
         UNCHANGED <<committed, lock, procVars, dropped>>
  PROVE  Good'
<1> DEFINE r == loc[t]
<1>1. /\ pc[t] \notin PutAt \cup {"panic", "idle", "unlink_last"} /\ pc[t] \in IpAt
      /\ pc[t] \notin LockIp /\ pc[t] \in LockDp /\ "unlock_dp" \in LockDp
  BY DEF PutAt, IpAt, LockIp, LockDp
<1>2. /\ Good /\ Inv /\ r \in Locals /\ Has("create_fill", r) /\ NewOK(t) /\ disk \in Disks
  BY <1>1, GoodInv, Known, WorldTypes DEF Going, Good, Sound, OwnOK
<1>3. r.ip \in Inodes
  BY <1>2 DEF Has, IpAt, Inums, Locals
<1>4. /\ HasSlot(t, r.ip) /\ lock[r.ip] \in {Nobody, t} /\ Type(r.ip) # "none"
      /\ Ino(r.ip) = disk.inode[r.ip] /\ Ino(r.ip) \in Dinodes
  BY <1>1, <1>2, <1>3, Ilock
<1>5. disk.inode[r.ip] = Dinode("dir", 0, NoBlock)
  BY <1>2, <1>3 DEF New, NewOK, TypeMade
<1>6. failed = disk.inode[r.ip]
  BY <1>4, <1>5 DEF Dinode
<1>7. disk' = disk
  BY <1>2, <1>6 DEF OnDisk, Disks
<1>8. TabQuiet(t)
  BY <1>2, <1>3, <1>4, <1>6, TabCached
<1>9. WritesQuiet(t)
  BY <1>1, <1>2, <1>5, HereMeans DEF Writes, New, Unwritten, Dinode, WritesQuiet
<1>10. UNCHANGED <<disk, committed, procVars, dropped>> /\ UNCHANGED lock
  BY <1>7
<1> QED BY <1>1, <1>8, <1>9, <1>10, PutIpSound

LEMMA CreatedSound ==
  ASSUME NEW t \in Procs, Going(t), Created(t)
  PROVE  Good'
<1> DEFINE r == loc[t]
<1>1. /\ pc[t] = "created" /\ pc[t] \notin PutAt \cup {"panic", "idle", "unlink_last"}
      /\ pc[t] \in IpAt /\ pc[t] \in LockIp /\ pc[t] \notin LockDp
      /\ UNCHANGED <<disk, committed, procVars, dropped>>
  BY DEF Created, At, PutAt, fsVars, history, IpAt, LockIp, LockDp
<1>2. /\ Good /\ Inv /\ r \in Locals /\ Has("created", r) /\ r.puts = <<>> /\ AtOK(t)
      /\ r.call \in Makes /\ Due(t) = "created"
  BY <1>1, GoodInv, Known, HereMeans DEF Going, Good, Sound, OwnOK, Fits, CreateAt
<1>3. Type(r.ip) = TypeMade(r.call) /\ itable[r.ip].valid
  BY <1>1, <1>2 DEF AtOK
<1>4. \A i \in Inodes : Writes(t, i) => i = r.ip
  BY <1>1, <1>2 DEF Writes, New
<1>5. CASE r.call = "mkdir"
  <2>1. /\ Unlocked(r.ip) /\ itable' = itable
        /\ PutThen(t, [r EXCEPT !.ip = NoInode], <<r.ip>>, "end")
    BY <1>5 DEF Created, GiveUp
  <2>2. TabQuiet(t)
    BY <2>1, TabSame
  <2>3. WritesQuiet(t)
    BY <1>3, <1>4, <1>5 DEF WritesQuiet, Unwritten, Type, TypeMade
  <2>4. "end" \notin LockDp
    BY DEF LockDp
  <2>5. UNCHANGED <<disk, committed, procVars, dropped>>
    BY <1>1
  <2>6. QED BY <1>1, <2>1, <2>2, <2>3, <2>4, <2>5, PutIpSound
<1>6. CASE r.call # "mkdir"
  <2> DEFINE l == IF r.call = "creat" THEN "opened" ELSE "symlink_write"
  <2>1. /\ Goto(t, l) /\ UNCHANGED loc /\ UNCHANGED <<itable, lock>>
        /\ UNCHANGED <<disk, committed, cwd, ofile, dropped>>
    BY <1>1, <1>6 DEF Created, tableVars, procVars
  <2>2. /\ l \in Labels \ (PutAt \cup {"panic"}) /\ l \in LockIp /\ l \notin LockDp
        /\ l \notin {"create_get", "create_fill", "unlink_last"}
    BY DEF Labels, IpAt, PutAt, LockDp, LockIp
  <2>3. /\ l = "opened" => Type(r.ip) = "file"
        /\ l = "symlink_write" => Type(r.ip) = "symlink"
        /\ l \in {"opened", "symlink_write"}
    BY <1>2, <1>3, <1>6 DEF Makes, TypeMade
  <2> HIDE DEF l
  <2>4. Lands(t, l, r, NoInode, NoInode)
    BY <1>1, <1>2, <2>1, <2>2, LandsGoto
  <2>5. LocksGuar(t)
    BY <1>1, <1>2, <2>1, <2>2, <2>4, LandSame DEF HeldAt
  <2>6. TabQuiet(t)
    BY <2>1, TabSame
  <2>7. WritesQuiet(t)
    BY <1>4, <2>3, <2>4 DEF Lands, Writes, Unwritten, Type, WritesQuiet
  <2>8. AtOK(t)'
    BY <1>3, <2>1, <2>3, <2>4 DEF Lands, AtOK, Type
  <2>9. QED
    BY <1>1, <2>1, <2>2, <2>4, <2>5, <2>6, <2>7, <2>8, FoundNone, QuietStep DEF Going
<1> QED BY <1>5, <1>6

\* No block is left for a link's target.
LEMMA SymlinkFullSound ==
  ASSUME NEW t \in Procs, Going(t), pc[t] = "symlink_write", Goto(t, "full"),
         UNCHANGED <<fsVars, tableVars, procVars, loc, events, history>>
  PROVE  Good'
<1> DEFINE r == loc[t]
           l == "full"
<1>1. /\ pc[t] \notin PutAt \cup {"panic", "idle", "unlink_last"}
      /\ pc[t] \in LockIp /\ pc[t] \notin LockDp
      /\ UNCHANGED loc /\ UNCHANGED <<itable, lock, disk, committed, cwd, ofile, dropped>>
  BY DEF PutAt, fsVars, tableVars, procVars, history, LockIp, LockDp
<1>2. /\ Good /\ Inv /\ AtOK(t) /\ Due(t) = "symlink_write"
  BY <1>1, GoodInv, HereMeans DEF Going, Good, Sound, OwnOK
<1>3. /\ l \in Labels \ (PutAt \cup {"panic"}) /\ l \in LockIp /\ l \notin LockDp
  BY DEF Labels, IpAt, PutAt, LockDp, LockIp
<1>4. Lands(t, l, r, NoInode, NoInode)
  BY <1>1, <1>2, <1>3, LandsGoto
<1>5. LocksGuar(t)
  BY <1>1, <1>2, <1>3, <1>4, LandSame DEF HeldAt
<1>6. WritesQuiet(t)
  BY <1>2, <1>4 DEF Writes, New, Lands, WritesQuiet
<1>7. TabQuiet(t)
  BY <1>1, TabSame
<1>8. AtOK(t)'
  BY <1>1, <1>2, <1>4 DEF Lands, AtOK, LockIp, Type
<1> QED BY <1>1, <1>3, <1>4, <1>5, <1>6, <1>7, <1>8, FoundNone, QuietStep DEF Going

-----------------------------------------------------------------------------
(* Where calls and walks start *)

LEMMA RootFresh ==
  ASSUME Good, NEW t \in Procs
  PROVE  Found(t, ROOTINO)
BY CountedFresh DEF Good, Sound, TreeOK, Tree, RootOK, LiveDirs, Found

LEMMA WalkStartedSound ==
  ASSUME NEW t \in Procs, Going(t), pc[t] \in {"idle", "open_link", "link_path"},
         NEW r \in Locals, NEW parent, NEW ret, NEW bad, WalkStarted(t, r, parent, ret, bad),
         r.dp = loc[t].dp, r.old = loc[t].old, r.puts = <<>>,
         UNCHANGED <<disk, committed, lock, cwd, ofile, dropped>>
  PROVE  Good'
<1>1. /\ pc[t] \notin PutAt \cup {"panic", "unlink_last"}
      /\ "walk" \notin LockIp \cup LockDp /\ pc[t] \notin LockIp \cup LockDp
      /\ pc[t] \notin PutAt \cup WritesAt /\ "walk" \in Plain
      /\ "walk" \notin PutAt \cup {"panic"}
  BY Unlocked_
<1>2. Good /\ Inv
  BY GoodInv DEF Going
<1>3. PICK i \in Inodes, path \in Strings :
           /\ i \in {ROOTINO, cwd[t]}
           /\ itable' = Get(itable, i)
           /\ pc'[t] = "walk" /\ Due(t)' = "walk"
           /\ loc'[t] = [r EXCEPT !.path = path, !.parent = parent, !.ip = i,
                                  !.ret = ret, !.bad = bad]
  BY DEF WalkStarted
<1>4. PICK s \in Seq(Inodes) : s = <<>>
  BY EmptySeq
<1>5. /\ loc'[t].ip = i /\ loc'[t].dp = r.dp /\ loc'[t].old = r.old
      /\ loc'[t].inum = r.inum /\ loc'[t].call = r.call /\ loc'[t].name = r.name
      /\ loc'[t].puts = r.puts
  BY <1>3 DEF Locals
<1> DEFINE q == [r EXCEPT !.ip = i]
<1>6. /\ q.ip = i /\ q.dp = r.dp /\ q.old = r.old /\ q.inum = r.inum
      /\ q.call = r.call /\ q.name = r.name
  BY DEF Locals
<1> HIDE DEF q
<1>7. Lands(t, "walk", q, NoInode, NoInode)
  BY <1>1, <1>3, <1>5, <1>6, EmptyPuts DEF Lands
<1>8. Found(t, i)
  BY <1>2, <1>3, RootFresh DEF Found, Uses
<1>9. LocksGuar(t) /\ WritesQuiet(t) /\ AtOK(t)' /\ TabQuiet(t)
  <2>1. TabQuiet(t)
    BY <1>2, <1>3, TabGet
  <2>2. LocksGuar(t) /\ WritesQuiet(t) /\ AtOK(t)'
    BY <1>1, <1>2, <1>7, LandFree, WritesNone, AtPlain
  <2>3. QED BY <2>1, <2>2
<1> QED BY <1>1, <1>6, <1>7, <1>8, <1>9, QuietStep DEF Going

LEMMA OpenLinkSound ==
  ASSUME NEW t \in Procs, Going(t), OpenLink(t)
  PROVE  Good'
<1>1. /\ pc[t] = "open_link"
      /\ StartWalk(t, loc[t], loc[t].arg, FALSE, "open_next", "end")
      /\ UNCHANGED <<disk, committed, lock, cwd, ofile, dropped>>
  BY DEF OpenLink, At, fsVars, procVars, history
<1>2. Inv /\ RefNat /\ pc[t] \notin PutAt \cup {"panic"}
  BY <1>1, GoodInv DEF Going, PutAt
<1>3. loc[t] \in Locals /\ loc[t].arg \in Strings /\ "open_next" \in Rets /\ loc[t].puts = <<>>
  BY <1>2, Known DEF Locals, Rets
<1>4. WalkStarted(t, loc[t], FALSE, "open_next", "end")
  BY <1>1, <1>2, <1>3, WalkStarts
<1> QED BY <1>1, <1>3, <1>4, WalkStartedSound

LEMMA LinkPathSound ==
  ASSUME NEW t \in Procs, Going(t), LinkPath(t)
  PROVE  Good'
<1>1. /\ pc[t] = "link_path"
      /\ StartWalk(t, loc[t], loc[t].arg, TRUE, "link_dir", "link_bad")
      /\ UNCHANGED <<disk, committed, lock, cwd, ofile, dropped>>
  BY DEF LinkPath, At, fsVars, procVars, history
<1>2. Inv /\ RefNat /\ pc[t] \notin PutAt \cup {"panic"}
  BY <1>1, GoodInv DEF Going, PutAt
<1>3. /\ loc[t] \in Locals /\ loc[t].arg \in Strings /\ "link_dir" \in Rets
      /\ loc[t].puts = <<>> /\ IsPath(loc[t].arg)
  BY <1>1, <1>2, Known DEF Locals, Rets, Fits
<1>4. WalkStarted(t, loc[t], TRUE, "link_dir", "link_bad")
  BY <1>1, <1>2, <1>3, WalkStarts
<1> QED BY <1>1, <1>3, <1>4, WalkStartedSound

LEMMA IdleNone ==
  ASSUME Inv, NEW t \in Procs, pc[t] = "idle"
  PROVE  /\ pc[t] \notin PutAt \cup {"panic", "unlink_last"}
         /\ loc[t].ip = NoInode /\ loc[t].dp = NoInode /\ loc[t].old = NoInode
BY Known DEF PutAt, Has, HasOld, IpAt, DpAt

LEMMA CallSound ==
  ASSUME NEW t \in Procs, Going(t), NEW z \in Requests, Call(t, z[1], z[2], z[3])
  PROVE  Good'
<1> DEFINE call == z[1]
           p == z[2]
           q == z[3]
           arg == IF call \in {"open", "trunc"} THEN p ELSE q
           r == [NoLocals EXCEPT !.call = call, !.arg = arg]
           parent == call \in Makes \cup {"unlink"}
           ret == AfterWalk(call)
<1>1. /\ call \in WithPath /\ IsPath(p) /\ q \in Seq(Chars)
  BY FilesAssumption DEF FilesAssumption
<1>2. /\ p \in Strings /\ q \in Strings /\ arg \in Strings
  BY <1>1 DEF IsPath, Strings, Chars
<1>3. /\ pc[t] = "idle"
      /\ StartWalk(t, r, p, parent, ret, "end")
      /\ UNCHANGED <<disk, committed, lock, cwd, ofile, dropped>>
  BY DEF Call, Begins, At, fsVars, history
<1>4. parent \in BOOLEAN /\ ret \in Rets
  BY <1>1 DEF AfterWalk, Rets, WithPath, Makes
<1>5. /\ r \in Locals /\ r.dp = NoInode /\ r.old = NoInode /\ r.puts = <<>>
  BY <1>1, <1>2, NoLocalsIs DEF Locals
<1>6. Inv /\ RefNat /\ loc[t].dp = NoInode /\ loc[t].old = NoInode
  BY <1>3, GoodInv, IdleNone DEF Going
<1> HIDE DEF r, parent, ret, p, q, call, arg
<1>7. (parent => IsPath(p)) /\ "end" \in {"end", "link_bad"}
  BY <1>1
<1>8. WalkStarted(t, r, parent, ret, "end")
  BY <1>2, <1>3, <1>4, <1>5, <1>6, <1>7, WalkStarts
<1> QED BY <1>3, <1>5, <1>6, <1>8, WalkStartedSound

LEMMA BeginWriteSound ==
  ASSUME NEW t \in Procs, Going(t), BeginWrite(t)
  PROVE  Good'
<1> DEFINE r == [NoLocals EXCEPT !.call = "write"]
<1>1. /\ pc[t] = "idle" /\ Go(t, "write", r) /\ disk.inode[ofile[t].ip].type = "file"
      /\ UNCHANGED <<disk, committed, itable, lock, cwd, ofile, dropped>>
  BY DEF BeginWrite, Begins, At, fsVars, tableVars, history
<1>2. /\ r \in Locals /\ r.ip = NoInode /\ r.dp = NoInode /\ r.old = NoInode
      /\ r.puts = <<>>
  BY NoLocalsIs DEF Locals
<1>3. /\ Good /\ Inv /\ pc[t] \notin PutAt \cup {"panic", "unlink_last"}
      /\ loc[t].ip = NoInode /\ loc[t].dp = NoInode /\ loc[t].old = NoInode
  BY <1>1, GoodInv, IdleNone DEF Going
<1>4. /\ "write" \in Labels \ (PutAt \cup {"panic"}) /\ "write" \notin LockIp \cup LockDp
      /\ pc[t] \notin LockIp \cup LockDp /\ pc[t] \notin PutAt \cup WritesAt
  BY <1>1, Unlocked_
<1> HIDE DEF r
<1>5. Lands(t, "write", r, NoInode, NoInode)
  BY <1>1, <1>2, <1>3, <1>4, LandsGo
<1>6. LocksGuar(t) /\ WritesQuiet(t) /\ TabQuiet(t)
  BY <1>1, <1>3, <1>4, <1>5, LandFree, WritesNone, TabSame
<1>7. AtOK(t)'
  BY <1>1, <1>5 DEF Lands, AtOK, Type, LockIp
<1> QED BY <1>1, <1>2, <1>3, <1>5, <1>6, <1>7, FoundNone, QuietStep DEF Going

LEMMA CloseSound ==
  ASSUME NEW t \in Procs, Going(t), Close(t)
  PROVE  Good'
<1> DEFINE r == [NoLocals EXCEPT !.call = "close"]
           i == ofile[t].ip
<1>1. /\ pc[t] = "idle" /\ PutThen(t, r, <<i>>, "end")
      /\ ofile[t] # NoFile /\ ofile' = [ofile EXCEPT ![t] = NoFile]
      /\ UNCHANGED <<disk, committed, itable, lock, cwd, dropped>>
  BY DEF Close, Begins, At, fsVars, tableVars, history
<1>2. /\ r \in Locals /\ r.ip = NoInode /\ r.dp = NoInode /\ r.old = NoInode
  BY NoLocalsIs DEF Locals
<1>3. /\ Good /\ Inv /\ pc[t] \notin PutAt \cup {"panic", "unlink_last"}
      /\ loc[t].ip = NoInode /\ loc[t].dp = NoInode /\ loc[t].old = NoInode
  BY <1>1, GoodInv, IdleNone DEF Going
<1>4. /\ "end" \in Nexts /\ "end" \in Plain /\ "end" \notin PutAt \cup {"panic"}
      /\ "end" \notin LockIp \cup LockDp
      /\ pc[t] \notin LockIp \cup LockDp /\ pc[t] \notin PutAt \cup WritesAt
  BY <1>1, Unlocked_
<1>5. i \in Inodes
  BY <1>1, <1>3, LocalTypes DEF Own, FileOK, Inums
<1>6. ofile'[t].ip = NoInode
  BY <1>1, <1>3, WorldTypes DEF DataOK, NoFile
<1> HIDE DEF r, i
<1>7. PICK s \in Seq(Inodes) : s = <<i>> /\ Len(s) \in {1, 2} /\ First(s) = i /\ Second(s) = NoInode
  BY <1>5, Puts1
<1>8. /\ pc'[t] = "put" /\ Due(t)' = "end"
      /\ loc'[t] = [r EXCEPT !.puts = s, !.next = "end"]
  <2>1. PutThen(t, r, s, "end") /\ Len(s) \in {1, 2}
    BY <1>1, <1>7
  <2>2. Inv /\ r \in Locals /\ "end" \in Nexts
    BY <1>2, <1>3, <1>4
  <2>3. QED
    <3>1. /\ pc'[t] = "put" /\ Due(t)' = "end"
      <4>1. PICK l \in Nexts : l = "end"
        BY <2>2
      <4>2. PutThen(t, r, s, l)
        BY <2>1, <4>1
      <4>3. pc'[t] = "put" /\ Due(t)' = l
        BY <2>1, <2>2, <4>2, PutThenIs
      <4>4. QED BY <4>1, <4>3
    <3>2. loc'[t] = [r EXCEPT !.puts = s, !.next = "end"]
      BY <2>1, <2>2, PutThenIs, ZenonT(90)
    <3>3. QED BY <3>1, <3>2
<1>9. Lands(t, "end", r, i, NoInode)
  BY <1>2, <1>4, <1>7, <1>8 DEF Locals, Lands
<1>10. LocksGuar(t) /\ WritesQuiet(t) /\ TabQuiet(t) /\ AtOK(t)'
  BY <1>1, <1>3, <1>4, <1>9, LandFree, WritesNone, TabSame, AtPlain
<1> QED BY <1>1, <1>2, <1>3, <1>6, <1>9, <1>10, FoundNone, QuietStep DEF Going, i

-----------------------------------------------------------------------------
(* open and chdir, as long as the disk stays as it is *)

LEMMA LandsPuts ==
  ASSUME Inv, NEW t \in Procs, NEW r \in Locals, NEW s \in Seq(Inodes), Len(s) \in {1, 2},
         NEW l \in Nexts, PutThen(t, r, s, l)
  PROVE  Lands(t, l, r, First(s), Second(s))
<1>1. pc'[t] = "put" /\ Due(t)' = l
  BY PutThenIs
<1>2. loc'[t] = [r EXCEPT !.puts = s, !.next = l]
  BY PutThenIs, ZenonT(90)
<1>3. /\ loc'[t].ip = r.ip /\ loc'[t].dp = r.dp /\ loc'[t].old = r.old
      /\ loc'[t].inum = r.inum /\ loc'[t].call = r.call /\ loc'[t].name = r.name
      /\ loc'[t].puts = s
  BY <1>2 DEF Locals
<1>4. l \notin PutAt \cup {"panic"}
  BY NextsNotPut
<1> QED BY <1>1, <1>3, <1>4 DEF Lands

\* A link that can be locked and is not new has its target.
LEMMA LinkWritten ==
  ASSUME Good, NEW t \in Procs, pc[t] \notin WritesAt \cup PutAt, NEW i \in Inodes,
         Uses(t, i), lock[i] = Nobody
  PROVE  ~Unwritten(disk, i)
<1> SUFFICES ASSUME Unwritten(disk, i) PROVE FALSE
  OBVIOUS
<1>1. PICK u \in Procs : Writes(u, i)
  BY DEF Good, Sound, LinksOK
<1>2. ~Holds(u, i)
  BY FreeLock
<1>3. Due(u) \notin {"created", "symlink_write", "full"} \/ loc[u].ip # i
  BY <1>2 DEF Holds, LockIp
<1>4. New(u, i)
  BY <1>1, <1>3 DEF Writes
<1>5. u # t
  BY <1>4 DEF New, WritesAt
<1> QED BY <1>4, <1>5 DEF Good, Sound, OwnOK, NewOK

LEMMA OpenSound ==
  ASSUME NEW t \in Procs, Going(t), Open(t)
  PROVE  Good'
<1> DEFINE r == loc[t]
           ino == Ino(r.ip)
           tab == Cached(itable, r.ip, ino)
<1>1. /\ pc[t] = "open" /\ pc[t] \notin PutAt \cup {"panic", "idle", "unlink_last"}
      /\ Free(r.ip) /\ pc[t] \in IpAt
  BY DEF Open, At, PutAt, IpAt
<1>2. /\ Good /\ Inv /\ r \in Locals /\ Has("open", r) /\ r.puts = <<>> /\ disk \in Disks
  BY <1>1, GoodInv, Known, WorldTypes DEF Going
<1>3. r.ip \in Inodes
  BY <1>1, <1>2 DEF Has, Inums, Locals
<1>4. /\ Uses(t, r.ip) /\ HasSlot(t, r.ip) /\ lock[r.ip] \in {Nobody, t} /\ lock[r.ip] = Nobody
      /\ ino = disk.inode[r.ip] /\ ino \in Dinodes /\ Type(r.ip) # "none" /\ ino.type # "none"
  BY <1>1, <1>2, <1>3, Ilock DEF Free
<1>5. /\ pc[t] \notin LockIp \cup LockDp /\ pc[t] \notin PutAt \cup WritesAt
      /\ "end" \notin LockDp /\ "open_link" \notin LockDp
  BY <1>1, Unlocked_
<1>6. WritesQuiet(t)
  BY <1>1, <1>2, <1>5, WritesNone
<1>7. ~Unwritten(disk, r.ip)
  BY <1>2, <1>3, <1>4, <1>5, LinkWritten
<1>8. itable' = tab => TabQuiet(t)
  BY <1>2, <1>3, <1>4, TabCached
<1>9. CASE /\ GiveUp(t, r, tab)
           /\ UNCHANGED <<fsVars, lock, procVars, events, history>>
  BY <1>1, <1>5, <1>6, <1>8, <1>9, PutIpSound DEF GiveUp, fsVars, history
<1>10. CASE /\ ino.addr # NoBlock
            /\ itable' = tab
            /\ \E p \in ReadOver(disk.target[ino.addr], r.arg) :
                 PutThen(t, [r EXCEPT !.ip = NoInode, !.arg = p], <<r.ip>>, "open_link")
            /\ UNCHANGED <<fsVars, lock, procVars, events, history>>
  <2>1. PICK p \in ReadOver(disk.target[ino.addr], r.arg) :
          PutThen(t, [r EXCEPT !.ip = NoInode, !.arg = p], <<r.ip>>, "open_link")
    BY <1>10
  <2>2. disk.target[ino.addr] \in Strings /\ r.arg \in Strings
    BY <1>2, <1>4, <1>10 DEF Disks, Dinodes, Locals
  <2>3. p \in Strings
    BY <2>2, ReadOverIs
  <2> DEFINE q == [r EXCEPT !.ip = NoInode, !.arg = p]
  <2>4. /\ q \in Locals /\ q.ip = NoInode /\ q.dp = r.dp /\ q.old = r.old
    BY <1>2, <2>3 DEF Locals, Inums
  <2>5. PutThen(t, q, <<r.ip>>, "open_link")
    BY <2>1
  <2> HIDE DEF q
  <2>6. UNCHANGED <<disk, committed, procVars, dropped>> /\ UNCHANGED lock
    BY <1>10 DEF fsVars, history
  <2>7. TabQuiet(t)
    BY <1>8, <1>10
  <2>8. QED BY <1>1, <1>5, <1>6, <2>4, <2>5, <2>6, <2>7, GiveIpSound
<1>11. CASE /\ ino.type = "file" \/ ino.type = "dir"
            /\ itable' = tab
            /\ Locked(t, r.ip)
            /\ Goto(t, "opened")
            /\ UNCHANGED <<fsVars, procVars, loc, events, history>>
  <2> DEFINE l == "opened"
  <2>1. UNCHANGED loc /\ UNCHANGED <<disk, committed, cwd, ofile, dropped>>
    BY <1>11 DEF fsVars, procVars, history
  <2>2. l \in Labels \ (PutAt \cup {"panic"}) /\ l \in LockIp /\ l \notin LockDp
    BY DEF Labels, IpAt, PutAt, LockDp, LockIp
  <2>3. Lands(t, l, r, NoInode, NoInode)
    BY <1>1, <1>2, <1>11, <2>1, <2>2, LandsGoto
  <2>4. LocksGuar(t)
    <3>1. \A k \in Inodes : HeldAt(l, r, k) <=> HeldAt(pc[t], loc[t], k) \/ k = r.ip
      BY <1>1, <1>5, <2>2 DEF HeldAt
    <3>2. QED BY <1>1, <1>2, <1>3, <1>11, <2>3, <3>1, LandTaken
  <2>5. TabQuiet(t) /\ itable'[r.ip].valid
    BY <1>2, <1>3, <1>4, <1>8, <1>11, WorldTypes, CachedIs
  <2>6. AtOK(t)'
    BY <1>4, <1>11, <2>1, <2>3, <2>5 DEF Lands, AtOK, Type
  <2>7. QED BY <1>1, <1>6, <2>1, <2>3, <2>4, <2>5, <2>6, FoundNone, QuietStep DEF Going
<1> QED BY <1>4, <1>7, <1>9, <1>10, <1>11, Zenon DEF Open, Unwritten

LEMMA OpenNextSound ==
  ASSUME NEW t \in Procs, Going(t), OpenNext(t)
  PROVE  Good'
<1> DEFINE r == loc[t]
<1>1. /\ pc[t] = "open_next" /\ pc[t] \notin PutAt \cup {"panic", "idle", "unlink_last"}
      /\ pc[t] \in IpAt /\ UNCHANGED <<disk, committed, itable, lock, cwd, ofile>>
  BY DEF OpenNext, At, PutAt, IpAt, fsVars, tableVars, procVars
<1>2. /\ Good /\ Inv /\ r \in Locals /\ Has("open_next", r) /\ r.puts = <<>>
      /\ dropped \in [Inodes -> Nat]
  BY <1>1, GoodInv, Known, WorldTypes DEF Going, DataOK
<1>3. r.ip \in Inodes /\ Uses(t, r.ip)
  BY <1>1, <1>2 DEF Has, Inums, Locals, Uses
<1>4. /\ pc[t] \notin LockIp \cup LockDp /\ pc[t] \notin PutAt \cup WritesAt
  BY <1>1, Unlocked_
<1>5. PICK l \in {"end", "open"}, q \in Locals :
        /\ Go(t, l, q) /\ q.ip \in {r.ip, NoInode} /\ q.dp = r.dp /\ q.old = r.old
        /\ q.puts = r.puts
        /\ \A i \in Inodes : dropped'[i] # dropped[i] => i = r.ip
  <2>1. CASE /\ dropped' = [dropped EXCEPT ![r.ip] = @ + 1]
             /\ Go(t, "end", [r EXCEPT !.ip = NoInode])
    <3> DEFINE q == [r EXCEPT !.ip = NoInode]
    <3>1. q \in Locals /\ q.ip = NoInode /\ q.dp = r.dp /\ q.old = r.old /\ q.puts = r.puts
      BY <1>2, SMTT(90) DEF Locals, Inums
    <3>2. \A i \in Inodes : dropped'[i] # dropped[i] => i = r.ip
      BY <1>2, <2>1
    <3>3. Go(t, "end", q)
      BY <2>1
    <3> HIDE DEF q
    <3>4. QED BY <3>1, <3>2, <3>3
  <2>2. CASE /\ Go(t, "open", [r EXCEPT !.depth = @ + 1])
             /\ UNCHANGED dropped
    <3> DEFINE q == [r EXCEPT !.depth = @ + 1]
    <3>1. q \in Locals /\ q.ip = r.ip /\ q.dp = r.dp /\ q.old = r.old /\ q.puts = r.puts
      BY <1>2 DEF Locals, Inums
    <3>2. Go(t, "open", q)
      BY <2>2
    <3> HIDE DEF q
    <3>3. QED BY <2>2, <3>1, <3>2
  <2>3. QED BY <2>1, <2>2 DEF OpenNext
<1>6. /\ l \in Plain /\ l \notin LockIp \cup LockDp /\ l \in Labels \ (PutAt \cup {"panic"})
      /\ l \notin {"create_get", "create_fill", "unlink_last"}
  BY <1>5, Unlocked_
<1>7. Lands(t, l, q, NoInode, NoInode)
  BY <1>2, <1>5, <1>6, LandsGo
<1>8. LocksGuar(t) /\ WritesQuiet(t) /\ TabQuiet(t) /\ AtOK(t)'
  BY <1>1, <1>2, <1>4, <1>6, <1>7, LandFree, WritesNone, TabSame, AtPlain
<1>9. \A i \in Inodes : dropped'[i] # dropped[i] => Uses(t, i)
  BY <1>3, <1>5
<1> QED BY <1>1, <1>5, <1>6, <1>7, <1>8, <1>9, FoundNone, QuietStep DEF Going

\* No descriptor is left, or there is nothing to truncate.
LEMMA OpenedQuiet ==
  ASSUME NEW t \in Procs, Going(t), Opened(t), UNCHANGED <<disk, itable>>
  PROVE  Good'
<1> DEFINE r == loc[t]
<1>1. /\ pc[t] = "opened" /\ pc[t] \notin PutAt \cup {"panic", "idle", "unlink_last"}
      /\ pc[t] \in IpAt /\ pc[t] \in LockIp /\ pc[t] \notin LockDp
      /\ pc[t] \notin PutAt \cup WritesAt
      /\ UNCHANGED <<disk, committed, itable, cwd, inop, dropped>>
      /\ Unlocked(r.ip)
  BY DEF Opened, At, PutAt, IpAt, LockIp, LockDp, history, WritesAt
<1>2. /\ Good /\ Inv /\ r \in Locals /\ Has("opened", r) /\ r.puts = <<>>
      /\ ofile \in [Procs -> [ip : Inums, writable : BOOLEAN]]
  BY <1>1, GoodInv, Known, WorldTypes DEF Going, DataOK
<1>3. r.ip \in Inodes
  BY <1>1, <1>2 DEF Has, Inums, Locals
<1>4. TabQuiet(t) /\ WritesQuiet(t)
  BY <1>1, <1>2, TabSame, WritesNone
<1>5. "end" \notin LockIp \cup LockDp /\ "end" \in Plain /\ "end" \in Labels \ (PutAt \cup {"panic"})
  BY Unlocked_
<1>6. CASE GiveUp(t, r, itable) /\ UNCHANGED ofile
  BY <1>1, <1>4, <1>5, <1>6, PutIpSound DEF GiveUp, procVars
<1>7. CASE /\ ofile' = [ofile EXCEPT ![t] = [ip |-> r.ip, writable |-> r.call # "open"]]
           /\ Go(t, "end", [r EXCEPT !.ip = NoInode])
  <2> DEFINE q == [r EXCEPT !.ip = NoInode]
  <2>1. q \in Locals /\ q.ip = NoInode /\ q.dp = r.dp /\ q.old = r.old /\ q.puts = r.puts
    BY <1>2 DEF Locals, Inums
  <2>2. Go(t, "end", q)
    BY <1>7
  <2>3. ofile'[t].ip = r.ip
    BY <1>2, <1>7
  <2> HIDE DEF q
  <2>4. Lands(t, "end", q, NoInode, NoInode)
    BY <1>2, <1>5, <2>1, <2>2, LandsGo
  <2>5. LocksGuar(t)
    BY <1>1, <1>2, <1>3, <1>5, <2>4, LandGiven DEF HeldAt
  <2>6. AtOK(t)'
    BY <1>5, <2>4, AtPlain
  <2>7. QED BY <1>1, <1>4, <2>1, <2>3, <2>4, <2>5, <2>6, FoundNone, QuietStep DEF Going
<1> QED BY <1>6, <1>7 DEF Opened

LEMMA ChdirSound ==
  ASSUME NEW t \in Procs, Going(t), Chdir(t)
  PROVE  Good'
<1> DEFINE r == loc[t]
           ino == Ino(r.ip)
           tab == Cached(itable, r.ip, ino)
<1>1. /\ pc[t] = "chdir" /\ pc[t] \notin PutAt \cup {"panic", "idle", "unlink_last"}
      /\ Free(r.ip) /\ pc[t] \in IpAt
  BY DEF Chdir, At, PutAt, IpAt
<1>2. /\ Good /\ Inv /\ r \in Locals /\ Has("chdir", r) /\ r.puts = <<>>
      /\ cwd \in [Procs -> Inodes]
  BY <1>1, GoodInv, Known, WorldTypes DEF Going, DataOK
<1>3. r.ip \in Inodes /\ r.ip # NoInode
  BY <1>1, <1>2 DEF Has, Inums, Locals
<1>4. /\ Uses(t, r.ip) /\ HasSlot(t, r.ip) /\ lock[r.ip] \in {Nobody, t}
      /\ ino = disk.inode[r.ip] /\ ino \in Dinodes /\ Type(r.ip) # "none" /\ ino.type # "none"
  BY <1>1, <1>2, <1>3, Ilock
<1>5. /\ pc[t] \notin LockIp \cup LockDp /\ pc[t] \notin PutAt \cup WritesAt
      /\ "end" \notin LockIp \cup LockDp /\ "end" \in Nexts \cap Plain
  BY <1>1, Unlocked_
<1>6. WritesQuiet(t)
  BY <1>1, <1>2, <1>5, WritesNone
<1>7. itable' = tab => TabQuiet(t)
  BY <1>2, <1>3, <1>4, TabCached
<1>8. CASE /\ GiveUp(t, r, tab)
           /\ UNCHANGED <<fsVars, lock, procVars, events, history>>
  BY <1>1, <1>5, <1>6, <1>7, <1>8, PutIpSound DEF GiveUp, fsVars, history
<1>9. CASE /\ ino.type = "dir"
           /\ itable' = tab
           /\ cwd' = [cwd EXCEPT ![t] = r.ip]
           /\ PutThen(t, [r EXCEPT !.ip = NoInode], <<cwd[t]>>, "end")
           /\ UNCHANGED <<fsVars, lock, ofile, inop, events, history>>
  <2> DEFINE q == [r EXCEPT !.ip = NoInode]
  <2>1. q \in Locals /\ q.ip = NoInode /\ q.dp = r.dp /\ q.old = r.old
    BY <1>2 DEF Locals, Inums
  <2>2. UNCHANGED <<disk, committed, lock, ofile, dropped>> /\ cwd'[t] = r.ip
    BY <1>2, <1>9 DEF fsVars, history
  <2>3. PICK i \in Inodes : i = cwd[t]
    BY <1>2
  <2>4. PICK s \in Seq(Inodes) : s = <<i>> /\ Len(s) \in {1, 2} /\ First(s) = i /\ Second(s) = NoInode
    BY Puts1
  <2>5. PICK l \in Nexts : l = "end"
    BY <1>5
  <2>6. PutThen(t, q, s, l)
    BY <1>9, <2>3, <2>4, <2>5
  <2> HIDE DEF q
  <2>7. Inv
    BY <1>2
  <2>8. Lands(t, l, q, i, NoInode)
    BY <2>1, <2>4, <2>6, <2>7, LandsPuts
  <2>9. LocksGuar(t) /\ TabQuiet(t) /\ AtOK(t)'
    BY <1>1, <1>2, <1>5, <1>7, <1>9, <2>2, <2>5, <2>8, LandFree, AtPlain
  <2>10. Type(cwd'[t]) = "dir" /\ l \notin {"create_get", "create_fill", "unlink_last"}
    BY <1>4, <1>9, <2>2, <2>5 DEF Type
  <2>11. UNCHANGED <<disk, committed>> /\ ofile'[t] = ofile[t] /\ dropped' = dropped
    BY <2>2
  <2>12. {q.ip, q.dp, i, NoInode, cwd'[t], ofile'[t].ip}
           \subseteq {cwd[t], ofile[t].ip, loc[t].ip, loc[t].dp, loc[t].old, NoInode}
    BY <2>1, <2>2, <2>3
  <2>13. QED
    BY <1>1, <1>6, <2>1, <2>8, <2>9, <2>10, <2>11, <2>12, FoundNone, QuietStep, ZenonT(90) DEF Going
<1> QED BY <1>4, <1>8, <1>9 DEF Chdir

-----------------------------------------------------------------------------
(* link and unlink, as long as the disk stays as it is *)

LEMMA LinkQuiet ==
  ASSUME NEW t \in Procs, Going(t), Link(t), Type(loc[t].ip) \notin {"file", "symlink"}
  PROVE  Good'
<1> DEFINE r == loc[t]
           ino == Ino(r.ip)
<1>1. /\ pc[t] = "link" /\ pc[t] \notin PutAt \cup {"panic", "idle", "unlink_last"}
      /\ Free(r.ip) /\ pc[t] \in IpAt
  BY DEF Link, At, PutAt, IpAt
<1>2. /\ Good /\ Inv /\ r \in Locals /\ Has("link", r)
  BY <1>1, GoodInv, Known DEF Going
<1>3. r.ip \in Inodes /\ r.ip # NoInode
  BY <1>1, <1>2 DEF Has, Inums, Locals
<1>4. /\ lock[r.ip] \in {Nobody, t}
      /\ ino = disk.inode[r.ip] /\ ino \in Dinodes /\ Type(r.ip) # "none" /\ ino.type # "none"
  BY <1>1, <1>2, <1>3, Ilock
<1>5. GiveUp(t, r, Cached(itable, r.ip, ino)) /\ UNCHANGED <<fsVars, lock, procVars, events, history>>
  BY <1>4 DEF Link, Type
<1>6. /\ pc[t] \notin LockIp \cup LockDp /\ pc[t] \notin PutAt \cup WritesAt
      /\ "end" \notin LockIp \cup LockDp
  BY <1>1, Unlocked_
<1>7. WritesQuiet(t) /\ TabQuiet(t)
  BY <1>1, <1>2, <1>3, <1>4, <1>5, <1>6, WritesNone, TabCached DEF GiveUp
<1>8. /\ PutThen(t, [loc[t] EXCEPT !.ip = NoInode], <<loc[t].ip>>, "end")
      /\ UNCHANGED <<disk, committed, procVars, dropped>> /\ UNCHANGED lock
  BY <1>5 DEF GiveUp, fsVars, history
<1> QED BY <1>1, <1>6, <1>7, <1>8, PutIpSound

\* The new path's last name is there already.
LEMMA LinkDirFound ==
  ASSUME NEW t \in Procs, Going(t), LinkDir(t),
         Lookup(disk.inode[loc[t].dp], loc[t].name) # NoInode
  PROVE  Good'
<1> DEFINE r == loc[t]
           ino == Ino(r.dp)
           i == Lookup(ino, r.name)
           tab == Cached(itable, r.dp, ino)
<1>1. /\ pc[t] = "link_dir" /\ pc[t] \notin PutAt \cup {"panic", "idle", "unlink_last"}
      /\ Free(r.dp) /\ pc[t] \in DpAt
  BY DEF LinkDir, At, PutAt, DpAt
<1>2. /\ Good /\ Inv /\ r \in Locals /\ Has("link_dir", r) /\ r.name \in Entries /\ DirsOK(t)
      /\ r.puts = <<>>
  BY <1>1, GoodInv, Known DEF Fits, NamedAt, Going, Good, Sound, OwnOK
<1>3. r.dp \in Inodes /\ r.dp # NoInode
  BY <1>1, <1>2 DEF Has, Inums, Locals
<1>4. /\ Uses(t, r.dp) /\ HasSlot(t, r.dp) /\ lock[r.dp] \in {Nobody, t}
      /\ ino = disk.inode[r.dp] /\ ino \in Dinodes /\ Type(r.dp) = "dir" /\ ino.type = "dir"
  BY <1>1, <1>2, <1>3, Ilock DEF DirsOK, Type
<1>5. i \in Inums /\ lock[r.dp] = Nobody /\ i # NoInode
  BY <1>1, <1>2, <1>4, LookupIs DEF Free
<1>6. /\ itable' = Get(tab, i)
      /\ Locked(t, r.dp)
      /\ strayed' = (strayed \/ (Removed(ino) /\ r.name = ".."))
      /\ PutThen(t, r, <<i>>, "unlock_dp")
      /\ UNCHANGED <<fsVars, procVars, events, orphans, dropped>>
  BY <1>4, <1>5 DEF LinkDir
<1>7. /\ UNCHANGED <<disk, committed, cwd, ofile, dropped>>
      /\ itable' = Get(Cached(itable, r.dp, Ino(r.dp)), i)
      /\ i = Lookup(disk.inode[r.dp], r.name)
      /\ r.name \in Entries \cup {Junk}
      /\ ~(Removed(disk.inode[r.dp]) /\ r.name = "..")
  BY <1>2, <1>4, <1>6 DEF fsVars, procVars, Going
<1> HIDE DEF i, ino
<1>8. i \in Inodes /\ Found(t, i)
  BY <1>2, <1>3, <1>4, <1>5, <1>7, LookupFresh DEF Found
<1>9. PICK s \in Seq(Inodes) : s = <<i>> /\ Len(s) \in {1, 2} /\ First(s) = i /\ Second(s) = NoInode
  BY <1>8, Puts1
<1>10. PICK l \in Nexts : l = "unlock_dp"
  BY DEF Nexts
<1>11. Lands(t, l, r, i, NoInode)
  BY <1>2, <1>6, <1>9, <1>10, LandsPuts
<1>12. /\ l \in Plain /\ l \in LockDp /\ l \notin LockIp
       /\ pc[t] \notin LockIp \cup LockDp /\ pc[t] \notin PutAt \cup WritesAt
       /\ l \notin {"create_get", "create_fill", "unlink_last"}
  BY <1>1, <1>10, Unlocked_ DEF Plain, LockDp, LockIp
<1>13. LocksGuar(t)
  BY <1>1, <1>2, <1>3, <1>6, <1>11, <1>12, LandTaken DEF HeldAt
<1>14. WritesQuiet(t) /\ AtOK(t)' /\ TabQuiet(t)
  BY <1>2, <1>3, <1>4, <1>7, <1>8, <1>11, <1>12, TabCachedGet, WritesNone, AtPlain
<1> QED BY <1>1, <1>7, <1>8, <1>11, <1>12, <1>13, <1>14, QuietStep DEF Going

\* A directory in which a name is found is live.
LEMMA FoundLive ==
  ASSUME Good, NEW j \in Inodes, Type(j) = "dir", NEW n \in Names,
         Lookup(disk.inode[j], n) # NoInode
  PROVE  j \in LiveDirs(disk, Dying) /\ Ent(disk, j, n) = Lookup(disk.inode[j], n)
<1>1. /\ disk.inode[j].addr # NoBlock
      /\ Ent(disk, j, n) = Lookup(disk.inode[j], n)
  BY DEF Lookup, Ent
<1>2. DotsOK(disk, Dying)
  BY DEF Good, Sound, TreeOK, Tree
<1> QED BY <1>1, <1>2 DEF DotsOK, Type

LEMMA UnlinkSound ==
  ASSUME NEW t \in Procs, Going(t), Unlink(t)
  PROVE  Good'
<1> DEFINE r == loc[t]
           ino == Ino(r.dp)
           i == IF r.name \in Names THEN Lookup(ino, r.name) ELSE NoInode
           tab == Cached(itable, r.dp, ino)
<1>1. /\ pc[t] = "unlink" /\ pc[t] \notin PutAt \cup {"panic", "idle", "unlink_last"}
      /\ Free(r.dp) /\ pc[t] \in DpAt
  BY DEF Unlink, At, PutAt, DpAt
<1>2. /\ Good /\ Inv /\ r \in Locals /\ Has("unlink", r) /\ r.name \in Entries /\ DirsOK(t)
      /\ r.puts = <<>>
  BY <1>1, GoodInv, Known DEF Fits, NamedAt, Going, Good, Sound, OwnOK
<1>3. r.dp \in Inodes /\ r.dp # NoInode
  BY <1>1, <1>2 DEF Has, Inums, Locals
<1>4. /\ Uses(t, r.dp) /\ HasSlot(t, r.dp) /\ lock[r.dp] \in {Nobody, t}
      /\ ino = disk.inode[r.dp] /\ ino \in Dinodes /\ Type(r.dp) = "dir" /\ ino.type = "dir"
  BY <1>1, <1>2, <1>3, Ilock DEF DirsOK, Type
<1>5. /\ pc[t] \notin LockIp \cup LockDp /\ pc[t] \notin PutAt \cup WritesAt
      /\ "end" \notin LockIp \cup LockDp
  BY <1>1, Unlocked_
<1>6. WritesQuiet(t)
  BY <1>1, <1>2, <1>5, WritesNone
<1>7. CASE /\ itable' = tab
           /\ PutThen(t, [r EXCEPT !.dp = NoInode], <<r.dp>>, "end")
           /\ UNCHANGED lock
           /\ UNCHANGED <<fsVars, procVars, events, history>>
  <2>1. TabQuiet(t)
    BY <1>2, <1>3, <1>4, <1>7, TabCached
  <2>2. /\ PutThen(t, [loc[t] EXCEPT !.dp = NoInode], <<loc[t].dp>>, "end")
        /\ UNCHANGED <<disk, committed, procVars, dropped>> /\ UNCHANGED lock
    BY <1>7 DEF fsVars, history
  <2>3. QED BY <1>1, <1>5, <1>6, <2>1, <2>2, PutDpSound
<1>8. CASE /\ i # NoInode
           /\ itable' = Get(tab, i)
           /\ Locked(t, r.dp)
           /\ Go(t, "unlink_lock", [r EXCEPT !.ip = i])
           /\ UNCHANGED <<fsVars, procVars, events, history>>
  <2> DEFINE q == [r EXCEPT !.ip = i]
             l == "unlink_lock"
  <2>1. r.name \in Names /\ i = Lookup(disk.inode[r.dp], r.name) /\ lock[r.dp] = Nobody
    BY <1>1, <1>4, <1>8 DEF Free
  <2>2. r.dp \in LiveDirs(disk, Dying) /\ Ent(disk, r.dp, r.name) = i
    BY <1>2, <1>3, <1>4, <1>8, <2>1, FoundLive
  <2>3. /\ r.name \in Entries \cup {Junk} /\ r.name # ".."
        /\ UNCHANGED <<disk, committed, cwd, ofile, dropped>>
        /\ itable' = Get(Cached(itable, r.dp, Ino(r.dp)), i)
    BY <1>2, <1>8, <2>1, FilesAssumption DEF FilesAssumption, fsVars, procVars, history
  <2>4. i # NoInode /\ Go(t, l, q)
    BY <1>8
  <2> HIDE DEF i, ino
  <2>5. i \in Inodes /\ Found(t, i)
    BY <1>2, <1>3, <1>4, <2>1, <2>3, <2>4, LookupFresh DEF Found
  <2>6. /\ q \in Locals /\ q.ip = i /\ q.dp = r.dp /\ q.old = r.old /\ q.puts = <<>>
        /\ q.name = r.name
    BY <1>2, <2>5 DEF Locals, Inums
  <2> HIDE DEF q
  <2>7. /\ l \in Labels \ (PutAt \cup {"panic"}) /\ l \in LockDp /\ l \notin LockIp
        /\ l \notin {"create_get", "create_fill", "unlink_last"}
    BY DEF Labels, UnlinkAt, PutAt, LockDp, LockIp
  <2>8. Lands(t, l, q, NoInode, NoInode)
    BY <1>2, <2>4, <2>6, <2>7, LandsGo
  <2>9. LocksGuar(t)
    <3>1. \A k \in Inodes : HeldAt(l, q, k) <=> HeldAt(pc[t], loc[t], k) \/ k = r.dp
      BY <1>5, <2>6, <2>7 DEF HeldAt
    <3>2. QED BY <1>1, <1>2, <1>3, <1>8, <2>8, <3>1, LandTaken
  <2>10. TabQuiet(t)
    BY <1>2, <1>3, <1>4, <2>3, <2>5, TabCachedGet
  <2>11. AtOK(t)'
    <3>1. Due(t)' = l /\ loc'[t].dp = r.dp /\ loc'[t].name = r.name /\ loc'[t].ip = i
      BY <2>6, <2>8 DEF Lands
    <3>2. Dying' = Dying
      BY <1>1, <2>6, <2>7, <2>8, LandsDying
    <3>3. LiveDirs(disk, Dying)' = LiveDirs(disk, Dying) /\ Ent(disk', r.dp, r.name) = i
      BY <2>2, <2>3, <3>2
    <3>4. QED BY <2>1, <2>2, <2>7, <3>1, <3>3 DEF AtOK
  <2>12. QED
    BY <1>1, <1>6, <2>3, <2>5, <2>6, <2>7, <2>8, <2>9, <2>10, <2>11, QuietStep DEF Going
<1> QED BY <1>4, <1>7, <1>8 DEF Unlink

\* What unlink is to take away has a link: its entry.
LEMMA EntryCounts ==
  ASSUME Good, NEW j \in LiveDirs(disk, Dying), NEW n \in LinkNames, NEW i \in Inodes,
         Ent(disk, j, n) = i
  PROVE  /\ <<j, n>> \in Links(disk, Dying, i)
         /\ disk.inode[i].nlink \in Nat /\ disk.inode[i].nlink >= 1
BY Counted1, PendingProcs DEF Links, LiveDirs, Good, Sound, TreeOK, Tree

\* ... and a type; a directory that is not empty stays.
LEMMA UnlinkLockQuiet ==
  ASSUME NEW t \in Procs, Going(t), UnlinkLock(t),
         ~( /\ disk' = OnDisk(Linked(disk, Ino(loc[t].dp), loc[t].name, NoInode), loc[t].dp,
                 [Ino(loc[t].dp) EXCEPT !.nlink =
                    IF Ino(loc[t].ip).type = "dir" THEN @ - 1 ELSE @])
            /\ ~(Ino(loc[t].ip).type = "dir" /\ ~IsDirEmpty(Ino(loc[t].ip))))
  PROVE  Good'
<1> DEFINE r == loc[t]
           ino == Ino(r.ip)
<1>1. /\ pc[t] = "unlink_lock" /\ pc[t] \notin PutAt \cup {"panic", "idle", "unlink_last"}
      /\ Free(r.ip) /\ pc[t] \in IpAt /\ pc[t] \in DpAt
      /\ pc[t] \in LockDp /\ pc[t] \notin LockIp /\ pc[t] \notin PutAt \cup WritesAt
  BY DEF UnlinkLock, At, PutAt, IpAt, DpAt, LockDp, LockIp, WritesAt
<1>2. /\ Good /\ Inv /\ r \in Locals /\ Has("unlink_lock", r) /\ AtOK(t)
  BY <1>1, GoodInv, Known DEF Going, Good, Sound, OwnOK
<1>3. r.ip \in Inodes /\ r.ip # NoInode
  BY <1>1, <1>2 DEF Has, Inums, Locals
<1>4. /\ lock[r.ip] \in {Nobody, t}
      /\ ino = disk.inode[r.ip] /\ ino \in Dinodes /\ Type(r.ip) # "none" /\ ino.type # "none"
  BY <1>1, <1>2, <1>3, Ilock
<1>5. ino.nlink \in Nat /\ ino.nlink >= 1
  BY <1>1, <1>2, <1>3, <1>4, EntryCounts DEF Due, AtOK, LinkNames
<1>6. /\ itable' = Cached(itable, r.ip, ino)
      /\ PutThen(t, [r EXCEPT !.ip = NoInode], <<r.ip>>, "unlock_dp")
      /\ UNCHANGED <<fsVars, lock, procVars, events, history>>
  BY <1>4, <1>5 DEF UnlinkLock
<1>7. WritesQuiet(t) /\ TabQuiet(t)
  BY <1>1, <1>2, <1>3, <1>4, <1>6, WritesNone, TabCached
<1>8. /\ PutThen(t, [loc[t] EXCEPT !.ip = NoInode], <<loc[t].ip>>, "unlock_dp")
      /\ UNCHANGED <<disk, committed, procVars, dropped>> /\ UNCHANGED lock
      /\ "unlock_dp" \in LockDp
  BY <1>6 DEF fsVars, history, LockDp
<1> QED BY <1>1, <1>7, <1>8, PutIpSound

-----------------------------------------------------------------------------
(* iput, as long as the disk stays as it is *)

LEMMA ItableDropped ==
  ASSUME Inv, NEW t \in Procs, pc[t] \in PutAt, Drop(t)
  PROVE  \A i \in Inodes : /\ itable'[i].valid = itable[i].valid
                            /\ itable'[i].ino = itable[i].ino
BY PutsType, WorldTypes DEF Drop, Tables

LEMMA DropIs ==
  ASSUME Inv, NEW t \in Procs, pc[t] \in PutAt, Drop(t)
  PROVE  /\ pc'[t] \in {"put", Due(t)} /\ Due(t)' = Due(t) /\ Due(t) \in Nexts
         /\ loc'[t].ip = loc[t].ip /\ loc'[t].dp = loc[t].dp /\ loc'[t].old = loc[t].old
         /\ loc'[t].call = loc[t].call /\ loc'[t].name = loc[t].name
         /\ loc'[t].inum = loc[t].inum
         /\ First(loc'[t].puts) = Second(loc[t].puts) /\ Second(loc'[t].puts) = NoInode
         /\ \A i \in Inodes : /\ itable'[i].valid = itable[i].valid
                              /\ itable'[i].ino = itable[i].ino
<1>1. /\ Len(loc[t].puts) \in {1, 2} /\ loc[t] \in Locals
      /\ Len(loc[t].puts) = 2 => /\ Tail(loc[t].puts) = <<loc[t].puts[2]>>
                                 /\ loc[t].puts[2] \in Inodes
  BY PutsType, LocalTypes
<1>2. Due(t) = loc[t].next /\ Due(t) \in Nexts /\ PutDone(t)
  BY LocalTypes DEF Due, Own, Shape, PutAt, Drop
<1>3. loc \in [Procs -> Locals] /\ pc \in [Procs -> Labels]
  BY DEF Inv, TypeOK
<1>4. CASE Len(loc[t].puts) = 1
  <2>1. loc'[t] = [loc[t] EXCEPT !.puts = <<>>] /\ pc'[t] = loc[t].next
    BY <1>2, <1>3, <1>4 DEF PutDone, Go, Goto
  <2>2. loc'[t].puts = <<>>
    BY <1>1, <2>1 DEF Locals
  <2>3. /\ loc'[t].ip = loc[t].ip /\ loc'[t].dp = loc[t].dp /\ loc'[t].old = loc[t].old
        /\ loc'[t].call = loc[t].call /\ loc'[t].name = loc[t].name
        /\ loc'[t].inum = loc[t].inum /\ loc'[t].next = loc[t].next
    BY <1>1, <2>1 DEF Locals
  <2>4. First(loc'[t].puts) = Second(loc[t].puts) /\ Second(loc'[t].puts) = NoInode
    BY <1>1, <1>4, <2>2, EmptyPuts DEF First, Second
  <2>5. Due(t)' = Due(t) /\ pc'[t] = Due(t)
    BY <1>2, <2>1, NextsNotPut DEF Due
  <2>6. QED BY <1>1, <1>2, <2>3, <2>4, <2>5, ItableDropped
<1>5. CASE Len(loc[t].puts) = 2
  <2>1. loc'[t] = [loc[t] EXCEPT !.puts = Tail(@)] /\ pc'[t] = "put"
    BY <1>2, <1>3, <1>5 DEF PutDone, Go, Goto
  <2>2. /\ loc'[t].ip = loc[t].ip /\ loc'[t].dp = loc[t].dp /\ loc'[t].old = loc[t].old
        /\ loc'[t].call = loc[t].call /\ loc'[t].name = loc[t].name
        /\ loc'[t].inum = loc[t].inum /\ loc'[t].next = loc[t].next
        /\ loc'[t].puts = Tail(loc[t].puts)
    BY <1>1, <2>1 DEF Locals
  <2>3. First(loc'[t].puts) = Second(loc[t].puts) /\ Second(loc'[t].puts) = NoInode
    BY <1>1, <1>5, <2>2, Puts1 DEF First, Second
  <2>4. Due(t)' = Due(t)
    BY <1>2, <2>1, <2>2 DEF Due, PutAt
  <2>5. QED BY <1>1, <1>2, <2>1, <2>2, <2>3, <2>4, ItableDropped
<1> QED BY <1>1, <1>4, <1>5

\* What a process relies on does not change with its iputs.
StaysDue(t) ==
  /\ Due(t)' = Due(t)
  /\ loc'[t].ip = loc[t].ip /\ loc'[t].dp = loc[t].dp /\ loc'[t].old = loc[t].old
  /\ loc'[t].call = loc[t].call /\ loc'[t].name = loc[t].name
  /\ cwd'[t] = cwd[t] /\ ofile'[t] = ofile[t]

LEMMA AtStays ==
  ASSUME Good, NEW t \in Procs, Alone(t), StaysDue(t), UNCHANGED disk,
         Due(t) \in LockIp => itable'[loc[t].ip].valid = itable[loc[t].ip].valid
  PROVE  AtOK(t)' /\ DirsOK(t)' /\ SameDue(t)
<1> DEFINE l == Due(t)
           r == loc[t]
<1>1. AtOK(t) /\ DirsOK(t)
  BY DEF Good, Sound, OwnOK
<1>2. SameDue(t)
  BY DEF SameDue, StaysDue, DyingAt, PendingAt
<1>3. LiveDirs(disk, Dying)' = LiveDirs(disk, Dying)
  BY <1>2, DueSame DEF LiveDirs
<1>4. DirsOK(t)'
  BY <1>1 DEF StaysDue, DirsOK, Type
<1>5. /\ l \in {"symlink_write", "full"} => Type(r.ip)' = "symlink"
      /\ l = "created" => Type(r.ip)' = TypeMade(r.call)
      /\ l = "opened" => Type(r.ip)' \in {"file", "dir"}
      /\ l \in LockIp => itable'[r.ip].valid
      /\ l = "unlink_last" => (Type(r.ip)' = "dir" => disk'.inode[r.ip].nlink = 1)
  BY <1>1 DEF AtOK, Type, StaysDue
<1>6. /\ l \in {"create_alloc", "create_get", "create_fill"} =>
           /\ r.dp \in LiveDirs(disk, Dying)' /\ r.name \in Names
           /\ Ent(disk', r.dp, r.name) = NoInode
      /\ l = "unlink_lock" =>
           /\ r.dp \in LiveDirs(disk, Dying)' /\ r.name \in Names
           /\ Ent(disk', r.dp, r.name) = r.ip
  BY <1>1, <1>3 DEF AtOK
<1>7. l = "write" => disk'.inode[ofile'[t].ip].type = "file"
  BY <1>1 DEF AtOK, Type, StaysDue
<1> HIDE DEF l
<1>8. /\ Due(t)' = l /\ loc'[t].ip = r.ip /\ loc'[t].dp = r.dp /\ loc'[t].call = r.call
      /\ loc'[t].name = r.name
  BY DEF StaysDue, l
<1>9. AtOK(t)'
  BY <1>5, <1>6, <1>7, <1>8 DEF AtOK, Type, StaysDue
<1> QED BY <1>2, <1>4, <1>9

\* The label an iput leads to is of no process with a new inode.
LEMMA NotNew ==
  ASSUME Inv, NEW t \in Procs, pc[t] \in PutAt
  PROVE  \A i : ~New(t, i)
BY DEF New, PutAt

LEMMA IpLocked ==
  ASSUME Good, NEW t \in Procs, Due(t) \in LockIp
  PROVE  loc[t].ip \in Inodes /\ Holds(t, loc[t].ip)
<1>1. Inv /\ pc[t] # "panic" /\ Has(Due(t), loc[t]) /\ loc[t] \in Locals
  BY GoodInv, LocalTypes DEF Good, Sound, OwnOK, Own, Shape
<1>2. loc[t].ip \in Inodes
  BY <1>1 DEF Has, LockIp, IpAt, Locals, Inums
<1> QED BY <1>2 DEF Holds

LEMMA DropSound ==
  ASSUME NEW t \in Procs, Going(t), pc[t] \in {"put", "put_drop"}, Drop(t),
         UNCHANGED <<disk, committed, lock, cwd, ofile, dropped>>
  PROVE  Good'
<1>1. Good /\ Inv /\ pc[t] \in PutAt /\ pc[t] # "put_inval" /\ pc[t] # "put_free"
  BY GoodInv DEF Going, PutAt
<1>2. /\ pc'[t] \in {"put", Due(t)} /\ Due(t)' = Due(t) /\ Due(t) \in Nexts
      /\ loc'[t].ip = loc[t].ip /\ loc'[t].dp = loc[t].dp /\ loc'[t].old = loc[t].old
      /\ loc'[t].call = loc[t].call /\ loc'[t].name = loc[t].name
      /\ First(loc'[t].puts) = Second(loc[t].puts) /\ Second(loc'[t].puts) = NoInode
      /\ \A i \in Inodes : /\ itable'[i].valid = itable[i].valid
                           /\ itable'[i].ino = itable[i].ino
  BY <1>1, DropIs
<1>3. /\ pc'[t] \notin {"put_free", "put_inval", "put_drop", "panic", "create_get", "create_fill"}
  BY <1>2, NextsNotPut DEF PutAt
<1>4. StaysDue(t)
  BY <1>2 DEF StaysDue
<1>5. /\ \A i : ~Freeing(t, i) /\ ~Freed(t, i) /\ ~Freeing(t, i)' /\ ~Freed(t, i)' /\ ~New(t, i)'
  BY <1>1, <1>3 DEF Freeing, Freed, New
<1>6. AtOK(t)' /\ DirsOK(t)' /\ SameDue(t)
  BY <1>1, <1>2, <1>4, AtStays, IpLocked DEF Going
<1>7. LocksGuar(t)
  BY <1>1, <1>4, <1>5, LockSame DEF Holds, StaysDue
<1>8. SlotsQuiet(t)
  BY <1>2, <1>3, <1>5, NotNoInode DEF SlotsQuiet, HasSlot, Uses, Window
<1>9. WritesQuiet(t)
  BY <1>1, <1>4, NotNew DEF WritesQuiet, Writes, StaysDue
<1>10. OwnOK(t)'
  BY <1>3, <1>5, <1>6 DEF OwnOK, PutOK, NewOK
<1>11. TabQuiet(t)
  BY <1>2 DEF TabQuiet
<1> QED BY <1>1, <1>6, <1>7, <1>8, <1>9, <1>10, <1>11, Quiet DEF Going

\* The last user of an inode that has no link gets its lock at once.
LEMMA PutLast ==
  ASSUME NEW t \in Procs, Going(t), pc[t] = "put", NEW i \in Inodes,
         First(loc[t].puts) = i, Last(i), UNCHANGED <<disk, committed, itable, cwd, ofile, dropped, loc>>,
         Goto(t, IF Free(i) THEN "put_free" ELSE "panic"),
         IF Free(i) THEN Locked(t, i) ELSE UNCHANGED lock
  PROVE  Good'
<1>1. /\ Good /\ Inv /\ Inv2 /\ pc[t] \in PutAt /\ pc[t] # "put_inval" /\ pc[t] # "put_free"
      /\ "put_free" \in PutAt \ Window
  BY GoodInv DEF Going, PutAt, Window
<1>2. itable[i].ref = 1 /\ itable[i].valid /\ itable[i].ino.nlink = 0
  BY DEF Last
<1>3. /\ dropped[i] = 0
      /\ \A u \in Procs \ {t} : ~HasSlot(u, i) /\ ~Uses(u, i)
      /\ cwd[t] # i /\ ofile[t].ip # i /\ loc[t].ip # i /\ loc[t].dp # i
      /\ loc[t].old # i /\ Second(loc[t].puts) # i
  BY <1>1, <1>2, RefOnePut
<1>4. \A u \in Procs : ~Holds(u, i)
  BY <1>3, HoldsHas DEF Holds, Freeing, Freed
<1>5. lock[i] = Nobody
  BY <1>1, <1>4 DEF Inv, TypeOK, DataOK, Good, Sound, LocksOK
<1>6. /\ Goto(t, "put_free") /\ Locked(t, i)
  BY <1>5 DEF Free
<1>7. pc'[t] = "put_free"
  BY <1>1, <1>6 DEF Goto, Inv, TypeOK
<1>8. StaysDue(t)
  BY <1>1, <1>7 DEF StaysDue, Due
<1>9. \A k : /\ ~Freeing(t, k) /\ ~Freed(t, k) /\ ~Freed(t, k)' /\ ~New(t, k)' /\ ~New(t, k)
             /\ Freeing(t, k)' <=> k = i
  BY <1>7 DEF Freeing, Freed, New
<1>10. AtOK(t)' /\ DirsOK(t)' /\ SameDue(t)
  BY <1>1, <1>8, AtStays DEF Going
<1>11. LocksGuar(t)
  BY <1>1, <1>5, <1>6, <1>8, <1>9, LockTaken DEF Holds, StaysDue
<1>12. SlotsQuiet(t)
  BY <1>7, <1>9 DEF SlotsQuiet, HasSlot, Uses, Window
<1>13. WritesQuiet(t)
  BY <1>8, <1>9 DEF WritesQuiet, Writes, StaysDue
<1>14. PutOK(t)'
  BY <1>1, <1>2, <1>4, <1>9 DEF Holds, Good, Sound, Coherent, Type, PutOK
<1>15. OwnOK(t)'
  BY <1>7, <1>9, <1>10, <1>14 DEF OwnOK, NewOK
<1> QED BY <1>1, <1>10, <1>11, <1>12, <1>13, <1>15, TabSame, Quiet DEF Going

LEMMA PutSound ==
  ASSUME NEW t \in Procs, Going(t), Put(t)
  PROVE  Good'
<1>1. /\ pc[t] = "put" /\ pc[t] \in PutAt /\ Inv
      /\ UNCHANGED <<disk, committed, cwd, ofile, dropped>>
  BY GoodInv DEF Put, At, PutAt, Going, fsVars, procVars, history
<1>2. PICK i \in Inodes : i = Head(loc[t].puts) /\ i = First(loc[t].puts)
  BY <1>1, PutsType DEF First
<1>3. CASE Drop(t) /\ UNCHANGED lock
  BY <1>1, <1>3, DropSound
<1>4. CASE /\ Last(i)
           /\ Goto(t, IF Free(i) THEN "put_free" ELSE "panic")
           /\ IF Free(i) THEN Locked(t, i) ELSE UNCHANGED lock
           /\ UNCHANGED <<itable, loc>>
  BY <1>1, <1>2, <1>4, PutLast
<1> QED BY <1>2, <1>3, <1>4 DEF Put

LEMMA PutDropSound ==
  ASSUME NEW t \in Procs, Going(t), PutDrop(t)
  PROVE  Good'
BY DropSound DEF PutDrop, At, fsVars, procVars, history

LEMMA PutInvalSound ==
  ASSUME NEW t \in Procs, Going(t), PutInval(t)
  PROVE  Good'
<1>1. /\ pc[t] = "put_inval" /\ pc[t] \in PutAt /\ Good /\ Inv /\ pc'[t] = "put_drop"
      /\ UNCHANGED <<disk, committed, cwd, ofile, dropped, loc>>
  BY GoodInv DEF PutInval, At, PutAt, Going, Goto, Inv, TypeOK, fsVars, procVars, history
<1>2. PICK i \in Inodes : i = Head(loc[t].puts) /\ i = First(loc[t].puts)
  BY <1>1, PutsType DEF First
<1>3. /\ itable' = [itable EXCEPT ![i].valid = FALSE] /\ Unlocked(i)
  BY <1>2 DEF PutInval
<1>4. /\ \A k \in Inodes : k # i => itable'[k] = itable[k]
      /\ ~itable'[i].valid
  BY <1>1, <1>3, WorldTypes DEF Tables
<1>5. StaysDue(t)
  BY <1>1 DEF StaysDue, Due, PutAt
<1>6. \A k : /\ ~Freeing(t, k) /\ ~Freeing(t, k)' /\ ~Freed(t, k)' /\ ~New(t, k)' /\ ~New(t, k)
             /\ Freed(t, k) <=> k = i
  BY <1>1, <1>2 DEF Freeing, Freed, New
<1>7. lock[i] = t
  BY <1>1, <1>6 DEF Good, Sound, LocksOK, Holds
<1>8. loc[t].ip # i /\ loc[t].dp # i
  BY <1>1, <1>6 DEF Good, Sound, OwnOK, PutOK
<1>9. AtOK(t)' /\ DirsOK(t)' /\ SameDue(t)
  BY <1>1, <1>4, <1>5, <1>8, IpLocked, AtStays DEF Going
<1>10. Dying' = Dying /\ Pending' = Pending
  BY <1>9, DueSame DEF Going
<1>11. LocksGuar(t)
  BY <1>1, <1>3, <1>5, <1>6, <1>7, <1>8, LockGiven DEF Holds, StaysDue
<1>12. SlotsGuar(t)
  <2>1. ASSUME NEW k \in Inodes
        PROVE  /\ HasSlot(t, k)' <=> HasSlot(t, k)
               /\ Uses(t, k)' <=> Uses(t, k)
    BY <1>1 DEF HasSlot, Uses, Window
  <2>2. QED BY <1>1, <1>6, <2>1 DEF SlotsGuar, Type, Good, Sound, UsedOK
<1>13. TableGuar(t)
  BY <1>1, <1>4, <1>6, <1>7, MyLock DEF TableGuar
<1>14. DiskGuar(t)
  BY <1>1, <1>10 DEF DiskGuar, Type, DirKept, Ent, LiveDirs
<1>15. WritesGuar(t)
  BY <1>1, <1>5, <1>6 DEF WritesGuar, Writes, StaysDue
<1>16. OwnOK(t)'
  BY <1>1, <1>6, <1>9 DEF OwnOK, PutOK, NewOK
<1>17. TreeOK' /\ CommittedOK'
  BY <1>1, <1>10 DEF Good, Sound, TreeOK, CommittedOK
<1> QED BY <1>1, <1>11, <1>12, <1>13, <1>14, <1>15, <1>16, <1>17, Frame DEF Going

-----------------------------------------------------------------------------
(* The end of a call *)

\* When no other call is under way the disk is as it should be.
LEMMA AllEnded ==
  ASSUME Good, NEW t \in Procs, pc[t] = "end", inop = {t}
  PROVE  /\ Tree(disk, {}, NoPending) /\ \A i \in Inodes : ~Unwritten(disk, i)
<1>1. Inv
  BY GoodInv
<1>2. ASSUME NEW u \in Procs
      PROVE  /\ pc[u] \in {"idle", "end"} /\ Due(u) = pc[u] /\ loc[u].old = NoInode
  BY <1>1, LocalTypes, Known DEF Own, InOp, PutAt, HasOld, Has, Due
<1>3. ASSUME NEW u \in Procs, NEW i \in Inodes
      PROVE  ~DyingAt(u, i) /\ ~PendingAt(u, i) /\ ~Writes(u, i)
  BY <1>2, NotNoInode DEF DyingAt, PendingAt, Writes, New
<1>4. Dying = {} /\ Pending = NoPending
  BY <1>3 DEF Dying, Pending, NoPending
<1>5. \A i \in Inodes : ~Unwritten(disk, i)
  BY <1>3 DEF Good, Sound, LinksOK
<1> QED BY <1>4, <1>5 DEF Good, Sound, TreeOK

LEMMA EndSound ==
  ASSUME NEW t \in Procs, Going(t), End(t)
  PROVE  Good'
<1>1. /\ pc[t] = "end" /\ committed' = Commit(t) /\ Go(t, "idle", NoLocals)
      /\ UNCHANGED <<disk, itable, lock, cwd, ofile, dropped>>
  BY DEF End, At, tableVars, history
<1>2. /\ Good /\ Inv /\ pc[t] \notin PutAt \cup {"panic", "unlink_last"}
  BY <1>1, GoodInv DEF Going, PutAt
<1>3. /\ NoLocals \in Locals /\ NoLocals.ip = NoInode /\ NoLocals.dp = NoInode
      /\ NoLocals.old = NoInode /\ NoLocals.puts = <<>>
  BY NoLocalsIs
<1>4. /\ "idle" \in Labels \ (PutAt \cup {"panic"}) /\ "idle" \in Plain
      /\ "idle" \notin LockIp \cup LockDp /\ pc[t] \notin LockIp \cup LockDp
      /\ pc[t] \notin PutAt \cup WritesAt
  BY <1>1, Unlocked_
<1> DEFINE r == NoLocals
           l == "idle"
<1>5. Lands(t, l, r, NoInode, NoInode)
  BY <1>1, <1>2, <1>3, <1>4, LandsGo
<1>6. loc[t].old = NoInode
  BY <1>1, <1>2, Known DEF HasOld, Has
<1>7. CommittedOK'
  BY <1>1, <1>2, AllEnded DEF Commit, CommittedOK, Good, Sound
<1> HIDE DEF r
<1>8. LocksGuar(t) /\ WritesQuiet(t) /\ TabQuiet(t) /\ AtOK(t)'
  BY <1>1, <1>2, <1>4, <1>5, LandFree, WritesNone, TabSame, AtPlain
<1>9. r.ip = NoInode /\ r.dp = NoInode /\ r.old = NoInode
  BY <1>3 DEF r
<1>10. SameDue(t)
  BY <1>2, <1>5, <1>6, <1>9, LandsMeans, HereMeans DEF SameDue
<1>11. SlotsQuiet(t) /\ SlotsGuar(t)
  BY <1>1, <1>2, <1>5, <1>9, LandsMeans, HereMeans, NotNoInode DEF SlotsQuiet,
       SlotsGuar, Type, Good, Sound, UsedOK
<1>12. Dying' = Dying /\ Pending' = Pending
  BY <1>10, DueSame DEF Going
<1>13. TreeOK'
  BY <1>1, <1>2, <1>12 DEF Good, Sound, TreeOK
<1>14. DiskGuar(t)
  BY <1>1, <1>12 DEF DiskGuar, Type, DirKept, Ent, LiveDirs
<1>15. TableGuar(t)
  BY <1>1, <1>2, <1>8, QuietTable DEF PutAt
<1>16. WritesGuar(t)
  BY <1>1, <1>8 DEF WritesQuiet, WritesGuar
<1>17. OwnOK(t)'
  BY <1>1, <1>2, <1>5, <1>8, <1>9, PutLanded, NewLanded DEF DirsOK, Lands, Type, Good,
       Sound, OwnOK
<1> QED BY <1>2, <1>7, <1>8, <1>11, <1>13, <1>14, <1>15, <1>16, <1>17, Frame DEF Going

-----------------------------------------------------------------------------
(* A disk on which the live directories stay as they are *)

LEMMA NamesEntries ==
  /\ LinkNames \subseteq Entries /\ Names \subseteq LinkNames
  /\ ".." \in LinkNames /\ ".." \notin Names /\ "." \notin LinkNames
  /\ \A n \in LinkNames : n # ".." => n \in Names
BY FilesAssumption DEF LinkNames, Entries, FilesAssumption

LEMMA SameLiveIs ==
  ASSUME NEW d, NEW dy, NEW e, NEW f, SameLive(d, dy, e, f)
  PROVE  /\ LiveDirs(e, f) = LiveDirs(d, dy)
         /\ \A i : Links(e, f, i) = Links(d, dy, i)
<1>1. LiveDirs(e, f) = LiveDirs(d, dy)
  BY DEF SameLive, LiveDirs
<1>2. ASSUME NEW x \in Inodes \X LinkNames, x[1] \in LiveDirs(d, dy)
      PROVE  Ent(e, x[1], x[2]) = Ent(d, x[1], x[2])
  BY <1>2, NamesEntries DEF SameLive
<1>3. ASSUME NEW i
      PROVE  Links(e, f, i) = Links(d, dy, i)
  BY <1>1, <1>2 DEF Links
<1> QED BY <1>1, <1>3

LEMMA SameLiveTree ==
  ASSUME NEW d, NEW dy, NEW e, NEW f, SameLive(d, dy, e, f),
         ParentsOK(d, dy), NamedOnce(d, dy), RootOK(d, dy)
  PROVE  ParentsOK(e, f) /\ NamedOnce(e, f) /\ RootOK(e, f)
<1>1. /\ LiveDirs(e, f) = LiveDirs(d, dy)
      /\ \A i : Links(e, f, i) = Links(d, dy, i)
  BY SameLiveIs
<1>2. \A i \in LiveDirs(d, dy), n \in LinkNames : Ent(e, i, n) = Ent(d, i, n)
  BY NamesEntries DEF SameLive, LiveDirs
<1>3. ParentsOK(e, f)
  BY <1>1, <1>2, NamesEntries DEF ParentsOK
<1>4. NamedOnce(e, f)
  BY <1>1 DEF NamedOnce
<1>5. RootOK(e, f)
  BY <1>1, <1>2, NamesEntries DEF RootOK
<1> QED BY <1>3, <1>4, <1>5

-----------------------------------------------------------------------------
(* Blocks *)

LEMMA BlocksSame ==
  ASSUME NEW d, NEW e, BlocksOK(d), e.used = d.used,
         \A i \in Inodes : e.inode[i].addr = d.inode[i].addr,
         \A i \in Inodes : e.inode[i] = d.inode[i] \/ e.inode[i].type # "none"
  PROVE  BlocksOK(e)
BY DEF BlocksOK

LEMMA BlocksFreed ==
  ASSUME NEW d, NEW e, BlocksOK(d), NEW k \in Inodes,
         e.used = d.used \ {d.inode[k].addr}, e.inode[k].addr = NoBlock,
         \A i \in Inodes : i # k => e.inode[i] = d.inode[i],
         e.inode[k] = FreeDinode \/ e.inode[k].type # "none"
  PROVE  BlocksOK(e)
<1>1. \A i \in Inodes : e.inode[i].type = "none" => e.inode[i] = FreeDinode
  BY DEF BlocksOK
<1>2. \A i \in Inodes : e.inode[i].addr # NoBlock => e.inode[i].addr \in e.used
  BY DEF BlocksOK
<1>3. \A i, j \in Inodes :
        i # j /\ e.inode[i].addr # NoBlock => e.inode[i].addr # e.inode[j].addr
  BY DEF BlocksOK
<1>4. \A b \in e.used : \E i \in Inodes : e.inode[i].addr = b
  BY DEF BlocksOK
<1> QED BY <1>1, <1>2, <1>3, <1>4 DEF BlocksOK

LEMMA BlocksGrown ==
  ASSUME NEW d, NEW e, BlocksOK(d), NEW k \in Inodes, NEW b, b \notin d.used, b # NoBlock,
         NoBlock \notin d.used,
         e.used = d.used \cup {b}, d.inode[k].addr = NoBlock, e.inode[k].addr = b,
         \A i \in Inodes : i # k => /\ e.inode[i].addr = d.inode[i].addr
                                    /\ e.inode[i] = d.inode[i] \/ e.inode[i].type # "none",
         e.inode[k].type # "none"
  PROVE  BlocksOK(e)
<1>1. \A i \in Inodes : e.inode[i].type = "none" => e.inode[i] = FreeDinode
  BY DEF BlocksOK
<1>2. \A i \in Inodes : e.inode[i].addr # NoBlock => e.inode[i].addr \in e.used
  BY DEF BlocksOK
<1>3. \A i, j \in Inodes :
        i # j /\ e.inode[i].addr # NoBlock => e.inode[i].addr # e.inode[j].addr
  BY DEF BlocksOK
<1>4. ASSUME NEW c \in e.used PROVE \E i \in Inodes : e.inode[i].addr = c
  BY DEF BlocksOK
<1> QED BY <1>1, <1>2, <1>3, <1>4 DEF BlocksOK

-----------------------------------------------------------------------------
(* Counting, one more and one less *)

LEMMA OneMore ==
  ASSUME NEW S, IsFiniteSet(S), NEW x, x \notin S
  PROVE  Cardinality(S \cup {x}) = Cardinality(S) + 1 /\ Cardinality(S) \in Nat
BY FS_AddElement, FS_CardinalityType

LEMMA OneLess ==
  ASSUME NEW S, IsFiniteSet(S), NEW x, x \in S
  PROVE  /\ Cardinality(S \ {x}) = Cardinality(S) - 1 /\ Cardinality(S) \in Nat
         /\ Cardinality(S \ {x}) \in Nat /\ IsFiniteSet(S \ {x})
BY FS_RemoveElement, FS_CardinalityType

LEMMA SizeChange ==
  ASSUME NEW S, NEW T, IsFiniteSet(S), NEW x
  PROVE  /\ Cardinality(S) \in Nat
         /\ Same_(S, T) => Cardinality(T) = Cardinality(S)
         /\ Adds(S, T, x) => Cardinality(T) = Cardinality(S) + 1
         /\ Drops(S, T, x) => Cardinality(T) = Cardinality(S) - 1
BY OneMore, OneLess, FS_CardinalityType DEF Same_, Adds, Drops

LEMMA CountChange ==
  ASSUME NEW d, NEW dy, NEW pend, NEW e, NEW f, NEW q, NEW i,
         CountAt(d, dy, pend, i), pend[i] \in SUBSET Procs, NEW x, NEW t,
         LET L == Links(d, dy, i)
             M == Links(e, f, i)
             n == d.inode[i].nlink
             m == e.inode[i].nlink
         IN \/ Same_(L, M) /\ Same_(pend[i], q[i]) /\ m = n
            \/ Same_(L, M) /\ Adds(pend[i], q[i], t) /\ m = n + 1
            \/ Same_(L, M) /\ Drops(pend[i], q[i], t) /\ m = n - 1
            \/ Adds(L, M, x) /\ Drops(pend[i], q[i], t) /\ m = n
            \/ Drops(L, M, x) /\ Adds(pend[i], q[i], t) /\ m = n
            \/ Adds(L, M, x) /\ Same_(pend[i], q[i]) /\ m = n + 1
            \/ Drops(L, M, x) /\ Same_(pend[i], q[i]) /\ m = n - 1
  PROVE  CountAt(e, f, q, i)
<1> DEFINE L == Links(d, dy, i)
           M == Links(e, f, i)
           n == d.inode[i].nlink
           m == e.inode[i].nlink
           P == pend[i]
           Q == q[i]
<1>1. IsFiniteSet(L) /\ IsFiniteSet(P)
  BY LinksFinite, ProcsFinite
<1>2. n = Cardinality(L) + Cardinality(P)
  BY DEF CountAt
<1>3. \/ Same_(L, M) /\ Same_(P, Q) /\ m = n
      \/ Same_(L, M) /\ Adds(P, Q, t) /\ m = n + 1
      \/ Same_(L, M) /\ Drops(P, Q, t) /\ m = n - 1
      \/ Adds(L, M, x) /\ Drops(P, Q, t) /\ m = n
      \/ Drops(L, M, x) /\ Adds(P, Q, t) /\ m = n
      \/ Adds(L, M, x) /\ Same_(P, Q) /\ m = n + 1
      \/ Drops(L, M, x) /\ Same_(P, Q) /\ m = n - 1
  OBVIOUS
<1> SUFFICES m = Cardinality(M) + Cardinality(Q)
  BY DEF CountAt
<1> HIDE DEF L, M, n, m, P, Q
<1>4. /\ Cardinality(L) \in Nat
      /\ Same_(L, M) => Cardinality(M) = Cardinality(L)
      /\ Adds(L, M, x) => Cardinality(M) = Cardinality(L) + 1
      /\ Drops(L, M, x) => Cardinality(M) = Cardinality(L) - 1
  BY <1>1, SizeChange
<1>5. /\ Cardinality(P) \in Nat
      /\ Same_(P, Q) => Cardinality(Q) = Cardinality(P)
      /\ Adds(P, Q, t) => Cardinality(Q) = Cardinality(P) + 1
      /\ Drops(P, Q, t) => Cardinality(Q) = Cardinality(P) - 1
  BY <1>1, SizeChange
<1> QED BY <1>2, <1>3, <1>4, <1>5

LEMMA CountsAre ==
  ASSUME NEW d, NEW dy, NEW pend
  PROVE  CountsOK(d, dy, pend) <=> \A i \in Inodes : CountAt(d, dy, pend, i)
BY DEF CountsOK, CountAt

-----------------------------------------------------------------------------
(* A step that changes what it has locked, or locks, of the disk *)

LEMMA LoudDirs ==
  ASSUME Good, NEW t \in Procs, Alone(t), LocksGuar(t), NEW i \in LiveDirs(disk, Dying),
         disk'.inode[i] = disk.inode[i],
         \A n \in Entries : Ent(disk', i, n) = Ent(disk, i, n),
         NEW u \in Procs \ {t}, Holds(u, i)
  PROVE  DirKept(i)
<1>1. i \in Inodes /\ i \notin Dying
  BY DEF LiveDirs
<1>2. lock'[i] = u
  BY <1>1 DEF LocksGuar, Good, Sound, LocksOK
<1>3. ASSUME NEW v \in Procs, DyingAt(v, i)' PROVE FALSE
  BY <1>1, <1>2, <1>3, Others_ DEF DyingAt, Holds, LockIp, LocksGuar, Dying
<1>4. i \notin Dying'
  BY <1>3 DEF Dying
<1> QED BY <1>1, <1>4 DEF DirKept, LiveDirs

LEMMA LoudDisk ==
  ASSUME Good, NEW t \in Procs, Alone(t), LocksGuar(t), DiskLoud(t)
  PROVE  DiskGuar(t) /\ \A i \in Inodes : Type(i)' = Type(i)
<1>1. \A i \in Inodes : Type(i)' = Type(i)
  BY DEF DiskLoud, Type
<1>2. ASSUME NEW i \in Inodes, NEW u \in Procs \ {t}
      PROVE  /\ Uses(u, i) => Type(i)' = Type(i)
             /\ Holds(u, i) \/ New(u, i) => disk'.inode[i] = disk.inode[i]
             /\ Holds(u, i) => DirKept(i)
  BY <1>1, LoudDirs, MyLock DEF DirKept, Good, Sound, OwnOK, NewOK, DiskLoud
<1> QED BY <1>1, <1>2 DEF DiskGuar

LEMMA LoudTable ==
  ASSUME Good, NEW t \in Procs, TabLoud(t), pc[t] # "put_inval"
  PROVE  TableGuar(t)
<1> SUFFICES ASSUME NEW i \in Inodes
             PROVE
    /\ (\E u \in Procs \ {t} : Holds(u, i)) /\ itable[i].valid
         => itable'[i].valid /\ itable'[i].ino = itable[i].ino
    /\ itable'[i].valid =>
         \/ itable'[i].ino = disk'.inode[i] /\ Type(i)' # "none"
         \/ Freed(t, i)'
         \/ /\ itable[i].valid /\ itable'[i].ino = itable[i].ino
            /\ disk'.inode[i] = disk.inode[i] /\ ~Freed(t, i)
         \/ \E u \in Procs \ {t} : Freed(u, i)
  BY DEF TableGuar
<1>1. ~Freed(t, i)
  BY DEF Freed
<1>2. CASE /\ itable'[i].valid = itable[i].valid /\ itable'[i].ino = itable[i].ino
           /\ disk'.inode[i] = disk.inode[i]
  BY <1>1, <1>2
<1>3. CASE /\ itable'[i].valid /\ itable'[i].ino = disk'.inode[i] /\ Type(i)' # "none"
           /\ lock[i] \in {Nobody, t}
  BY <1>3, MyLock
<1> QED BY <1>2, <1>3 DEF TabLoud

LEMMA LoudStep ==
  ASSUME Good, Inv2', NEW t \in Procs, Alone(t), RefStep(t),
         UNCHANGED <<committed, dropped>>, cwd'[t] = cwd[t],
         pc[t] \notin PutAt \cup {"panic"},
         NEW l, NEW r, NEW a, NEW b, Lands(t, l, r, a, b),
         l \notin {"create_get", "create_fill"},
         {r.ip, r.dp, r.old, a, b, ofile'[t].ip}
           \subseteq {cwd[t], ofile[t].ip, loc[t].ip, loc[t].dp, loc[t].old, NoInode},
         r.dp \in {NoInode, loc[t].dp},
         r.old \in {NoInode, loc[t].old} \/ Type(r.old) \in {"file", "symlink"},
         LocksGuar(t), TabLoud(t), DiskLoud(t), WritesGuar(t), AtOK(t)', TreeOK'
  PROVE  Good'
<1>1. Inv /\ DirsOK(t)
  BY DEF Good, Inv2, Sound, OwnOK
<1>2. DiskGuar(t) /\ \A i \in Inodes : Type(i)' = Type(i)
  BY LoudDisk
<1>3. ASSUME NEW i \in Inodes
      PROVE  /\ HasSlot(t, i)' => HasSlot(t, i)
             /\ Uses(t, i)' => Uses(t, i)
             /\ ~New(t, i)'
  BY <1>1, LandsMeans, NotNoInode, HereMeans DEF HasSlot
<1>4. SlotsGuar(t)
  BY <1>2, <1>3 DEF SlotsGuar, Good, Sound, UsedOK
<1>5. DirsOK(t)'
  <2>1. r.dp # NoInode => Type(r.dp)' = "dir"
    BY <1>1, <1>2, LocalTypes DEF Locals, Inums, DirsOK, Type
  <2>2. r.old # NoInode => disk'.inode[r.old].type \in {"file", "symlink"}
    BY <1>1, <1>2, LocalTypes DEF DirsOK, Locals, Inums, Type
  <2>3. disk'.inode[cwd'[t]].type = "dir"
    BY <1>1, <1>2, LocalTypes DEF DirsOK, Type
  <2>4. loc'[t].dp = r.dp /\ loc'[t].old = r.old
    BY DEF Lands
  <2>5. r.dp # NoInode => disk'.inode[r.dp].type = "dir"
    BY <2>1 DEF Type
  <2>6. QED BY <2>2, <2>3, <2>4, <2>5 DEF DirsOK, Type
<1>6. OwnOK(t)'
  BY <1>5, PutLanded, NewLanded DEF OwnOK, Lands
<1>7. TableGuar(t)
  BY LoudTable DEF PutAt
<1>8. CommittedOK'
  BY DEF CommittedOK, Good, Sound
<1> QED BY <1>2, <1>4, <1>6, <1>7, <1>8, Frame

-----------------------------------------------------------------------------
(* What is pending and dying after a step *)

LEMMA PendingStep ==
  ASSUME NEW t \in Procs, Alone(t), NEW i \in Inodes
  PROVE  /\ (PendingAt(t, i)' <=> PendingAt(t, i)) => Same_(Pending[i], Pending'[i])
         /\ PendingAt(t, i)' /\ ~PendingAt(t, i) => Adds(Pending[i], Pending'[i], t)
         /\ ~PendingAt(t, i)' /\ PendingAt(t, i) => Drops(Pending[i], Pending'[i], t)
<1>1. \A u \in Procs : u # t => (PendingAt(u, i)' <=> PendingAt(u, i))
  BY Others_
<1>2. Pending[i] = {u \in Procs : PendingAt(u, i)}
  BY DEF Pending
<1>3. Pending'[i] = {u \in Procs : PendingAt(u, i)'}
  BY DEF Pending
<1>4. ASSUME PendingAt(t, i)' <=> PendingAt(t, i)
      PROVE  Same_(Pending[i], Pending'[i])
  BY <1>1, <1>2, <1>3, <1>4 DEF Same_
<1>5. ASSUME PendingAt(t, i)', ~PendingAt(t, i)
      PROVE  Adds(Pending[i], Pending'[i], t)
  BY <1>1, <1>2, <1>3, <1>5 DEF Adds
<1>6. ASSUME ~PendingAt(t, i)', PendingAt(t, i)
      PROVE  Drops(Pending[i], Pending'[i], t)
  BY <1>1, <1>2, <1>3, <1>6 DEF Drops
<1> QED BY <1>4, <1>5, <1>6

LEMMA DyingStep ==
  ASSUME NEW t \in Procs, Alone(t), NEW i \in Inodes
  PROVE  /\ (DyingAt(t, i)' <=> DyingAt(t, i)) => (i \in Dying' <=> i \in Dying)
         /\ DyingAt(t, i)' => i \in Dying'
         /\ DyingAt(t, i) => i \in Dying
BY Others_ DEF Dying

\* When only inode k of the disk changes, and it is no live directory.
OnlyAt(k) ==
  \A i \in Inodes : i # k =>
     /\ disk'.inode[i] = disk.inode[i]
     /\ disk.inode[i].addr # NoBlock => \A n \in Entries : Ent(disk', i, n) = Ent(disk, i, n)

LEMMA OneInodeTree ==
  ASSUME Good, NEW t \in Procs, Alone(t), NEW k \in Inodes, OnlyAt(k),
         k \notin LiveDirs(disk, Dying), k \notin LiveDirs(disk, Dying)',
         BlocksOK(disk'),
         disk'.inode[k].type = "dir" =>
           \/ disk'.inode[k].addr = NoBlock /\ disk'.inode[k].nlink = 0
           \/ /\ Type(k) = "dir" /\ disk.inode[k].addr # NoBlock
              /\ disk'.inode[k].addr = disk.inode[k].addr
              /\ \A n \in Entries : Ent(disk', k, n) = Ent(disk, k, n),
         \A i \in Inodes : i # k => /\ PendingAt(t, i)' <=> PendingAt(t, i)
                                    /\ DyingAt(t, i)' <=> DyingAt(t, i),
         \/ disk'.inode[k].nlink = disk.inode[k].nlink /\ (PendingAt(t, k)' <=> PendingAt(t, k))
         \/ disk'.inode[k].nlink = disk.inode[k].nlink + 1 /\ PendingAt(t, k)' /\ ~PendingAt(t, k)
         \/ disk'.inode[k].nlink = disk.inode[k].nlink - 1 /\ ~PendingAt(t, k)' /\ PendingAt(t, k)
  PROVE  TreeOK'
<1>1. Tree(disk, Dying, Pending)
  BY DEF Good, Sound, TreeOK
<1>2. \A i \in Inodes : i # k => (i \in Dying' <=> i \in Dying)
  BY DyingStep
<1>3. \A i \in LiveDirs(disk, Dying) : i # k /\ disk.inode[i].addr # NoBlock /\ i \in Inodes
  BY <1>1 DEF Tree, DotsOK, LiveDirs
<1>4. \A i \in Inodes : i \in LiveDirs(disk, Dying)' <=> i \in LiveDirs(disk, Dying)
  BY <1>2 DEF LiveDirs, OnlyAt
<1>5. SameLive(disk, Dying, disk', Dying')
  BY <1>3, <1>4 DEF SameLive, OnlyAt
<1>6. ParentsOK(disk', Dying') /\ NamedOnce(disk', Dying') /\ RootOK(disk', Dying')
  BY <1>1, <1>5, SameLiveTree DEF Tree
<1>7. DotsOK(disk', Dying')
  <2> SUFFICES ASSUME NEW i \in Inodes, disk'.inode[i].type = "dir"
               PROVE  \/ disk'.inode[i].addr = NoBlock /\ disk'.inode[i].nlink = 0
                      \/ /\ disk'.inode[i].addr # NoBlock
                         /\ Ent(disk', i, ".") = i
                         /\ i \notin LiveDirs(disk', Dying') =>
                              \A n \in Names : Ent(disk', i, n) = NoInode
    BY DEF DotsOK
  <2>0. "." \in Entries /\ Names \subseteq Entries
    BY DEF Entries
  <2>1. i \notin LiveDirs(disk', Dying') => i \notin LiveDirs(disk, Dying)
    BY <1>4
  <2>2. CASE i # k
    BY <1>1, <2>0, <2>1, <2>2 DEF OnlyAt, Tree, DotsOK
  <2>3. CASE i = k
    BY <1>1, <2>0, <2>3 DEF Tree, DotsOK, Type
  <2>4. QED BY <2>2, <2>3
<1>8. CountsOK(disk', Dying', Pending')
  <2>1. \A i : Links(disk', Dying', i) = Links(disk, Dying, i)
    BY <1>5, SameLiveIs
  <2>2. ASSUME NEW i \in Inodes PROVE CountAt(disk', Dying', Pending', i)
    <3>1. CountAt(disk, Dying, Pending, i) /\ Pending[i] \in SUBSET Procs
      BY <1>1, CountsAre, PendingProcs DEF Tree
    <3>2. Same_(Links(disk, Dying, i), Links(disk', Dying', i))
      BY <2>1 DEF Same_
    <3>3. \/ /\ Same_(Pending[i], Pending'[i])
             /\ disk'.inode[i].nlink = disk.inode[i].nlink
          \/ /\ Adds(Pending[i], Pending'[i], t)
             /\ disk'.inode[i].nlink = disk.inode[i].nlink + 1
          \/ /\ Drops(Pending[i], Pending'[i], t)
             /\ disk'.inode[i].nlink = disk.inode[i].nlink - 1
      BY PendingStep DEF OnlyAt
    <3>4. QED BY <3>1, <3>2, <3>3, CountChange
  <2>3. QED BY <2>2, CountsAre
<1> QED BY <1>6, <1>7, <1>8 DEF TreeOK, Tree

LEMMA OneInodeLoud ==
  ASSUME Good, NEW t \in Procs, NEW k \in Inodes, OnlyAt(k), NEW new \in Dinodes,
         Uses(t, k), lock[k] \in {Nobody, t}, new.type = Type(k),
         disk'.inode[k] = new, itable' = Cached(itable, k, new)
  PROVE  TabLoud(t) /\ DiskLoud(t)
<1>1. itable \in Tables
  BY WorldTypes, GoodInv
<1>2. /\ \A i \in Inodes : i # k => itable'[i] = itable[i]
      /\ itable'[k].valid /\ itable'[k].ino = new
  BY <1>1, CachedIs
<1>3. Type(k)' = Type(k) /\ Type(k) # "none"
  BY DEF Type, Good, Sound, UsedOK
<1>4. \A i \in Inodes : i # k => disk'.inode[i] = disk.inode[i]
  BY DEF OnlyAt
<1>5. TabLoud(t)
  BY <1>2, <1>3, <1>4 DEF TabLoud
<1>6. ASSUME NEW i \in LiveDirs(disk, Dying) PROVE disk.inode[i].addr # NoBlock /\ i \in Inodes
  BY DEF Good, Sound, TreeOK, Tree, DotsOK, LiveDirs
<1>7. DiskLoud(t)
  BY <1>3, <1>6 DEF DiskLoud, OnlyAt
<1> QED BY <1>5, <1>7

LEMMA OnlyOnDisk ==
  ASSUME disk \in Disks, NEW k \in Inodes, NEW new \in Dinodes, disk' = OnDisk(disk, k, new)
  PROVE  /\ OnlyAt(k) /\ disk'.inode[k] = new
         /\ disk'.used = disk.used /\ disk'.ents = disk.ents
BY OnDiskIs DEF OnlyAt, Ent

-----------------------------------------------------------------------------
(* A link counted, or one not counted any more *)

LEMMA CountStep ==
  ASSUME Good, NEW t \in Procs, Alone(t), NEW k \in Inodes, NEW n,
         NEW new \in Dinodes, new = [disk.inode[k] EXCEPT !.nlink = n],
         disk' = OnDisk(disk, k, new), itable' = Cached(itable, k, new),
         Uses(t, k), lock[k] \in {Nobody, t},
         k \notin LiveDirs(disk, Dying), k \notin LiveDirs(disk, Dying)',
         Type(k) = "dir" => disk.inode[k].addr # NoBlock,
         \A i \in Inodes : i # k => /\ PendingAt(t, i)' <=> PendingAt(t, i)
                                    /\ DyingAt(t, i)' <=> DyingAt(t, i),
         \/ n = disk.inode[k].nlink + 1 /\ PendingAt(t, k)' /\ ~PendingAt(t, k)
         \/ n = disk.inode[k].nlink - 1 /\ ~PendingAt(t, k)' /\ PendingAt(t, k)
  PROVE  /\ TreeOK' /\ TabLoud(t) /\ DiskLoud(t)
         /\ \A i \in Inodes : Unwritten(disk', i) <=> Unwritten(disk, i)
<1>1. disk \in Disks /\ disk.inode[k] \in Dinodes
  BY WorldTypes, GoodInv DEF Disks
<1>2. /\ OnlyAt(k) /\ disk'.inode[k] = new
      /\ disk'.used = disk.used /\ disk'.ents = disk.ents
  BY <1>1, OnlyOnDisk
<1>3. new.type = Type(k) /\ new.addr = disk.inode[k].addr /\ new.nlink = n
  BY <1>1 DEF Dinodes, Type
<1>4. Type(k) # "none"
  BY DEF Good, Sound, UsedOK
<1>5. \A i \in Inodes : i # k => disk'.inode[i] = disk.inode[i]
  BY <1>2 DEF OnlyAt
<1>6. BlocksOK(disk')
  <2>1. BlocksOK(disk)
    BY DEF Good, Sound, TreeOK, Tree
  <2>2. \A i \in Inodes : disk'.inode[i].addr = disk.inode[i].addr
    BY <1>2, <1>3, <1>5
  <2>3. \A i \in Inodes : disk'.inode[i] = disk.inode[i] \/ disk'.inode[i].type # "none"
    BY <1>2, <1>3, <1>4, <1>5
  <2>4. QED BY <1>2, <2>1, <2>2, <2>3, BlocksSame
<1>7. disk'.inode[k].type = "dir" =>
        /\ Type(k) = "dir" /\ disk.inode[k].addr # NoBlock
        /\ disk'.inode[k].addr = disk.inode[k].addr
        /\ \A m \in Entries : Ent(disk', k, m) = Ent(disk, k, m)
  BY <1>2, <1>3 DEF Ent
<1>8. TabLoud(t) /\ DiskLoud(t)
  BY <1>2, <1>3, OneInodeLoud
<1>9. \A i \in Inodes : Unwritten(disk', i) <=> Unwritten(disk, i)
  BY <1>2, <1>3, <1>5 DEF Unwritten, Type
<1>10. \/ disk'.inode[k].nlink = disk.inode[k].nlink + 1 /\ PendingAt(t, k)' /\ ~PendingAt(t, k)
       \/ disk'.inode[k].nlink = disk.inode[k].nlink - 1 /\ ~PendingAt(t, k)' /\ PendingAt(t, k)
  BY <1>2, <1>3
<1>11. TreeOK'
  BY <1>2, <1>6, <1>7, <1>10, OneInodeTree
<1> QED BY <1>8, <1>9, <1>11

LEMMA WritesSame ==
  ASSUME Inv, NEW t \in Procs, pc[t] \notin PutAt \cup WritesAt,
         \A i \in Inodes : Unwritten(disk', i) <=> Unwritten(disk, i)
  PROVE  WritesGuar(t)
BY DEF WritesGuar, Writes, New, Due, WritesAt

LEMMA LinkCounts ==
  ASSUME NEW t \in Procs, Going(t), Link(t), Type(loc[t].ip) \in {"file", "symlink"}
  PROVE  Good'
<1> DEFINE r == loc[t]
           ino == Ino(r.ip)
           new == [ino EXCEPT !.nlink = @ + 1]
           q == [r EXCEPT !.old = r.ip, !.ip = NoInode]
           l == "link_path"
<1>1. /\ pc[t] = "link" /\ pc[t] \notin PutAt \cup {"panic", "idle", "unlink_last"}
      /\ Free(r.ip) /\ pc[t] \in IpAt /\ pc[t] \notin DpAt
  BY DEF Link, At, PutAt, IpAt, DpAt
<1>2. /\ Good /\ Inv /\ Inv2' /\ Alone(t) /\ RefStep(t)
      /\ r \in Locals /\ Has("link", r) /\ disk \in Disks /\ r.puts = <<>>
  BY <1>1, GoodInv, Known, WorldTypes DEF Going
<1>3. PICK k \in Inodes : k = r.ip
  BY <1>1, <1>2 DEF Has, Inums, Locals
<1>4. /\ Uses(t, k) /\ lock[k] \in {Nobody, t}
      /\ ino = disk.inode[k] /\ ino \in Dinodes /\ Type(k) # "none" /\ ino.type # "none"
  BY <1>1, <1>2, <1>3, Ilock
<1>5. /\ disk' = OnDisk(disk, k, new) /\ itable' = Cached(itable, k, new)
      /\ Go(t, l, q)
      /\ UNCHANGED <<committed, lock, procVars, events, history>>
  BY <1>3, <1>4 DEF Link, Type
<1>6. r.old = NoInode /\ r.dp = NoInode
  BY <1>1, <1>2 DEF Has, HasOld, DpAt
<1>7. /\ q \in Locals /\ q.ip = NoInode /\ q.old = k /\ q.dp = NoInode /\ q.puts = <<>>
  BY <1>2, <1>3, <1>6 DEF Locals, Inums
<1>8. new \in Dinodes /\ new = [disk.inode[k] EXCEPT !.nlink = disk.inode[k].nlink + 1]
      /\ new.type = Type(k)
  BY <1>4 DEF Dinodes, Type
<1>9. l \in Labels \ (PutAt \cup {"panic"}) /\ l \in Plain /\ l \notin LockIp \cup LockDp
      /\ pc[t] \notin LockIp \cup LockDp /\ pc[t] \notin PutAt \cup WritesAt
      /\ l \notin {"create_get", "create_fill"}
  BY <1>1, Unlocked_
<1>10. Lands(t, l, q, NoInode, NoInode)
  BY <1>2, <1>5, <1>7, <1>9, LandsGo
<1> HIDE DEF q, new
<1>11. \A i \in Inodes : /\ PendingAt(t, i)' <=> i = k
                         /\ ~DyingAt(t, i)' /\ ~DyingAt(t, i) /\ ~PendingAt(t, i)
  BY <1>1, <1>2, <1>6, <1>7, <1>10, LandsMeans, HereMeans, NotNoInode
<1>12. Type(k) \in {"file", "symlink"}
  BY <1>3
<1>13. k \notin LiveDirs(disk, Dying) /\ k \notin LiveDirs(disk, Dying)'
  BY <1>2, <1>5, <1>8, <1>12, OnlyOnDisk DEF LiveDirs, Type
<1>14. /\ TreeOK' /\ TabLoud(t) /\ DiskLoud(t)
       /\ \A i \in Inodes : Unwritten(disk', i) <=> Unwritten(disk, i)
  <2>1. PICK n : n = disk.inode[k].nlink + 1
    OBVIOUS
  <2>2. new = [disk.inode[k] EXCEPT !.nlink = n]
    BY <1>8, <2>1
  <2>3. Type(k) = "dir" => disk.inode[k].addr # NoBlock
    BY <1>12
  <2>4. PendingAt(t, k)' /\ ~PendingAt(t, k)
    BY <1>11
  <2>5. QED BY <1>2, <1>4, <1>5, <1>8, <1>11, <1>13, <2>1, <2>2, <2>3, <2>4, CountStep
<1>15. LocksGuar(t) /\ WritesGuar(t) /\ AtOK(t)'
  BY <1>1, <1>2, <1>5, <1>9, <1>10, <1>14, LandFree, WritesSame, AtPlain
<1>16. UNCHANGED <<committed, dropped>> /\ cwd'[t] = cwd[t] /\ ofile'[t] = ofile[t]
  BY <1>5 DEF procVars, history
<1>17. {q.ip, q.dp, q.old, NoInode, NoInode, ofile'[t].ip}
          \subseteq {cwd[t], ofile[t].ip, loc[t].ip, loc[t].dp, loc[t].old, NoInode}
  BY <1>3, <1>7, <1>16
<1>18. q.dp \in {NoInode, loc[t].dp} /\ Type(q.old) \in {"file", "symlink"}
  BY <1>7, <1>12
<1> QED BY <1>1, <1>2, <1>9, <1>10, <1>14, <1>15, <1>16, <1>17, <1>18, LoudStep

LEMMA LinkBadSound ==
  ASSUME NEW t \in Procs, Going(t), LinkBad(t)
  PROVE  Good'
<1> DEFINE r == loc[t]
           ino == Ino(r.old)
           new == [ino EXCEPT !.nlink = @ - 1]
           q == [r EXCEPT !.old = NoInode]
           l == "end"
<1>1. /\ pc[t] = "link_bad" /\ pc[t] \notin PutAt \cup {"panic", "idle", "unlink_last"}
      /\ Free(r.old) /\ pc[t] \notin IpAt /\ pc[t] \notin DpAt
  BY DEF LinkBad, At, PutAt, IpAt, DpAt
<1>2. /\ Good /\ Inv /\ Inv2' /\ Alone(t) /\ RefStep(t) /\ DirsOK(t)
      /\ r \in Locals /\ Has("link_bad", r) /\ disk \in Disks /\ r.puts = <<>>
  BY <1>1, GoodInv, Known, WorldTypes DEF Going, Good, Sound, OwnOK
<1>3. PICK k \in Inodes : k = r.old
  BY <1>1, <1>2 DEF Has, HasOld, Inums, Locals
<1>4. /\ Uses(t, k) /\ lock[k] \in {Nobody, t}
      /\ ino = disk.inode[k] /\ ino \in Dinodes
      /\ Type(k) \in {"file", "symlink"}
  BY <1>1, <1>2, <1>3, Ilock, NotNoInode DEF DirsOK
<1>5. /\ disk' = OnDisk(disk, k, new) /\ itable' = Cached(itable, k, new)
      /\ PutThen(t, q, <<k>>, l)
      /\ UNCHANGED <<committed, lock, procVars, events, history>>
  BY <1>3 DEF LinkBad
<1>6. r.ip = NoInode /\ r.dp = NoInode
  BY <1>1, <1>2 DEF Has
<1>7. /\ q \in Locals /\ q.ip = NoInode /\ q.old = NoInode /\ q.dp = NoInode
  BY <1>2, <1>6 DEF Locals, Inums
<1>8. new \in Dinodes /\ new = [disk.inode[k] EXCEPT !.nlink = disk.inode[k].nlink - 1]
      /\ new.type = Type(k)
  BY <1>4 DEF Dinodes, Type
<1>9. l \in Nexts /\ l \in Plain /\ l \notin LockIp \cup LockDp
      /\ pc[t] \notin LockIp \cup LockDp /\ pc[t] \notin PutAt \cup WritesAt
      /\ l \notin {"create_get", "create_fill"}
  BY <1>1, Unlocked_
<1>10. Lands(t, l, q, k, NoInode)
  BY <1>1, <1>2, <1>5, <1>7, <1>9, LandsPut
<1> HIDE DEF q, new
<1>11. \A i \in Inodes : /\ PendingAt(t, i) <=> i = k
                         /\ ~DyingAt(t, i)' /\ ~DyingAt(t, i) /\ ~PendingAt(t, i)'
  BY <1>1, <1>2, <1>3, <1>6, <1>7, <1>10, LandsMeans, HereMeans, NotNoInode
<1>12. k \notin LiveDirs(disk, Dying) /\ k \notin LiveDirs(disk, Dying)'
  BY <1>2, <1>4, <1>5, <1>8, OnlyOnDisk DEF LiveDirs, Type
<1>13. /\ TreeOK' /\ TabLoud(t) /\ DiskLoud(t)
       /\ \A i \in Inodes : Unwritten(disk', i) <=> Unwritten(disk, i)
  BY <1>2, <1>4, <1>5, <1>8, <1>11, <1>12, CountStep
<1>14. LocksGuar(t) /\ WritesGuar(t) /\ AtOK(t)'
  BY <1>1, <1>2, <1>5, <1>9, <1>10, <1>13, LandFree, WritesSame, AtPlain
<1>15. UNCHANGED <<committed, dropped>> /\ cwd'[t] = cwd[t] /\ ofile'[t] = ofile[t]
  BY <1>5 DEF procVars, history
<1>16. {q.ip, q.dp, q.old, k, NoInode, ofile'[t].ip}
          \subseteq {cwd[t], ofile[t].ip, loc[t].ip, loc[t].dp, loc[t].old, NoInode}
  BY <1>3, <1>7, <1>15
<1>17. q.dp \in {NoInode, loc[t].dp} /\ q.old \in {NoInode, loc[t].old}
  BY <1>7
<1> QED BY <1>1, <1>2, <1>9, <1>10, <1>13, <1>14, <1>15, <1>16, <1>17, LoudStep

\* What the lock's owner finds in the table.
LEMMA OwnedDisk ==
  ASSUME Good, NEW t \in Procs, Due(t) \in LockIp
  PROVE  /\ loc[t].ip \in Inodes /\ lock[loc[t].ip] = t
         /\ itable[loc[t].ip].valid
         /\ itable[loc[t].ip].ino = disk.inode[loc[t].ip]
         /\ Uses(t, loc[t].ip) /\ Type(loc[t].ip) # "none"
<1>1. PICK k \in Inodes : k = loc[t].ip /\ Holds(t, k)
  BY IpLocked
<1>2. lock[k] = t /\ itable[k].valid
  BY <1>1 DEF Good, Sound, LocksOK, OwnOK, AtOK
<1>3. Uses(t, k)
  BY <1>1 DEF Uses
<1>4. \A u \in Procs : ~Freed(u, k)
  BY <1>1, <1>2, MyLock DEF Holds, Good, Sound, OwnOK, PutOK
<1>5. itable[k].ino = disk.inode[k] /\ Type(k) # "none"
  BY <1>2, <1>4 DEF Good, Sound, Coherent
<1> QED BY <1>1, <1>2, <1>3, <1>5

LEMMA UnlinkLastSound ==
  ASSUME NEW t \in Procs, Going(t), UnlinkLast(t)
  PROVE  Good'
<1> DEFINE r == loc[t]
           ino == itable[r.ip].ino
           new == [ino EXCEPT !.nlink = @ - 1]
           q == [r EXCEPT !.ip = NoInode]
           l == "end"
<1>1. /\ pc[t] = "unlink_last" /\ pc[t] \notin PutAt \cup {"panic", "idle"}
      /\ pc[t] \in LockIp /\ pc[t] \notin LockDp /\ pc[t] \notin DpAt
  BY DEF UnlinkLast, At, PutAt, LockIp, LockDp, DpAt
<1>2. /\ Good /\ Inv /\ Inv2' /\ Alone(t) /\ RefStep(t) /\ AtOK(t) /\ Due(t) = "unlink_last"
      /\ r \in Locals /\ Has("unlink_last", r) /\ disk \in Disks /\ r.puts = <<>>
  BY <1>1, GoodInv, Known, WorldTypes, HereMeans DEF Going, Good, Sound, OwnOK
<1>3. PICK k \in Inodes : k = r.ip /\ lock[k] = t /\ ino = disk.inode[k]
                          /\ Uses(t, k) /\ Type(k) # "none"
  BY <1>1, <1>2, OwnedDisk
<1>4. ino \in Dinodes /\ (Type(k) = "dir" => ino.nlink = 1)
  BY <1>2, <1>3 DEF Disks, AtOK
<1>5. /\ disk' = OnDisk(disk, k, new) /\ itable' = Cached(itable, k, new)
      /\ Unlocked(k) /\ PutThen(t, q, <<k>>, l)
      /\ UNCHANGED <<committed, procVars, events, history>>
  BY <1>3 DEF UnlinkLast, GiveUp
<1>6. r.old = NoInode /\ r.dp = NoInode
  BY <1>1, <1>2 DEF Has, HasOld
<1>7. /\ q \in Locals /\ q.ip = NoInode /\ q.old = NoInode /\ q.dp = NoInode
  BY <1>2, <1>6 DEF Locals, Inums
<1>8. /\ new \in Dinodes /\ new = [disk.inode[k] EXCEPT !.nlink = disk.inode[k].nlink - 1]
      /\ new.type = Type(k) /\ (Type(k) = "dir" => new.nlink = 0)
  BY <1>3, <1>4 DEF Dinodes, Type
<1>9. l \in Nexts /\ l \in Plain /\ l \notin LockIp \cup LockDp
      /\ pc[t] \notin PutAt \cup WritesAt
      /\ l \notin {"create_get", "create_fill"}
  BY <1>1, Unlocked_ DEF WritesAt
<1>10. Lands(t, l, q, k, NoInode)
  BY <1>1, <1>2, <1>5, <1>7, <1>9, LandsPut
<1> HIDE DEF q, new
<1>11. \A i \in Inodes : /\ PendingAt(t, i) <=> i = k
                         /\ DyingAt(t, i) <=> i = k
                         /\ ~DyingAt(t, i)' /\ ~PendingAt(t, i)'
  BY <1>1, <1>2, <1>3, <1>6, <1>7, <1>10, LandsMeans, HereMeans, NotNoInode
<1>12. k \notin LiveDirs(disk, Dying) /\ k \notin LiveDirs(disk, Dying)'
  <2>1. disk'.inode[k] = new
    BY <1>2, <1>5, <1>8, OnlyOnDisk
  <2>2. k \in Dying
    BY <1>11 DEF Dying
  <2>3. QED
    <3>1. k \in LiveDirs(disk, Dying)' => new.type = "dir" /\ new.nlink > 0
      BY <2>1 DEF LiveDirs
    <3>2. k \notin LiveDirs(disk, Dying)'
      BY <1>8, <3>1
    <3>3. QED BY <2>2, <3>2 DEF LiveDirs
<1>13. /\ TreeOK' /\ TabLoud(t) /\ DiskLoud(t)
       /\ \A i \in Inodes : Unwritten(disk', i) <=> Unwritten(disk, i)
  <2>1. PICK n : n = disk.inode[k].nlink - 1
    OBVIOUS
  <2>2. new = [disk.inode[k] EXCEPT !.nlink = n]
    BY <1>8, <2>1
  <2>3. Type(k) = "dir" => disk.inode[k].addr # NoBlock
    BY <1>2, <1>3, <1>4 DEF Good, Sound, TreeOK, Tree, DotsOK, Type
  <2>4. /\ ~PendingAt(t, k)' /\ PendingAt(t, k)
        /\ \A i \in Inodes : i # k => /\ PendingAt(t, i)' <=> PendingAt(t, i)
                                      /\ DyingAt(t, i)' <=> DyingAt(t, i)
    BY <1>11
  <2>5. lock[k] \in {Nobody, t} /\ Uses(t, k)
    BY <1>3
  <2>6. QED BY <1>2, <1>5, <1>8, <1>12, <2>1, <2>2, <2>3, <2>4, <2>5, CountStep
<1>14. LocksGuar(t)
  BY <1>1, <1>2, <1>3, <1>5, <1>9, <1>10, LandGiven DEF HeldAt
<1>15. WritesGuar(t) /\ AtOK(t)'
  BY <1>2, <1>9, <1>10, <1>13, WritesSame, AtPlain
<1>16. UNCHANGED <<committed, dropped>> /\ cwd'[t] = cwd[t] /\ ofile'[t] = ofile[t]
  BY <1>5 DEF procVars, history
<1>17. {q.ip, q.dp, q.old, k, NoInode, ofile'[t].ip}
          \subseteq {cwd[t], ofile[t].ip, loc[t].ip, loc[t].dp, loc[t].old, NoInode}
  BY <1>3, <1>7, <1>16
<1>18. q.dp \in {NoInode, loc[t].dp} /\ q.old \in {NoInode, loc[t].old}
  BY <1>7
<1>19. pc[t] \notin PutAt \cup {"panic"}
  BY <1>1
<1> QED BY <1>2, <1>9, <1>10, <1>13, <1>14, <1>15, <1>16, <1>17, <1>18, <1>19, LoudStep

-----------------------------------------------------------------------------
(* A file's or a link's block *)

LEMMA BlockStep ==
  ASSUME Good, NEW t \in Procs, Alone(t), NEW k \in Inodes, NEW new \in Dinodes,
         Type(k) \in {"file", "symlink"}, new.type = Type(k),
         new.nlink = disk.inode[k].nlink, disk'.inode[k] = new,
         OnlyAt(k), BlocksOK(disk'), itable' = Cached(itable, k, new),
         Uses(t, k), lock[k] \in {Nobody, t}, SameDue(t)
  PROVE  TreeOK' /\ TabLoud(t) /\ DiskLoud(t)
<1>1. TabLoud(t) /\ DiskLoud(t)
  BY OneInodeLoud
<1>2. k \notin LiveDirs(disk, Dying) /\ k \notin LiveDirs(disk, Dying)'
  BY DEF LiveDirs, Type
<1>3. disk'.inode[k].type # "dir"
  OBVIOUS
<1>4. /\ \A i \in Inodes : i # k => /\ PendingAt(t, i)' <=> PendingAt(t, i)
                                    /\ DyingAt(t, i)' <=> DyingAt(t, i)
      /\ disk'.inode[k].nlink = disk.inode[k].nlink /\ (PendingAt(t, k)' <=> PendingAt(t, k))
  BY DEF SameDue
<1>5. TreeOK'
  BY <1>2, <1>3, <1>4, OneInodeTree
<1> QED BY <1>1, <1>5

LEMMA BlocksKnown ==
  ASSUME Good
  PROVE  /\ disk \in Disks /\ BlocksOK(disk) /\ NoBlock \notin disk.used
         /\ NoBlock \notin Blocks
         /\ \A i \in Inodes : disk.inode[i].addr # NoBlock =>
              disk.inode[i].addr \in Blocks /\ disk.inode[i].addr \in disk.used
<1>1. disk \in Disks /\ BlocksOK(disk)
  BY WorldTypes, GoodInv DEF Good, Sound, TreeOK, Tree
<1>2. disk.used \subseteq Blocks /\ NoBlock \notin Blocks
  BY <1>1 DEF Disks, Blocks, NoBlock
<1>3. \A i \in Inodes : disk.inode[i].addr # NoBlock =>
        disk.inode[i].addr \in Blocks /\ disk.inode[i].addr \in disk.used
  BY <1>1, <1>2 DEF BlocksOK
<1> QED BY <1>1, <1>2, <1>3

LEMMA Grown ==
  ASSUME Good, NEW k \in Inodes, NEW b \in Unused(disk), NEW new \in Dinodes,
         disk.inode[k].addr = NoBlock, new.addr = b, new.type # "none",
         NEW e, e = OnDisk(Ballocd(disk, b), k, new),
         disk'.inode = e.inode, disk'.used = e.used, disk'.ents = e.ents
  PROVE  OnlyAt(k) /\ BlocksOK(disk') /\ disk'.inode[k] = new
<1>1. b \in Blocks /\ b \notin disk.used /\ b # NoBlock
  BY BlocksKnown DEF Unused
<1>2. PICK d \in Disks : d = Ballocd(disk, b)
  BY <1>1, BallocdIs, BlocksKnown
<1>3. /\ d.inode = disk.inode /\ d.used = disk.used \cup {b}
      /\ \A c \in Blocks : c # b => d.ents[c] = disk.ents[c]
  BY <1>1, <1>2, BallocdIs, BlocksKnown
<1>4. e = OnDisk(d, k, new)
  BY <1>2
<1>5. /\ e.inode[k] = new /\ \A i \in Inodes : i # k => e.inode[i] = d.inode[i]
      /\ e.used = d.used /\ e.ents = d.ents
  BY <1>4, OnDiskIs
<1>6. /\ disk'.inode[k] = new /\ \A i \in Inodes : i # k => disk'.inode[i] = disk.inode[i]
      /\ disk'.used = disk.used \cup {b}
      /\ \A c \in Blocks : c # b => disk'.ents[c] = disk.ents[c]
  BY <1>3, <1>5
<1>7. OnlyAt(k)
  BY <1>1, <1>6, BlocksKnown DEF OnlyAt, Ent
<1>8. BlocksOK(disk')
  BY <1>1, <1>6, BlocksKnown, BlocksGrown, SMTT(90)
<1> QED BY <1>6, <1>7, <1>8

LEMMA Shrunk ==
  ASSUME Good, NEW k \in Inodes, NEW new \in Dinodes,
         new.addr = NoBlock, new.type # "none" \/ new = FreeDinode,
         disk' = OnDisk(Bfreed(disk, disk.inode[k].addr), k, new)
  PROVE  OnlyAt(k) /\ BlocksOK(disk') /\ disk'.inode[k] = new
<1>1. PICK d \in Disks : d = Bfreed(disk, disk.inode[k].addr)
  BY BfreedIs, BlocksKnown
<1>2. d.inode = disk.inode /\ d.used = disk.used \ {disk.inode[k].addr} /\ d.ents = disk.ents
  BY <1>1, BfreedIs, BlocksKnown
<1>3. disk' = OnDisk(d, k, new)
  BY <1>1
<1>4. /\ disk'.inode[k] = new /\ \A i \in Inodes : i # k => disk'.inode[i] = disk.inode[i]
      /\ disk'.used = disk.used \ {disk.inode[k].addr} /\ disk'.ents = disk.ents
  BY <1>2, <1>3, OnDiskIs
<1>5. BlocksOK(disk')
  BY <1>4, BlocksKnown, BlocksFreed
<1> QED BY <1>4, <1>5 DEF OnlyAt, Ent

LEMMA WriteSound ==
  ASSUME NEW t \in Procs, Going(t), Write(t)
  PROVE  Good'
<1> DEFINE r == loc[t]
           l == "end"
<1>1. /\ pc[t] = "write" /\ pc[t] \notin PutAt \cup {"panic", "idle", "unlink_last"}
      /\ Free(ofile[t].ip)
  BY DEF Write, At, PutAt
<1>2. /\ Good /\ Inv /\ Inv2' /\ Alone(t) /\ RefStep(t) /\ AtOK(t) /\ Due(t) = "write"
      /\ r \in Locals /\ Has("write", r) /\ disk \in Disks /\ r.puts = <<>>
  BY <1>1, GoodInv, Known, WorldTypes, HereMeans DEF Going, Good, Sound, OwnOK
<1>3. PICK k \in Inodes : k = ofile[t].ip
  BY <1>1, <1>2, LocalTypes DEF Own, FileOK, NoFile, Shape, Inums
<1>4. /\ Uses(t, k) /\ lock[k] \in {Nobody, t} /\ Type(k) = "file"
      /\ Ino(k) = disk.inode[k] /\ disk.inode[k] \in Dinodes /\ Ino(k).type # "none"
  BY <1>1, <1>2, <1>3, Ilock DEF AtOK
<1> DEFINE ino == disk.inode[k]
           grows == ino.addr = NoBlock /\ Unused(disk) # {}
           b == Smallest(Unused(disk))
           new == IF grows THEN [ino EXCEPT !.addr = b] ELSE ino
<1>5. /\ itable' = Cached(itable, k, new)
      /\ disk' = OnDisk(IF grows THEN Ballocd(disk, b) ELSE disk, k, new)
      /\ Goto(t, l)
      /\ UNCHANGED <<committed, lock, procVars, loc, events, history>>
  BY <1>3, <1>4 DEF Write
<1>6. l \in Labels \ (PutAt \cup {"panic"}) /\ l \in Plain /\ l \notin LockIp \cup LockDp
      /\ pc[t] \notin LockIp \cup LockDp /\ pc[t] \notin PutAt \cup WritesAt
      /\ l \notin {"create_get", "create_fill", "unlink_last"}
  BY <1>1, Unlocked_
<1>7. Lands(t, l, r, NoInode, NoInode)
  BY <1>1, <1>2, <1>5, <1>6, LandsGoto
<1>8. LocksGuar(t) /\ AtOK(t)'
  BY <1>1, <1>2, <1>5, <1>6, <1>7, LandFree, AtPlain
<1>9. /\ UNCHANGED <<committed, dropped>> /\ cwd'[t] = cwd[t] /\ ofile'[t] = ofile[t]
      /\ UNCHANGED <<cwd, ofile>>
  BY <1>5 DEF procVars, history
<1>10. CASE grows
  <2>1. b \in Unused(disk) /\ b \in Blocks
    BY <1>2, <1>10, UnusedIs
  <2> HIDE DEF b
  <2>2. PICK n \in Dinodes : n = new /\ n.addr = b /\ n.type = Type(k) /\ n.nlink = ino.nlink
    <3>1. [ino EXCEPT !.addr = b] \in Dinodes
      BY <1>4, <2>1 DEF Dinodes
    <3>2. /\ [ino EXCEPT !.addr = b].addr = b /\ [ino EXCEPT !.addr = b].type = ino.type
          /\ [ino EXCEPT !.addr = b].nlink = ino.nlink
      BY <1>4 DEF Dinodes
    <3>3. QED BY <1>10, <3>1, <3>2 DEF Type
  <2>3. PICK e : e = OnDisk(Ballocd(disk, b), k, n)
    OBVIOUS
  <2>4. disk' = e /\ itable' = Cached(itable, k, n)
    BY <1>5, <1>10, <2>2, <2>3
  <2> HIDE DEF new
  <2>5. OnlyAt(k) /\ BlocksOK(disk') /\ disk'.inode[k] = n
    <3>1. disk'.inode = e.inode /\ disk'.used = e.used /\ disk'.ents = e.ents
      BY <2>4
    <3>2. n.addr = b /\ n.type # "none" /\ ino.addr = NoBlock
      BY <1>4, <1>10, <2>2
    <3>3. QED BY <1>2, <2>1, <2>3, <3>1, <3>2, Grown
  <2>6. SameDue(t)
    BY <1>1, <1>2, <1>6, <1>7, LandsMeans, HereMeans DEF SameDue
  <2>7. TreeOK' /\ TabLoud(t) /\ DiskLoud(t)
    BY <1>2, <1>4, <2>2, <2>4, <2>5, <2>6, BlockStep
  <2>8. WritesGuar(t)
    BY <1>2, <1>4, <1>6, <2>2, <2>5, WritesSame DEF OnlyAt, Unwritten, Type
  <2>9. {r.ip, r.dp, r.old, NoInode, NoInode, ofile'[t].ip}
          \subseteq {cwd[t], ofile[t].ip, loc[t].ip, loc[t].dp, loc[t].old, NoInode}
    BY <1>9
  <2>10. r.dp \in {NoInode, loc[t].dp} /\ r.old \in {NoInode, loc[t].old}
    OBVIOUS
  <2> QED BY <1>1, <1>2, <1>6, <1>7, <1>8, <1>9, <2>7, <2>8, <2>9, <2>10, LoudStep
<1>11. CASE ~grows
  <2>1. disk' = disk /\ itable' = Cached(itable, k, Ino(k))
    BY <1>2, <1>4, <1>5, <1>11 DEF OnDisk, Disks
  <2>2. TabQuiet(t) /\ WritesQuiet(t)
    BY <1>2, <1>4, <1>6, <2>1, TabCached, WritesNone
  <2>3. UNCHANGED <<disk, committed>>
    BY <1>9, <2>1
  <2>4. {r.ip, r.dp, NoInode, NoInode, cwd'[t], ofile'[t].ip}
          \subseteq {cwd[t], ofile[t].ip, loc[t].ip, loc[t].dp, loc[t].old, NoInode, NoInode}
    BY <1>9
  <2>5. r.dp \in {NoInode, loc[t].dp}
    OBVIOUS
  <2>6. \A i \in Inodes : dropped'[i] # dropped[i] => Uses(t, i)
    BY <1>9
  <2> QED BY <1>1, <1>2, <1>6, <1>7, <1>8, <1>9, <2>2, <2>3, <2>4, <2>5, <2>6, FoundNone, QuietStep
<1> QED BY <1>10, <1>11

LEMMA TargetIs ==
  ASSUME NEW d \in Disks, NEW b, NEW p, NEW e, e = [d EXCEPT !.target[b] = p]
  PROVE  e.inode = d.inode /\ e.used = d.used /\ e.ents = d.ents
BY SMTT(90) DEF Disks

LEMMA SymlinkWriteSound ==
  ASSUME NEW t \in Procs, Going(t), SymlinkWrite(t)
  PROVE  Good'
<1> DEFINE r == loc[t]
           ino == Ino(r.ip)
           b == IF ino.addr # NoBlock THEN ino.addr ELSE Smallest(Unused(disk))
           new == [ino EXCEPT !.addr = b]
           d == IF ino.addr # NoBlock THEN disk ELSE Ballocd(disk, b)
           q == [r EXCEPT !.ip = NoInode]
           l == "end"
<1>1. /\ pc[t] = "symlink_write" /\ pc[t] \notin PutAt \cup {"panic", "idle", "unlink_last"}
      /\ pc[t] \in LockIp /\ pc[t] \notin LockDp /\ pc[t] \in IpAt /\ pc[t] \notin DpAt
  BY DEF SymlinkWrite, At, PutAt, LockIp, LockDp, IpAt, DpAt
<1>2. /\ Good /\ Inv /\ Inv2' /\ Alone(t) /\ RefStep(t) /\ AtOK(t) /\ Due(t) = "symlink_write"
      /\ r \in Locals /\ Has("symlink_write", r) /\ disk \in Disks /\ r.puts = <<>>
  BY <1>1, GoodInv, Known, WorldTypes, HereMeans DEF Going, Good, Sound, OwnOK
<1>3. PICK k \in Inodes : k = r.ip /\ lock[k] = t /\ ino = disk.inode[k]
                          /\ Uses(t, k) /\ Type(k) # "none"
  BY <1>1, <1>2, OwnedDisk DEF Ino
<1>4. ino \in Dinodes /\ Type(k) = "symlink" /\ ino.type = "symlink"
  BY <1>2, <1>3 DEF Disks, AtOK, Type
<1>5. CASE Goto(t, "full") /\ UNCHANGED <<fsVars, tableVars, procVars, loc, events, history>>
  BY <1>1, <1>5, SymlinkFullSound
<1>6. CASE /\ ino.addr # NoBlock \/ Unused(disk) # {}
           /\ disk' = [OnDisk(d, k, new) EXCEPT !.target[b] = Over(r.arg, @)]
           /\ Unlocked(k)
           /\ GiveUp(t, r, Cached(itable, k, new))
           /\ UNCHANGED <<committed, procVars, events, history>>
  <2>1. /\ itable' = Cached(itable, k, new) /\ PutThen(t, q, <<k>>, l)
        /\ UNCHANGED <<committed, dropped>> /\ cwd'[t] = cwd[t] /\ ofile'[t] = ofile[t]
        /\ UNCHANGED procVars
    BY <1>3, <1>6, Zenon DEF GiveUp, procVars, history
  <2>2. r.old = NoInode /\ r.dp = NoInode
    BY <1>1, <1>2 DEF Has, HasOld
  <2>3. /\ q \in Locals /\ q.ip = NoInode /\ q.old = NoInode /\ q.dp = NoInode
    BY <1>2, <2>2 DEF Locals, Inums
  <2>4. l \in Nexts /\ l \in Plain /\ l \notin LockIp \cup LockDp
        /\ l \notin {"create_get", "create_fill", "unlink_last"}
    BY Unlocked_
  <2>5. Lands(t, l, q, k, NoInode)
    BY <1>1, <1>2, <2>1, <2>3, <2>4, LandsPut
  <2> HIDE DEF q
  <2>6. b \in Blocks
    BY <1>2, <1>4, <1>6, UnusedIs DEF Dinodes
  <2>7. PICK n \in Dinodes : /\ n = new /\ n.addr = b /\ n.type = Type(k)
                             /\ n.nlink = disk.inode[k].nlink
    <3> HIDE DEF b, ino
    <3>1. [ino EXCEPT !.addr = b] \in Dinodes
      BY <1>4, <2>6 DEF Dinodes
    <3>2. /\ [ino EXCEPT !.addr = b].addr = b /\ [ino EXCEPT !.addr = b].type = ino.type
          /\ [ino EXCEPT !.addr = b].nlink = ino.nlink
      BY <1>4 DEF Dinodes
    <3>3. QED BY <1>3, <1>4, <3>1, <3>2
  <2>8. PICK e \in Disks : e = OnDisk(d, k, n)
    <3>1. d \in Disks
      <4> HIDE DEF b
      <4> QED BY <1>2, <2>6, BallocdIs
    <3> HIDE DEF d
    <3>2. QED BY <3>1, OnDiskIs
  <2>9. disk'.inode = e.inode /\ disk'.used = e.used /\ disk'.ents = e.ents
    <3>1. PICK p : p = Over(r.arg, e.target[b])
      BY SMTT(90)
    <3>2. disk' = [e EXCEPT !.target[b] = p]
      BY <1>6, <2>7, <2>8, <3>1
    <3> HIDE DEF b
    <3>3. QED BY <3>2, TargetIs
  <2>10. itable' = Cached(itable, k, n)
    BY <2>1, <2>7
  <2>11. OnlyAt(k) /\ BlocksOK(disk') /\ disk'.inode[k] = n
    <3>1. CASE ino.addr # NoBlock
      <4>1. e = OnDisk(disk, k, n) /\ n.addr = disk.inode[k].addr
        BY <1>3, <2>7, <2>8, <3>1
      <4>2. /\ e.inode[k] = n /\ \A j \in Inodes : j # k => e.inode[j] = disk.inode[j]
            /\ e.used = disk.used /\ e.ents = disk.ents
        BY <1>2, <4>1, OnDiskIs
      <4>3. /\ disk'.inode[k] = n /\ \A j \in Inodes : j # k => disk'.inode[j] = disk.inode[j]
            /\ disk'.used = disk.used /\ disk'.ents = disk.ents
        BY <2>9, <4>2
      <4>4. BlocksOK(disk')
        <5>1. \A i \in Inodes : disk'.inode[i].addr = disk.inode[i].addr
          BY <4>1, <4>3
        <5>2. \A i \in Inodes : disk'.inode[i] = disk.inode[i] \/ disk'.inode[i].type # "none"
          BY <1>3, <2>7, <4>3
        <5>3. BlocksOK(disk)
          BY <1>2, BlocksKnown
        <5>4. QED BY <4>3, <5>1, <5>2, <5>3, BlocksSame
      <4>5. QED BY <4>3, <4>4 DEF OnlyAt, Ent
    <3>2. CASE ino.addr = NoBlock
      <4>1. PICK c \in Unused(disk) : c = b
        BY <1>2, <1>6, <3>2, UnusedIs
      <4>2. e = OnDisk(Ballocd(disk, c), k, n) /\ n.addr = c /\ n.type # "none"
            /\ disk.inode[k].addr = NoBlock
        BY <1>3, <2>7, <2>8, <3>2, <4>1
      <4>3. QED BY <1>2, <2>9, <4>2, Grown
    <3>3. QED BY <3>1, <3>2
  <2>12. SameDue(t)
    BY <1>1, <1>2, <2>2, <2>3, <2>4, <2>5, LandsMeans, HereMeans, SMTT(90) DEF SameDue
  <2>13. TreeOK' /\ TabLoud(t) /\ DiskLoud(t)
    BY <1>2, <1>3, <1>4, <2>7, <2>10, <2>11, <2>12, BlockStep
  <2>14. WritesGuar(t)
    <3>1. n.addr # NoBlock
      BY <2>6, <2>7, <1>2, BlocksKnown
    <3>2. \A i \in Inodes : Unwritten(disk', i) => i # k /\ Unwritten(disk, i)
      BY <2>11, <3>1 DEF OnlyAt, Unwritten
    <3>3. \A i \in Inodes : Writes(t, i) => i = k
      BY <1>1, <1>2, <1>3, SMTT(90) DEF Writes, New
    <3>4. QED BY <3>2, <3>3 DEF WritesGuar
  <2>15. LocksGuar(t)
    BY <1>1, <1>2, <1>3, <1>6, <2>4, <2>5, LandGiven, Zenon DEF HeldAt
  <2>16. AtOK(t)'
    BY <2>4, <2>5, AtPlain
  <2>17. {q.ip, q.dp, q.old, k, NoInode, ofile'[t].ip}
            \subseteq {cwd[t], ofile[t].ip, loc[t].ip, loc[t].dp, loc[t].old, NoInode}
    BY <1>3, <2>1, <2>3
  <2>18. q.dp \in {NoInode, loc[t].dp} /\ q.old \in {NoInode, loc[t].old}
    BY <2>3
  <2> QED BY <1>1, <1>2, <2>1, <2>4, <2>5, <2>13, <2>14, <2>15, <2>16, <2>17, <2>18, LoudStep
<1> QED BY <1>3, <1>5, <1>6, ZenonT(90) DEF SymlinkWrite

-----------------------------------------------------------------------------
(* open with O_TRUNC *)

LEMMA OpenedTrunc ==
  ASSUME NEW t \in Procs, Going(t), Opened(t), ~UNCHANGED <<disk, itable>>
  PROVE  Good'
<1> DEFINE r == loc[t]
           ino == itable[r.ip].ino
           new == [ino EXCEPT !.addr = NoBlock]
           q == [r EXCEPT !.ip = NoInode]
           l == "end"
<1>1. /\ pc[t] = "opened" /\ pc[t] \notin PutAt \cup {"panic", "idle", "unlink_last"}
      /\ pc[t] \in LockIp /\ pc[t] \notin LockDp /\ pc[t] \in IpAt /\ pc[t] \notin DpAt
      /\ pc[t] \notin PutAt \cup WritesAt
  BY DEF Opened, At, PutAt, LockIp, LockDp, IpAt, DpAt, WritesAt
<1>2. /\ Good /\ Inv /\ Inv2' /\ Alone(t) /\ RefStep(t) /\ Due(t) = "opened"
      /\ r \in Locals /\ Has("opened", r) /\ disk \in Disks /\ r.puts = <<>>
      /\ ofile \in [Procs -> [ip : Inums, writable : BOOLEAN]]
  BY <1>1, GoodInv, Known, WorldTypes, HereMeans DEF Going, DataOK
<1>3. PICK k \in Inodes : k = r.ip /\ lock[k] = t /\ ino = disk.inode[k]
                          /\ Uses(t, k) /\ Type(k) # "none"
  BY <1>1, <1>2, OwnedDisk
<1>4. ino \in Dinodes
  BY <1>2, <1>3 DEF Disks
<1>5. /\ ofile' = [ofile EXCEPT ![t] = [ip |-> r.ip, writable |-> r.call # "open"]]
      /\ Go(t, "end", q) /\ ino.type = "file"
      /\ disk' = OnDisk(Bfreed(disk, ino.addr), r.ip, new)
      /\ itable' = Cached(itable, r.ip, new)
      /\ Unlocked(r.ip) /\ UNCHANGED <<committed, cwd, inop, events, history>>
  BY DEF Opened, GiveUp
<1>6. r.old = NoInode /\ r.dp = NoInode
  BY <1>1, <1>2 DEF Has, HasOld
<1>7. q \in Locals /\ q.ip = NoInode /\ q.old = NoInode /\ q.dp = NoInode /\ q.puts = <<>>
  BY <1>2, <1>6 DEF Locals, Inums
<1>8. l \in Labels \ (PutAt \cup {"panic"}) /\ l \in Plain /\ l \notin LockIp \cup LockDp
      /\ l \notin {"create_get", "create_fill", "unlink_last"}
  BY Unlocked_
<1>9. Go(t, l, q)
  BY <1>5
<1>10. ofile'[t].ip = k /\ UNCHANGED <<committed, dropped>> /\ cwd'[t] = cwd[t]
  BY <1>2, <1>3, <1>5 DEF history
<1> HIDE DEF q
<1>11. Lands(t, l, q, NoInode, NoInode)
  BY <1>2, <1>7, <1>8, <1>9, LandsGo
<1>12. PICK n \in Dinodes : /\ n = new /\ n.addr = NoBlock /\ n.type = Type(k)
                            /\ n.nlink = disk.inode[k].nlink
  <2> HIDE DEF ino
  <2>1. /\ new \in Dinodes /\ new.addr = NoBlock /\ new.type = ino.type /\ new.nlink = ino.nlink
    BY <1>4 DEF Dinodes
  <2>2. QED BY <1>3, <2>1 DEF Type
<1>13. disk' = OnDisk(Bfreed(disk, disk.inode[k].addr), k, n) /\ itable' = Cached(itable, k, n)
  BY <1>3, <1>5, <1>12
<1>14. Type(k) \in {"file", "symlink"}
  BY <1>3, <1>5 DEF Type
<1> HIDE DEF new, ino
<1>15. OnlyAt(k) /\ BlocksOK(disk') /\ disk'.inode[k] = n
  BY <1>2, <1>12, <1>13, <1>14, Shrunk
<1>16. SameDue(t)
  BY <1>1, <1>2, <1>6, <1>7, <1>8, <1>11, LandsMeans, HereMeans, SMTT(90) DEF SameDue
<1>17. TreeOK' /\ TabLoud(t) /\ DiskLoud(t)
  <2>1. /\ Type(k) \in {"file", "symlink"} /\ n.type = Type(k) /\ lock[k] \in {Nobody, t}
        /\ n.nlink = disk.inode[k].nlink /\ disk'.inode[k] = n
        /\ OnlyAt(k) /\ BlocksOK(disk') /\ itable' = Cached(itable, k, n)
    BY <1>3, <1>12, <1>13, <1>14, <1>15
  <2>2. QED BY <1>2, <1>3, <1>16, <2>1, BlockStep, SMTT(90)
<1>18. WritesGuar(t)
  BY <1>1, <1>2, <1>3, <1>5, <1>12, <1>15, WritesSame, ZenonT(90) DEF Type, OnlyAt, Unwritten
<1>19. LocksGuar(t)
  BY <1>1, <1>2, <1>3, <1>5, <1>8, <1>11, LandGiven DEF HeldAt
<1>20. AtOK(t)'
  BY <1>8, <1>11, AtPlain
<1>21. {q.ip, q.dp, q.old, NoInode, NoInode, ofile'[t].ip}
          \subseteq {cwd[t], ofile[t].ip, loc[t].ip, loc[t].dp, loc[t].old, NoInode}
  BY <1>3, <1>7, <1>10
<1>22. q.dp \in {NoInode, loc[t].dp} /\ q.old \in {NoInode, loc[t].old}
  BY <1>7
<1> QED BY <1>1, <1>2, <1>8, <1>10, <1>11, <1>17, <1>18, <1>19, <1>20, <1>21, <1>22, LoudStep

-----------------------------------------------------------------------------
(* An inode freed *)

\* What a process relies on, when only an inode it does not use changes.
LEMMA AtApart ==
  ASSUME Good, NEW t \in Procs, Alone(t), StaysDue(t), NEW k \in Inodes,
         loc[t].ip # k, loc[t].dp # k, loc[t].old # k, cwd[t] # k, ofile[t].ip # k,
         \A i \in Inodes : i # k =>
            disk'.inode[i] = disk.inode[i] /\ itable'[i].valid = itable[i].valid,
         disk'.ents = disk.ents
  PROVE  AtOK(t)' /\ DirsOK(t)'
<1> DEFINE l == Due(t)
           r == loc[t]
<1>1. /\ AtOK(t) /\ DirsOK(t) /\ pc[t] # "panic" /\ r \in Locals /\ cwd[t] \in Inodes
      /\ ofile[t].ip \in Inums /\ Has(l, r) /\ Own(t)
  BY GoodInv, LocalTypes DEF Good, Sound, OwnOK, Own, Shape
<1>2. SameDue(t)
  BY DEF SameDue, StaysDue, DyingAt, PendingAt
<1>3. \A i \in Inodes : i # k => (i \in LiveDirs(disk, Dying)' <=> i \in LiveDirs(disk, Dying))
  BY <1>2, DueSame DEF LiveDirs
<1>4. DirsOK(t)'
  BY <1>1 DEF StaysDue, DirsOK, Type, Locals, Inums
<1>5. l \in LockIp => r.ip \in Inodes /\ r.ip # k
  BY <1>1 DEF Has, LockIp, IpAt, Locals, Inums
<1>6. l \in LockDp => r.dp \in Inodes /\ r.dp # k
  BY <1>1 DEF Has, LockDp, DpAt, Locals, Inums
<1>7. /\ l \in {"symlink_write", "full"} => Type(r.ip)' = "symlink"
      /\ l = "created" => Type(r.ip)' = TypeMade(r.call)
      /\ l = "opened" => Type(r.ip)' \in {"file", "dir"}
      /\ l \in LockIp => itable'[r.ip].valid
      /\ l = "unlink_last" => (Type(r.ip)' = "dir" => disk'.inode[r.ip].nlink = 1)
  BY <1>1, <1>5, SMTT(90) DEF AtOK, Type, StaysDue, LockIp
<1>8. /\ l \in {"create_alloc", "create_get", "create_fill"} =>
           /\ r.dp \in LiveDirs(disk, Dying)' /\ r.name \in Names
           /\ Ent(disk', r.dp, r.name) = NoInode
      /\ l = "unlink_lock" =>
           /\ r.dp \in LiveDirs(disk, Dying)' /\ r.name \in Names
           /\ Ent(disk', r.dp, r.name) = r.ip
  BY <1>1, <1>3, <1>6 DEF AtOK, LockDp, Ent
<1>9. l = "write" => disk'.inode[ofile'[t].ip].type = "file"
  <2>1. HAVE l = "write"
  <2>2. ofile[t].writable /\ FileOK(t)
    BY <1>1, <2>1 DEF Own, Shape
  <2>3. ofile[t].ip \in Inodes
    BY <1>1, <2>2 DEF FileOK, NoFile, Inums
  <2>4. QED BY <1>1, <2>1, <2>3 DEF AtOK, Type, StaysDue
<1> HIDE DEF l
<1>10. /\ Due(t)' = l /\ loc'[t].ip = r.ip /\ loc'[t].dp = r.dp /\ loc'[t].call = r.call
       /\ loc'[t].name = r.name
  BY DEF StaysDue, l
<1>11. AtOK(t)'
  BY <1>7, <1>8, <1>9, <1>10 DEF AtOK, Type, StaysDue
<1> QED BY <1>4, <1>11

LEMMA PutFreeSound ==
  ASSUME NEW t \in Procs, Going(t), PutFree(t)
  PROVE  Good'
<1>1. /\ pc[t] = "put_free" /\ pc[t] \in PutAt /\ "put_inval" \in PutAt
      /\ UNCHANGED <<committed, lock, cwd, ofile, loc, dropped>>
  BY DEF PutFree, At, PutAt, procVars, history
<1>2. /\ Good /\ Inv /\ Inv2 /\ Inv2' /\ Alone(t) /\ RefStep(t)
      /\ disk \in Disks /\ itable \in Tables
  BY GoodInv, WorldTypes DEF Going
<1>3. PICK i \in Inodes : i = Head(loc[t].puts) /\ i = First(loc[t].puts)
  BY <1>1, <1>2, PutsType DEF First
<1>4. Freeing(t, i) /\ Holds(t, i) /\ Uses(t, i)
  BY <1>1, <1>3 DEF Freeing, Holds, Uses, Window
<1>5. /\ itable[i].ref = 1 /\ itable[i].valid
      /\ Type(i) # "none" /\ disk.inode[i].nlink = 0
  BY <1>2, <1>4 DEF Good, Sound, OwnOK, PutOK
<1>6. /\ dropped[i] = 0
      /\ \A u \in Procs \ {t} : ~HasSlot(u, i) /\ ~Uses(u, i)
      /\ cwd[t] # i /\ ofile[t].ip # i /\ loc[t].ip # i /\ loc[t].dp # i
      /\ loc[t].old # i /\ Second(loc[t].puts) # i
  BY <1>2, <1>3, <1>5, RefOnePut
<1>7. itable[i].ino = disk.inode[i]
  BY <1>1, <1>2, <1>5, <1>6 DEF Freed, HasSlot, Good, Sound, Coherent
<1>8. disk.inode[i].addr \in disk.used \cup {NoBlock}
  BY <1>2, BlocksKnown, SMTT(90)
<1>9. /\ disk' = OnDisk(Bfreed(disk, disk.inode[i].addr), i, FreeDinode)
      /\ itable' = Cached(itable, i, FreeDinode)
      /\ pc' = [pc EXCEPT ![t] = "put_inval"]
  BY <1>3, <1>7, <1>8 DEF PutFree, Goto
<1>10. pc'[t] = "put_inval"
  BY <1>2, <1>9 DEF Inv, TypeOK
<1>11. PICK n \in Dinodes : /\ n = FreeDinode /\ n.addr = NoBlock /\ n.type = "none"
                            /\ n.nlink = 0
  <2>1. FreeDinode \in Dinodes
    BY DEF FreeDinode, Dinode, Dinodes, Types
  <2>2. FreeDinode.addr = NoBlock /\ FreeDinode.type = "none" /\ FreeDinode.nlink = 0
    BY DEF FreeDinode, Dinode
  <2>3. QED BY <2>1, <2>2
<1>12. /\ OnlyAt(i) /\ BlocksOK(disk') /\ disk'.inode[i] = n
       /\ disk'.ents = disk.ents
  BY <1>2, <1>9, <1>11, BfreedIs, OnDiskIs, Shrunk
<1>13. /\ \A j \in Inodes : j # i => itable'[j] = itable[j]
       /\ itable'[i].valid /\ itable'[i].ino = n
  BY <1>2, <1>9, <1>11, CachedIs
<1>14. \A j \in Inodes : j # i => disk'.inode[j] = disk.inode[j]
  BY <1>12 DEF OnlyAt
<1>15. StaysDue(t)
  BY <1>1, <1>10 DEF StaysDue, Due
<1>16. /\ SameDue(t) /\ Dying' = Dying
  BY <1>2, <1>15, DueSame DEF SameDue, StaysDue, DyingAt, PendingAt
<1>17. \A j : /\ ~New(t, j) /\ ~New(t, j)' /\ ~Freed(t, j) /\ ~Freeing(t, j)'
              /\ Freeing(t, j) <=> j = i
              /\ Freed(t, j)' <=> j = i
  BY <1>1, <1>3, <1>10 DEF New, Freed, Freeing
<1>18. TreeOK'
  BY <1>2, <1>5, <1>11, <1>12, <1>16, OneInodeTree DEF LiveDirs, SameDue
<1>19. SlotsGuar(t)
  <2>1. ASSUME NEW j \in Inodes
        PROVE  /\ HasSlot(t, j)' => HasSlot(t, j)
               /\ Uses(t, j)' => Uses(t, j) /\ j # i
    BY <1>1, <1>6, <1>10 DEF HasSlot, Uses, Window
  <2>2. ASSUME NEW j \in Inodes, Uses(t, j)' PROVE Type(j)' # "none"
    BY <1>2, <1>14, <2>1, <2>2 DEF Good, Sound, UsedOK, Type
  <2>3. QED BY <1>1, <1>17, <2>1, <2>2 DEF SlotsGuar
<1>20. LocksGuar(t)
  BY <1>1, <1>2, <1>15, <1>17, LockSame DEF Holds, StaysDue
<1>21. TableGuar(t)
  BY <1>6, <1>13, <1>14, <1>17, HoldsHas DEF TableGuar
<1>22. DiskGuar(t)
  <2>1. \A u \in Procs \ {t} : ~Uses(u, i) /\ ~Holds(u, i) /\ ~New(u, i)
    BY <1>2, <1>4, <1>6, HoldsHas DEF Good, Sound, OwnOK, NewOK
  <2>2. ASSUME NEW j \in Inodes, j # i PROVE DirKept(j) /\ Type(j)' = Type(j)
    BY <1>12, <1>14, <1>16, <2>2 DEF DirKept, LiveDirs, Ent, Type
  <2>3. QED BY <1>6, <1>14, <2>1, <2>2 DEF DiskGuar
<1>23. WritesGuar(t)
  BY <1>11, <1>12, <1>14, <1>15, <1>17 DEF Writes, StaysDue, Unwritten, WritesGuar
<1>24. OwnOK(t)'
  <2>1. AtOK(t)' /\ DirsOK(t)'
    BY <1>2, <1>6, <1>12, <1>13, <1>14, <1>15, AtApart
  <2>2. PutOK(t)'
    BY <1>1, <1>6, <1>11, <1>13, <1>17 DEF PutOK
  <2>3. NewOK(t)'
    BY <1>17 DEF NewOK
  <2>4. QED BY <1>10, <2>1, <2>2, <2>3 DEF OwnOK
<1>25. CommittedOK'
  BY <1>1, <1>2 DEF CommittedOK, Good, Sound
<1> QED BY <1>2, <1>18, <1>19, <1>20, <1>21, <1>22, <1>23, <1>24, <1>25, Frame

-----------------------------------------------------------------------------
(* An inode allocated *)

LEMMA CreateAllocSound ==
  ASSUME NEW t \in Procs, Going(t), CreateAlloc(t)
  PROVE  Good'
<1> DEFINE r == loc[t]
           free == {j \in Inodes : disk.inode[j].type = "none"}
<1>1. /\ pc[t] = "create_alloc" /\ pc[t] \notin PutAt \cup {"panic", "idle", "unlink_last"}
      /\ pc[t] \notin PutAt \cup WritesAt
      /\ pc[t] \in CreateAt
      /\ UNCHANGED <<committed, itable, procVars, events, history>>
      /\ UNCHANGED <<committed, itable, cwd, ofile, dropped>>
  BY DEF CreateAlloc, At, PutAt, WritesAt, CreateAt, procVars, history
<1>2. /\ Good /\ Inv /\ Inv2' /\ Alone(t) /\ RefStep(t) /\ AtOK(t) /\ DirsOK(t)
      /\ r \in Locals /\ Has("create_alloc", r) /\ Fits("create_alloc", r)
      /\ disk \in Disks /\ r.puts = <<>>
      /\ Due(t) = "create_alloc"
  BY <1>1, GoodInv, Known, WorldTypes, HereMeans DEF Going, Good, Sound, OwnOK
<1>3. CASE free = {}
  BY <1>1, <1>3, CreateAllocFails DEF CreateAlloc
<1>4. CASE free # {}
  <2>1. PICK i \in Inodes : i = Smallest(free) /\ Type(i) = "none"
    BY <1>2, <1>4, FirstFreeIs DEF Type
  <2> DEFINE q == [r EXCEPT !.inum = i]
             new == Dinode(TypeMade(r.call), 0, NoBlock)
  <2>2. disk' = OnDisk(disk, i, new) /\ Go(t, "create_get", q) /\ UNCHANGED lock
    BY <1>4, <2>1 DEF CreateAlloc
  <2>3. /\ r.dp # NoInode /\ r.dp \in Inodes /\ r.ip = NoInode /\ r.old = NoInode
        /\ q \in Locals /\ q.ip = NoInode /\ q.dp = r.dp /\ q.old = NoInode /\ q.name = r.name
        /\ q.call = r.call /\ q.puts = <<>> /\ q.inum = i
    BY <1>1, <1>2 DEF Has, HasOld, IpAt, DpAt, Locals, Inums
  <2>4. PICK n \in Dinodes : /\ n = new /\ n.type \in {"file", "dir", "symlink"}
                             /\ n.nlink = 0 /\ n.addr = NoBlock
    <3>1. TypeMade(r.call) \in {"file", "dir", "symlink"}
      BY <1>1, <1>2 DEF Fits, TypeMade, Makes
    <3>2. new \in Dinodes
      BY <3>1 DEF Dinode, Dinodes, Types
    <3>3. new.type = TypeMade(r.call) /\ new.nlink = 0 /\ new.addr = NoBlock
      BY DEF Dinode
    <3>4. QED BY <3>1, <3>2, <3>3
  <2>5. disk' = OnDisk(disk, i, n)
    BY <2>2, <2>4
  <2>6. "create_get" \in Labels \ (PutAt \cup {"panic"})
    BY DEF Labels, CreateAt, PutAt
  <2> HIDE DEF q, new
  <2>7. Lands(t, "create_get", q, NoInode, NoInode) /\ pc'[t] = "create_get"
    BY <1>2, <2>2, <2>3, <2>6, LandsGo, GoType
  <2>8. /\ OnlyAt(i) /\ disk'.inode[i] = n
        /\ disk'.used = disk.used /\ disk'.ents = disk.ents
        /\ \A j \in Inodes : j # i => disk'.inode[j] = disk.inode[j]
    BY <1>2, <2>5, OnlyOnDisk DEF OnlyAt
  <2>9. /\ disk.inode[i].nlink = 0 /\ disk.inode[i].addr = NoBlock /\ BlocksOK(disk)
        /\ disk.inode[i].type = "none"
    BY <1>2, <2>1, FreeNlink DEF Good, Sound, TreeOK, Tree, Type
  <2>10. /\ \A u \in Procs : ~Uses(u, i) /\ ~New(u, i)
         /\ dropped[i] = 0
    <3>1. \A u \in Procs : ~Uses(u, i)
      BY <1>2, <2>1 DEF Good, Sound, UsedOK
    <3>2. ~(dropped[i] > 0) /\ dropped[i] \in Nat
      BY <1>2, <2>1 DEF Good, Sound, UsedOK, Inv, TypeOK, DataOK
    <3>3. ASSUME NEW u \in Procs, New(u, i) PROVE FALSE
      BY <1>2, <2>1, <3>3, NewFresh DEF Fresh
    <3>4. QED BY <3>1, <3>2, <3>3
  <2>11. /\ \A j \in Inodes : New(t, j)' <=> j = i
         /\ \A j \in Inodes : ~New(t, j)
         /\ \A j \in Inodes : /\ HasSlot(t, j)' <=> HasSlot(t, j)
                              /\ Uses(t, j)' <=> Uses(t, j)
                              /\ Uses(t, j) <=> HasSlot(t, j)
                              /\ ~Freed(t, j)
         /\ SameDue(t)
    BY <1>1, <1>2, <2>3, <2>7, LandsMeans, HereMeans, NotNoInode DEF New, SameDue
  <2>12. Dying' = Dying
    BY <1>2, <2>11, DueSame
  <2>13. TreeOK'
    BY <1>2, <2>4, <2>8, <2>9, <2>11, BlocksSame, OneInodeTree DEF LiveDirs, SameDue
  <2>14. SlotsGuar(t)
    BY <1>1, <1>2, <2>1, <2>8, <2>10, <2>11 DEF Good, Sound, UsedOK, Type, SlotsGuar
  <2>15. LocksGuar(t)
    BY <1>1, <1>2, <2>2, <2>3, <2>7, LandSame DEF HeldAt, LockIp, LockDp
  <2>16. TableGuar(t)
    BY <1>1, <1>2, <2>1, <2>8, <2>11 DEF Good, Sound, Coherent, Type, TableGuar
  <2>17. DiskGuar(t)
    BY <2>8, <2>9, <2>10, <2>12, HoldsHas DEF DirKept, LiveDirs, Ent, Type, DiskGuar
  <2>18. WritesGuar(t)
    BY <1>1, <1>2, <2>8, <2>11 DEF Writes, New, Unwritten, WritesGuar
  <2>19. NewOK(t)'
    <3>1. ASSUME NEW u \in Procs, u # t PROVE ~Uses(u, i)' /\ ~New(u, i)'
      BY <1>2, <2>10, <3>1, Others_
    <3>2. cwd[t] # i /\ ofile[t].ip # i /\ r.dp # i /\ r.old # i
      BY <2>10 DEF Uses
    <3>3. loc'[t].dp = r.dp /\ loc'[t].old = r.old /\ loc'[t].call = r.call
      BY <2>3, <2>7 DEF Lands
    <3>4. disk'.inode[i] = Dinode(TypeMade(r.call), 0, NoBlock)
      BY <2>4, <2>8 DEF new
    <3>5. QED BY <1>1, <2>10, <2>11, <3>1, <3>2, <3>3, <3>4 DEF NewOK
  <2>20. AtOK(t)'
    <3>1. Due(t)' = "create_get" /\ loc'[t].dp = r.dp /\ loc'[t].name = r.name
      BY <2>3, <2>7 DEF Lands
    <3>2. /\ r.dp \in LiveDirs(disk, Dying) /\ r.name \in Names
          /\ Ent(disk, r.dp, r.name) = NoInode
      BY <1>2 DEF AtOK
    <3>3. r.dp # i
      BY <2>9, <3>2 DEF LiveDirs
    <3>4. r.dp \in LiveDirs(disk', Dying') /\ Ent(disk', r.dp, r.name) = NoInode
      BY <2>8, <2>12, <3>2, <3>3 DEF LiveDirs, Ent
    <3> DEFINE d == Due(t)'
    <3> HIDE DEF d
    <3>5. d \notin LockIp \cup {"symlink_write", "full", "created", "opened", "write",
                              "unlink_lock", "unlink_last"}
      BY <3>1 DEF d, LockIp
    <3>6. QED BY <3>1, <3>2, <3>4, <3>5 DEF AtOK, d
  <2>21. OwnOK(t)'
    <3>1. DirsOK(t)'
      BY <1>1, <1>2, <2>3, <2>7, <2>8, <2>10, LocalTypes DEF Uses, Lands, DirsOK, Type
    <3>2. QED BY <2>7, <2>19, <2>20, <3>1, PutLanded DEF OwnOK
  <2>22. CommittedOK'
    BY <1>1, <1>2 DEF CommittedOK, Good, Sound
  <2> QED BY <1>2, <2>13, <2>14, <2>15, <2>16, <2>17, <2>18, <2>21, <2>22, Frame
<1> QED BY <1>3, <1>4

-----------------------------------------------------------------------------
(* One entry changes *)

\* Entry m of directory a becomes w; every other entry stays.
EntrySet(a, m, w) ==
  /\ Ent(disk', a, m) = w
  /\ \A i \in Inodes : disk.inode[i].addr # NoBlock =>
       \A n \in Entries : i # a \/ n # m => Ent(disk', i, n) = Ent(disk, i, n)

LEMMA EntryLinked ==
  ASSUME Good, NEW a \in Inodes, disk.inode[a].addr # NoBlock, NEW m \in Entries,
         NEW w \in Inums, NEW d, d = Linked(disk, disk.inode[a], m, w),
         disk'.ents = d.ents,
         \A i \in Inodes : disk'.inode[i].addr = disk.inode[i].addr
  PROVE  EntrySet(a, m, w)
<1>1. disk \in Disks /\ disk.inode[a] \in Dinodes /\ BlocksOK(disk)
  BY BlocksKnown DEF Disks
<1>2. /\ d.ents[disk.inode[a].addr][m] = w
      /\ \A b \in Blocks, n \in Entries : (b # disk.inode[a].addr \/ n # m) =>
           d.ents[b][n] = disk.ents[b][n]
  BY <1>1, LinkedIs
<1>3. ASSUME NEW i \in Inodes, disk.inode[i].addr # NoBlock, NEW n \in Entries, i # a \/ n # m
      PROVE  Ent(disk', i, n) = Ent(disk, i, n)
  BY <1>1, <1>2, <1>3, BlocksKnown DEF BlocksOK, Ent
<1> QED BY <1>2, <1>3 DEF EntrySet, Ent

LEMMA EntryLinks ==
  ASSUME NEW d, NEW dy, NEW e, NEW f, LiveDirs(e, f) = LiveDirs(d, dy),
         NEW a \in LiveDirs(d, dy), NEW m \in Names, NEW v, NEW w, v # w,
         Ent(d, a, m) = v, Ent(e, a, m) = w,
         \A i \in LiveDirs(d, dy), n \in LinkNames :
            i # a \/ n # m => Ent(e, i, n) = Ent(d, i, n)
  PROVE  /\ \A i : i # v /\ i # w => Links(e, f, i) = Links(d, dy, i)
         /\ Drops(Links(d, dy, v), Links(e, f, v), <<a, m>>)
         /\ Adds(Links(d, dy, w), Links(e, f, w), <<a, m>>)
<1>1. a \in Inodes /\ m \in LinkNames
  BY DEF LiveDirs, LinkNames
<1>2. PICK x \in Inodes \X LinkNames : x = <<a, m>> /\ x[1] = a /\ x[2] = m
  <2>1. <<a, m>> \in Inodes \X LinkNames /\ <<a, m>>[1] = a /\ <<a, m>>[2] = m
    BY <1>1
  <2>2. QED BY <2>1, Zenon
<1>3. \A y \in Inodes \X LinkNames : y[1] = a /\ y[2] = m => y = x
  BY <1>2
<1>4. ASSUME NEW y \in Inodes \X LinkNames, y # x, y[1] \in LiveDirs(d, dy)
      PROVE  Ent(e, y[1], y[2]) = Ent(d, y[1], y[2])
  BY <1>3, <1>4
<1>5. ASSUME NEW i, i # v, i # w
      PROVE  Links(e, f, i) = Links(d, dy, i)
  BY <1>2, <1>4, <1>5 DEF Links
<1>6. Drops(Links(d, dy, v), Links(e, f, v), x)
  BY <1>2, <1>4 DEF Links, Drops
<1>7. Adds(Links(d, dy, w), Links(e, f, w), x)
  BY <1>2, <1>4 DEF Links, Adds
<1> QED BY <1>2, <1>5, <1>6, <1>7

\* The entry of a file or a link made or taken away.
EntryChange(t, a, m, k) ==
  \/ /\ Ent(disk, a, m) = NoInode /\ EntrySet(a, m, k)
     /\ \/ /\ disk'.inode[k].nlink = disk.inode[k].nlink
           /\ ~PendingAt(t, k)' /\ PendingAt(t, k)
        \/ /\ disk'.inode[k].nlink = disk.inode[k].nlink + 1
           /\ PendingAt(t, k)' <=> PendingAt(t, k)
  \/ /\ Ent(disk, a, m) = k /\ EntrySet(a, m, NoInode)
     /\ disk'.inode[k].nlink = disk.inode[k].nlink
     /\ PendingAt(t, k)' /\ ~PendingAt(t, k)

LEMMA EntryTree ==
  ASSUME Good, NEW t \in Procs, Alone(t), NEW a \in LiveDirs(disk, Dying), NEW m \in Names,
         NEW k \in Inodes, Type(k) \in {"file", "symlink"}, EntryChange(t, a, m, k),
         disk'.used = disk.used,
         \A i \in Inodes : /\ disk'.inode[i].type = disk.inode[i].type
                           /\ disk'.inode[i].addr = disk.inode[i].addr,
         \A i \in Inodes : i # k => /\ disk'.inode[i] = disk.inode[i]
                                    /\ PendingAt(t, i)' <=> PendingAt(t, i)
                                    /\ DyingAt(t, i)' <=> DyingAt(t, i)
  PROVE  TreeOK'
<1>1. Tree(disk, Dying, Pending)
  BY DEF Good, Sound, TreeOK
<1>2. \A i \in Inodes : i # k => (i \in Dying' <=> i \in Dying)
  BY DyingStep
<1>3. LiveDirs(disk', Dying') = LiveDirs(disk, Dying) /\ k \notin LiveDirs(disk, Dying)
  BY <1>2 DEF LiveDirs, Type
<1>4. \A i \in LiveDirs(disk, Dying) : disk.inode[i].addr # NoBlock /\ i \in Inodes
  BY <1>1 DEF Tree, DotsOK, LiveDirs
<1>5. PICK v \in Inums, w \in Inums :
         /\ Ent(disk, a, m) = v /\ EntrySet(a, m, w) /\ v # w
         /\ (v = NoInode /\ w = k) \/ (v = k /\ w = NoInode)
  BY NotNoInode DEF Inums, EntryChange
<1>6. \A i \in LiveDirs(disk, Dying), n \in LinkNames :
         i # a \/ n # m => Ent(disk', i, n) = Ent(disk, i, n)
  BY <1>4, <1>5, NamesEntries DEF EntrySet
<1>7. /\ \A i : i # v /\ i # w => Links(disk', Dying', i) = Links(disk, Dying, i)
      /\ Drops(Links(disk, Dying, v), Links(disk', Dying', v), <<a, m>>)
      /\ Adds(Links(disk, Dying, w), Links(disk', Dying', w), <<a, m>>)
  BY <1>3, <1>5, <1>6, EntryLinks DEF EntrySet
<1>8. \A i \in LiveDirs(disk, Dying) : i # v /\ i # w
  BY <1>3, <1>4, <1>5, NotNoInode
<1>9. ParentsOK(disk', Dying')
  <2> SUFFICES ASSUME NEW i \in LiveDirs(disk, Dying), i # ROOTINO
               PROVE  /\ Ent(disk', i, "..") \in LiveDirs(disk, Dying)
                      /\ \E n \in Names : Ent(disk', Ent(disk', i, ".."), n) = i
    BY <1>3 DEF ParentsOK
  <2>1. /\ Ent(disk, i, "..") \in LiveDirs(disk, Dying)
        /\ \E n \in Names : Ent(disk, Ent(disk, i, ".."), n) = i
    BY <1>1 DEF Tree, ParentsOK
  <2>2. Ent(disk', i, "..") = Ent(disk, i, "..")
    BY <1>6, NamesEntries
  <2>3. PICK n \in Names : Ent(disk, Ent(disk, i, ".."), n) = i
    BY <2>1
  <2>4. PICK p \in LiveDirs(disk, Dying) : p = Ent(disk, i, "..")
    BY <2>1
  <2>5. p # a \/ n # m
    BY <1>5, <1>8, <2>3, <2>4
  <2>6. Ent(disk', p, n) = i
    BY <1>6, <2>3, <2>4, <2>5, NamesEntries
  <2>7. QED BY <2>1, <2>2, <2>4, <2>6
<1>10. NamedOnce(disk', Dying')
  BY <1>1, <1>3, <1>7, <1>8 DEF Tree, NamedOnce
<1>11. RootOK(disk', Dying')
  BY <1>1, <1>3, <1>6, <1>7, <1>8, NamesEntries DEF Tree, RootOK
<1>12. BlocksOK(disk')
  BY <1>1, BlocksSame DEF Tree, Type
<1>13. DotsOK(disk', Dying')
  <2> SUFFICES ASSUME NEW i \in Inodes, disk'.inode[i].type = "dir"
               PROVE  \/ disk'.inode[i].addr = NoBlock /\ disk'.inode[i].nlink = 0
                      \/ /\ disk'.inode[i].addr # NoBlock
                         /\ Ent(disk', i, ".") = i
                         /\ i \notin LiveDirs(disk', Dying') =>
                              \A n \in Names : Ent(disk', i, n) = NoInode
    BY DEF DotsOK
  <2>1. disk'.inode[i] = disk.inode[i]
    BY DEF Type
  <2>2. \/ disk.inode[i].addr = NoBlock /\ disk.inode[i].nlink = 0
        \/ /\ disk.inode[i].addr # NoBlock
           /\ Ent(disk, i, ".") = i
           /\ i \notin LiveDirs(disk, Dying) =>
                \A n \in Names : Ent(disk, i, n) = NoInode
    BY <1>1, <2>1 DEF Tree, DotsOK
  <2>3. "." \in Entries /\ Names \subseteq Entries /\ m # "."
    BY NamesEntries DEF Entries
  <2>4. disk.inode[i].addr # NoBlock => Ent(disk', i, ".") = Ent(disk, i, ".")
    BY <1>5, <2>3 DEF EntrySet
  <2>5. ASSUME disk.inode[i].addr # NoBlock, i \notin LiveDirs(disk, Dying), NEW n \in Names
        PROVE  Ent(disk', i, n) = Ent(disk, i, n)
    BY <1>5, <2>3, <2>5 DEF EntrySet
  <2>6. QED BY <1>3, <2>1, <2>2, <2>4, <2>5
<1>14. CountsOK(disk', Dying', Pending')
  <2>1. ASSUME NEW i \in Inodes PROVE CountAt(disk', Dying', Pending', i)
    <3>1. CountAt(disk, Dying, Pending, i) /\ Pending[i] \in SUBSET Procs
      BY <1>1, CountsAre, PendingProcs DEF Tree
    <3> DEFINE L == Links(disk, Dying, i)
               M == Links(disk', Dying', i)
               n == disk.inode[i].nlink
               o == disk'.inode[i].nlink
    <3>2. CASE i # k
      BY <1>5, <1>7, <3>1, <3>2, NotNoInode, PendingStep, CountChange DEF Same_
    <3>3. CASE i = k
      <4>1. /\ (PendingAt(t, i)' <=> PendingAt(t, i)) => Same_(Pending[i], Pending'[i])
            /\ PendingAt(t, i)' /\ ~PendingAt(t, i) => Adds(Pending[i], Pending'[i], t)
            /\ ~PendingAt(t, i)' /\ PendingAt(t, i) => Drops(Pending[i], Pending'[i], t)
        BY PendingStep
      <4>2. PICK x : x = <<a, m>>
        OBVIOUS
      <4>3. \/ v = NoInode /\ Adds(L, M, x)
            \/ w = NoInode /\ Drops(L, M, x)
        BY <1>5, <1>7, <3>3, <4>2
      <4>4. v = NoInode =>
              \/ o = n /\ ~PendingAt(t, i)' /\ PendingAt(t, i)
              \/ o = n + 1 /\ (PendingAt(t, i)' <=> PendingAt(t, i))
        BY <1>5, <3>3, NotNoInode DEF EntryChange
      <4>5. w = NoInode => o = n /\ PendingAt(t, i)' /\ ~PendingAt(t, i)
        BY <1>5, <3>3, NotNoInode DEF EntryChange
      <4> HIDE DEF L, M, n, o
      <4>6. \/ Adds(L, M, x) /\ Drops(Pending[i], Pending'[i], t) /\ o = n
            \/ Drops(L, M, x) /\ Adds(Pending[i], Pending'[i], t) /\ o = n
            \/ Adds(L, M, x) /\ Same_(Pending[i], Pending'[i]) /\ o = n + 1
        BY <4>1, <4>3, <4>4, <4>5
      <4>7. QED BY <3>1, <4>6, CountChange DEF L, M, n, o
    <3>4. QED BY <3>2, <3>3
  <2>2. QED BY <2>1, CountsAre
<1> QED BY <1>9, <1>10, <1>11, <1>12, <1>13, <1>14 DEF TreeOK, Tree

-----------------------------------------------------------------------------
(* A link made *)

LEMMA LinkDirMakes ==
  ASSUME NEW t \in Procs, Going(t), LinkDir(t),
         Lookup(disk.inode[loc[t].dp], loc[t].name) = NoInode
  PROVE  Good'
<1> DEFINE r == loc[t]
           ino == Ino(r.dp)
           i == Lookup(ino, r.name)
           tab == Cached(itable, r.dp, ino)
           q == [r EXCEPT !.dp = NoInode, !.old = NoInode]
           l == "end"
<1>1. /\ pc[t] = "link_dir" /\ pc[t] \notin PutAt \cup {"panic", "idle", "unlink_last"}
      /\ Free(r.dp) /\ pc[t] \in DpAt /\ pc[t] \notin IpAt
  BY DEF LinkDir, At, PutAt, DpAt, IpAt
<1>2. /\ Good /\ Inv /\ Inv2' /\ Alone(t) /\ RefStep(t) /\ ~strayed'
      /\ r \in Locals /\ Has("link_dir", r) /\ r.name \in Entries /\ DirsOK(t)
      /\ r.puts = <<>> /\ disk \in Disks
  BY <1>1, GoodInv, Known, WorldTypes DEF Fits, NamedAt, Going, Good, Sound, OwnOK
<1>3. /\ r.dp # NoInode /\ r.old # NoInode /\ r.ip = NoInode
  BY <1>1, <1>2 DEF Has, HasOld
<1>4. PICK j \in Inodes, k \in Inodes : j = r.dp /\ k = r.old
  BY <1>2, <1>3 DEF Locals, Inums
<1>5. /\ Uses(t, j) /\ lock[j] \in {Nobody, t} /\ lock[j] = Nobody
      /\ Ino(j) = disk.inode[j] /\ disk.inode[j] \in Dinodes
      /\ Type(j) = "dir" /\ Type(k) \in {"file", "symlink"}
      /\ Ino(j).type = "dir"
  BY <1>1, <1>2, <1>3, <1>4, Ilock DEF DirsOK, Type, Free
<1>6. PICK m : m = r.name /\ m \in Entries
  BY <1>2
<1>7. /\ disk' = Linked(disk, disk.inode[j], m, k)
      /\ itable' = Cached(itable, j, Ino(j))
      /\ strayed' = (strayed \/ Removed(disk.inode[j]))
      /\ PutThen(t, q, <<j, k>>, l)
      /\ UNCHANGED <<committed, lock, procVars, events, orphans, dropped>>
  BY <1>4, <1>5, <1>6 DEF LinkDir
<1>8. j \in LiveDirs(disk, Dying) /\ Ent(disk, j, m) = NoInode /\ m \in Names
  <2>1. ~Removed(disk.inode[j])
    BY <1>2, <1>7
  <2>2. j \in LiveDirs(disk, Dying)
    BY <1>2, <1>5, <2>1, NotRemoved
  <2>3. Ent(disk, j, m) = NoInode
    BY <1>2, <1>4, <1>6, <2>2, LiveEntry
  <2>4. DotsOK(disk, Dying) /\ ParentsOK(disk, Dying) /\ RootOK(disk, Dying)
    BY <1>2 DEF Good, Sound, TreeOK, Tree
  <2>5. QED BY <1>6, <2>2, <2>3, <2>4, NoDots
<1>9. disk.inode[j].addr # NoBlock
  BY <1>2, <1>8 DEF Good, Sound, TreeOK, Tree, DotsOK, LiveDirs
<1>10. k \in Inums
  BY DEF Inums
<1>11. disk'.inode = disk.inode /\ disk'.used = disk.used
  BY <1>2, <1>5, <1>6, <1>7, <1>9, <1>10, LinkedIs
<1>12. EntrySet(j, m, k)
  BY <1>2, <1>6, <1>7, <1>9, <1>10, <1>11, EntryLinked
<1>13. /\ q \in Locals /\ q.ip = NoInode /\ q.old = NoInode /\ q.dp = NoInode
  BY <1>2, <1>3 DEF Locals, Inums
<1> HIDE DEF q
<1>14. l \in Nexts /\ l \in Plain /\ l \notin LockIp \cup LockDp
       /\ pc[t] \notin LockIp \cup LockDp /\ pc[t] \notin PutAt \cup WritesAt
       /\ l \notin {"create_get", "create_fill"}
  BY <1>1, Unlocked_
<1>15. Lands(t, l, q, j, k)
  <2>1. PICK s \in Seq(Inodes) : /\ s = <<j, k>> /\ Len(s) \in {1, 2}
                                 /\ First(s) = j /\ Second(s) = k
    BY Puts2
  <2>2. PutThen(t, q, s, l)
    BY <1>7, <2>1
  <2>3. Lands(t, l, q, First(s), Second(s))
    BY <1>2, <1>13, <1>14, <2>1, <2>2, LandsPuts
  <2>4. QED BY <2>1, <2>3
<1>16. \A x \in Inodes : /\ PendingAt(t, x) <=> x = k
                         /\ ~DyingAt(t, x)' /\ ~DyingAt(t, x) /\ ~PendingAt(t, x)'
  BY <1>1, <1>2, <1>4, <1>13, <1>15, LandsMeans, HereMeans, NotNoInode
<1>17. TreeOK'
  BY <1>2, <1>5, <1>8, <1>11, <1>12, <1>16, EntryTree DEF EntryChange
<1>18. TabLoud(t) /\ DiskLoud(t)
  <2>1. itable \in Tables
    BY <1>2, WorldTypes
  <2>2. /\ \A x \in Inodes : x # j => itable'[x] = itable[x]
        /\ itable'[j].valid /\ itable'[j].ino = disk.inode[j]
    BY <1>5, <1>7, <2>1, CachedIs
  <2>3. TabLoud(t)
    BY <1>5, <1>11, <2>2 DEF TabLoud, Type
  <2>4. ASSUME NEW x \in LiveDirs(disk, Dying) PROVE disk.inode[x].addr # NoBlock
    BY <1>2 DEF Good, Sound, TreeOK, Tree, DotsOK, LiveDirs
  <2>5. DiskLoud(t)
    BY <1>5, <1>11, <1>12, <2>4 DEF DiskLoud, EntrySet, Type
  <2>6. QED BY <2>3, <2>5
<1>19. LocksGuar(t) /\ WritesGuar(t) /\ AtOK(t)'
  <2>1. \A x \in Inodes : Unwritten(disk', x) <=> Unwritten(disk, x)
    BY <1>11 DEF Unwritten
  <2>2. UNCHANGED lock
    BY <1>7
  <2>3. QED BY <1>1, <1>2, <1>14, <1>15, <2>1, <2>2, LandFree, WritesSame, AtPlain
<1>20. UNCHANGED <<committed, dropped>> /\ cwd'[t] = cwd[t] /\ ofile'[t] = ofile[t]
  BY <1>7 DEF procVars
<1>21. {q.ip, q.dp, q.old, j, k, ofile'[t].ip}
          \subseteq {cwd[t], ofile[t].ip, loc[t].ip, loc[t].dp, loc[t].old, NoInode}
  BY <1>4, <1>13, <1>20
<1>22. q.dp \in {NoInode, loc[t].dp} /\ q.old \in {NoInode, loc[t].old}
  BY <1>13
<1> QED BY <1>1, <1>2, <1>14, <1>15, <1>17, <1>18, <1>19, <1>20, <1>21, <1>22, LoudStep

LEMMA LinkDirSound ==
  ASSUME NEW t \in Procs, Going(t), LinkDir(t)
  PROVE  Good'
BY LinkDirMakes, LinkDirFound

-----------------------------------------------------------------------------
(* A directory taken away *)

\* A live directory is no inode that a call has counted and not linked.
LEMMA LiveNotPending ==
  ASSUME Good, NEW k \in LiveDirs(disk, Dying)
  PROVE  Pending[k] = {}
<1>1. k \in Inodes /\ k \notin Dying /\ Type(k) = "dir"
  BY DEF LiveDirs, Type
<1>2. ASSUME NEW u \in Procs, PendingAt(u, k) PROVE FALSE
  BY <1>1, <1>2, NotNoInode DEF Dying, PendingAt, Good, Sound, OwnOK, DirsOK
<1> QED BY <1>1, <1>2 DEF Pending

\* The only link to an empty directory, and where its ".." leads.
LEMMA EmptyDir ==
  ASSUME NEW d, NEW dy, NEW pend, Tree(d, dy, pend),
         NEW a \in LiveDirs(d, dy), NEW m \in Names, NEW k \in LiveDirs(d, dy),
         Ent(d, a, m) = k, \A n \in Names : Ent(d, k, n) = NoInode
  PROVE  /\ a # k /\ k # ROOTINO /\ Ent(d, k, "..") = a
         /\ Links(d, dy, k) = {<<a, m>>}
         /\ \A i \in LiveDirs(d, dy) : Ent(d, i, "..") # k
<1>1. ParentsOK(d, dy) /\ NamedOnce(d, dy) /\ RootOK(d, dy)
  BY DEF Tree
<1>2. /\ a \in Inodes /\ k \in Inodes /\ m \in LinkNames /\ m # ".." /\ k # NoInode
      /\ \A i \in LiveDirs(d, dy) : i # NoInode /\ i \in Inodes
  BY NamesEntries, NotNoInode DEF LiveDirs
<1>3. a # k
  BY <1>2
<1>4. PICK x \in Inodes \X LinkNames : x = <<a, m>> /\ x[1] = a /\ x[2] = m
  <2>1. <<a, m>> \in Inodes \X LinkNames /\ <<a, m>>[1] = a /\ <<a, m>>[2] = m
    BY <1>2
  <2>2. QED BY <2>1, Zenon
<1>5. x \in Links(d, dy, k)
  BY <1>4 DEF Links
<1>6. k # ROOTINO
  BY <1>1, <1>2, <1>4, <1>5 DEF RootOK
<1>7. PICK p \in LiveDirs(d, dy), n \in Names : p = Ent(d, k, "..") /\ Ent(d, p, n) = k
  BY <1>1, <1>6 DEF ParentsOK
<1>8. p = a
  <2>1. n \in LinkNames /\ n # ".." /\ p \in Inodes
    BY <1>2, NamesEntries
  <2>2. PICK y \in Inodes \X LinkNames : y[1] = p /\ y[2] = n
    <3>1. <<p, n>> \in Inodes \X LinkNames /\ <<p, n>>[1] = p /\ <<p, n>>[2] = n
      BY <2>1
    <3>2. QED BY <3>1, Zenon
  <2>3. y \in Links(d, dy, k)
    BY <1>7, <2>2 DEF Links
  <2>4. x = y
    BY <1>1, <1>2, <1>4, <1>5, <2>1, <2>2, <2>3 DEF NamedOnce
  <2>5. QED BY <1>4, <2>2, <2>4
<1>9. ASSUME NEW i \in LiveDirs(d, dy), Ent(d, i, "..") = k PROVE FALSE
  BY <1>1, <1>2, <1>6, <1>9 DEF RootOK, ParentsOK
<1>10. ASSUME NEW e \in Links(d, dy, k) PROVE e = x
  BY <1>1, <1>2, <1>4, <1>5, <1>9 DEF Links, NamedOnce
<1>11. Links(d, dy, k) = {<<a, m>>}
  BY <1>4, <1>5, <1>10
<1> QED BY <1>3, <1>6, <1>7, <1>8, <1>9, <1>11

\* A live directory that has another in it is linked twice.
LEMMA ParentTwice ==
  ASSUME NEW d, NEW dy, NEW pend, Tree(d, dy, pend),
         NEW a \in LiveDirs(d, dy), NEW k \in LiveDirs(d, dy), k # ROOTINO, a # k,
         Ent(d, k, "..") = a, pend[a] = {}
  PROVE  d.inode[a].nlink \in Nat /\ d.inode[a].nlink >= 2
<1>1. ParentsOK(d, dy) /\ RootOK(d, dy) /\ CountsOK(d, dy, pend)
  BY DEF Tree
<1>2. a \in Inodes /\ k \in Inodes /\ ".." \in LinkNames
  BY NamesEntries DEF LiveDirs
<1>3. PICK x \in Links(d, dy, a) : x[1] = k
  <2>1. <<k, "..">> \in Links(d, dy, a)
    BY <1>2 DEF Links
  <2>2. <<k, "..">>[1] = k
    OBVIOUS
  <2>3. QED BY <2>1, <2>2, Zenon
<1>4. PICK y \in Links(d, dy, a) : y # x
  <2>1. CASE a = ROOTINO
    <3>1. <<a, "..">> \in Links(d, dy, a)
      BY <1>1, <1>2, <2>1 DEF Links, RootOK
    <3>2. <<a, "..">>[1] = a
      OBVIOUS
    <3>3. QED BY <1>3, <3>1, <3>2, Zenon
  <2>2. CASE a # ROOTINO
    <3>1. PICK p \in LiveDirs(d, dy), n \in Names : p = Ent(d, a, "..") /\ Ent(d, p, n) = a
      BY <1>1, <2>2 DEF ParentsOK
    <3>2. n \in LinkNames /\ n # ".." /\ p \in Inodes
      BY NamesEntries DEF LiveDirs
    <3>3. <<p, n>> \in Links(d, dy, a) /\ <<p, n>>[1] = p /\ <<p, n>>[2] = n
      BY <3>1, <3>2 DEF Links
    <3>4. PICK z \in Links(d, dy, a) : z[1] = p /\ z[2] = n
      BY <3>3, Zenon
    <3>5. <<k, "..">> \in Links(d, dy, a) /\ <<k, "..">>[1] = k /\ <<k, "..">>[2] = ".."
      BY <1>2 DEF Links
    <3>6. PICK w \in Links(d, dy, a) : w[2] = ".."
      BY <3>5, Zenon
    <3>7. z # w
      BY <3>2, <3>4, <3>6
    <3>8. QED BY <3>7
  <2>3. QED BY <2>1, <2>2
<1> DEFINE L == Links(d, dy, a)
<1>5. d.inode[a].nlink = Cardinality(L) + Cardinality({})
  BY <1>1, <1>2 DEF CountsOK
<1>6. IsFiniteSet(L) /\ Cardinality(L) \in Nat /\ x \in L /\ y \in L
  BY LinksFinite
<1> HIDE DEF L
<1>7. Cardinality(L) >= 2 /\ Cardinality({}) = 0
  BY <1>4, <1>6, TwoElements, FS_EmptySet
<1> QED BY <1>5, <1>6, <1>7

LEMMA DirGoneTree ==
  ASSUME Good, NEW t \in Procs, Alone(t), NEW a \in LiveDirs(disk, Dying), NEW m \in Names,
         NEW k \in LiveDirs(disk, Dying), Ent(disk, a, m) = k,
         \A n \in Names : Ent(disk, k, n) = NoInode, EntrySet(a, m, NoInode),
         disk'.used = disk.used,
         \A i \in Inodes : /\ disk'.inode[i].type = disk.inode[i].type
                           /\ disk'.inode[i].addr = disk.inode[i].addr,
         disk'.inode[a].nlink = disk.inode[a].nlink - 1,
         \A i \in Inodes : i # a => disk'.inode[i] = disk.inode[i],
         \A i \in Inodes : i # k => /\ PendingAt(t, i)' <=> PendingAt(t, i)
                                    /\ DyingAt(t, i)' <=> DyingAt(t, i),
         DyingAt(t, k)', PendingAt(t, k)', ~PendingAt(t, k)
  PROVE  TreeOK' /\ disk'.inode[k].nlink = 1
<1>1. Tree(disk, Dying, Pending)
  BY DEF Good, Sound, TreeOK
<1>2. /\ a # k /\ k # ROOTINO /\ Ent(disk, k, "..") = a
      /\ Links(disk, Dying, k) = {<<a, m>>}
      /\ \A i \in LiveDirs(disk, Dying) : Ent(disk, i, "..") # k
  BY <1>1, EmptyDir
<1>3. \A i \in LiveDirs(disk, Dying) : /\ disk.inode[i].addr # NoBlock /\ i \in Inodes
                                       /\ i # NoInode
  BY <1>1, NotNoInode DEF Tree, DotsOK, LiveDirs
<1>4. a \in Inodes /\ k \in Inodes /\ m \in LinkNames /\ m # ".." /\ ".." \in LinkNames
  BY <1>3, NamesEntries
<1>5. disk.inode[a].nlink \in Nat /\ disk.inode[a].nlink >= 2
  BY <1>1, <1>2, ParentTwice, LiveNotPending
<1>6. \A i \in Inodes : i \in LiveDirs(disk', Dying') <=> i \in LiveDirs(disk, Dying) /\ i # k
  BY <1>4, <1>5, DyingStep DEF LiveDirs
<1>7. \A i \in LiveDirs(disk, Dying), n \in LinkNames :
         i # a \/ n # m => Ent(disk', i, n) = Ent(disk, i, n)
  BY <1>3, NamesEntries DEF EntrySet
<1>8. Ent(disk', a, m) = NoInode
  BY DEF EntrySet
<1>9. PICK x \in Inodes \X LinkNames, y \in Inodes \X LinkNames :
         /\ x = <<a, m>> /\ x[1] = a /\ x[2] = m
         /\ y = <<k, "..">> /\ y[1] = k /\ y[2] = ".."
  <2>1. /\ <<a, m>> \in Inodes \X LinkNames /\ <<a, m>>[1] = a /\ <<a, m>>[2] = m
        /\ <<k, "..">> \in Inodes \X LinkNames /\ <<k, "..">>[1] = k /\ <<k, "..">>[2] = ".."
    BY <1>4
  <2>2. QED BY <2>1, Zenon
<1> DEFINE L(i) == Links(disk, Dying, i)
           M(i) == Links(disk', Dying', i)
<1>10. \A z \in Inodes \X LinkNames : /\ z[1] = a /\ z[2] = m => z = x
                                      /\ z[1] = k /\ z[2] = ".." => z = y
  BY <1>9
<1>11. ASSUME NEW i \in Inodes
       PROVE  M(i) = L(i) \ {x, y}
  <2>1. ASSUME NEW z \in Inodes \X LinkNames
        PROVE  (z[1] \in LiveDirs(disk', Dying') /\ Ent(disk', z[1], z[2]) = i)
                 <=> (z[1] \in LiveDirs(disk, Dying) /\ Ent(disk, z[1], z[2]) = i) /\ z # x /\ z # y
    <3>1. CASE z = x \/ z = y
      BY <1>3, <1>4, <1>6, <1>8, <1>9, <3>1, NotNoInode
    <3>2. CASE z # x /\ z # y
      BY <1>6, <1>7, <1>10, <3>2, NamesEntries, NotNoInode
    <3>3. QED BY <3>1, <3>2
  <2>2. QED BY <2>1 DEF Links
<1>12. /\ \A i \in Inodes : M(i) \subseteq L(i)
       /\ Drops(L(k), M(k), x) /\ Drops(L(a), M(a), y)
       /\ \A i \in Inodes : i # a /\ i # k => M(i) = L(i)
  <2>1. x \in L(k) /\ x \notin L(a) /\ y \in L(a) /\ y \notin L(k)
    BY <1>2, <1>9 DEF Links
  <2>2. \A i \in Inodes : i # a /\ i # k => x \notin L(i) /\ y \notin L(i)
    BY <1>2, <1>9 DEF Links
  <2> HIDE DEF L, M
  <2>3. /\ \A i \in Inodes : M(i) \subseteq L(i)
        /\ \A i \in Inodes : i # a /\ i # k => M(i) = L(i)
    BY <1>11, <2>2, ZenonT(90)
  <2>4. M(k) = L(k) \ {x}
    BY <1>4, <1>11, <2>1
  <2>5. M(a) = L(a) \ {y}
    BY <1>4, <1>11, <2>1
  <2>6. Drops(L(k), M(k), x) /\ Drops(L(a), M(a), y)
    BY <2>1, <2>4, <2>5 DEF Drops
  <2>7. QED BY <2>3, <2>6
<1>13. ParentsOK(disk', Dying')
  <2> SUFFICES ASSUME NEW i \in LiveDirs(disk', Dying'), i # ROOTINO
               PROVE  /\ Ent(disk', i, "..") \in LiveDirs(disk', Dying')
                      /\ \E n \in Names : Ent(disk', Ent(disk', i, ".."), n) = i
    BY DEF ParentsOK
  <2>1. i \in LiveDirs(disk, Dying) /\ i # k
    BY <1>6 DEF LiveDirs
  <2>2. PICK p \in LiveDirs(disk, Dying), n \in Names :
          p = Ent(disk, i, "..") /\ Ent(disk, p, n) = i
    BY <1>1, <2>1 DEF Tree, ParentsOK
  <2>3. p # k /\ (p # a \/ n # m) /\ i # NoInode
    BY <1>3, <2>1, <2>2
  <2>4. Ent(disk', p, n) = i
    BY <1>7, <2>2, <2>3, NamesEntries
  <2>5. Ent(disk', i, "..") = p
    BY <1>4, <1>7, <2>1, <2>2
  <2>6. p \in LiveDirs(disk', Dying')
    BY <1>3, <1>6, <2>3
  <2>7. QED BY <2>4, <2>5, <2>6
<1>14. NamedOnce(disk', Dying')
  <2>1. \A i \in LiveDirs(disk', Dying') : i \in LiveDirs(disk, Dying) /\ i \in Inodes
    BY <1>6 DEF LiveDirs
  <2>2. \A i \in LiveDirs(disk, Dying) : \A e, f \in L(i) : e[2] # ".." /\ f[2] # ".." => e = f
    BY <1>1 DEF Tree, NamedOnce
  <2>3. \A i \in LiveDirs(disk', Dying') : \A e, f \in M(i) : e[2] # ".." /\ f[2] # ".." => e = f
    <3> HIDE DEF L, M
    <3> QED BY <1>12, <2>1, <2>2
  <2>4. QED BY <2>3 DEF NamedOnce
<1>15. RootOK(disk', Dying')
  <2>1. ROOTINO \in LiveDirs(disk, Dying) /\ Ent(disk, ROOTINO, "..") = ROOTINO
    BY <1>1 DEF Tree, RootOK
  <2>2. ROOTINO \in LiveDirs(disk', Dying') /\ ROOTINO \in Inodes
    BY <1>2, <1>3, <1>6, <2>1
  <2>3. Ent(disk', ROOTINO, "..") = ROOTINO
    BY <1>4, <1>7, <2>1
  <2>4. \A e \in M(ROOTINO) : e[2] = ".."
    <3>1. \A e \in L(ROOTINO) : e[2] = ".."
      BY <1>1 DEF Tree, RootOK
    <3> HIDE DEF L, M
    <3>2. QED BY <1>12, <2>2, <3>1
  <2>5. QED BY <2>2, <2>3, <2>4 DEF RootOK
<1>16. BlocksOK(disk')
  BY <1>1, BlocksSame DEF Tree, LiveDirs
<1>17. DotsOK(disk', Dying')
  <2> SUFFICES ASSUME NEW i \in Inodes, disk'.inode[i].type = "dir"
               PROVE  \/ disk'.inode[i].addr = NoBlock /\ disk'.inode[i].nlink = 0
                      \/ /\ disk'.inode[i].addr # NoBlock
                         /\ Ent(disk', i, ".") = i
                         /\ i \notin LiveDirs(disk', Dying') =>
                              \A n \in Names : Ent(disk', i, n) = NoInode
    BY DEF DotsOK
  <2>1. "." \in Entries /\ Names \subseteq Entries /\ m # "."
    BY <1>4, NamesEntries DEF Entries
  <2>2. \/ disk.inode[i].addr = NoBlock /\ disk.inode[i].nlink = 0
        \/ /\ disk.inode[i].addr # NoBlock
           /\ Ent(disk, i, ".") = i
           /\ i \notin LiveDirs(disk, Dying) =>
                \A n \in Names : Ent(disk, i, n) = NoInode
    BY <1>1 DEF Tree, DotsOK
  <2>3. CASE i = a
    BY <1>2, <1>3, <1>4, <1>6, <2>1, <2>2, <2>3 DEF EntrySet
  <2>4. CASE i # a
    BY <1>6, <2>1, <2>2, <2>4 DEF EntrySet
  <2>5. QED BY <2>3, <2>4
<1>18. CountsOK(disk', Dying', Pending')
  <2>1. ASSUME NEW i \in Inodes PROVE CountAt(disk', Dying', Pending', i)
    <3>1. CountAt(disk, Dying, Pending, i) /\ Pending[i] \in SUBSET Procs
      BY <1>1, CountsAre, PendingProcs DEF Tree
    <3>2. /\ (PendingAt(t, i)' <=> PendingAt(t, i)) => Same_(Pending[i], Pending'[i])
          /\ PendingAt(t, i)' /\ ~PendingAt(t, i) => Adds(Pending[i], Pending'[i], t)
      BY PendingStep
    <3>3. CASE i = k
      BY <1>2, <1>12, <3>1, <3>2, <3>3, CountChange
    <3>4. CASE i = a
      BY <1>2, <1>12, <3>1, <3>2, <3>4, CountChange
    <3>5. CASE i # a /\ i # k
      BY <1>12, <3>1, <3>2, <3>5, CountChange DEF Same_
    <3>6. QED BY <3>3, <3>4, <3>5
  <2>2. QED BY <2>1, CountsAre
<1>19. disk'.inode[k].nlink = 1
  <2>1. disk.inode[k].nlink = Cardinality(Links(disk, Dying, k)) + Cardinality(Pending[k])
    BY <1>1, <1>4 DEF Tree, CountsOK
  <2>2. Cardinality({<<a, m>>}) = 1 /\ Cardinality({}) = 0
    BY FS_Singleton, FS_EmptySet
  <2>3. Pending[k] = {}
    BY LiveNotPending
  <2>4. disk'.inode[k] = disk.inode[k]
    BY <1>2, <1>4
  <2>5. QED BY <1>2, <2>1, <2>2, <2>3, <2>4
<1> QED BY <1>13, <1>14, <1>15, <1>16, <1>17, <1>18, <1>19 DEF TreeOK, Tree

LEMMA UnlinkLockTakes ==
  ASSUME NEW t \in Procs, Going(t), UnlinkLock(t),
         disk' = OnDisk(Linked(disk, Ino(loc[t].dp), loc[t].name, NoInode), loc[t].dp,
                   [Ino(loc[t].dp) EXCEPT !.nlink =
                      IF Ino(loc[t].ip).type = "dir" THEN @ - 1 ELSE @]),
         ~(Ino(loc[t].ip).type = "dir" /\ ~IsDirEmpty(Ino(loc[t].ip)))
  PROVE  Good'
<1> DEFINE r == loc[t]
           ino == Ino(r.ip)
           q == [r EXCEPT !.dp = NoInode]
           l == "unlink_last"
<1>1. /\ pc[t] = "unlink_lock" /\ pc[t] \notin PutAt \cup {"panic", "idle", "unlink_last"}
      /\ Free(r.ip) /\ pc[t] \in IpAt /\ pc[t] \in DpAt
      /\ pc[t] \in LockDp /\ pc[t] \notin LockIp /\ pc[t] \notin PutAt \cup WritesAt
  BY DEF UnlinkLock, At, PutAt, IpAt, DpAt, LockDp, LockIp, WritesAt
<1>2. /\ Good /\ Inv /\ Inv2' /\ Alone(t) /\ RefStep(t) /\ AtOK(t) /\ Due(t) = "unlink_lock"
      /\ r \in Locals /\ Has("unlink_lock", r) /\ disk \in Disks /\ itable \in Tables
  BY <1>1, GoodInv, Known, WorldTypes, HereMeans DEF Going, Good, Sound, OwnOK
<1>3. /\ r.ip # NoInode /\ r.dp # NoInode /\ r.old = NoInode
  BY <1>1, <1>2 DEF Has, HasOld
<1>4. PICK j \in Inodes, k \in Inodes : j = r.dp /\ k = r.ip
  BY <1>2, <1>3 DEF Locals, Inums
<1>5. PICK m \in Names : m = r.name /\ j \in LiveDirs(disk, Dying) /\ Ent(disk, j, m) = k
  BY <1>2, <1>4 DEF AtOK
<1>6. /\ lock[k] = Nobody /\ lock[j] = t /\ j # k
  BY <1>1, <1>2, <1>4, HeldLock, FilesAssumption DEF HeldAt, Free, FilesAssumption
<1>7. /\ Uses(t, j) /\ Uses(t, k) /\ ~Freed(t, j) /\ ~DyingAt(t, k)
  BY <1>1, <1>2, <1>4, HereMeans
<1>8. /\ ino = disk.inode[k] /\ Ino(j) = disk.inode[j]
      /\ disk.inode[j] \in Dinodes /\ disk.inode[k] \in Dinodes
      /\ Type(k) # "none" /\ Type(j) = "dir"
  <2>1. ino = disk.inode[k] /\ Type(k) # "none"
    BY <1>1, <1>2, <1>4, Ilock
  <2>2. Ino(j) = disk.inode[j]
    BY <1>2, <1>6, <1>7, InoDisk
  <2>3. Type(j) = "dir"
    BY <1>5 DEF LiveDirs, Type
  <2>4. QED BY <1>2, <2>1, <2>2, <2>3 DEF Disks
<1>9. disk.inode[k].nlink \in Nat /\ disk.inode[k].nlink >= 1
  BY <1>2, <1>5, EntryCounts DEF LinkNames
<1>10. disk.inode[j].nlink \in Nat /\ disk.inode[j].nlink > 0 /\ disk.inode[j].addr # NoBlock
  BY <1>2, <1>5, Counted1, PendingProcs DEF Good, Sound, TreeOK, Tree, LiveDirs, DotsOK
<1>11. PICK n \in Dinodes :
         /\ n = [disk.inode[j] EXCEPT !.nlink =
                   IF disk.inode[k].type = "dir" THEN disk.inode[j].nlink - 1
                   ELSE disk.inode[j].nlink]
         /\ n.type = "dir" /\ n.addr = disk.inode[j].addr
         /\ n.nlink = IF Type(k) = "dir" THEN disk.inode[j].nlink - 1
                      ELSE disk.inode[j].nlink
  <2> DEFINE c == IF disk.inode[k].type = "dir" THEN disk.inode[j].nlink - 1
                  ELSE disk.inode[j].nlink
             n == [disk.inode[j] EXCEPT !.nlink = c]
  <2>1. c \in Int
    BY <1>10
  <2>2. c = IF Type(k) = "dir" THEN disk.inode[j].nlink - 1
            ELSE disk.inode[j].nlink
    BY DEF Type
  <2>3. disk.inode[j].type = "dir"
    BY <1>8 DEF Type
  <2> HIDE DEF c
  <2>4. n \in Dinodes /\ n.type = "dir" /\ n.addr = disk.inode[j].addr /\ n.nlink = c
    BY <1>8, <2>1, <2>3, SMTT(90) DEF Dinodes
  <2>5. QED BY <2>2, <2>4 DEF c
<1>12. /\ disk' = OnDisk(Linked(disk, disk.inode[j], m, NoInode), j, n)
       /\ itable' = Cached(Cached(itable, k, disk.inode[k]), j, n)
       /\ LockMoves(t, j, k)
       /\ PutThen(t, q, <<j>>, l)
       /\ UNCHANGED <<committed, procVars, events, history>>
  <2>1. ~(ino.nlink < 1) /\ ino.type # "none"
    BY <1>8, <1>9 DEF Type
  <2>2. [Ino(j) EXCEPT !.nlink = IF ino.type = "dir" THEN @ - 1 ELSE @] = n
    BY <1>4, <1>8, <1>11
  <2>3. /\ itable' = Cached(Cached(itable, r.ip, ino), r.dp,
                       [Ino(r.dp) EXCEPT !.nlink = IF ino.type = "dir" THEN @ - 1 ELSE @])
        /\ lock' = [lock EXCEPT ![r.dp] = Nobody, ![r.ip] = t]
        /\ PutThen(t, [r EXCEPT !.dp = NoInode], <<r.dp>>, "unlink_last")
        /\ UNCHANGED <<committed, procVars, events, history>>
    BY <2>1 DEF UnlinkLock
  <2>4. QED BY <1>4, <1>5, <1>8, <2>2, <2>3 DEF LockMoves
<1>13. PICK d \in Disks : d = Linked(disk, disk.inode[j], m, NoInode)
  BY <1>2, <1>8, <1>10, LinkedIs, NamesEntries DEF Inums
<1>14. m \in Entries /\ NoInode \in Inums
  BY NamesEntries DEF Inums
<1>15. /\ disk'.inode[j] = n
       /\ \A i \in Inodes : i # j => disk'.inode[i] = disk.inode[i]
       /\ disk'.used = disk.used /\ disk'.ents = d.ents
  <2>1. d.inode = disk.inode /\ d.used = disk.used
    BY <1>2, <1>8, <1>10, <1>13, <1>14, LinkedIs
  <2>2. disk' = OnDisk(d, j, n)
    BY <1>12, <1>13
  <2>3. QED BY <2>1, <2>2, OnDiskIs
<1>16. \A i \in Inodes : /\ disk'.inode[i].type = disk.inode[i].type
                         /\ disk'.inode[i].addr = disk.inode[i].addr
  BY <1>8, <1>11, <1>15, Zenon DEF Type
<1>17. EntrySet(j, m, NoInode)
  BY <1>2, <1>10, <1>13, <1>14, <1>15, <1>16, EntryLinked, Zenon
<1>18. /\ q \in Locals /\ q.ip = k /\ q.dp = NoInode /\ q.old = NoInode
  BY <1>2, <1>3, <1>4 DEF Locals, Inums
<1> HIDE DEF q
<1>19. l \in Nexts /\ l \in LockIp /\ l \notin LockDp
       /\ l \notin {"create_get", "create_fill"}
  BY DEF Nexts, LockIp, LockDp
<1>20. Lands(t, l, q, j, NoInode)
  BY <1>1, <1>2, <1>12, <1>18, <1>19, LandsPut
<1>21. \A i \in Inodes : /\ ~PendingAt(t, i) /\ ~DyingAt(t, i)
                         /\ PendingAt(t, i)' <=> i = k
                         /\ DyingAt(t, i)' <=> i = k
  <2>1. ASSUME NEW i \in Inodes
        PROVE  /\ ~PendingAt(t, i) /\ ~DyingAt(t, i)
               /\ PendingAt(t, i)' <=> i = k
               /\ DyingAt(t, i)' <=> i = k
    BY <1>1, <1>2, <1>3, <1>18, <1>20, LandsMeans, HereMeans, NotNoInode
  <2>2. QED BY <2>1
<1>22. TreeOK' /\ (Type(k) = "dir" => disk'.inode[k].nlink = 1)
  <2>1. CASE Type(k) = "dir"
    <3>1. k \notin Dying
      BY <1>2, <1>6, <1>7, DyingLocked
    <3>2. k \in LiveDirs(disk, Dying)
      BY <1>9, <2>1, <3>1 DEF LiveDirs, Type
    <3>3. \A o \in Names : Ent(disk, k, o) = NoInode
      BY <1>2, <1>4, <1>8, <2>1, <3>2, LiveEntry, NamesEntries DEF Type, IsDirEmpty
    <3>4. disk'.inode[j].nlink = disk.inode[j].nlink - 1
      BY <1>11, <1>15, <2>1, Zenon
    <3>5. /\ \A i \in Inodes : i # k => /\ PendingAt(t, i)' <=> PendingAt(t, i)
                                        /\ DyingAt(t, i)' <=> DyingAt(t, i)
          /\ DyingAt(t, k)' /\ PendingAt(t, k)' /\ ~PendingAt(t, k)
      BY <1>21
    <3>6. QED BY <1>2, <1>5, <1>15, <1>16, <1>17, <3>2, <3>3, <3>4, <3>5, DirGoneTree, ZenonT(90)
  <2>2. CASE Type(k) # "dir"
    <3>1. Type(k) \in {"file", "symlink"}
      BY <1>8, <2>2 DEF Dinodes, Types, Type
    <3>2. n = disk.inode[j]
      BY <1>8, <1>11, <2>2 DEF Type, Dinodes
    <3>3. disk'.inode[k].nlink = disk.inode[k].nlink
      BY <1>6, <1>15
    <3>4. EntryChange(t, j, m, k)
      BY <1>5, <1>17, <1>21, <3>3 DEF EntryChange
    <3>5. \A i \in Inodes : i # k => /\ disk'.inode[i] = disk.inode[i]
                                     /\ PendingAt(t, i)' <=> PendingAt(t, i)
                                     /\ DyingAt(t, i)' <=> DyingAt(t, i)
      BY <1>15, <1>21, <3>2
    <3>6. QED BY <1>2, <1>5, <1>15, <1>16, <2>2, <3>1, <3>4, <3>5, EntryTree, Zenon
  <2>3. QED BY <2>1, <2>2, Zenon
<1>23. /\ \A i \in Inodes : i # j /\ i # k => itable'[i] = itable[i]
       /\ itable'[j].valid /\ itable'[j].ino = n
       /\ itable'[k].valid /\ itable'[k].ino = disk.inode[k]
  BY <1>2, <1>6, <1>8, <1>12, CachedTwice, SMTT(90)
<1>24. TabLoud(t) /\ DiskLoud(t)
  <2>1. ASSUME NEW i \in Inodes
        PROVE  \/ /\ itable'[i].valid = itable[i].valid /\ itable'[i].ino = itable[i].ino
                  /\ disk'.inode[i] = disk.inode[i]
               \/ /\ itable'[i].valid /\ itable'[i].ino = disk'.inode[i] /\ Type(i)' # "none"
                  /\ lock[i] \in {Nobody, t}
    <3>1. CASE i = j
      BY <1>6, <1>11, <1>15, <1>23, <3>1, Zenon DEF Type
    <3>2. CASE i = k
      BY <1>6, <1>8, <1>15, <1>16, <1>23, <3>2, Zenon DEF Type
    <3>3. CASE i # j /\ i # k
      BY <1>15, <1>23, <3>3
    <3>4. QED BY <3>1, <3>2, <3>3, Zenon
  <2>2. ASSUME NEW x \in LiveDirs(disk, Dying) PROVE disk.inode[x].addr # NoBlock
    BY <1>2, SMTT(90) DEF Good, Sound, TreeOK, Tree, DotsOK, LiveDirs
  <2>3. ASSUME NEW i \in Inodes
        PROVE  \/ /\ disk'.inode[i] = disk.inode[i]
                  /\ i \in LiveDirs(disk, Dying) =>
                       \A x \in Entries : Ent(disk', i, x) = Ent(disk, i, x)
               \/ lock[i] \in {Nobody, t} /\ Uses(t, i) /\ Type(i)' = Type(i)
    BY <1>6, <1>7, <1>15, <1>16, <1>17, <2>2, Zenon DEF Type, EntrySet
  <2>4. QED BY <2>1, <2>3 DEF TabLoud, DiskLoud
<1>25. LocksGuar(t)
  <2>1. \A i \in Inodes : HeldAt(l, q, i) <=> (HeldAt(pc[t], loc[t], i) /\ i # j) \/ i = k
    BY <1>1, <1>4, <1>18, <1>19 DEF HeldAt
  <2>2. HeldAt(pc[t], loc[t], j) /\ Free(k)
    BY <1>1, <1>4, SMTT(90) DEF HeldAt
  <2>3. QED BY <1>1, <1>2, <1>12, <1>20, <2>1, <2>2, LandMoved
<1>26. WritesGuar(t)
  BY <1>1, <1>2, <1>16, WritesSame DEF Unwritten
<1>27. AtOK(t)'
  <2>1. Due(t)' = l /\ loc'[t].ip = k
    BY <1>18, <1>20 DEF Lands
  <2>2. itable'[k].valid
    BY <1>23, SMTT(90)
  <2>3. Type(k)' = "dir" => disk'.inode[k].nlink = 1
    BY <1>16, <1>22 DEF Type
  <2>4. QED BY <2>1, <2>2, <2>3 DEF AtOK, Type
<1>28. UNCHANGED <<committed, dropped>> /\ cwd'[t] = cwd[t] /\ ofile'[t] = ofile[t]
  BY <1>12 DEF procVars, history
<1>29. {q.ip, q.dp, q.old, j, NoInode, ofile'[t].ip}
          \subseteq {cwd[t], ofile[t].ip, loc[t].ip, loc[t].dp, loc[t].old, NoInode}
  BY <1>4, <1>18, <1>28
<1>30. q.dp \in {NoInode, loc[t].dp} /\ q.old \in {NoInode, loc[t].old}
  BY <1>18
<1> QED BY <1>1, <1>2, <1>19, <1>20, <1>22, <1>24, <1>25, <1>26, <1>27, <1>28, <1>29, <1>30, LoudStep

LEMMA UnlinkLockSound ==
  ASSUME NEW t \in Procs, Going(t), UnlinkLock(t)
  PROVE  Good'
BY UnlinkLockTakes, UnlinkLockQuiet

-----------------------------------------------------------------------------
(* An inode linked where create made it *)

\* Process t is about to link the new inode k as entry m of directory j.
Filling(t, j, k, m) ==
  /\ pc[t] = "create_fill" /\ j = loc[t].dp /\ k = loc[t].ip /\ m = loc[t].name
  /\ j # k /\ j \in LiveDirs(disk, Dying) /\ Ent(disk, j, m) = NoInode
  /\ lock[j] = t /\ lock[k] = Nobody
  /\ Uses(t, j) /\ Uses(t, k) /\ loc[t].old = NoInode
  /\ Ino(j) = disk.inode[j] /\ Ino(k) = disk.inode[k]
  /\ disk.inode[j] \in Dinodes /\ disk.inode[j].type = "dir"
  /\ disk.inode[j].addr # NoBlock /\ disk.inode[j].nlink \in Int
  /\ disk.inode[k].type = TypeMade(loc[t].call) /\ disk.inode[k].type # "none"
  /\ disk.inode[k].nlink = 0 /\ disk.inode[k].addr = NoBlock
  /\ loc[t].call \in Makes

LEMMA FillHere ==
  ASSUME NEW t \in Procs, Going(t), pc[t] = "create_fill", Free(loc[t].ip)
  PROVE  \E j \in Inodes, k \in Inodes, m \in Names : Filling(t, j, k, m)
<1> DEFINE r == loc[t]
<1>1. /\ pc[t] \notin PutAt \cup {"panic", "idle", "unlink_last"} /\ pc[t] \in IpAt /\ pc[t] \in DpAt
      /\ pc[t] \in LockDp /\ pc[t] \in CreateAt
  BY DEF PutAt, IpAt, DpAt, LockDp, CreateAt
<1>2. /\ Good /\ Inv /\ AtOK(t) /\ NewOK(t) /\ Due(t) = "create_fill"
      /\ r \in Locals /\ Has("create_fill", r) /\ Fits("create_fill", r) /\ disk \in Disks
  BY <1>1, GoodInv, Known, WorldTypes, HereMeans DEF Going, Good, Sound, OwnOK
<1>3. /\ r.ip # NoInode /\ r.dp # NoInode /\ r.old = NoInode /\ r.call \in Makes
  BY <1>1, <1>2 DEF Has, HasOld, Fits
<1>4. PICK j \in Inodes, k \in Inodes : j = r.dp /\ k = r.ip
  BY <1>2, <1>3 DEF Locals, Inums
<1>5. PICK m \in Names : m = r.name /\ j \in LiveDirs(disk, Dying) /\ Ent(disk, j, m) = NoInode
  BY <1>2, <1>4 DEF AtOK
<1>6. New(t, k)
  BY <1>4 DEF New
<1>7. PICK d : d = disk.inode[k] /\ d = Dinode(TypeMade(r.call), 0, NoBlock) /\ j # k
  BY <1>2, <1>4, <1>6 DEF NewOK
<1>8. lock[j] = t /\ lock[k] = Nobody
  BY <1>1, <1>2, <1>4, HeldLock DEF HeldAt, Free
<1>9. /\ Uses(t, j) /\ Uses(t, k) /\ ~Freed(t, j) /\ ~Freed(t, k)
  BY <1>1, <1>2, <1>4, HereMeans
<1>10. Ino(j) = disk.inode[j] /\ Ino(k) = disk.inode[k] /\ disk.inode[j] \in Dinodes
  BY <1>2, <1>8, <1>9, InoDisk DEF Disks
<1>11. d.type = TypeMade(r.call) /\ d.type # "none" /\ d.nlink = 0 /\ d.addr = NoBlock
  BY <1>2, <1>6, <1>7, NewMade DEF Dinode
<1>12. disk.inode[j].type = "dir" /\ disk.inode[j].addr # NoBlock
  BY <1>2, <1>5 DEF LiveDirs, Good, Sound, TreeOK, Tree, DotsOK
<1>13. disk.inode[j].nlink \in Int
  BY <1>10 DEF Dinodes
<1>14. Filling(t, j, k, m)
  BY <1>3, <1>4, <1>5, <1>7, <1>8, <1>9, <1>10, <1>11, <1>12, <1>13 DEF Filling
<1> QED BY <1>14

\* Where it goes on from there: at the end of create, dp's lock given up.
LEMMA FillLands ==
  ASSUME NEW t \in Procs, Going(t), NEW j \in Inodes, NEW k \in Inodes, NEW m \in Names,
         Filling(t, j, k, m),
         PutThen(t, [loc[t] EXCEPT !.dp = NoInode], <<loc[t].dp>>, "created"),
         UNCHANGED <<committed, procVars, events, history>>
  PROVE  \E q \in Locals :
           /\ Lands(t, "created", q, j, NoInode)
           /\ q.ip = k /\ q.dp = NoInode /\ q.old = NoInode /\ q.call = loc[t].call
           /\ \A i \in Inodes : /\ ~PendingAt(t, i) /\ ~DyingAt(t, i)
                                /\ ~PendingAt(t, i)' /\ ~DyingAt(t, i)'
<1> DEFINE r == loc[t]
           q == [r EXCEPT !.dp = NoInode]
<1>1. /\ pc[t] \notin PutAt \cup {"panic", "idle", "unlink_last"} /\ pc[t] # "unlink_last"
      /\ j = r.dp /\ k = r.ip /\ r.old = NoInode
  BY DEF PutAt, Filling
<1>2. Good /\ Inv /\ r \in Locals
  BY <1>1, GoodInv, Known DEF Going
<1>3. /\ q \in Locals /\ q.ip = k /\ q.dp = NoInode /\ q.old = NoInode /\ q.call = r.call
  BY <1>1, <1>2 DEF Locals, Inums
<1>4. PutThen(t, q, <<j>>, "created")
  BY <1>1
<1> HIDE DEF q
<1>5. "created" \in Nexts
  BY DEF Nexts
<1>6. Lands(t, "created", q, j, NoInode)
  BY <1>1, <1>2, <1>3, <1>4, <1>5, LandsPut
<1>7. ASSUME NEW i \in Inodes
      PROVE  /\ ~PendingAt(t, i) /\ ~DyingAt(t, i) /\ ~PendingAt(t, i)' /\ ~DyingAt(t, i)'
  BY <1>1, <1>2, <1>3, <1>6, LandsMeans, HereMeans, NotNoInode
<1> QED BY <1>3, <1>6, <1>7

LEMMA FillSound ==
  ASSUME NEW t \in Procs, Going(t), NEW j \in Inodes, NEW k \in Inodes, NEW m \in Names,
         Filling(t, j, k, m), NEW new \in Dinodes, NEW dir \in Dinodes,
         new.type = disk.inode[k].type, dir.type = "dir",
         disk'.inode[k] = new, disk'.inode[j] = dir,
         \A i \in Inodes : i # j /\ i # k =>
           /\ disk'.inode[i] = disk.inode[i]
           /\ i \in LiveDirs(disk, Dying) => \A n \in Entries : Ent(disk', i, n) = Ent(disk, i, n),
         itable' = Cached(Cached(itable, k, new), j, dir), LockMoves(t, j, k),
         PutThen(t, [loc[t] EXCEPT !.dp = NoInode], <<loc[t].dp>>, "created"),
         UNCHANGED <<committed, procVars, events, history>>, TreeOK'
  PROVE  Good'
<1> DEFINE r == loc[t]
           l == "created"
<1>1. /\ pc[t] = "create_fill" /\ j = r.dp /\ k = r.ip /\ m = r.name
      /\ j # k /\ lock[j] = t /\ lock[k] = Nobody
      /\ Uses(t, j) /\ Uses(t, k) /\ disk.inode[j].type = "dir"
      /\ disk.inode[k].type = TypeMade(r.call) /\ disk.inode[k].type # "none"
  BY DEF Filling
<1>2. /\ pc[t] \notin PutAt \cup {"panic", "idle", "unlink_last"}
      /\ pc[t] \in LockDp /\ pc[t] \notin LockIp
      /\ l \in Nexts /\ l \in LockIp /\ l \notin LockDp
      /\ l \notin {"create_get", "create_fill"}
  BY <1>1 DEF PutAt, LockDp, LockIp, Nexts
<1>3. /\ Good /\ Inv /\ Inv2' /\ Alone(t) /\ RefStep(t) /\ itable \in Tables /\ disk \in Disks
      /\ Due(t) = pc[t]
  BY <1>2, GoodInv, WorldTypes, HereMeans DEF Going
<1>4. PICK q \in Locals :
        /\ Lands(t, l, q, j, NoInode)
        /\ q.ip = k /\ q.dp = NoInode /\ q.old = NoInode /\ q.call = r.call
  BY FillLands
<1>5. /\ \A i \in Inodes : i # j /\ i # k => itable'[i] = itable[i]
      /\ itable'[j].valid /\ itable'[j].ino = dir
      /\ itable'[k].valid /\ itable'[k].ino = new
  BY <1>1, <1>3, CachedTwice
<1>6. \A i \in Inodes : disk'.inode[i].type = disk.inode[i].type
  BY <1>1
<1>7. TabLoud(t)
  BY <1>1, <1>5 DEF Type, TabLoud
<1>8. DiskLoud(t)
  BY <1>1, <1>6 DEF Type, DiskLoud
<1>9. LocksGuar(t)
  BY <1>1, <1>2, <1>3, <1>4, LandMoved DEF HeldAt, Free
<1>10. Due(t)' = l /\ loc'[t].ip = k /\ loc'[t].call = r.call
  BY <1>4 DEF Lands
<1>11. WritesGuar(t)
  BY <1>1, <1>3, <1>10 DEF Writes, Unwritten, New, WritesGuar
<1>12. AtOK(t)'
  BY <1>1, <1>5, <1>10 DEF Type, AtOK
<1>13. UNCHANGED <<committed, dropped>> /\ cwd'[t] = cwd[t] /\ ofile'[t] = ofile[t]
  BY DEF procVars, history
<1>14. {q.ip, q.dp, q.old, j, NoInode, ofile'[t].ip}
          \subseteq {cwd[t], ofile[t].ip, loc[t].ip, loc[t].dp, loc[t].old, NoInode}
  BY <1>1, <1>4, <1>13
<1>15. q.dp \in {NoInode, loc[t].dp} /\ q.old \in {NoInode, loc[t].old}
  BY <1>4
<1> QED BY <1>2, <1>3, <1>4, <1>7, <1>8, <1>9, <1>11, <1>12, <1>13, <1>14, <1>15, LoudStep

\* A directory made: inode k, with block b, becomes entry m of directory a.
LEMMA DirMadeTree ==
  ASSUME Good, NEW t \in Procs, Alone(t), NEW a \in LiveDirs(disk, Dying), NEW m \in Names,
         NEW k \in Inodes, Type(k) = "dir", disk.inode[k].nlink = 0,
         disk.inode[k].addr = NoBlock, a # k,
         Ent(disk, a, m) = NoInode, EntrySet(a, m, k), NEW b \in Unused(disk),
         disk'.used = disk.used \cup {b},
         disk'.inode[k].type = "dir", disk'.inode[k].nlink = 1, disk'.inode[k].addr = b,
         Ent(disk', k, ".") = k, Ent(disk', k, "..") = a,
         \A n \in Names : Ent(disk', k, n) = NoInode,
         disk'.inode[a].type = "dir", disk'.inode[a].addr = disk.inode[a].addr,
         disk'.inode[a].nlink = disk.inode[a].nlink + 1,
         \A i \in Inodes : i # a /\ i # k => disk'.inode[i] = disk.inode[i],
         \A i \in Inodes : /\ PendingAt(t, i)' <=> PendingAt(t, i)
                           /\ DyingAt(t, i)' <=> DyingAt(t, i)
  PROVE  TreeOK'
<1>1. Tree(disk, Dying, Pending)
  BY DEF Good, Sound, TreeOK
<1>2. \A i \in LiveDirs(disk, Dying) : /\ disk.inode[i].addr # NoBlock /\ i \in Inodes
                                       /\ i # NoInode
  BY <1>1, NotNoInode DEF Tree, DotsOK, LiveDirs
<1>3. /\ a \in Inodes /\ m \in LinkNames /\ m # ".." /\ ".." \in LinkNames /\ k # NoInode
      /\ \A n \in LinkNames : n \in Names \/ n = ".."
  BY <1>2, NamesEntries, NotNoInode DEF LinkNames
<1>4. /\ Links(disk, Dying, k) = {} /\ Pending[k] = {}
      /\ disk.inode[a].nlink \in Nat /\ disk.inode[a].nlink > 0
  BY <1>1, <1>3, Counted1, PendingProcs DEF Tree, LiveDirs
<1>5. k \notin LiveDirs(disk, Dying) /\ k \notin Dying
  BY <1>4 DEF Pending, PendingAt, Dying, LiveDirs
<1>6. \A i \in Inodes : i \in LiveDirs(disk', Dying') <=> i \in LiveDirs(disk, Dying) \/ i = k
  BY <1>4, <1>5, DyingStep DEF LiveDirs
<1>7. \A i \in LiveDirs(disk, Dying), n \in LinkNames :
         i # a \/ n # m => Ent(disk', i, n) = Ent(disk, i, n)
  BY <1>2, NamesEntries DEF EntrySet
<1>8. Ent(disk', a, m) = k
  BY DEF EntrySet
<1>9. PICK x \in Inodes \X LinkNames, y \in Inodes \X LinkNames :
         /\ x = <<a, m>> /\ x[1] = a /\ x[2] = m
         /\ y = <<k, "..">> /\ y[1] = k /\ y[2] = ".."
  <2>1. /\ <<a, m>> \in Inodes \X LinkNames /\ <<a, m>>[1] = a /\ <<a, m>>[2] = m
        /\ <<k, "..">> \in Inodes \X LinkNames /\ <<k, "..">>[1] = k /\ <<k, "..">>[2] = ".."
    BY <1>3
  <2>2. QED BY <2>1, Zenon
<1> DEFINE L(i) == Links(disk, Dying, i)
           M(i) == Links(disk', Dying', i)
<1>10. \A z \in Inodes \X LinkNames : /\ z[1] = a /\ z[2] = m => z = x
                                      /\ z[1] = k /\ z[2] = ".." => z = y
  BY <1>9
<1>11. ASSUME NEW i \in Inodes, NEW z \in Inodes \X LinkNames
       PROVE  (z[1] \in LiveDirs(disk', Dying') /\ Ent(disk', z[1], z[2]) = i)
                <=> \/ z[1] \in LiveDirs(disk, Dying) /\ Ent(disk, z[1], z[2]) = i
                    \/ z = x /\ i = k
                    \/ z = y /\ i = a
  <2>1. x # y /\ i # NoInode
    BY <1>9, NotNoInode
  <2>2. CASE z = x
    BY <1>3, <1>6, <1>8, <1>9, <2>1, <2>2
  <2>3. CASE z = y
    BY <1>5, <1>6, <1>9, <2>1, <2>3
  <2>4. CASE z # x /\ z # y
    BY <1>3, <1>5, <1>6, <1>7, <1>10, <2>1, <2>4
  <2>5. QED BY <2>2, <2>3, <2>4
<1>12. /\ Adds(L(k), M(k), x) /\ Adds(L(a), M(a), y)
       /\ \A i \in Inodes : i # a /\ i # k => M(i) = L(i)
  <2>1. x \notin L(k) /\ y \notin L(a)
    BY <1>4, <1>5, <1>9 DEF Links
  <2>2. \A z \in Inodes \X LinkNames : (z \in M(k) <=> z \in L(k) \/ z = x)
    BY <1>11 DEF Links
  <2>3. \A z \in Inodes \X LinkNames : (z \in M(a) <=> z \in L(a) \/ z = y)
    BY <1>3, <1>11 DEF Links
  <2>4. \A i \in Inodes : i # a /\ i # k =>
          \A z \in Inodes \X LinkNames : (z \in M(i) <=> z \in L(i))
    BY <1>11 DEF Links
  <2>5. \A i : L(i) \subseteq Inodes \X LinkNames /\ M(i) \subseteq Inodes \X LinkNames
    BY DEF Links
  <2> HIDE DEF L, M
  <2>6. M(k) = L(k) \cup {x}
    BY <1>9, <2>2, <2>5
  <2>7. M(a) = L(a) \cup {y}
    BY <1>9, <2>3, <2>5
  <2>8. \A i \in Inodes : i # a /\ i # k => M(i) = L(i)
    BY <2>4, <2>5
  <2>9. QED BY <2>1, <2>6, <2>7, <2>8 DEF Adds
<1>13. ParentsOK(disk', Dying')
  BY <1>1, <1>2, <1>3, <1>6, <1>7, <1>8, NamesEntries DEF ParentsOK, LiveDirs, Tree
<1>14. NamedOnce(disk', Dying')
  <2>1. \A i \in LiveDirs(disk, Dying) : \A e, f \in L(i) : e[2] # ".." /\ f[2] # ".." => e = f
    BY <1>1 DEF Tree, NamedOnce
  <2>2. L(k) = {} /\ y[2] = ".."
    BY <1>4, <1>9
  <2>3. ASSUME NEW i \in LiveDirs(disk', Dying'), NEW e \in M(i), NEW f \in M(i),
               e[2] # "..", f[2] # ".."
        PROVE  e = f
    <3>1. i \in Inodes /\ (i \in LiveDirs(disk, Dying) \/ i = k)
      BY <1>6 DEF LiveDirs
    <3> HIDE DEF L, M
    <3>2. CASE i = k
      BY <1>12, <2>2, <2>3, <3>2 DEF Adds
    <3>3. CASE i # k
      BY <1>12, <2>1, <2>2, <2>3, <3>1, <3>3 DEF Adds
    <3>4. QED BY <3>2, <3>3
  <2>4. QED BY <2>3 DEF NamedOnce
<1>15. RootOK(disk', Dying')
  <2>1. ROOTINO \in LiveDirs(disk, Dying) /\ Ent(disk, ROOTINO, "..") = ROOTINO
    BY <1>1 DEF Tree, RootOK
  <2>2. ROOTINO \in LiveDirs(disk', Dying') /\ ROOTINO \in Inodes /\ ROOTINO # k
    BY <1>2, <1>5, <1>6, <2>1
  <2>3. Ent(disk', ROOTINO, "..") = ROOTINO
    BY <1>3, <1>7, <2>1
  <2>4. \A e \in M(ROOTINO) : e[2] = ".."
    <3>1. \A e \in L(ROOTINO) : e[2] = ".."
      BY <1>1 DEF Tree, RootOK
    <3>2. y[2] = ".."
      BY <1>9
    <3> HIDE DEF L, M
    <3>3. QED BY <1>12, <2>2, <3>1, <3>2 DEF Adds
  <2>5. QED BY <2>2, <2>3, <2>4 DEF RootOK
<1>16. BlocksOK(disk')
  BY BlocksKnown, BlocksGrown DEF Unused
<1>17. DotsOK(disk', Dying')
  <2> SUFFICES ASSUME NEW i \in Inodes, disk'.inode[i].type = "dir"
               PROVE  \/ disk'.inode[i].addr = NoBlock /\ disk'.inode[i].nlink = 0
                      \/ /\ disk'.inode[i].addr # NoBlock
                         /\ Ent(disk', i, ".") = i
                         /\ i \notin LiveDirs(disk', Dying') =>
                              \A n \in Names : Ent(disk', i, n) = NoInode
    BY DEF DotsOK
  <2>1. "." \in Entries /\ Names \subseteq Entries /\ m # "."
    BY <1>3, NamesEntries DEF Entries
  <2>2. CASE i = k
    BY <1>6, <2>2, BlocksKnown DEF Unused
  <2>3. CASE i = a
    BY <1>1, <1>2, <1>3, <1>6, <2>1, <2>3 DEF Tree, DotsOK, LiveDirs, EntrySet
  <2>4. CASE i # a /\ i # k
    BY <1>1, <1>6, <2>1, <2>4 DEF EntrySet, Tree, DotsOK
  <2>5. QED BY <2>2, <2>3, <2>4
<1>18. CountsOK(disk', Dying', Pending')
  <2>1. ASSUME NEW i \in Inodes PROVE CountAt(disk', Dying', Pending', i)
    <3>1. CountAt(disk, Dying, Pending, i) /\ Pending[i] \in SUBSET Procs
      BY <1>1, CountsAre, PendingProcs DEF Tree
    <3>2. Same_(Pending[i], Pending'[i])
      BY PendingStep
    <3>3. CASE i = k
      <4>1. /\ Adds(Links(disk, Dying, i), Links(disk', Dying', i), x)
            /\ disk'.inode[i].nlink = disk.inode[i].nlink + 1
        BY <1>12, <3>3
      <4>2. QED BY <3>1, <3>2, <4>1, CountChange
    <3>4. CASE i = a
      BY <1>12, <3>1, <3>2, <3>4, CountChange
    <3>5. CASE i # a /\ i # k
      BY <1>12, <3>1, <3>2, <3>5, CountChange DEF Same_
    <3>6. QED BY <3>3, <3>4, <3>5
  <2>2. QED BY <2>1, CountsAre
<1> QED BY <1>13, <1>14, <1>15, <1>16, <1>17, <1>18 DEF TreeOK, Tree

LEMMA OnDiskGives ==
  ASSUME NEW d \in Disks, NEW i \in Inodes, NEW ino \in Dinodes, NEW e, e = OnDisk(d, i, ino)
  PROVE  /\ e.inode[i] = ino
         /\ \A j \in Inodes : j # i => e.inode[j] = d.inode[j]
         /\ e.used = d.used /\ e.ents = d.ents
BY OnDiskIs

LEMMA LinkedGives ==
  ASSUME NEW d \in Disks, NEW ino \in Dinodes, ino.addr # NoBlock,
         NEW n \in Entries, NEW i \in Inums, NEW e, e = Linked(d, ino, n, i)
  PROVE  /\ e.inode = d.inode /\ e.used = d.used /\ e.ents[ino.addr][n] = i
         /\ \A b \in Blocks, m \in Entries : (b # ino.addr \/ m # n) => e.ents[b][m] = d.ents[b][m]
BY LinkedIs

\* The disk once the new inode k is entry m of directory j.
FileDisk(j, k, m, new, dir) ==
  disk' = OnDisk(OnDisk(Linked(disk, disk.inode[j], m, k), k, new), j, dir)
DirDisk(j, k, m, b, new, dir) ==
  disk' = OnDisk(OnDisk(Linked(Linked(Linked(Ballocd(disk, b), new, ".", k), new, "..", j),
                               disk.inode[j], m, k), k, new), j, dir)
BothCached(j, k, new, dir) == itable' = Cached(Cached(itable, k, new), j, dir)

LEMMA FillFile ==
  ASSUME NEW t \in Procs, Going(t), NEW j \in Inodes, NEW k \in Inodes, NEW m \in Names,
         Filling(t, j, k, m), loc[t].call # "mkdir",
         NEW new \in Dinodes, new.type = disk.inode[k].type, new.nlink = 1, new.addr = NoBlock,
         FileDisk(j, k, m, new, disk.inode[j]),
         BothCached(j, k, new, disk.inode[j]), LockMoves(t, j, k),
         PutThen(t, [loc[t] EXCEPT !.dp = NoInode], <<loc[t].dp>>, "created"),
         UNCHANGED <<committed, procVars, events, history>>
  PROVE  Good'
<1>1. Good /\ disk \in Disks /\ Alone(t)
  BY GoodInv, WorldTypes DEF Going
<1>2. /\ j # k /\ j \in LiveDirs(disk, Dying) /\ Ent(disk, j, m) = NoInode
      /\ disk.inode[j].type = "dir" /\ disk.inode[j].addr # NoBlock
      /\ disk.inode[k].type = TypeMade(loc[t].call)
      /\ disk.inode[k].nlink = 0 /\ disk.inode[k].addr = NoBlock
      /\ loc[t].call \in Makes
  BY DEF Filling
<1>3. m \in Entries /\ k \in Inums
  BY NamesEntries DEF Inums
<1>4. PICK dir \in Dinodes : dir = disk.inode[j]
  BY <1>1 DEF Disks
<1>5. PICK d \in Disks : d = Linked(disk, dir, m, k)
  BY <1>1, <1>2, <1>3, <1>4, LinkedIs
<1>6. d.inode = disk.inode /\ d.used = disk.used
  BY <1>1, <1>2, <1>3, <1>4, <1>5, LinkedIs
<1>7. PICK e \in Disks : e = OnDisk(d, k, new)
  BY <1>5, OnDiskIs
<1>8. disk' = OnDisk(e, j, dir)
  BY <1>4, <1>5, <1>7 DEF FileDisk
<1>9. /\ disk'.inode[k] = new /\ disk'.inode[j] = dir
      /\ \A i \in Inodes : i # k => disk'.inode[i] = disk.inode[i]
      /\ disk'.used = disk.used /\ disk'.ents = d.ents
  BY <1>2, <1>4, <1>6, <1>7, <1>8, OnDiskGives
<1>10. \A i \in Inodes : /\ disk'.inode[i].type = disk.inode[i].type
                         /\ disk'.inode[i].addr = disk.inode[i].addr
  BY <1>2, <1>9
<1>11. EntrySet(j, m, k)
  BY <1>1, <1>2, <1>3, <1>4, <1>5, <1>9, <1>10, EntryLinked
<1>12. \A i \in Inodes : /\ ~PendingAt(t, i) /\ ~DyingAt(t, i)
                         /\ ~PendingAt(t, i)' /\ ~DyingAt(t, i)'
  BY FillLands
<1>13. Type(k) \in {"file", "symlink"}
  BY <1>2 DEF Type, TypeMade, Makes
<1>14. TreeOK'
  <2>1. EntryChange(t, j, m, k)
    BY <1>2, <1>9, <1>11, <1>12 DEF EntryChange
  <2>2. QED BY <1>1, <1>2, <1>9, <1>10, <1>12, <1>13, <2>1, EntryTree
<1>15. \A i \in Inodes : i # j /\ i # k =>
         /\ disk'.inode[i] = disk.inode[i]
         /\ i \in LiveDirs(disk, Dying) => \A n \in Entries : Ent(disk', i, n) = Ent(disk, i, n)
  BY <1>1, <1>9, <1>11 DEF Good, Sound, TreeOK, Tree, DotsOK, LiveDirs, EntrySet
<1> QED BY <1>2, <1>4, <1>9, <1>14, <1>15, FillSound DEF BothCached

LEMMA FillDir ==
  ASSUME NEW t \in Procs, Going(t), NEW j \in Inodes, NEW k \in Inodes, NEW m \in Names,
         Filling(t, j, k, m), loc[t].call = "mkdir", NEW b \in Unused(disk),
         NEW new \in Dinodes, new.type = "dir", new.nlink = 1, new.addr = b,
         NEW dir \in Dinodes, dir.type = "dir", dir.addr = disk.inode[j].addr,
         dir.nlink = disk.inode[j].nlink + 1,
         DirDisk(j, k, m, b, new, dir),
         BothCached(j, k, new, dir), LockMoves(t, j, k),
         PutThen(t, [loc[t] EXCEPT !.dp = NoInode], <<loc[t].dp>>, "created"),
         UNCHANGED <<committed, procVars, events, history>>
  PROVE  Good'
<1>1. Good /\ disk \in Disks /\ Alone(t)
  BY GoodInv, WorldTypes DEF Going
<1>2. /\ j # k /\ j \in LiveDirs(disk, Dying) /\ Ent(disk, j, m) = NoInode
      /\ disk.inode[j].type = "dir" /\ disk.inode[j].addr # NoBlock
      /\ disk.inode[k].type = "dir"
      /\ disk.inode[k].nlink = 0 /\ disk.inode[k].addr = NoBlock
  BY DEF Filling, TypeMade
<1>3. /\ m \in Entries /\ k \in Inums /\ j \in Inums /\ "." \in Entries /\ ".." \in Entries
      /\ Names \subseteq Entries
      /\ \A n \in Names : n # "." /\ n # ".."
  BY NamesEntries DEF Inums, Entries
<1>4. PICK old \in Dinodes : old = disk.inode[j] /\ old.addr # NoBlock /\ old.addr # b
                             /\ old.addr \in Blocks
  BY <1>1, <1>2, BlocksKnown DEF Disks, Unused
<1>5. b \in Blocks /\ b \notin disk.used /\ b # NoBlock
  BY <1>1, BlocksKnown DEF Unused
<1>6. PICK d1 \in Disks : d1 = Ballocd(disk, b)
  BY <1>1, <1>5, BallocdIs
<1>7. /\ d1.inode = disk.inode /\ d1.used = disk.used \cup {b}
      /\ \A n \in Entries : d1.ents[b][n] = NoInode
      /\ \A c \in Blocks : c # b => d1.ents[c] = disk.ents[c]
  BY <1>1, <1>5, <1>6, BallocdIs
<1>8. PICK d2 \in Disks : d2 = Linked(d1, new, ".", k)
  BY <1>3, <1>5, <1>6, LinkedIs
<1>9. /\ d2.inode = d1.inode /\ d2.used = d1.used /\ d2.ents[b]["."] = k
      /\ \A c \in Blocks, n \in Entries : c # b \/ n # "." => d2.ents[c][n] = d1.ents[c][n]
  BY <1>3, <1>5, <1>6, <1>8, LinkedGives
<1>10. PICK d3 \in Disks : d3 = Linked(d2, new, "..", j)
  BY <1>3, <1>5, <1>8, LinkedIs
<1>11. /\ d3.inode = d2.inode /\ d3.used = d2.used /\ d3.ents[b][".."] = j
       /\ \A c \in Blocks, n \in Entries : c # b \/ n # ".." => d3.ents[c][n] = d2.ents[c][n]
  BY <1>3, <1>5, <1>8, <1>10, LinkedGives
<1>12. PICK d4 \in Disks : d4 = Linked(d3, old, m, k)
  BY <1>3, <1>4, <1>10, LinkedIs
<1>13. /\ d4.inode = d3.inode /\ d4.used = d3.used /\ d4.ents[old.addr][m] = k
       /\ \A c \in Blocks, n \in Entries : c # old.addr \/ n # m => d4.ents[c][n] = d3.ents[c][n]
  BY <1>3, <1>4, <1>12, LinkedGives
<1>14. PICK e \in Disks : e = OnDisk(d4, k, new)
  BY <1>12, OnDiskIs
<1>15. disk' = OnDisk(e, j, dir)
  BY <1>4, <1>6, <1>8, <1>10, <1>12, <1>14 DEF DirDisk
<1>16. /\ disk'.inode[k] = new /\ disk'.inode[j] = dir
       /\ \A i \in Inodes : i # j /\ i # k => disk'.inode[i] = disk.inode[i]
       /\ disk'.used = disk.used \cup {b} /\ disk'.ents = d4.ents
  <2>1. /\ e.inode[k] = new /\ \A i \in Inodes : i # k => e.inode[i] = d4.inode[i]
        /\ e.used = d4.used /\ e.ents = d4.ents
    BY <1>14, OnDiskGives
  <2>2. /\ disk'.inode[j] = dir /\ \A i \in Inodes : i # j => disk'.inode[i] = e.inode[i]
        /\ disk'.used = e.used /\ disk'.ents = e.ents
    BY <1>15, OnDiskGives
  <2>3. QED BY <1>2, <1>7, <1>9, <1>11, <1>13, <2>1, <2>2
<1>17. /\ \A c \in Blocks, n \in Entries :
            c # b /\ (c # old.addr \/ n # m) => disk'.ents[c][n] = disk.ents[c][n]
       /\ disk'.ents[old.addr][m] = k
       /\ disk'.ents[b]["."] = k /\ disk'.ents[b][".."] = j
       /\ \A n \in Names : disk'.ents[b][n] = NoInode
  BY <1>3, <1>4, <1>5, <1>7, <1>9, <1>11, <1>13, <1>16
<1>18. EntrySet(j, m, k)
  <2>1. Ent(disk', j, m) = k
    BY <1>4, <1>16, <1>17 DEF Ent
  <2>2. ASSUME NEW i \in Inodes, disk.inode[i].addr # NoBlock, NEW n \in Entries, i # j \/ n # m
        PROVE  Ent(disk', i, n) = Ent(disk, i, n)
    <3>1. PICK c \in Blocks : c = disk.inode[i].addr /\ c # b
      BY <1>1, <1>5, <2>2, BlocksKnown
    <3>2. disk'.inode[i].addr = c
      BY <1>2, <1>16, <2>2, <3>1
    <3>3. c # old.addr \/ n # m
      BY <1>1, <1>2, <1>4, <2>2, <3>1, BlocksKnown DEF BlocksOK
    <3>4. disk'.ents[c][n] = disk.ents[c][n]
      BY <1>17, <3>1, <3>3
    <3>5. QED BY <3>1, <3>2, <3>4 DEF Ent
  <2>3. QED BY <2>1, <2>2 DEF EntrySet
<1>19. \A i \in Inodes : /\ ~PendingAt(t, i) /\ ~DyingAt(t, i)
                         /\ ~PendingAt(t, i)' /\ ~DyingAt(t, i)'
  BY FillLands
<1>20. TreeOK'
  <2>1. /\ Ent(disk', k, ".") = k /\ Ent(disk', k, "..") = j
        /\ \A n \in Names : Ent(disk', k, n) = NoInode
    BY <1>16, <1>17 DEF Ent
  <2>2. m \in Names /\ Type(k) = "dir"
    BY <1>2 DEF Filling, Type
  <2>3. QED BY <1>1, <1>2, <1>16, <1>18, <1>19, <2>1, <2>2, DirMadeTree
<1>21. \A i \in Inodes : i # j /\ i # k =>
         /\ disk'.inode[i] = disk.inode[i]
         /\ i \in LiveDirs(disk, Dying) => \A n \in Entries : Ent(disk', i, n) = Ent(disk, i, n)
  BY <1>1, <1>16, <1>18 DEF Good, Sound, TreeOK, Tree, DotsOK, LiveDirs, EntrySet
<1> QED BY <1>2, <1>16, <1>20, <1>21, FillSound DEF BothCached

LEMMA CreateFillSound ==
  ASSUME NEW t \in Procs, Going(t), CreateFill(t)
  PROVE  Good'
<1> DEFINE r == loc[t]
<1>1. pc[t] = "create_fill" /\ Free(r.ip)
  BY DEF CreateFill, At
<1>2. PICK j \in Inodes, k \in Inodes, m \in Names : Filling(t, j, k, m)
  BY <1>1, FillHere
<1>3. /\ j = r.dp /\ k = r.ip /\ m = r.name /\ r.call \in Makes
      /\ Ino(r.dp) = disk.inode[j] /\ Ino(r.ip) = disk.inode[k]
      /\ disk.inode[k].type = TypeMade(r.call) /\ disk.inode[k].type # "none"
      /\ disk.inode[j].type = "dir" /\ disk.inode[j] \in Dinodes /\ disk.inode[j].nlink \in Int
  BY <1>2 DEF Filling
<1>4. PICK type : type = disk.inode[k].type /\ type \in {"file", "dir", "symlink"}
  BY <1>3 DEF TypeMade, Makes
<1>5. disk \in Disks
  BY GoodInv, WorldTypes DEF Going
<1>6. CASE r.call # "mkdir"
  <2>1. PICK new \in Dinodes : /\ new = Dinode(type, 1, NoBlock)
                               /\ new.type = type /\ new.nlink = 1 /\ new.addr = NoBlock
    <3>1. Dinode(type, 1, NoBlock) \in Dinodes
      BY <1>4 DEF Dinode, Dinodes, Types
    <3>2. /\ Dinode(type, 1, NoBlock).type = type /\ Dinode(type, 1, NoBlock).nlink = 1
          /\ Dinode(type, 1, NoBlock).addr = NoBlock
      BY DEF Dinode
    <3>3. QED BY <3>1, <3>2
  <2>2. [disk.inode[j] EXCEPT !.nlink = disk.inode[j].nlink] = disk.inode[j]
    BY <1>3 DEF Dinodes
  <2>3. /\ FileDisk(j, k, m, new, disk.inode[j])
        /\ BothCached(j, k, new, disk.inode[j]) /\ LockMoves(t, j, k)
        /\ PutThen(t, [r EXCEPT !.dp = NoInode], <<r.dp>>, "created")
        /\ UNCHANGED <<committed, procVars, events, history>>
    BY <1>3, <1>4, <1>6, <2>1, <2>2 DEF CreateFill, LockMoves, FileDisk, BothCached
  <2>4. QED BY <1>2, <1>4, <1>6, <2>1, <2>3, FillFile
<1>7. CASE r.call = "mkdir" /\ Unused(disk) # {}
  <2>1. PICK b \in Unused(disk) : b = Smallest(Unused(disk)) /\ b \in Blocks
    BY <1>5, <1>7, UnusedIs
  <2>2. type = "dir"
    BY <1>3, <1>4, <1>7 DEF TypeMade
  <2>3. PICK new \in Dinodes : /\ new = Dinode(type, 1, b)
                               /\ new.type = "dir" /\ new.nlink = 1 /\ new.addr = b
    <3>1. Dinode(type, 1, b) \in Dinodes
      BY <2>1, <2>2 DEF Dinode, Dinodes, Types
    <3>2. /\ Dinode(type, 1, b).type = type /\ Dinode(type, 1, b).nlink = 1
          /\ Dinode(type, 1, b).addr = b
      BY DEF Dinode
    <3>3. QED BY <2>2, <3>1, <3>2
  <2>4. PICK dir \in Dinodes : /\ dir = [disk.inode[j] EXCEPT !.nlink = disk.inode[j].nlink + 1]
                               /\ dir.type = "dir" /\ dir.addr = disk.inode[j].addr
                               /\ dir.nlink = disk.inode[j].nlink + 1
    <3> DEFINE dir == [disk.inode[j] EXCEPT !.nlink = disk.inode[j].nlink + 1]
    <3>1. dir \in Dinodes /\ dir.type = "dir" /\ dir.addr = disk.inode[j].addr
          /\ dir.nlink = disk.inode[j].nlink + 1
      BY <1>3 DEF Dinodes
    <3>2. QED BY <3>1
  <2>5. /\ DirDisk(j, k, m, b, new, dir)
        /\ BothCached(j, k, new, dir) /\ LockMoves(t, j, k)
        /\ PutThen(t, [r EXCEPT !.dp = NoInode], <<r.dp>>, "created")
        /\ UNCHANGED <<committed, procVars, events, history>>
    BY <1>3, <1>4, <1>7, <2>1, <2>3, <2>4 DEF CreateFill, LockMoves, DirDisk, BothCached
  <2>6. QED BY <1>2, <1>7, <2>3, <2>4, <2>5, FillDir
<1>8. CASE r.call = "mkdir" /\ Unused(disk) = {}
  BY <1>1, <1>3, <1>8, CreateFillFails DEF CreateFill, history
<1> QED BY <1>6, <1>7, <1>8

-----------------------------------------------------------------------------
(* Every step *)

LEMMA LinkSound ==
  ASSUME NEW t \in Procs, Going(t), Link(t)
  PROVE  Good'
BY LinkCounts, LinkQuiet

LEMMA OpenedSound ==
  ASSUME NEW t \in Procs, Going(t), Opened(t)
  PROVE  Good'
BY OpenedTrunc, OpenedQuiet

LEMMA StepSound ==
  ASSUME NEW t \in Procs, Going(t), Step(t) \/ NewCall(t)
  PROVE  Good'
<1>1. CASE Step(t)
  <2>1. CASE \/ End(t) \/ UnlockParent(t) \/ Iput(t) \/ Namex(t)
    BY <2>1, EndSound, UnlockParentSound, PutSound, PutFreeSound, PutInvalSound, PutDropSound,
       WalkEndSound, WalkSound DEF Namex, Iput
  <2>2. CASE \/ Create(t) \/ CreateFound(t) \/ CreateAlloc(t) \/ CreateGet(t)
             \/ CreateFill(t) \/ Created(t) \/ SymlinkWrite(t)
    BY <2>2, CreateSound, CreateFoundSound, CreateAllocSound, CreateGetSound, CreateFillSound,
       CreatedSound, SymlinkWriteSound
  <2>3. CASE \/ Open(t) \/ OpenLink(t) \/ OpenNext(t) \/ Opened(t)
             \/ Chdir(t) \/ Write(t)
    BY <2>3, OpenSound, OpenLinkSound, OpenNextSound, OpenedSound, ChdirSound, WriteSound
  <2>4. CASE \/ Link(t) \/ LinkPath(t) \/ LinkDir(t) \/ LinkBad(t)
             \/ Unlink(t) \/ UnlinkLock(t) \/ UnlinkLast(t)
    BY <2>4, LinkSound, LinkPathSound, LinkDirSound, LinkBadSound, UnlinkSound,
       UnlinkLockSound, UnlinkLastSound
  <2>5. QED BY <1>1, <2>1, <2>2, <2>3, <2>4 DEF Step
<1>2. CASE NewCall(t)
  BY <1>2, CallSound, BeginWriteSound, CloseSound DEF NewCall
<1>3. QED BY <1>1, <1>2

\* What strayed stays so.
LEMMA StrayedStays ==
  ASSUME NEW t \in Procs, Step(t) \/ NewCall(t), ~strayed'
  PROVE  ~strayed
<1>1. CASE End(t) \/ UnlockParent(t) \/ Iput(t)
  BY <1>1 DEF End, UnlockParent, Iput, Put, PutFree, PutInval, PutDrop, history
<1>2. CASE Namex(t)
  BY <1>2 DEF WalkEnd, history, Walk, WalkOn, Panic, Namex
<1>3. CASE Create(t) \/ CreateFound(t)
  BY <1>3, ZenonT(90) DEF Create, CreateFound, Panic, history
<1>4. CASE CreateAlloc(t) \/ CreateGet(t) \/ CreateFill(t) \/ Created(t) \/ SymlinkWrite(t)
  BY <1>4, Zenon DEF CreateAlloc, CreateGet, CreateFill, Created, SymlinkWrite, Panic, history
<1>5. CASE Open(t) \/ OpenLink(t) \/ OpenNext(t) \/ Opened(t)
  BY <1>5 DEF Open, OpenLink, OpenNext, Opened, Panic, history
<1>6. CASE Chdir(t) \/ Write(t)
  BY <1>6 DEF Chdir, Write, Panic, history
<1>7. CASE Link(t) \/ LinkPath(t) \/ LinkBad(t)
  BY <1>7 DEF Link, LinkPath, LinkBad, Panic, history
<1>8. CASE LinkDir(t)
  BY <1>8 DEF LinkDir, Panic, history
<1>9. CASE Unlink(t) \/ UnlinkLock(t) \/ UnlinkLast(t)
  BY <1>9 DEF Unlink, UnlinkLock, UnlinkLast, Panic, history
<1>10. CASE NewCall(t)
  BY <1>10 DEF NewCall, Call, BeginWrite, Close, history
<1> QED BY <1>1, <1>2, <1>3, <1>4, <1>5, <1>6, <1>7, <1>8, <1>9, <1>10 DEF Step

-----------------------------------------------------------------------------
(* A start of the machine *)

LEMMA BootSound ==
  ASSUME BootState, disk = committed, CommittedOK
  PROVE  Sound
<1>1. /\ ROOTINO \in Inodes /\ NoInode \notin Inodes /\ Nobody \notin Procs
      /\ NoFile.ip = NoInode
  BY BootConstants, NotNoInode, FilesAssumption DEF FilesAssumption
<1>2. ASSUME NEW t \in Procs
      PROVE  /\ pc[t] = "idle" /\ Due(t) = "idle" /\ cwd[t] = ROOTINO /\ ofile[t].ip = NoInode
             /\ loc[t].ip = NoInode /\ loc[t].dp = NoInode /\ loc[t].old = NoInode
             /\ First(loc[t].puts) = NoInode /\ Second(loc[t].puts) = NoInode
  <2>1. pc[t] = "idle" /\ cwd[t] = ROOTINO /\ ofile[t] = NoFile /\ loc[t] = NoLocals
    BY DEF BootState, Booted
  <2>2. Inv
    BY BootGood
  <2>3. Due(t) = "idle" /\ loc[t].puts = <<>>
    BY <2>1, <2>2, Known, HereMeans DEF PutAt
  <2>4. First(<<>>) = NoInode /\ Second(<<>>) = NoInode
    BY DEF First, Second
  <2>5. /\ NoLocals.ip = NoInode /\ NoLocals.dp = NoInode /\ NoLocals.old = NoInode
    BY DEF NoLocals
  <2>6. QED BY <1>1, <2>1, <2>3, <2>4, <2>5
<1>3. ASSUME NEW t \in Procs, NEW i \in Inodes
      PROVE  /\ Uses(t, i) => i = ROOTINO
             /\ ~New(t, i) /\ ~Freeing(t, i) /\ ~Freed(t, i) /\ ~Holds(t, i)
             /\ ~DyingAt(t, i) /\ ~PendingAt(t, i)
  BY <1>1, <1>2 DEF Uses, New, Freeing, Freed, Holds, LockIp, LockDp, DyingAt, PendingAt
<1>4. Dying = {} /\ Pending = NoPending
  BY <1>3 DEF Dying, Pending, NoPending
<1>5. TreeOK
  BY <1>4 DEF TreeOK, CommittedOK
<1>6. disk.inode[ROOTINO].type = "dir"
  BY DEF CommittedOK, Tree, RootOK, LiveDirs
<1>7. /\ \A i \in Inodes : lock[i] = Nobody /\ dropped[i] = 0 /\ ~itable[i].valid
  BY DEF BootState, Booted, BootTable
<1>8. LinksOK
  BY DEF LinksOK, CommittedOK
<1>9. UsedOK
  BY <1>3, <1>6, <1>7 DEF UsedOK, Type
<1>10. LocksOK
  BY <1>1, <1>3, <1>7 DEF LocksOK
<1>11. Coherent
  BY <1>7 DEF Coherent
<1>12. ASSUME NEW t \in Procs PROVE OwnOK(t)
  BY <1>2, <1>3, <1>6 DEF PutOK, NewOK, DirsOK, Type, AtOK, LockIp, OwnOK
<1> QED BY <1>5, <1>8, <1>9, <1>10, <1>11, <1>12 DEF Sound

LEMMA BootSoundly == BootState /\ disk = committed /\ CommittedOK => Sound
BY BootSound

LEMMA CrashSound ==
  ASSUME Good, Crash
  PROVE  Good'
<1>1. Inv
  BY GoodInv
<1>2. BootState'
  BY <1>1 DEF Inv, TypeOK, DataOK, Crash, Counted, Booted, BootState
<1>3. (disk = committed)' /\ CommittedOK'
  BY DEF Crash, Good, Sound, CommittedOK
<1>4. (BootState /\ disk = committed /\ CommittedOK => Sound)'
  BY BootSoundly, PTL
<1> QED BY <1>1, <1>2, <1>3, <1>4, CrashTypes DEF Good

\* What Init says of the disk, entry by entry.
LEMMA InitDisk ==
  ASSUME Init
  PROVE  /\ 1 \in Inodes /\ 2 \in Inodes /\ 3 \in Inodes
         /\ disk.inode[1].type = "dir" /\ disk.inode[1].nlink = 2 /\ disk.inode[1].addr = 1
         /\ disk.inode[2].type = "dir" /\ disk.inode[2].nlink = 1 /\ disk.inode[2].addr = 2
         /\ disk.inode[3].type = "file" /\ disk.inode[3].nlink = 1 /\ disk.inode[3].addr = NoBlock
         /\ \A i \in Inodes : i \notin {1, 2, 3} => disk.inode[i] = FreeDinode
         /\ disk.used = {1, 2}
         /\ Ent(disk, 1, ".") = 1 /\ Ent(disk, 1, "..") = 1
         /\ \A n \in Names : Ent(disk, 1, n) = IF n = DirName THEN 2 ELSE NoInode
         /\ Ent(disk, 2, ".") = 2 /\ Ent(disk, 2, "..") = 1
         /\ \A n \in Names : Ent(disk, 2, n) = IF n = FileName THEN 3 ELSE NoInode
<1>1. /\ 1 \in Blocks /\ 2 \in Blocks /\ 1 \in Inodes /\ 2 \in Inodes /\ 3 \in Inodes
      /\ DirName \in Names /\ FileName \in Names /\ "." \in Entries /\ ".." \in Entries
      /\ Names \subseteq Entries /\ "." \notin Names /\ ".." \notin Names
      /\ ROOTINO = 1 /\ NoInode = 0
  BY FilesAssumption DEF FilesAssumption, Blocks, Inodes, Entries, ROOTINO, NoInode
<1>2. PICK e1, e2 :
        /\ e1 = [NoEntries EXCEPT !["."] = ROOTINO, ![".."] = ROOTINO, ![DirName] = 2]
        /\ e2 = [NoEntries EXCEPT !["."] = 2, ![".."] = ROOTINO, ![FileName] = 3]
  OBVIOUS
<1>3. /\ e1["."] = 1 /\ e1[".."] = 1
      /\ \A n \in Names : e1[n] = IF n = DirName THEN 2 ELSE NoInode
      /\ e2["."] = 2 /\ e2[".."] = 1
      /\ \A n \in Names : e2[n] = IF n = FileName THEN 3 ELSE NoInode
  BY <1>1, <1>2 DEF NoEntries
<1>4. PICK d1, d2, d3, d4, e3, s :
        /\ d1 = Dinode("dir", 2, 1) /\ d2 = Dinode("dir", 1, 2)
        /\ d3 = Dinode("file", 1, NoBlock) /\ d4 = FreeDinode /\ e3 = NoEntries /\ s = <<>>
  OBVIOUS
<1>5. disk = [inode  |-> [i \in Inodes |-> CASE i = ROOTINO -> d1 [] i = 2 -> d2
                                             [] i = 3 -> d3 [] OTHER -> d4],
              used   |-> {1, 2},
              ents   |-> [b \in Blocks |-> CASE b = 1 -> e1 [] b = 2 -> e2 [] OTHER -> e3],
              target |-> [b \in Blocks |-> s]]
  BY <1>2, <1>4 DEF Init
<1>6. /\ disk.inode = [i \in Inodes |-> CASE i = ROOTINO -> d1 [] i = 2 -> d2
                                          [] i = 3 -> d3 [] OTHER -> d4]
      /\ disk.used = {1, 2}
      /\ disk.ents = [b \in Blocks |-> CASE b = 1 -> e1 [] b = 2 -> e2 [] OTHER -> e3]
  BY <1>5
<1>7. /\ disk.inode[1] = d1 /\ disk.inode[2] = d2 /\ disk.inode[3] = d3
      /\ \A i \in Inodes : i \notin {1, 2, 3} => disk.inode[i] = FreeDinode
      /\ disk.ents[1] = e1 /\ disk.ents[2] = e2
  BY <1>1, <1>4, <1>6
<1>8. /\ d1.type = "dir" /\ d1.nlink = 2 /\ d1.addr = 1
      /\ d2.type = "dir" /\ d2.nlink = 1 /\ d2.addr = 2
      /\ d3.type = "file" /\ d3.nlink = 1 /\ d3.addr = NoBlock
  BY <1>4 DEF Dinode
<1> QED BY <1>1, <1>3, <1>6, <1>7, <1>8 DEF Ent

LEMMA TwoIs == \A x, y : x # y => Cardinality({x, y}) = 2
<1>1. ASSUME NEW x, NEW y, x # y PROVE Cardinality({x, y}) = 2
  <2>1. IsFiniteSet({x}) /\ Cardinality({x}) = 1 /\ y \notin {x}
    BY <1>1, FS_Singleton
  <2>2. Cardinality({x} \cup {y}) = Cardinality({x}) + 1
    BY <2>1, FS_AddElement
  <2>3. {x, y} = {x} \cup {y}
    OBVIOUS
  <2>4. QED BY <2>1, <2>2, <2>3
<1> QED BY <1>1

LEMMA InitTree ==
  ASSUME Init
  PROVE  Tree(disk, {}, NoPending)
<1>1. /\ 1 \in Inodes /\ 2 \in Inodes /\ 3 \in Inodes /\ ROOTINO = 1 /\ NoInode = 0 /\ NoBlock = 0
      /\ DirName \in Names /\ FileName \in Names /\ Inodes \subseteq Nat \ {0}
  BY InitDisk, FilesAssumption DEF FilesAssumption, ROOTINO, NoInode, NoBlock, Inodes
<1>2. /\ disk.inode[1].type = "dir" /\ disk.inode[1].nlink = 2 /\ disk.inode[1].addr = 1
      /\ disk.inode[2].type = "dir" /\ disk.inode[2].nlink = 1 /\ disk.inode[2].addr = 2
      /\ disk.inode[3].type = "file" /\ disk.inode[3].nlink = 1 /\ disk.inode[3].addr = NoBlock
      /\ \A i \in Inodes : i \notin {1, 2, 3} =>
           /\ disk.inode[i] = FreeDinode
           /\ disk.inode[i].type = "none" /\ disk.inode[i].nlink = 0 /\ disk.inode[i].addr = NoBlock
  BY InitDisk DEF FreeDinode, Dinode
<1>3. /\ Ent(disk, 1, ".") = 1 /\ Ent(disk, 1, "..") = 1
      /\ \A n \in Names : Ent(disk, 1, n) = IF n = DirName THEN 2 ELSE NoInode
      /\ Ent(disk, 2, ".") = 2 /\ Ent(disk, 2, "..") = 1
      /\ \A n \in Names : Ent(disk, 2, n) = IF n = FileName THEN 3 ELSE NoInode
      /\ disk.used = {1, 2}
  BY InitDisk
<1>4. LiveDirs(disk, {}) = {1, 2}
  <2>1. ASSUME NEW i \in Inodes
        PROVE  (disk.inode[i].type = "dir" /\ disk.inode[i].nlink > 0) <=> i \in {1, 2}
    BY <1>2
  <2>2. QED BY <1>1, <2>1 DEF LiveDirs
<1>5. BlocksOK(disk)
  BY <1>1, <1>2, <1>3 DEF BlocksOK
<1>6. DotsOK(disk, {})
  BY <1>1, <1>2, <1>3, <1>4 DEF DotsOK
<1>7. ParentsOK(disk, {})
  BY <1>1, <1>3, <1>4 DEF ParentsOK
<1>8. /\ Links(disk, {}, 1) = {<<1, "..">>, <<2, "..">>}
      /\ Links(disk, {}, 2) = {<<1, DirName>>}
      /\ Links(disk, {}, 3) = {<<2, FileName>>}
      /\ \A i \in Inodes : i \notin {1, 2, 3} => Links(disk, {}, i) = {}
  BY <1>1, <1>3, <1>4, NamesEntries DEF Links
<1>9. NamedOnce(disk, {})
  BY <1>4, <1>8 DEF NamedOnce
<1>10. RootOK(disk, {})
  BY <1>1, <1>3, <1>4, <1>8 DEF RootOK
<1>11. CountsOK(disk, {}, NoPending)
  <2>1. /\ Cardinality(Links(disk, {}, 1)) = 2 /\ Cardinality(Links(disk, {}, 2)) = 1
        /\ Cardinality(Links(disk, {}, 3)) = 1
        /\ \A i \in Inodes : i \notin {1, 2, 3} => Cardinality(Links(disk, {}, i)) = 0
    <3>1. <<1, "..">> # <<2, "..">>
      OBVIOUS
    <3>2. Cardinality({<<1, "..">>, <<2, "..">>}) = 2
      BY <3>1, TwoIs, Zenon
    <3>3. QED BY <1>8, <3>2, FS_Singleton, FS_EmptySet
  <2>2. \A i \in Inodes : Cardinality(NoPending[i]) = 0
    BY FS_EmptySet DEF NoPending
  <2>3. QED BY <1>2, <2>1, <2>2 DEF CountsOK
<1> QED BY <1>5, <1>6, <1>7, <1>9, <1>10, <1>11 DEF Tree

LEMMA InitSound ==
  ASSUME Init
  PROVE  Good
<1>1. Inv2
  BY InitTypes DEF Inv2
<1>2. disk \in Disks /\ committed = disk
  BY <1>1, WorldTypes DEF Inv2, Init
<1>3. BootState
  BY <1>1, <1>2 DEF Init, Booted, Inv2, Inv, TypeOK, DataOK, BootState
<1>4. \A i \in Inodes : ~Unwritten(disk, i)
  BY InitDisk DEF FreeDinode, Dinode, Unwritten
<1>5. CommittedOK
  BY <1>2, <1>4, InitTree DEF CommittedOK
<1> QED BY <1>1, <1>2, <1>3, <1>5, BootSound DEF Good

LEMMA Inv3Inductive == Inv3 /\ [Next]_vars => Inv3'
<1> SUFFICES ASSUME Inv3, [Next]_vars, ~strayed' PROVE Sound'
  BY Inv2Inductive DEF Inv3
<1>1. Inv2 /\ Inv2' /\ Inv /\ RefExact /\ RefNat
  BY RefIsNat, Inv2Inductive DEF Inv2, Inv3
<1>2. CASE Crash
  BY <1>1, <1>2, CrashSound DEF Crash, Inv3, Good
<1>3. ASSUME NEW t \in Procs, Step(t) \/ NewCall(t) PROVE Sound'
  BY <1>1, <1>3, StepTypes, StepAlone, StrayedStays, StepSound DEF Inv3, Good, Going
<1>4. CASE UNCHANGED vars
  <2>1. /\ disk' = disk /\ committed' = committed /\ itable' = itable /\ lock' = lock
        /\ cwd' = cwd /\ ofile' = ofile /\ pc' = pc /\ loc' = loc
        /\ dropped' = dropped /\ strayed' = strayed
    BY <1>4 DEF vars, fsVars, tableVars, procVars, history
  <2>2. Sound
    BY <2>1 DEF Inv3
  <2>3. Dying' = Dying /\ Pending' = Pending
    BY <2>1 DEF Dying, Pending, PendingAt, DyingAt, Due
  <2>4. TreeOK' /\ CommittedOK'
    BY <2>1, <2>2, <2>3 DEF Sound, TreeOK, CommittedOK
  <2>5. /\ \A u, i : /\ (New(u, i)' <=> New(u, i)) /\ (Writes(u, i)' <=> Writes(u, i))
                     /\ (Uses(u, i)' <=> Uses(u, i)) /\ (Holds(u, i)' <=> Holds(u, i))
                     /\ (Freed(u, i)' <=> Freed(u, i)) /\ (Freeing(u, i)' <=> Freeing(u, i))
        /\ \A i : Type(i)' = Type(i)
    BY <2>1 DEF New, Writes, Due, Uses, Holds, Freed, Freeing, Type
  <2>6. LinksOK' /\ UsedOK' /\ LocksOK' /\ Coherent'
    BY <2>1, <2>2, <2>5 DEF Sound, LinksOK, UsedOK, LocksOK, Coherent
  <2>7. ASSUME NEW u \in Procs PROVE OwnOK(u)'
    <3>1. OwnOK(u)
      BY <2>2 DEF Sound
    <3>2. PutOK(u)' /\ NewOK(u)'
      BY <2>1, <2>5, <3>1 DEF OwnOK, PutOK, NewOK
    <3>3. DirsOK(u)' /\ pc'[u] # "panic"
      BY <2>1, <3>1 DEF OwnOK, DirsOK, Type
    <3>4. AtOK(u)'
      BY <2>1, <2>3, <3>1 DEF OwnOK, AtOK, Due, Type
    <3>5. QED BY <3>2, <3>3, <3>4 DEF OwnOK
  <2>8. QED BY <2>4, <2>6, <2>7 DEF Sound
<1> QED BY <1>2, <1>3, <1>4 DEF Next

LEMMA Inv3Always == Spec => []Inv3
<1>1. Init => Inv3
  BY InitSound DEF Inv3, Good
<1>2. QED BY <1>1, Inv3Inductive, PTL DEF Spec

-----------------------------------------------------------------------------
(* What the tree on disk says of it *)

LEMMA TreeConsistent ==
  ASSUME NEW d \in Disks, Tree(d, {}, NoPending)
  PROVE  Consistent(d)
<1>1. BlocksOK(d) /\ DotsOK(d, {}) /\ CountsOK(d, {}, NoPending)
  BY DEF Tree
<1>2. /\ \A i \in Inodes : d.inode[i].addr # NoBlock => d.inode[i].addr \in Blocks
      /\ NoBlock \notin d.used
  BY <1>1 DEF Disks, Blocks, NoBlock, BlocksOK
<1>3. Entries \ {"."} = LinkNames
  BY NamesEntries DEF Entries, LinkNames
<1>4. \A i \in LiveDirs(d, {}) : d.inode[i].addr # NoBlock /\ d.inode[i].addr \in Blocks
  BY <1>1, <1>2 DEF DotsOK, LiveDirs
<1>5. EntriesOf(d) = {e \in Inodes \X LinkNames : e[1] \in LiveDirs(d, {})
                                                   /\ Ent(d, e[1], e[2]) # NoInode}
  BY <1>3 DEF EntriesOf, LiveDirs, Ent
<1>6. ASSUME NEW i \in Inodes
      PROVE  {e \in EntriesOf(d) : Named(d, e) = i} = Links(d, {}, i)
  BY <1>5, NotNoInode DEF Named, Links, Ent
<1>7. ASSUME NEW e \in EntriesOf(d)
      PROVE  Named(d, e) \in Allocated(d)
  <2> DEFINE i == Named(d, e)
  <2>1. PICK a \in LiveDirs(d, {}), n \in LinkNames :
          /\ e \in Inodes \X LinkNames /\ a = e[1] /\ n = e[2]
          /\ i = Ent(d, a, n) /\ i # NoInode
    BY <1>5 DEF Named, Ent
  <2>2. i \in Inodes
    <3>1. d.inode[a].addr \in Blocks /\ n \in Entries
      BY <1>4, <2>1, NamesEntries
    <3>2. d.ents[d.inode[a].addr][n] \in Inums
      BY <3>1 DEF Disks
    <3>3. QED BY <2>1, <3>2 DEF Ent, Inums
  <2>3. e \in Links(d, {}, i)
    BY <2>1 DEF Links
  <2>4. d.inode[i].nlink >= 1
    BY <1>1, <2>2, <2>3, Counted1, PendingProcs
  <2>5. d.inode[i].type # "none"
    BY <1>1, <2>2, <2>4, FreeNlink
  <2>6. QED BY <2>1, <2>2, <2>5 DEF Allocated
<1>8. ASSUME NEW i \in Allocated(d)
      PROVE  d.inode[i].nlink = Cardinality({e \in EntriesOf(d) : Named(d, e) = i})
  <2>1. i \in Inodes /\ Cardinality(NoPending[i]) = 0
    BY FS_EmptySet DEF Allocated, NoPending
  <2>2. d.inode[i].nlink = Cardinality(Links(d, {}, i)) + 0
    BY <1>1, <2>1 DEF CountsOK
  <2>3. Cardinality(Links(d, {}, i)) \in Nat
    BY LinksFinite
  <2>4. d.inode[i].nlink = Cardinality(Links(d, {}, i))
    BY <2>2, <2>3
  <2>5. QED BY <1>6, <2>1, <2>4, Zenon
<1>9. \A i, j \in Allocated(d) :
        (i # j /\ d.inode[i].addr # NoBlock) => d.inode[i].addr # d.inode[j].addr
  BY <1>1 DEF BlocksOK, Allocated
<1>10. d.used = {d.inode[i].addr : i \in Allocated(d)} \ {NoBlock}
  BY <1>1, <1>2, FreeNlink DEF BlocksOK, Allocated
<1> QED BY <1>7, <1>8, <1>9, <1>10 DEF Consistent

\* Whatever calls were under way when the machine stopped, the tree that the
\* log brings back has right links, right counts and no block used twice --
\* unless an entry was made in a directory that unlink had removed.
THEOREM CrashesConsistent == Spec => []CrashConsistent
<1>1. Inv3 => CrashConsistent
  <2>1. Inv3 => committed \in Disks
    BY DEF Inv3, Inv2, Inv, TypeOK, DataOK
  <2>2. QED BY <2>1, TreeConsistent DEF Inv3, Sound, CommittedOK, CrashConsistent
<1>2. QED BY <1>1, Inv3Always, PTL

\* ilock finds an inode of some type, dirlookup a directory, unlink a link to
\* take and bfree a used block, and iput's acquiresleep does not wait -- unless
\* a call went on in a directory that unlink had removed.
THEOREM NeverPanics == Spec => []NoPanic
<1>1. Inv3 => NoPanic
  BY DEF Inv3, Sound, OwnOK, NoPanic, At
<1>2. QED BY <1>1, Inv3Always, PTL
=============================================================================
