-------------------------- MODULE FilesInvariant ---------------------------
(***************************************************************************)
(* What the proofs about Files say of its states and of its steps: the     *)
(* types; which locals a call has at which point; the inductive invariant; *)
(* and what a step of one process may do to what the others rely on.       *)
(***************************************************************************)
EXTENDS Files, Integers

Types == {"none", "file", "dir", "symlink"}
Inums == Inodes \cup {NoInode}
Strings == Seq(Chars \cup {Junk})

-----------------------------------------------------------------------------
(* Types and shapes *)

Dinodes == [type : Types, nlink : Int, addr : Blocks \cup {NoBlock}]
Disks == [inode : [Inodes -> Dinodes], used : SUBSET Blocks,
          ents : [Blocks -> [Entries -> Inums]], target : [Blocks -> Strings]]
Tables == [Inodes -> [ref : Int, valid : BOOLEAN, ino : Dinodes]]

PutAt == {"put", "put_free", "put_inval", "put_drop"}
Window == {"put_inval", "put_drop"}
\* What a process is about to do, its iputs aside.
Due(t) == IF pc[t] \in PutAt THEN loc[t].next ELSE pc[t]

CreateAt == {"create", "create_found", "create_alloc", "create_get",
             "create_fill", "created"}
LinkAt == {"link", "link_path", "link_dir", "link_bad"}
UnlinkAt == {"unlink", "unlink_lock", "unlink_last"}
IpAt == {"walk", "create_found", "create_fill", "created", "opened",
         "symlink_write", "full", "open", "open_next", "chdir", "link",
         "unlink_lock", "unlink_last"}
DpAt == {"create", "create_alloc", "create_get", "create_fill", "link_dir",
         "unlink", "unlink_lock", "unlock_dp"}
NamedAt == {"create", "create_alloc", "create_get", "create_fill", "link_dir",
            "unlink", "unlink_lock"}
Labels == CreateAt \cup LinkAt \cup UnlinkAt \cup IpAt \cup DpAt \cup PutAt
            \cup {"idle", "end", "write", "open_link", "panic"}
Nexts == {"end", "link_bad", "walk", "create_found", "unlock_dp", "created",
          "open_link", "unlink_last"}
Rets == {"create", "open", "open_next", "chdir", "link", "link_dir", "unlink"}

Locals == [call : WithPath \cup {"none", "write", "close"}, arg : Strings,
           path : Strings, parent : BOOLEAN, name : Entries \cup {Junk},
           ret : Rets \cup {"idle"}, bad : {"idle", "end", "link_bad"},
           ip : Inums, dp : Inums, old : Inums, inum : Inums,
           puts : Seq(Inodes), next : Nexts \cup {"idle"}, depth : Nat]

DataOK ==
  /\ disk \in Disks /\ committed \in Disks
  /\ itable \in Tables
  /\ lock \in [Inodes -> Procs \cup {Nobody}]
  /\ cwd \in [Procs -> Inodes]
  /\ ofile \in [Procs -> [ip : Inums, writable : BOOLEAN]]
  /\ inop \subseteq Procs
  /\ events \in Nat
  /\ orphans \subseteq Inodes
  /\ dropped \in [Inodes -> Nat]
  /\ strayed \in BOOLEAN
TypeOK == /\ DataOK
          /\ pc \in [Procs -> Labels]
          /\ loc \in [Procs -> Locals]

\* Which of its locals a process has, and what they are, where it is.
HasOld(l, r) == \/ l \in {"link_path", "link_dir", "link_bad"}
                \/ l = "walk" /\ r.ret = "link_dir"
                \/ l = "unlock_dp" /\ r.call = "link"
Has(l, r) == /\ r.ip # NoInode <=> l \in IpAt
             /\ r.dp # NoInode <=> l \in DpAt
             /\ r.old # NoInode <=> HasOld(l, r)
WalkFits(r) ==
  /\ \/ r.call \in WithPath /\ r.ret = AfterWalk(r.call)
     \/ r.call = "link" /\ r.ret = "link_dir"
     \/ r.call \in {"open", "trunc"} /\ r.ret = "open_next"
  /\ r.bad = IF r.ret = "link_dir" THEN "link_bad" ELSE "end"
  /\ r.parent <=> r.ret \in {"create", "unlink", "link_dir"}
  /\ r.call = "link" => IsPath(r.arg)
  /\ r.path # <<>> => r.path[1] # "/"
  /\ r.parent /\ r.path # <<>> => IsPath(r.path)
Fits(l, r) ==
  /\ l \in CreateAt => r.call \in Makes
  /\ l \in LinkAt => r.call = "link"
  /\ l \in UnlinkAt => r.call = "unlink"
  /\ l \in {"open", "open_link", "open_next"} => r.call \in {"open", "trunc"}
  /\ l = "opened" => r.call \in {"open", "trunc", "creat"}
  /\ l \in {"symlink_write", "full"} => r.call = "symlink"
  /\ l = "unlock_dp" => r.call \in Makes \cup {"link", "unlink"}
  /\ l \in {"link", "link_path", "link_dir"} => IsPath(r.arg)
  /\ l = "walk" => WalkFits(r)
  /\ l \in NamedAt => r.name \in Entries
Shape(t) ==
  pc[t] # "panic" =>
    /\ Has(Due(t), loc[t])
    /\ Fits(Due(t), loc[t])
    /\ Due(t) = "write" => ofile[t].writable
    /\ loc[t].inum # NoInode <=> pc[t] = "create_get"
    /\ pc[t] \in PutAt => Len(loc[t].puts) \in {1, 2} /\ loc[t].next \in Nexts
    /\ pc[t] \notin PutAt => loc[t].puts = <<>>
FileOK(t) == ofile[t].ip = NoInode => ofile[t] = NoFile
InOp(t) == t \in inop <=> pc[t] # "idle"

Own(t) == Shape(t) /\ FileOK(t) /\ InOp(t)
Inv == TypeOK /\ \A t \in Procs : Own(t)

\* The rest of the processes stay as they are.
Alone(t) == \A u \in Procs \ {t} : /\ pc'[u] = pc[u] /\ loc'[u] = loc[u]
                                   /\ cwd'[u] = cwd[u] /\ ofile'[u] = ofile[u]

-----------------------------------------------------------------------------
(* The pointers a process has *)

One(b) == IF b THEN 1 ELSE 0
First(s) == IF Len(s) >= 1 THEN s[1] ELSE NoInode
Second(s) == IF Len(s) >= 2 THEN s[2] ELSE NoInode
\* How many pointers to inode i are among them.
Count(c, o, r, i) ==
  One(c = i) + One(o = i) + One(r.ip = i) + One(r.dp = i) + One(r.old = i)
    + One(First(r.puts) = i) + One(Second(r.puts) = i)
Counted_(t, i) == Count(cwd[t], ofile[t].ip, loc[t], i)
\* A step of process t leaves the counts in the table right.
RefStep(t) ==
  \A i \in Inodes :
     itable'[i].ref - dropped'[i] - Counted_(t, i)'
       = itable[i].ref - dropped[i] - Counted_(t, i)
RefNat == \A i \in Inodes : itable[i].ref >= 0

-----------------------------------------------------------------------------
(* Each action keeps the types, and the counts right. *)

\* The k-th of the places where a process may point to an inode.
SlotOf(c, o, r, k) ==
  CASE k = 1 -> c
    [] k = 2 -> o
    [] k = 3 -> r.ip
    [] k = 4 -> r.dp
    [] k = 5 -> r.old
    [] k = 6 -> First(r.puts)
    [] k = 7 -> Second(r.puts)
Slot(t, k) == SlotOf(cwd[t], ofile[t].ip, loc[t], k)
Places == Procs \X (1..7)
Holding(i) == {x \in Places : Slot(x[1], x[2]) = i}
RefExact == \A i \in Inodes : itable[i].ref = dropped[i] + Cardinality(Holding(i))

\* The places that point to i, and those of them that are not process t's.
All(f, i) == {x \in Places : f[x] = i}
Others(f, t, i) == {x \in Places : f[x] = i /\ x[1] # t}

OneAt(f, t, k, i) == One(f[<<t, k>>] = i)

\* Whatever a process does, it does to its own program counter and locals.
Moves(t) == /\ \E l : Goto(t, l)
            /\ loc' = loc \/ \E r : loc' = [loc EXCEPT ![t] = r]

SlotsOf(c, o, l) == [x \in Places |-> SlotOf(c[x[1]], o[x[1]].ip, l[x[1]], x[2])]

Inv2 == Inv /\ RefExact

-----------------------------------------------------------------------------
(* What the processes rely on *)

\* Process t has a pointer to inode i; and it is not one that an iput which
\* has freed the inode has yet to give up.
HasSlot(t, i) ==
  \/ cwd[t] = i \/ ofile[t].ip = i
  \/ loc[t].ip = i \/ loc[t].dp = i \/ loc[t].old = i
  \/ First(loc[t].puts) = i \/ Second(loc[t].puts) = i
Uses(t, i) ==
  \/ cwd[t] = i \/ ofile[t].ip = i
  \/ loc[t].ip = i \/ loc[t].dp = i \/ loc[t].old = i
  \/ First(loc[t].puts) = i /\ pc[t] \notin Window
  \/ Second(loc[t].puts) = i

\* The inode that process t has allocated and not yet linked.
New(t, i) == \/ pc[t] = "create_get" /\ loc[t].inum = i
             \/ pc[t] = "create_fill" /\ loc[t].ip = i
Freeing(t, i) == pc[t] = "put_free" /\ First(loc[t].puts) = i
Freed(t, i) == pc[t] = "put_inval" /\ First(loc[t].puts) = i

LockIp == {"created", "opened", "symlink_write", "full", "unlink_last"}
LockDp == {"create_alloc", "create_get", "create_fill", "unlink_lock", "unlock_dp"}
Holds(t, i) == \/ Due(t) \in LockIp /\ loc[t].ip = i
               \/ Due(t) \in LockDp /\ loc[t].dp = i
               \/ Freeing(t, i) \/ Freed(t, i)

\* An unlink has taken the entry of inode i away and has yet to count that; a
\* process has counted a link to i that is not made, or no longer.
DyingAt(t, i) == Due(t) = "unlink_last" /\ loc[t].ip = i
PendingAt(t, i) == loc[t].old = i \/ DyingAt(t, i)
Dying == {i \in Inodes : \E t \in Procs : DyingAt(t, i)}
Pending == [i \in Inodes |-> {t \in Procs : PendingAt(t, i)}]
NoPending == [i \in Inodes |-> {}]

-----------------------------------------------------------------------------
(* The tree on disk d, dy being what is dying and pend what is pending *)

LiveDirs(d, dy) == {i \in Inodes : /\ d.inode[i].type = "dir"
                                   /\ d.inode[i].nlink > 0
                                   /\ i \notin dy}
Ent(d, i, n) == d.ents[d.inode[i].addr][n]
LinkNames == Names \cup {".."}
Links(d, dy, i) ==
  {e \in Inodes \X LinkNames : e[1] \in LiveDirs(d, dy) /\ Ent(d, e[1], e[2]) = i}

BlocksOK(d) ==
  /\ \A i \in Inodes : d.inode[i].type = "none" => d.inode[i] = FreeDinode
  /\ \A i \in Inodes : d.inode[i].addr # NoBlock => d.inode[i].addr \in d.used
  /\ \A i, j \in Inodes :
       i # j /\ d.inode[i].addr # NoBlock => d.inode[i].addr # d.inode[j].addr
  /\ \A b \in d.used : \E i \in Inodes : d.inode[i].addr = b
\* Every directory has its entry ".", and no name in it if it is not live.
DotsOK(d, dy) ==
  \A i \in Inodes : d.inode[i].type = "dir" =>
    \/ d.inode[i].addr = NoBlock /\ d.inode[i].nlink = 0
    \/ /\ d.inode[i].addr # NoBlock
       /\ Ent(d, i, ".") = i
       /\ i \notin LiveDirs(d, dy) => \A n \in Names : Ent(d, i, n) = NoInode
\* A live directory other than the root is named by its parent.
ParentsOK(d, dy) ==
  \A i \in LiveDirs(d, dy) : i # ROOTINO =>
     /\ Ent(d, i, "..") \in LiveDirs(d, dy)
     /\ \E n \in Names : Ent(d, Ent(d, i, ".."), n) = i
\* Only one entry names a directory, and none the root.
NamedOnce(d, dy) ==
  \A i \in LiveDirs(d, dy) : \A e, f \in Links(d, dy, i) :
     e[2] # ".." /\ f[2] # ".." => e = f
RootOK(d, dy) == /\ ROOTINO \in LiveDirs(d, dy)
                 /\ Ent(d, ROOTINO, "..") = ROOTINO
                 /\ \A e \in Links(d, dy, ROOTINO) : e[2] = ".."
CountsOK(d, dy, pend) ==
  \A i \in Inodes :
     d.inode[i].nlink = Cardinality(Links(d, dy, i)) + Cardinality(pend[i])
Tree(d, dy, pend) == /\ BlocksOK(d) /\ DotsOK(d, dy) /\ ParentsOK(d, dy)
                     /\ NamedOnce(d, dy) /\ RootOK(d, dy) /\ CountsOK(d, dy, pend)
TreeOK == Tree(disk, Dying, Pending)

\* A link whose target is not written yet.
Unwritten(d, i) == d.inode[i].type = "symlink" /\ d.inode[i].addr = NoBlock
Writes(t, i) == New(t, i) \/ (Due(t) \in {"created", "symlink_write", "full"} /\ loc[t].ip = i)
LinksOK == \A i \in Inodes : Unwritten(disk, i) => \E t \in Procs : Writes(t, i)
CommittedOK == /\ Tree(committed, {}, NoPending)
               /\ \A i \in Inodes : ~Unwritten(committed, i)

-----------------------------------------------------------------------------
(* The inductive invariant *)

Type(i) == disk.inode[i].type
UsedOK == /\ \A t \in Procs, i \in Inodes : Uses(t, i) => Type(i) # "none"
          /\ \A i \in Inodes : dropped[i] > 0 => Type(i) # "none"
LocksOK == \A t \in Procs, i \in Inodes : lock[i] = t <=> Holds(t, i)
Coherent == \A i \in Inodes : itable[i].valid =>
  \/ itable[i].ino = disk.inode[i] /\ Type(i) # "none"
  \/ \E u \in Procs : Freed(u, i)
PutOK(t) ==
  \A i \in Inodes :
    /\ Freeing(t, i) => /\ itable[i].ref = 1 /\ itable[i].valid
                        /\ Type(i) # "none" /\ disk.inode[i].nlink = 0
    /\ Freed(t, i) => /\ itable[i].valid /\ itable[i].ino = FreeDinode
                      /\ loc[t].ip # i /\ loc[t].dp # i
NewOK(t) ==
  \A i \in Inodes : New(t, i) =>
    /\ disk.inode[i] = Dinode(TypeMade(loc[t].call), 0, NoBlock)
    /\ dropped[i] = 0
    /\ \A u \in Procs : u # t => ~Uses(u, i) /\ ~New(u, i)
    /\ cwd[t] # i /\ ofile[t].ip # i /\ loc[t].dp # i /\ loc[t].old # i
DirsOK(t) ==
  /\ Type(cwd[t]) = "dir"
  /\ loc[t].dp # NoInode => Type(loc[t].dp) = "dir"
  /\ loc[t].old # NoInode => Type(loc[t].old) \in {"file", "symlink"}
AtOK(t) ==
  LET l == Due(t)
      r == loc[t]
  IN /\ l \in {"symlink_write", "full"} => Type(r.ip) = "symlink"
     /\ l = "created" => Type(r.ip) = TypeMade(r.call)
     /\ l = "opened" => Type(r.ip) \in {"file", "dir"}
     /\ l = "write" => Type(ofile[t].ip) = "file"
     /\ l \in LockIp => itable[r.ip].valid
     /\ l \in {"create_alloc", "create_get", "create_fill"} =>
          /\ r.dp \in LiveDirs(disk, Dying) /\ r.name \in Names
          /\ Ent(disk, r.dp, r.name) = NoInode
     /\ l = "unlink_lock" =>
          /\ r.dp \in LiveDirs(disk, Dying) /\ r.name \in Names
          /\ Ent(disk, r.dp, r.name) = r.ip
     /\ l = "unlink_last" => (Type(r.ip) = "dir" => disk.inode[r.ip].nlink = 1)
OwnOK(t) == pc[t] # "panic" /\ PutOK(t) /\ NewOK(t) /\ DirsOK(t) /\ AtOK(t)

Sound == /\ TreeOK /\ CommittedOK
         /\ LinksOK /\ UsedOK /\ LocksOK /\ Coherent
         /\ \A t \in Procs : OwnOK(t)
Good == Inv2 /\ Sound

-----------------------------------------------------------------------------
(* Counting links *)

\* An inode that process t may begin to use.
Fresh(t, i) == /\ Type(i) # "none"
               /\ \A u \in Procs \ {t} : ~New(u, i) /\ ~Freeing(u, i)

-----------------------------------------------------------------------------
(* What a step of process t leaves the others *)

SlotsGuar(t) ==
  \A i \in Inodes :
    /\ HasSlot(t, i)' => HasSlot(t, i) \/ Fresh(t, i)
    /\ Uses(t, i)' => Uses(t, i) \/ Fresh(t, i)
    /\ Uses(t, i)' => Type(i)' # "none"
    /\ New(t, i)' => New(t, i) \/ Type(i) = "none"
    /\ dropped'[i] # dropped[i] => Uses(t, i) /\ Type(i)' # "none"
LocksGuar(t) ==
  \A i \in Inodes :
    /\ \A u \in Procs \ {t} : lock'[i] = u <=> lock[i] = u
    /\ lock'[i] = t <=> Holds(t, i)'
TableGuar(t) ==
  \A i \in Inodes :
    /\ (\E u \in Procs \ {t} : Holds(u, i)) /\ itable[i].valid
         => itable'[i].valid /\ itable'[i].ino = itable[i].ino
    /\ itable'[i].valid =>
         \/ itable'[i].ino = disk'.inode[i] /\ Type(i)' # "none"
         \/ Freed(t, i)'
         \/ /\ itable[i].valid /\ itable'[i].ino = itable[i].ino
            /\ disk'.inode[i] = disk.inode[i] /\ ~Freed(t, i)
         \/ \E u \in Procs \ {t} : Freed(u, i)
DirKept(i) ==
  i \in LiveDirs(disk, Dying) =>
    /\ i \in LiveDirs(disk, Dying)'
    /\ \A n \in Entries : Ent(disk', i, n) = Ent(disk, i, n)
DiskGuar(t) ==
  \A i \in Inodes :
    /\ \A u \in Procs \ {t} :
         /\ Uses(u, i) => Type(i)' = Type(i)
         /\ (Holds(u, i) /\ ~Freed(u, i)) \/ New(u, i) => disk'.inode[i] = disk.inode[i]
         /\ Holds(u, i) => DirKept(i)
    /\ dropped[i] > 0 => Type(i)' = Type(i)
WritesGuar(t) ==
  \A i \in Inodes :
    Unwritten(disk', i) => Writes(t, i)' \/ (Unwritten(disk, i) /\ ~Writes(t, i))

-----------------------------------------------------------------------------
(* The table, when the disk stays as it is *)

TabQuiet(t) ==
  \A i \in Inodes :
    \/ itable'[i].valid = itable[i].valid /\ itable'[i].ino = itable[i].ino
    \/ ~itable'[i].valid /\ itable[i].ref = 0
    \/ /\ itable'[i].valid /\ itable'[i].ino = Ino(i)
       /\ lock[i] \in {Nobody, t} /\ Type(i) # "none"

-----------------------------------------------------------------------------
(* Steps that leave the disk as it is *)

SameDue(t) ==
  \A i \in Inodes : (DyingAt(t, i)' <=> DyingAt(t, i)) /\ (PendingAt(t, i)' <=> PendingAt(t, i))

SlotsQuiet(t) ==
  \A i \in Inodes :
    /\ HasSlot(t, i)' => HasSlot(t, i) \/ Fresh(t, i)
    /\ Uses(t, i)' => Uses(t, i) \/ Fresh(t, i)
    /\ New(t, i)' => New(t, i)
    /\ dropped'[i] # dropped[i] => Uses(t, i)
WritesQuiet(t) ==
  \A i \in Inodes : Unwritten(disk, i) /\ Writes(t, i) => Writes(t, i)'

-----------------------------------------------------------------------------
(* Where a step leads *)

\* Process t comes to label l, after iputs if there are any, with the locals r
\* and the pointers a and b to give up.
Lands(t, l, r, a, b) ==
  /\ pc'[t] \in {"put", l} /\ l \notin PutAt \cup {"panic"}
  /\ Due(t)' = l
  /\ loc'[t].ip = r.ip /\ loc'[t].dp = r.dp /\ loc'[t].old = r.old
  /\ loc'[t].inum = r.inum /\ loc'[t].call = r.call /\ loc'[t].name = r.name
  /\ First(loc'[t].puts) = a /\ Second(loc'[t].puts) = b

-----------------------------------------------------------------------------
(* Locks, by label *)

HeldAt(l, r, i) == (l \in LockIp /\ r.ip = i) \/ (l \in LockDp /\ r.dp = i)

-----------------------------------------------------------------------------
(* What is true where a step leads *)

\* Labels at which AtOK says nothing.
Plain == (Labels \ (LockIp \cup LockDp \cup {"write", "panic"} \cup PutAt)) \cup {"unlock_dp"}

WritesAt == {"create_get", "create_fill", "created", "symlink_write", "full"}

-----------------------------------------------------------------------------
(* namex *)

\* What a step of process t may start from.
Going(t) == Good /\ Inv2' /\ Alone(t) /\ RefStep(t) /\ ~strayed'

-----------------------------------------------------------------------------
(* A disk on which the live directories stay as they are *)

SameLive(d, dy, e, f) ==
  \A i \in Inodes :
    /\ i \in LiveDirs(e, f) <=> i \in LiveDirs(d, dy)
    /\ i \in LiveDirs(d, dy) => \A n \in Entries : Ent(e, i, n) = Ent(d, i, n)

-----------------------------------------------------------------------------
(* Counting, one more and one less *)

\* Links and pending counts of inode i on disk d and, later, e.
CountAt(d, dy, pend, i) ==
  d.inode[i].nlink = Cardinality(Links(d, dy, i)) + Cardinality(pend[i])

Same_(S, T) == T = S
Adds(S, T, x) == x \notin S /\ T = S \cup {x}
Drops(S, T, x) == x \in S /\ T = S \ {x}

-----------------------------------------------------------------------------
(* A step that changes what it has locked, or locks, of the disk *)

DiskLoud(t) ==
  \A i \in Inodes :
    \/ /\ disk'.inode[i] = disk.inode[i]
       /\ i \in LiveDirs(disk, Dying) => \A n \in Entries : Ent(disk', i, n) = Ent(disk, i, n)
    \/ lock[i] \in {Nobody, t} /\ Uses(t, i) /\ Type(i)' = Type(i)
TabLoud(t) ==
  \A i \in Inodes :
    \/ /\ itable'[i].valid = itable[i].valid /\ itable'[i].ino = itable[i].ino
       /\ disk'.inode[i] = disk.inode[i]
    \/ /\ itable'[i].valid /\ itable'[i].ino = disk'.inode[i] /\ Type(i)' # "none"
       /\ lock[i] \in {Nobody, t}

-----------------------------------------------------------------------------
(* A start of the machine *)

Inv3 == Inv2 /\ (strayed \/ Sound)
=============================================================================
