------------------------------- MODULE Files --------------------------------
(***************************************************************************)
(* Inodes and directories: the inode layer of kernel/fs.c (ialloc, iget,   *)
(* ilock, iput, itrunc, dirlookup, dirlink, namex) and the system calls of *)
(* kernel/sysfile.c that change the tree, each from begin_op to end_op.    *)
(*                                                                         *)
(* One action is a stretch of a call that takes an inode's sleeplock and   *)
(* gives it back, or the part of it up to the next lock the call waits     *)
(* for, or one critical section of itable.lock.  The blocks are read and   *)
(* written through the buffer cache: disk is what the calls see, committed *)
(* what a crash leaves, by Log's AtomicDisk.                               *)
(*                                                                         *)
(* A directory is a block of entries, a symbolic link a block with a path; *)
(* what a file's block holds is left out.                                  *)
(*                                                                         *)
(* Definitions such as Last_Ever are the faulty forms of the definition    *)
(* next to them with which the properties are put to the test.             *)
(***************************************************************************)
EXTENDS Naturals, Sequences, FiniteSets

CONSTANTS Procs,
          Nobody,      \* the owner of a sleeplock that is free
          Names,       \* of directory entries, other than "." and ".."
          DirName, FileName,   \* those there at the start
          Requests,    \* the system calls: <<call, path, other path>>
          NINODES,     \* the inodes are 1, ..., NINODES
          NBLOCK,      \* the data blocks are 1, ..., NBLOCK
          MAXSYMLINKDEPTH,
          Races,       \* FALSE: only the schedules that spare iput's window
          MaxEvents    \* bound: the system calls and crashes, in all

Inodes == 1..NINODES
Blocks == 1..NBLOCK
ROOTINO == 1
NoInode == 0                          \* also the null pointer
NoBlock == 0
Entries == Names \cup {".", ".."}     \* what dirlookup is asked for

WithPath == {"open", "trunc", "creat", "mkdir", "symlink", "link", "unlink",
             "chdir"}
Junk == "?"                           \* memory that was never written
\* A path is a sequence of characters; each name counts as one.
Chars == Entries \cup {"/"}
IsPath(p) == /\ p \in Seq(Chars) /\ p # <<>>
             /\ \A k \in 2..Len(p) : "/" \in {p[k - 1], p[k]}

ASSUME FilesAssumption ==
  /\ IsFiniteSet(Procs) /\ Nobody \notin Procs
  /\ IsFiniteSet(Names) /\ {DirName, FileName} \subseteq Names
  /\ Names \cap {".", "..", "/", Junk} = {}
  /\ NINODES \in Nat /\ NINODES >= 3
  /\ NBLOCK \in Nat /\ NBLOCK >= 2
  /\ {MAXSYMLINKDEPTH, MaxEvents} \subseteq Nat
  /\ Races \in BOOLEAN
  /\ \A q \in Requests : /\ q[1] \in WithPath /\ IsPath(q[2]) /\ q[3] \in Seq(Chars)
                         /\ q[1] \in {"symlink", "link"} => IsPath(q[3])

VARIABLES
  disk, committed,    \* the file system, and as of the last commit
  itable,             \* itable.inode: the table entry of each inode
  lock,               \* the owner of an inode's sleeplock
  cwd, ofile,         \* p->cwd, and the one file a process has open
  inop,               \* the processes between begin_op and end_op
  pc, loc,            \* where a process is, its locals
  events,             \* the calls and crashes so far
  (* not in the code *)
  orphans,            \* inodes without a link that a crash left allocated
  dropped,            \* references to an inode that sys_open drops
  strayed             \* a removed directory was written to, or left by ".."

fsVars == <<disk, committed>>
tableVars == <<itable, lock>>
procVars == <<cwd, ofile, inop>>
history == <<orphans, dropped, strayed>>
vars == <<fsVars, tableVars, procVars, pc, loc, events, history>>

Dinode(type, nlink, addr) == [type |-> type, nlink |-> nlink, addr |-> addr]
FreeDinode == Dinode("none", 0, NoBlock)
NoEntries == [n \in Entries |-> NoInode]
NoFile == [ip |-> NoInode, writable |-> FALSE]

NoLocals == [call |-> "none", arg |-> <<>>,
             path |-> <<>>, parent |-> FALSE, name |-> ".",  \* namex
             ret |-> "idle", bad |-> "idle",  \* where namex returns to
             ip |-> NoInode, dp |-> NoInode, old |-> NoInode,
             inum |-> NoInode,
             puts |-> <<>>, next |-> "idle",  \* iput of these, then on
             depth |-> 0]

\* The root is every process's directory.
BootTable == [i \in Inodes |->
                [ref   |-> IF i = ROOTINO THEN Cardinality(Procs) ELSE 0,
                 valid |-> FALSE,
                 ino   |-> FreeDinode]]

(***************************************************************************)
(* The root, whose parent it is itself (mkfs), with a directory in it that *)
(* holds an empty file (mkdir, creat), after a restart of the machine.     *)
(***************************************************************************)
Init ==
  /\ disk = [inode  |-> [i \in Inodes |-> CASE i = ROOTINO -> Dinode("dir", 2, 1)
                                           [] i = 2 -> Dinode("dir", 1, 2)
                                           [] i = 3 -> Dinode("file", 1, NoBlock)
                                           [] OTHER -> FreeDinode],
             used   |-> {1, 2},
             ents   |-> [b \in Blocks |->
                           CASE b = 1 -> [NoEntries EXCEPT !["."] = ROOTINO,
                                             ![".."] = ROOTINO, ![DirName] = 2]
                             [] b = 2 -> [NoEntries EXCEPT !["."] = 2,
                                             ![".."] = ROOTINO, ![FileName] = 3]
                             [] OTHER -> NoEntries],
             target |-> [b \in Blocks |-> <<>>]]
  /\ committed = disk
  /\ itable = BootTable
  /\ lock = [i \in Inodes |-> Nobody]
  /\ cwd = [t \in Procs |-> ROOTINO]
  /\ ofile = [t \in Procs |-> NoFile]
  /\ inop = {}
  /\ pc = [t \in Procs |-> "idle"]
  /\ loc = [t \in Procs |-> NoLocals]
  /\ events = 0
  /\ orphans = {} /\ strayed = FALSE
  /\ dropped = [i \in Inodes |-> 0]

At(t, l) == pc[t] = l
Goto(t, l) == pc' = [pc EXCEPT ![t] = l]
\* On to label l with the locals r.
Go(t, l, r) == Goto(t, l) /\ loc' = [loc EXCEPT ![t] = r]
\* iput() of the inodes of the sequence s, and on to label l.
PutThen(t, r, s, l) == Go(t, "put", [r EXCEPT !.puts = s, !.next = l])
Panic(t) == /\ Goto(t, "panic")
            /\ UNCHANGED <<fsVars, tableVars, procVars, loc, events, history>>

-----------------------------------------------------------------------------
(* Inodes *)

\* iget() and idup(): one more pointer to inode i, in a new entry if need be.
Get_One(tab, i) == [tab EXCEPT ![i].ref = 1]
Get(tab, i) ==
  IF tab[i].ref > 0 THEN [tab EXCEPT ![i].ref = @ + 1]
  ELSE [tab EXCEPT ![i] = [ref |-> 1, valid |-> FALSE, ino |-> FreeDinode]]

\* What ilock() finds of inode i, and leaves in the table.
Ino(i) == IF itable[i].valid THEN itable[i].ino ELSE disk.inode[i]
Cached(tab, i, ino) == [tab EXCEPT ![i].valid = TRUE, ![i].ino = ino]
\* iupdate()
OnDisk(d, i, ino) == [d EXCEPT !.inode[i] = ino]

Free(i) == lock[i] = Nobody
Locked(t, i) == lock' = [lock EXCEPT ![i] = t]
Unlocked(i) == lock' = [lock EXCEPT ![i] = Nobody]

Smallest(S) == CHOOSE n \in S : \A m \in S : n <= m
Unused(d) == Blocks \ d.used
\* balloc() of block b, zeroed, for inode i; bfree() of the inode's block.
Ballocd(d, b) == [d EXCEPT !.used = @ \cup {b},
                           !.ents[b] = NoEntries, !.target[b] = <<>>]
Bfreed(d, b) == [d EXCEPT !.used = @ \ {b}]

\* The inode that entry n of a directory names, if any.
Lookup(ino, n) == IF ino.addr = NoBlock \/ n = Junk THEN NoInode
                  ELSE disk.ents[ino.addr][n]
Linked(d, ino, n, i) == [d EXCEPT !.ents[ino.addr][n] = i]
Removed(ino) == ino.nlink = 0

\* iput(), up to the decision whether this was the last use of the inode.
Last_Never(i) == itable[i].ref = 0 /\ itable[i].valid /\ itable[i].ino.nlink = 0
Last_Ever(i) == itable[i].valid /\ itable[i].ino.nlink = 0
Last(i) == itable[i].ref = 1 /\ itable[i].valid /\ itable[i].ino.nlink = 0

PutDone(t) == LET r == loc[t]
              IN IF Len(r.puts) = 1
                 THEN Go(t, r.next, [r EXCEPT !.puts = <<>>])
                 ELSE Go(t, "put", [r EXCEPT !.puts = Tail(@)])
Drop(t) == LET i == Head(loc[t].puts)
           IN /\ itable' = [itable EXCEPT ![i].ref = @ - 1]
              /\ PutDone(t)

(***************************************************************************)
(* The window: iput has freed inode i and has yet to take its reference    *)
(* back.  Whoever allocates, uses and puts i meanwhile does not find that  *)
(* it is the last user, and iput itself does not look again.  Races =      *)
(* FALSE holds the iput of i by others back until the window is closed.    *)
(***************************************************************************)
MayPut(i) == Races \/ ~\E u \in Procs : /\ pc[u] \in {"put_inval", "put_drop"}
                                      /\ Head(loc[u].puts) = i

Put(t) ==
  /\ At(t, "put")
  /\ MayPut(Head(loc[t].puts))
  /\ LET i == Head(loc[t].puts)
     IN IF ~Last(i) THEN Drop(t) /\ UNCHANGED lock
        ELSE \* "this acquiresleep() won't block", itable.lock being held
             /\ Goto(t, IF Free(i) THEN "put_free" ELSE "panic")
             /\ IF Free(i) THEN Locked(t, i) ELSE UNCHANGED lock
             /\ UNCHANGED <<itable, loc>>
  /\ UNCHANGED <<fsVars, procVars, events, history>>

\* itrunc(), type = 0 and iupdate().
PutFree(t) ==
  /\ At(t, "put_free")
  /\ LET i == Head(loc[t].puts)
         ino == itable[i].ino
     IN /\ disk' = OnDisk(Bfreed(disk, ino.addr), i, FreeDinode)
        /\ itable' = Cached(itable, i, FreeDinode)
        /\ Goto(t, IF ino.addr \in disk.used \cup {NoBlock} THEN "put_inval"
                   ELSE "panic")               \* "freeing free block"
  /\ UNCHANGED <<committed, lock, procVars, loc, events, history>>

PutInval(t) ==
  /\ At(t, "put_inval")
  /\ itable' = [itable EXCEPT ![Head(loc[t].puts)].valid = FALSE]
  /\ Unlocked(Head(loc[t].puts))
  /\ Goto(t, "put_drop")
  /\ UNCHANGED <<fsVars, procVars, loc, events, history>>

PutDrop(t) ==
  /\ At(t, "put_drop")
  /\ Drop(t)
  /\ UNCHANGED <<fsVars, lock, procVars, events, history>>

Iput(t) == Put(t) \/ PutFree(t) \/ PutInval(t) \/ PutDrop(t)

-----------------------------------------------------------------------------
(* namex(), namei(), nameiparent() *)

\* skipelem(): how many slashes, or other characters, path p starts with,
\* what follows the slashes, its first name, and what follows that.
Run(p, slashes) ==
  CHOOSE n \in 0..Len(p) : /\ \A k \in 1..n : (p[k] = "/") = slashes
                           /\ n < Len(p) => (p[n + 1] = "/") # slashes
NoSlash(p) == SubSeq(p, Run(p, TRUE) + 1, Len(p))
Elem(p) == IF Run(p, FALSE) = 1 THEN p[1] ELSE Junk
Rest(p) == NoSlash(SubSeq(p, Run(p, FALSE) + 1, Len(p)))

\* The start of a walk along path p: the table, and the locals.
From(t, p) == IF Head(p) = "/" THEN ROOTINO ELSE cwd[t]
StartWalk(t, r, p, parent, ret, bad) ==
  /\ itable' = Get(itable, From(t, p))
  /\ Go(t, "walk", [r EXCEPT !.path = NoSlash(p),
                             !.parent = parent, !.ip = From(t, p),
                             !.ret = ret, !.bad = bad])

\* namex fails: iput of the inode it has come to.
WalkFails(t) == LET r == loc[t]
                IN PutThen(t, [r EXCEPT !.ip = NoInode], <<r.ip>>, r.bad)

WalkEnd(t) ==
  /\ At(t, "walk")
  /\ loc[t].path = <<>>
  /\ IF loc[t].parent THEN WalkFails(t) ELSE Goto(t, loc[t].ret) /\ UNCHANGED loc
  /\ UNCHANGED <<fsVars, tableVars, procVars, events, history>>

\* One element of the path: ilock, dirlookup, iunlock.
WalkOn(t) ==
  LET r == loc[t]
      ino == Ino(r.ip)
      name == Elem(r.path)
      atparent == r.parent /\ Rest(r.path) = <<>>
      next == Lookup(ino, name)
      tab == Cached(itable, r.ip, ino)
      found == [r EXCEPT !.ip = next, !.path = Rest(@)]
  IN \/ /\ ino.type # "dir" \/ (~atparent /\ next = NoInode)
        /\ itable' = tab
        /\ WalkFails(t)
        /\ UNCHANGED strayed
     \/ /\ ino.type = "dir"
        /\ atparent
        /\ itable' = tab
        /\ Go(t, r.ret, [r EXCEPT !.dp = r.ip, !.ip = NoInode, !.name = name])
        /\ UNCHANGED strayed
     \/ /\ ino.type = "dir"
        /\ ~atparent
        /\ next # NoInode
        /\ itable' = Get(tab, next)
        /\ strayed' = (strayed \/ (Removed(ino) /\ name = ".."))
        /\ PutThen(t, found, <<r.ip>>, "walk")

Walk(t) ==
  /\ At(t, "walk")
  /\ loc[t].path # <<>>
  /\ Free(loc[t].ip)
  /\ \/ Ino(loc[t].ip).type = "none" /\ Panic(t)      \* "ilock: no type"
     \/ /\ Ino(loc[t].ip).type # "none"
        /\ WalkOn(t)
        /\ UNCHANGED <<fsVars, lock, procVars, events, orphans, dropped>>

Namex(t) == WalkEnd(t) \/ Walk(t)

-----------------------------------------------------------------------------
(* System calls: begin_op, end_op and what is common to them *)

Makes == {"creat", "mkdir", "symlink"}          \* the callers of create()
TypeMade(call) == CASE call = "creat"   -> "file"
                    [] call = "mkdir"   -> "dir"
                    [] call = "symlink" -> "symlink"

\* The label after the first walk of a call.
AfterWalk(call) == IF call \in Makes THEN "create"
                   ELSE IF call = "trunc" THEN "open" ELSE call

Counted == events < MaxEvents /\ events' = events + 1

\* begin_op()
Begins(t) == /\ At(t, "idle")
             /\ Counted
             /\ inop' = inop \cup {t}

\* The calls with a path: p, and q for the second argument.  sys_open walks
\* along links from the buffer that p is in.
Call(t, call, p, q) ==
  /\ Begins(t)
  /\ StartWalk(t, [NoLocals EXCEPT !.call = call,
                                  !.arg = IF call \in {"open", "trunc"} THEN p ELSE q], p,
               call \in Makes \cup {"unlink"}, AfterWalk(call), "end")
  /\ UNCHANGED <<fsVars, lock, cwd, ofile, history>>

Commit_Early(t) == disk
Commit(t) == IF inop = {t} THEN disk ELSE committed

\* end_op(): the last call to end commits what all of them wrote.
End(t) ==
  /\ At(t, "end")
  /\ committed' = Commit(t)
  /\ inop' = inop \ {t}
  /\ Go(t, "idle", NoLocals)
  /\ UNCHANGED <<disk, tableVars, cwd, ofile, events, history>>

\* iunlockput(ip), the table being tab, and the call is over.
GiveUp(t, r, tab) ==
  /\ itable' = tab
  /\ PutThen(t, [r EXCEPT !.ip = NoInode], <<r.ip>>, "end")

ParentUnlocked_Not(t) == UNCHANGED lock
ParentUnlocked(t) == Unlocked(loc[t].dp)

\* iunlockput(dp) after an error.
UnlockParent(t) ==
  /\ At(t, "unlock_dp")
  /\ ParentUnlocked(t)
  /\ PutThen(t, [loc[t] EXCEPT !.dp = NoInode], <<loc[t].dp>>,
             IF loc[t].call = "link" THEN "link_bad" ELSE "end")
  /\ UNCHANGED <<fsVars, itable, procVars, events, history>>

-----------------------------------------------------------------------------
(* create() *)

\* ilock(dp) and dirlookup.
Create(t) ==
  /\ At(t, "create")
  /\ Free(loc[t].dp)
  /\ LET r == loc[t]
         ino == Ino(r.dp)
         i == Lookup(ino, r.name)
         tab == Cached(itable, r.dp, ino)
     IN \/ ino.type # "dir" /\ Panic(t)           \* ilock, dirlookup
        \/ /\ ino.type = "dir" /\ i # NoInode
           /\ itable' = Get(tab, i)
           /\ strayed' = (strayed \/ (Removed(ino) /\ r.name = ".."))
           /\ PutThen(t, [r EXCEPT !.ip = i, !.dp = NoInode], <<r.dp>>,
                      "create_found")
           /\ UNCHANGED <<fsVars, lock, procVars, events, orphans, dropped>>
        \/ /\ ino.type = "dir" /\ i = NoInode
           /\ itable' = tab
           /\ Locked(t, r.dp)
           /\ Goto(t, "create_alloc")
           /\ strayed' = (strayed \/ Removed(ino))
           /\ UNCHANGED <<fsVars, procVars, loc, events, orphans, dropped>>

CreateFound(t) ==
  /\ At(t, "create_found")
  /\ Free(loc[t].ip)
  /\ LET r == loc[t]
         ino == Ino(r.ip)
     IN \/ ino.type = "none" /\ Panic(t)
        \/ /\ ino.type # "none"
           /\ r.call # "mkdir" /\ ino.type = TypeMade(r.call)
           /\ itable' = Cached(itable, r.ip, ino)
           /\ Locked(t, r.ip)
           /\ Goto(t, IF r.call = "creat" THEN "opened" ELSE "symlink_write")
           /\ UNCHANGED <<fsVars, procVars, loc, events, history>>
        \/ /\ ino.type # "none"
           /\ r.call = "mkdir" \/ ino.type # TypeMade(r.call)
           /\ GiveUp(t, r, Cached(itable, r.ip, ino))
           /\ UNCHANGED <<fsVars, lock, procVars, events, history>>

\* ialloc(): the first inode that is free on disk, if any.
CreateAlloc(t) ==
  /\ At(t, "create_alloc")
  /\ LET r == loc[t]
         free == {i \in Inodes : disk.inode[i].type = "none"}
         i == Smallest(free)
     IN \/ /\ free # {}
           /\ disk' = OnDisk(disk, i, Dinode(TypeMade(r.call), 0, NoBlock))
           /\ Go(t, "create_get", [r EXCEPT !.inum = i])
           /\ UNCHANGED lock
        \/ /\ free = {}
           /\ Unlocked(r.dp)
           /\ PutThen(t, [r EXCEPT !.dp = NoInode], <<r.dp>>, "end")
           /\ UNCHANGED disk
  /\ UNCHANGED <<committed, itable, procVars, events, history>>

CreateGet(t) ==
  /\ At(t, "create_get")
  /\ itable' = Get(itable, loc[t].inum)
  /\ Go(t, "create_fill", [loc[t] EXCEPT !.ip = loc[t].inum, !.inum = NoInode])
  /\ UNCHANGED <<fsVars, lock, procVars, events, history>>

\* From ilock(ip) on.  A directory needs a block for "." and "..".
CreateFill(t) ==
  /\ At(t, "create_fill")
  /\ Free(loc[t].ip)
  /\ LET r == loc[t]
         type == Ino(r.ip).type
         isdir == r.call = "mkdir"
         b == IF isdir THEN Smallest(Unused(disk)) ELSE NoBlock
         new == Dinode(type, 1, b)
         dir == Ino(r.dp)
         dirnew == [dir EXCEPT !.nlink = IF isdir THEN @ + 1 ELSE @]
         blocks == IF isdir
                   THEN Linked(Linked(Ballocd(disk, b), new, ".", r.ip),
                               new, "..", r.dp)
                   ELSE disk
         failed == Dinode(type, 0, NoBlock)
     IN \/ type = "none" /\ Panic(t)
        \/ /\ type # "none"
           /\ ~isdir \/ Unused(disk) # {}
           /\ disk' = OnDisk(OnDisk(Linked(blocks, dir, r.name, r.ip),
                                    r.ip, new), r.dp, dirnew)
           /\ itable' = Cached(Cached(itable, r.ip, new), r.dp, dirnew)
           /\ lock' = [lock EXCEPT ![r.dp] = Nobody, ![r.ip] = t]
           /\ PutThen(t, [r EXCEPT !.dp = NoInode], <<r.dp>>, "created")
           /\ UNCHANGED <<committed, procVars, events, history>>
        \/ /\ type # "none"
           /\ isdir /\ Unused(disk) = {}
           /\ disk' = OnDisk(disk, r.ip, failed)
           /\ itable' = Cached(itable, r.ip, failed)
           /\ PutThen(t, [r EXCEPT !.ip = NoInode], <<r.ip>>, "unlock_dp")
           /\ UNCHANGED <<committed, lock, procVars, events, history>>

\* create() returns the inode locked; sys_mkdir lets go of it.
Created(t) ==
  /\ At(t, "created")
  /\ IF loc[t].call = "mkdir"
     THEN Unlocked(loc[t].ip) /\ GiveUp(t, loc[t], itable)
     ELSE /\ Goto(t, IF loc[t].call = "creat" THEN "opened" ELSE "symlink_write")
          /\ UNCHANGED <<tableVars, loc>>
  /\ UNCHANGED <<fsVars, procVars, events, history>>

\* writei() and readi() of path p, without an end, over path q.
Over(p, q) == p \o SubSeq(q, Len(p) + 1, Len(q))

\* sys_symlink: writei of the path, which panics when no block is left.
SymlinkWrite(t) ==
  /\ At(t, "symlink_write")
  /\ LET r == loc[t]
         ino == Ino(r.ip)
         b == IF ino.addr # NoBlock THEN ino.addr ELSE Smallest(Unused(disk))
         new == [ino EXCEPT !.addr = b]
         d == IF ino.addr # NoBlock THEN disk ELSE Ballocd(disk, b)
     IN \/ /\ ino.addr # NoBlock \/ Unused(disk) # {}
           /\ disk' = [OnDisk(d, r.ip, new) EXCEPT !.target[b] = Over(r.arg, @)]
           /\ Unlocked(r.ip)
           /\ GiveUp(t, r, Cached(itable, r.ip, new))
           /\ UNCHANGED <<committed, procVars, events, history>>
        \/ /\ ino.addr = NoBlock /\ Unused(disk) = {}
           /\ Goto(t, "full")
           /\ UNCHANGED <<fsVars, tableVars, procVars, loc, events, history>>

-----------------------------------------------------------------------------
(* sys_open, sys_chdir, filewrite, fileclose *)

\* What is in sys_open's buffer once the target p of a link has been read over
\* the path q: a longer target may end in what the stack held.
ReadOver(p, q) == IF Len(p) <= Len(q) THEN {Over(p, q)} ELSE {p, p \o <<Junk>>}

\* From ilock(ip) on; the test for a directory comes before any link is read.
Open(t) ==
  /\ At(t, "open")
  /\ Free(loc[t].ip)
  /\ LET r == loc[t]
         ino == Ino(r.ip)
         tab == Cached(itable, r.ip, ino)
     IN \/ ino.type = "none" /\ Panic(t)
        \/ ino.type = "symlink" /\ ino.addr = NoBlock /\ Panic(t)   \* "open: readi"
        \/ /\ ino.type = "dir" /\ r.call = "trunc" /\ r.depth = 0
           /\ GiveUp(t, r, tab)
           /\ UNCHANGED <<fsVars, lock, procVars, events, history>>
        \/ /\ ino.type = "symlink" /\ ino.addr # NoBlock
           /\ itable' = tab
           /\ \E p \in ReadOver(disk.target[ino.addr], r.arg) :
                PutThen(t, [r EXCEPT !.ip = NoInode, !.arg = p], <<r.ip>>, "open_link")
           /\ UNCHANGED <<fsVars, lock, procVars, events, history>>
        \/ /\ ino.type = "file" \/ (ino.type = "dir"
                                      /\ ~(r.call = "trunc" /\ r.depth = 0))
           /\ itable' = tab
           /\ Locked(t, r.ip)
           /\ Goto(t, "opened")
           /\ UNCHANGED <<fsVars, procVars, loc, events, history>>

OpenLink(t) ==
  /\ At(t, "open_link")
  /\ StartWalk(t, loc[t], loc[t].arg, FALSE,
               "open_next", "end")
  /\ UNCHANGED <<fsVars, lock, procVars, events, history>>

\* Too many links: the call ends, and keeps the reference to the last inode.
OpenNext(t) ==
  /\ At(t, "open_next")
  /\ LET r == loc[t]
     IN \/ /\ r.depth = MAXSYMLINKDEPTH
           /\ dropped' = [dropped EXCEPT ![r.ip] = @ + 1]
           /\ Go(t, "end", [r EXCEPT !.ip = NoInode])
        \/ /\ r.depth # MAXSYMLINKDEPTH
           /\ Go(t, "open", [r EXCEPT !.depth = @ + 1])
           /\ UNCHANGED dropped
  /\ UNCHANGED <<fsVars, tableVars, procVars, events, orphans, strayed>>

\* filealloc, fdalloc and itrunc; or no descriptor is left.
Opened(t) ==
  /\ At(t, "opened")
  /\ LET r == loc[t]
         ino == itable[r.ip].ino
         new == [ino EXCEPT !.addr = NoBlock]
     IN \/ /\ ofile[t] # NoFile
           /\ GiveUp(t, r, itable)
           /\ UNCHANGED <<disk, ofile>>
        \/ /\ ofile[t] = NoFile
           /\ ofile' = [ofile EXCEPT ![t] = [ip |-> r.ip,
                                             writable |-> r.call # "open"]]
           /\ Go(t, "end", [r EXCEPT !.ip = NoInode])
           /\ IF r.call = "trunc" /\ ino.type = "file"
              THEN /\ disk' = OnDisk(Bfreed(disk, ino.addr), r.ip, new)
                   /\ itable' = Cached(itable, r.ip, new)
              ELSE UNCHANGED <<disk, itable>>
     /\ Unlocked(r.ip)
  /\ UNCHANGED <<committed, cwd, inop, events, history>>

\* The current directory is the process's own: nobody sees when it changes.
Chdir(t) ==
  /\ At(t, "chdir")
  /\ Free(loc[t].ip)
  /\ LET r == loc[t]
         ino == Ino(r.ip)
         tab == Cached(itable, r.ip, ino)
     IN \/ ino.type = "none" /\ Panic(t)
        \/ /\ ino.type = "dir"
           /\ itable' = tab
           /\ cwd' = [cwd EXCEPT ![t] = r.ip]
           /\ PutThen(t, [r EXCEPT !.ip = NoInode], <<cwd[t]>>, "end")
           /\ UNCHANGED <<fsVars, lock, ofile, inop, events, history>>
        \/ /\ ino.type \in {"file", "symlink"}
           /\ GiveUp(t, r, tab)
           /\ UNCHANGED <<fsVars, lock, procVars, events, history>>

\* filewrite to a file: begin_op, ilock, writei, iunlock, end_op.
BeginWrite(t) ==
  /\ Begins(t)
  /\ ofile[t].writable
  /\ disk.inode[ofile[t].ip].type = "file"
  /\ Go(t, "write", [NoLocals EXCEPT !.call = "write"])
  /\ UNCHANGED <<fsVars, tableVars, cwd, ofile, history>>

Write(t) ==
  /\ At(t, "write")
  /\ Free(ofile[t].ip)
  /\ LET i == ofile[t].ip
         ino == Ino(i)
         grows == ino.addr = NoBlock /\ Unused(disk) # {}
         b == Smallest(Unused(disk))
         new == IF grows THEN [ino EXCEPT !.addr = b] ELSE ino
     IN \/ ino.type = "none" /\ Panic(t)
        \/ /\ ino.type # "none"
           /\ itable' = Cached(itable, i, new)
           /\ disk' = OnDisk(IF grows THEN Ballocd(disk, b) ELSE disk, i, new)
           /\ Goto(t, "end")
           /\ UNCHANGED <<committed, lock, procVars, loc, events, history>>

\* sys_close of the descriptor, and fileclose's begin_op.
Close(t) ==
  /\ Begins(t)
  /\ ofile[t] # NoFile
  /\ ofile' = [ofile EXCEPT ![t] = NoFile]
  /\ PutThen(t, [NoLocals EXCEPT !.call = "close"], <<ofile[t].ip>>, "end")
  /\ UNCHANGED <<fsVars, tableVars, cwd, history>>

-----------------------------------------------------------------------------
(* sys_link *)

\* The link is counted first, then the new path is looked up.
Link(t) ==
  /\ At(t, "link")
  /\ Free(loc[t].ip)
  /\ LET r == loc[t]
         ino == Ino(r.ip)
         new == [ino EXCEPT !.nlink = @ + 1]
     IN \/ ino.type = "none" /\ Panic(t)
        \/ /\ ino.type = "dir"
           /\ GiveUp(t, r, Cached(itable, r.ip, ino))
           /\ UNCHANGED <<fsVars, lock, procVars, events, history>>
        \/ /\ ino.type \in {"file", "symlink"}
           /\ disk' = OnDisk(disk, r.ip, new)
           /\ itable' = Cached(itable, r.ip, new)
           /\ Go(t, "link_path", [r EXCEPT !.old = r.ip, !.ip = NoInode])
           /\ UNCHANGED <<committed, lock, procVars, events, history>>

LinkPath(t) ==
  /\ At(t, "link_path")
  /\ StartWalk(t, loc[t], loc[t].arg, TRUE, "link_dir", "link_bad")
  /\ UNCHANGED <<fsVars, lock, procVars, events, history>>

\* ilock(dp) and dirlink, which looks for the name first.
LinkDir(t) ==
  /\ At(t, "link_dir")
  /\ Free(loc[t].dp)
  /\ LET r == loc[t]
         ino == Ino(r.dp)
         i == Lookup(ino, r.name)
         tab == Cached(itable, r.dp, ino)
     IN \/ ino.type # "dir" /\ Panic(t)
        \/ /\ ino.type = "dir" /\ i = NoInode
           /\ disk' = Linked(disk, ino, r.name, r.old)
           /\ itable' = tab
           /\ strayed' = (strayed \/ Removed(ino))
           /\ PutThen(t, [r EXCEPT !.dp = NoInode, !.old = NoInode],
                      <<r.dp, r.old>>, "end")
           /\ UNCHANGED <<committed, lock, procVars, events, orphans, dropped>>
        \/ /\ ino.type = "dir" /\ i # NoInode
           /\ itable' = Get(tab, i)
           /\ Locked(t, r.dp)
           /\ strayed' = (strayed \/ (Removed(ino) /\ r.name = ".."))
           /\ PutThen(t, r, <<i>>, "unlock_dp")
           /\ UNCHANGED <<fsVars, procVars, events, orphans, dropped>>

LinkBad(t) ==
  /\ At(t, "link_bad")
  /\ Free(loc[t].old)
  /\ LET r == loc[t]
         ino == Ino(r.old)
         new == [ino EXCEPT !.nlink = @ - 1]
     IN /\ disk' = OnDisk(disk, r.old, new)
        /\ itable' = Cached(itable, r.old, new)
        /\ PutThen(t, [r EXCEPT !.old = NoInode], <<r.old>>, "end")
  /\ UNCHANGED <<committed, lock, procVars, events, history>>

-----------------------------------------------------------------------------
(* sys_unlink *)

Unlink(t) ==
  /\ At(t, "unlink")
  /\ Free(loc[t].dp)
  /\ LET r == loc[t]
         ino == Ino(r.dp)
         i == IF r.name \in Names THEN Lookup(ino, r.name) ELSE NoInode
         tab == Cached(itable, r.dp, ino)
     IN \/ ino.type # "dir" /\ Panic(t)
        \/ /\ ino.type = "dir" /\ i = NoInode
           /\ itable' = tab
           /\ PutThen(t, [r EXCEPT !.dp = NoInode], <<r.dp>>, "end")
           /\ UNCHANGED lock
           /\ UNCHANGED <<fsVars, procVars, events, history>>
        \/ /\ ino.type = "dir" /\ i # NoInode
           /\ itable' = Get(tab, i)
           /\ Locked(t, r.dp)
           /\ Go(t, "unlink_lock", [r EXCEPT !.ip = i])
           /\ UNCHANGED <<fsVars, procVars, events, history>>

IsDirEmpty(ino) == \A n \in Names : Lookup(ino, n) = NoInode

\* From ilock(ip) on: the entry goes, dp is let go of, ip stays locked.
UnlinkLock(t) ==
  /\ At(t, "unlink_lock")
  /\ Free(loc[t].ip)
  /\ LET r == loc[t]
         ino == Ino(r.ip)
         tab == Cached(itable, r.ip, ino)
         isdir == ino.type = "dir"
         dir == Ino(r.dp)
         dirnew == [dir EXCEPT !.nlink = IF isdir THEN @ - 1 ELSE @]
     IN \/ (ino.type = "none" \/ ino.nlink < 1) /\ Panic(t)
        \/ /\ ino.type # "none" /\ ino.nlink >= 1
           /\ isdir /\ ~IsDirEmpty(ino)
           /\ itable' = tab
           /\ PutThen(t, [r EXCEPT !.ip = NoInode], <<r.ip>>, "unlock_dp")
           /\ UNCHANGED <<fsVars, lock, procVars, events, history>>
        \/ /\ ino.type # "none" /\ ino.nlink >= 1
           /\ ~(isdir /\ ~IsDirEmpty(ino))
           /\ disk' = OnDisk(Linked(disk, dir, r.name, NoInode), r.dp, dirnew)
           /\ itable' = Cached(tab, r.dp, dirnew)
           /\ lock' = [lock EXCEPT ![r.dp] = Nobody, ![r.ip] = t]
           /\ PutThen(t, [r EXCEPT !.dp = NoInode], <<r.dp>>, "unlink_last")
           /\ UNCHANGED <<committed, procVars, events, history>>

UnlinkLast(t) ==
  /\ At(t, "unlink_last")
  /\ LET r == loc[t]
         new == [itable[r.ip].ino EXCEPT !.nlink = @ - 1]
     IN /\ disk' = OnDisk(disk, r.ip, new)
        /\ Unlocked(r.ip)
        /\ GiveUp(t, r, Cached(itable, r.ip, new))
  /\ UNCHANGED <<committed, procVars, events, history>>

-----------------------------------------------------------------------------
(* The machine stops and starts again; recovery installs what is committed. *)

Crash ==
  /\ Counted
  /\ disk' = committed
  /\ itable' = BootTable
  /\ lock' = [i \in Inodes |-> Nobody]
  /\ cwd' = [t \in Procs |-> ROOTINO]
  /\ ofile' = [t \in Procs |-> NoFile]
  /\ inop' = {}
  /\ pc' = [t \in Procs |-> "idle"]
  /\ loc' = [t \in Procs |-> NoLocals]
  /\ orphans' = {i \in Inodes : /\ committed.inode[i].type # "none"
                                /\ committed.inode[i].nlink = 0}
  /\ dropped' = [i \in Inodes |-> 0]
  /\ UNCHANGED <<committed, strayed>>

Step(t) ==
  \/ End(t) \/ UnlockParent(t) \/ Iput(t) \/ Namex(t)
  \/ Create(t) \/ CreateFound(t) \/ CreateAlloc(t) \/ CreateGet(t)
  \/ CreateFill(t) \/ Created(t) \/ SymlinkWrite(t)
  \/ Open(t) \/ OpenLink(t) \/ OpenNext(t) \/ Opened(t)
  \/ Chdir(t) \/ Write(t)
  \/ Link(t) \/ LinkPath(t) \/ LinkDir(t) \/ LinkBad(t)
  \/ Unlink(t) \/ UnlinkLock(t) \/ UnlinkLast(t)

NewCall(t) == \/ \E q \in Requests : Call(t, q[1], q[2], q[3])
              \/ BeginWrite(t)
              \/ Close(t)

Next == Crash \/ \E t \in Procs : Step(t) \/ NewCall(t)

Spec == Init /\ [][Next]_vars
\* A process that is in a call is scheduled again and again.
FairSpec == Spec /\ \A t \in Procs : WF_vars(Step(t))

-----------------------------------------------------------------------------
(* Properties *)

\* The pointers to inodes that process t holds.
Pointers(t) == <<cwd[t], ofile[t].ip, loc[t].ip, loc[t].dp, loc[t].old>>
                  \o loc[t].puts

(***************************************************************************)
(* "ip->ref tracks the number of in-memory pointers to the entry" (fs.c):  *)
(* current directories, open files and the pointers of the calls under way *)
(* -- apart from those sys_open drops when links lead to links for ever.   *)
(***************************************************************************)
RefIsPointers ==
  \A i \in Inodes :
     itable[i].ref = dropped[i]
       + Cardinality({x \in Procs \X (1..7) : /\ x[2] \in DOMAIN Pointers(x[1])
                                             /\ Pointers(x[1])[x[2]] = i})

(***************************************************************************)
(* "iput() frees if the reference and link counts have fallen to zero": an *)
(* inode without a link is in use or about to be, unless a crash came      *)
(* before its last user let go of it; nothing looks for those at boot.     *)
(***************************************************************************)
NothingLost ==
  \A i \in Inodes :
     (disk.inode[i].type # "none" /\ disk.inode[i].nlink = 0)
        => \/ itable[i].ref > 0
           \/ i \in orphans
           \/ \E t \in Procs : loc[t].inum = i

Allocated(d) == {i \in Inodes : d.inode[i].type # "none"}
\* The entries, "." aside, of the directories that have a link.
EntriesOf(d) ==
  {e \in Inodes \X (Entries \ {"."}) :
     LET ino == d.inode[e[1]]
     IN /\ ino.type = "dir" /\ ino.nlink > 0
        /\ d.ents[ino.addr][e[2]] # NoInode}
Named(d, e) == d.ents[d.inode[e[1]].addr][e[2]]
Consistent(d) ==
  /\ \A e \in EntriesOf(d) : Named(d, e) \in Allocated(d)
  /\ \A i \in Allocated(d) :
       d.inode[i].nlink = Cardinality({e \in EntriesOf(d) : Named(d, e) = i})
  /\ \A i, j \in Allocated(d) :
       (i # j /\ d.inode[i].addr # NoBlock) => d.inode[i].addr # d.inode[j].addr
  /\ d.used = {d.inode[i].addr : i \in Allocated(d)} \ {NoBlock}

(***************************************************************************)
(* What a crash leaves at any moment is a file system: every entry of a    *)
(* directory names an allocated inode, an inode's link count is the number *)
(* of entries that name it, and each block in use is some inode's, one's   *)
(* only.  An entry in a directory that was removed takes that away.        *)
(***************************************************************************)
CrashConsistent == strayed \/ Consistent(committed)

(***************************************************************************)
(* No panic of fs.c and sysfile.c: an inode that is locked has a type,     *)
(* what is searched is a directory, what is unlinked has a link, what is   *)
(* freed was in use, and iput never sleeps with itable.lock.               *)
(***************************************************************************)
NoPanic == strayed \/ \A t \in Procs : ~At(t, "panic")

Stopped == \E t \in Procs : pc[t] \in {"panic", "full"}
(***************************************************************************)
(* Every call comes to its end although calls hold one inode's lock while  *)
(* they wait for another's: no cycle of waiting arises.                    *)
(***************************************************************************)
EveryCallReturns ==
  \A t \in Procs : ~At(t, "idle") ~> (At(t, "idle") \/ Stopped)
=============================================================================
