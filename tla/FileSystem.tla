----------------------------- MODULE FileSystem -----------------------------
(***************************************************************************)
(* The file system of filesys/file_system.cpp: a tree of files and         *)
(* directories on a disk of blocks, served by one thread per request.      *)
(*                                                                         *)
(* A request walks down its path hand over hand with shared locks, locks   *)
(* the inode it works on (upgradeable unless it only reads), checks it,    *)
(* prepares new blocks, upgrades to an exclusive lock and commits with one *)
(* block write.  A step below is one critical section or one wait for a    *)
(* lock; reads of the disk are part of the step that uses them, under the  *)
(* lock that keeps what they read from changing.  A crash may happen       *)
(* between any two steps; the restarted server computes the free list from *)
(* the disk.                                                               *)
(***************************************************************************)
EXTENDS Naturals, FiniteSets, Queues

CONSTANTS
    Requests,          \* the requests, each served once by its own thread
    Commands,          \* what they may ask for
    Names,             \* names of files and directories
    Users,             \* user names
    Data,              \* contents of a data block
    Images,            \* the disks the server may be started on
    FS_DISKSIZE,       \* blocks of the disk
    FS_DIRENTRIES,     \* direntries in one block
    FS_MAXFILEBLOCKS,  \* blocks of a file or directory
    MaxDepth,          \* bound: names in a pathname
    NoName,            \* name of an unused direntry
    NoUser,            \* owner of the root directory
    NoData             \* contents of a block that is no data block

Blocks == 0 .. FS_DISKSIZE - 1
ROOT_INODE == 0
UNDEFINED_BLOCK == FS_DISKSIZE + 1

Slots == 1 .. FS_DIRENTRIES
Paths == UNION {[1 .. n -> Names] : n \in 1 .. MaxDepth}
AllCommands ==
    [op : {"read"}, username : Users, pathname : Paths, block : 0 .. FS_MAXFILEBLOCKS - 1]
      \cup [op : {"write"}, username : Users, pathname : Paths,
            block : 0 .. FS_MAXFILEBLOCKS - 1, data : Data]
      \cup [op : {"create"}, username : Users, pathname : Paths, type : {"f", "d"}]
      \cup [op : {"delete"}, username : Users, pathname : Paths]

ASSUME FileSystemAssumption ==
    /\ FS_DISKSIZE \in Nat \ {0} /\ FS_DIRENTRIES \in Nat \ {0}
    /\ FS_MAXFILEBLOCKS \in Nat \ {0} /\ MaxDepth \in Nat \ {0}
    /\ Commands \subseteq AllCommands
    /\ NoName \notin Names /\ NoUser \notin Users /\ NoData \notin Data

(* Finitely many connections have been made. *)
ASSUME RequestsAssumption == IsFiniteSet(Requests)

VARIABLES
    disk,             \* the blocks of the disk, see Content
    free_block_list,  \* the queue of unused blocks
    lock_map,         \* the lock of each inode, NoLock if it has none
    req               \* what the thread of each request is at, see NewRequest

vars == <<disk, free_block_list, lock_map, req>>

(***************************************************************************)
(* A block holds an inode, the direntries of a directory, or data.  (It    *)
(* holds bytes: what it was last written as is kept with it, so that a     *)
(* read of a block as something else shows.)                               *)
(***************************************************************************)
InodeBlock(type, owner, blocks) ==
    [kind |-> "inode", type |-> type, owner |-> owner, blocks |-> blocks]
DirBlock(entries) == [kind |-> "dir", entries |-> entries]
DataBlock(d) == [kind |-> "data", data |-> d]

Unused == [name |-> NoName, inode_block |-> 0]
NoEntries == [j \in Slots |-> Unused]
Garbage == InodeBlock("?", NoUser, <<>>)

(* disk_readblock into an inode, an array of direntries, a buffer *)
Inode(d, b) == IF d[b].kind = "inode" THEN d[b] ELSE Garbage
Entries(d, b) == IF d[b].kind = "dir" THEN d[b].entries ELSE NoEntries
DataIn(d, b) == IF d[b].kind = "data" THEN d[b].data ELSE NoData

(* The direntries of a directory inode, by place: block i of the inode,    *)
(* entry j of the block.  Loops over them take the first place.            *)
Places(I) == (DOMAIN I.blocks) \X Slots
EntryAt(d, I, ij) == Entries(d, I.blocks[ij[1]])[ij[2]]
First(places) == CHOOSE ij \in places : \A kl \in places :
                    ij[1] < kl[1] \/ (ij[1] = kl[1] /\ ij[2] <= kl[2])
Named(d, I, name) == {ij \in Places(I) : /\ EntryAt(d, I, ij).inode_block # 0
                                         /\ EntryAt(d, I, ij).name = name}

-----------------------------------------------------------------------------
(* The constructor: blocks reachable from the root are in use.             *)

Children(d, I) == {EntryAt(d, I, ij).inode_block : ij \in Places(I)} \ {0}

(* Breadth-first search: one level more, and the inodes at most n          *)
(* directories away from the root, for every n.                            *)
Further(d, nearer) ==
    nearer \cup UNION {Children(d, Inode(d, x)) : x \in {y \in nearer : Inode(d, y).type = "d"}}

Near(d) ==
    LET near[n \in 0 .. FS_DISKSIZE] ==
          IF n = 0 THEN {ROOT_INODE} ELSE Further(d, near[n - 1])
    IN  near

InodesOf(d) == Near(d)[FS_DISKSIZE]

find_free_blocks(d) ==
    LET inodes == InodesOf(d) IN inodes \cup UNION {ToSet(Inode(d, x).blocks) : x \in inodes}

FreeBlocks(d) ==
    LET used_file_blocks == find_free_blocks(d)
    IN  Filter([i \in 1 .. FS_DISKSIZE |-> i - 1], Blocks \ used_file_blocks)

(* GyattLock: a boost::shared_mutex and the number of its users. *)
NoLock == [num_readers |-> 0, shared |-> 0, upgrade |-> FALSE, exclusive |-> FALSE]

(***************************************************************************)
(* A request, with the local variables of its handler: the inode it has    *)
(* locked (curr) and the one it goes on to (next); the copy of curr's      *)
(* inode; a block of direntries to be written, its number dir and its      *)
(* place in the inode; a new block; blocks to be freed; the data read.     *)
(***************************************************************************)
NewRequest ==
    [pc |-> "new", command |-> [op |-> "none"], depth |-> 0, curr |-> UNDEFINED_BLOCK,
     next |-> UNDEFINED_BLOCK, inode |-> Garbage, place |-> <<0, 0>>, entries |-> NoEntries,
     dir |-> UNDEFINED_BLOCK, new |-> UNDEFINED_BLOCK, grows |-> FALSE, tofree |-> <<>>,
     data |-> NoData]

Init ==
    /\ disk \in Images
    /\ free_block_list = FreeBlocks(disk)
    /\ lock_map = [b \in Blocks |-> NoLock]
    /\ req = [r \in Requests |-> NewRequest]

-----------------------------------------------------------------------------
(* Locks.                                                                  *)

(* The first halves of lock_inode_read and lock_inode_upgrade: the lock is *)
(* created if it does not exist, and has one more user.                    *)
Registered(b) == [lock_map EXCEPT ![b].num_readers = @ + 1]

(* boost::shared_mutex: lock_shared, lock_upgrade, unlock_upgrade_and_lock *)
CanLock(b, mode) == ~lock_map[b].exclusive /\ (mode = "upgrade" => ~lock_map[b].upgrade)
Locked(b, mode) == IF mode = "shared" THEN [lock_map EXCEPT ![b].shared = @ + 1]
                   ELSE [lock_map EXCEPT ![b].upgrade = TRUE]

(* Mutant: the upgrade does not wait for the readers. *)
UpgradeAtOnceMutant(b) == TRUE

CanUpgrade(b) == lock_map[b].shared = 0

(* Mutant: the upgradeable lock is given up and no other taken. *)
NotLockedMutant(b) == [lock_map EXCEPT ![b].upgrade = FALSE]

Upgraded(b) == [lock_map EXCEPT ![b].upgrade = FALSE, ![b].exclusive = TRUE]

LastUser(l) == l.num_readers = 1

(* unlock_inode_read, unlock_inode_upgrade, unlock_inode_write: the last   *)
(* user erases the lock.                                                   *)
Unlocked(locks, b, mode) ==
    [locks EXCEPT ![b] =
       IF LastUser(@) THEN NoLock
       ELSE [num_readers |-> @.num_readers - 1,
             shared |-> IF mode = "shared" THEN @.shared - 1 ELSE @.shared,
             upgrade |-> @.upgrade /\ mode # "upgrade",
             exclusive |-> @.exclusive /\ mode # "exclusive"]]

(* A handler returns, or throws. *)
Ends(r, outcome, data) ==
    req' = [req EXCEPT ![r] = [NewRequest EXCEPT !.pc = outcome, !.data = data]]

Throws(r, mode) ==
    /\ lock_map' = Unlocked(lock_map, req[r].curr, mode)
    /\ Ends(r, "failed", NoData)
    /\ UNCHANGED <<disk, free_block_list>>

Goes(r, pc) == req' = [req EXCEPT ![r].pc = pc]

-----------------------------------------------------------------------------
(* The walk down the path: find_parent_inode, find_next_inode, and         *)
(* get_parent_inode_and_upgradeable_lock.                                  *)

(* How many names of the path lead to the inode a handler works on: the    *)
(* target of a read or write, the parent directory of a create or delete.  *)
WalkLength(c) == IF c.op \in {"read", "write"} THEN Len(c.pathname) ELSE Len(c.pathname) - 1

Arrives(q) == q.depth = WalkLength(q.command)

(* Mutant: the inode a handler is to change is locked for reading only. *)
SharedModeMutant(q) == "shared"

LockMode(q) == IF Arrives(q) /\ q.command.op # "read" THEN "upgrade" ELSE "shared"
AfterLock(q) == IF Arrives(q) THEN "check" ELSE "lookup"

(* NetworkServer::handle_request has parsed a request. *)
Receive(r, c) ==
    /\ req[r].pc = "new"
    /\ req' = [req EXCEPT ![r].pc = "register", ![r].command = c, ![r].next = ROOT_INODE]
    /\ UNCHANGED <<disk, free_block_list, lock_map>>

Register(r) ==
    /\ req[r].pc = "register"
    /\ lock_map' = Registered(req[r].next)
    /\ Goes(r, "acquire")
    /\ UNCHANGED <<disk, free_block_list>>

Acquire(r) ==
    LET q == req[r] IN
    /\ q.pc = "acquire" /\ CanLock(q.next, LockMode(q))
    /\ lock_map' = Locked(q.next, LockMode(q))
    /\ req' = [req EXCEPT
         ![r].pc = IF q.curr = UNDEFINED_BLOCK THEN AfterLock(q) ELSE "release",
         ![r].curr = IF q.curr = UNDEFINED_BLOCK THEN q.next ELSE @]
    /\ UNCHANGED <<disk, free_block_list>>

(* The previous inode is unlocked only when the next one is locked. *)
Release(r) ==
    LET q == req[r] IN
    /\ q.pc = "release"
    /\ lock_map' = Unlocked(lock_map, q.curr, "shared")
    /\ req' = [req EXCEPT ![r].pc = AfterLock(q), ![r].curr = q.next]
    /\ UNCHANGED <<disk, free_block_list>>

MayPass(q, I) == I.type = "d" /\ (q.curr = ROOT_INODE \/ I.owner = q.command.username)

find_next_inode(r) ==
    LET q == req[r]
        I == Inode(disk, q.curr)
        places == Named(disk, I, q.command.pathname[q.depth + 1])
    IN  /\ q.pc = "lookup"
        /\ \/ /\ MayPass(q, I) /\ places # {}
              /\ req' = [req EXCEPT ![r].pc = "register", ![r].depth = @ + 1,
                                    ![r].next = EntryAt(disk, I, First(places)).inode_block]
              /\ UNCHANGED <<disk, free_block_list, lock_map>>
           \/ /\ ~MayPass(q, I) \/ places = {}
              /\ Throws(r, "shared")

-----------------------------------------------------------------------------
(* handle_read *)

Readable(I, c) == I.type = "f" /\ c.block < Len(I.blocks) /\ I.owner = c.username

ReadBlock(r) ==
    LET q == req[r]
        I == Inode(disk, q.curr)
    IN  /\ q.pc = "check" /\ q.command.op = "read"
        /\ \/ /\ Readable(I, q.command)
              /\ lock_map' = Unlocked(lock_map, q.curr, "shared")
              /\ Ends(r, "done", DataIn(disk, I.blocks[q.command.block + 1]))
              /\ UNCHANGED <<disk, free_block_list>>
           \/ ~Readable(I, q.command) /\ Throws(r, "shared")

-----------------------------------------------------------------------------
(* handle_write *)

Writable(I, c) == I.type = "f" /\ c.block <= Len(I.blocks) /\ I.owner = c.username

CheckWrite(r) ==
    LET q == req[r]
        I == Inode(disk, q.curr)
        grows == q.command.block = Len(I.blocks)
    IN  /\ q.pc = "check" /\ q.command.op = "write"
        /\ \/ /\ Writable(I, q.command)
              /\ req' = [req EXCEPT ![r].pc = IF grows THEN "alloc" ELSE "upgrade",
                                    ![r].inode = I, ![r].grows = grows]
              /\ UNCHANGED <<disk, free_block_list, lock_map>>
           \/ ~Writable(I, q.command) /\ Throws(r, "upgrade")

(* Mutant: front() without pop(). *)
NoPopMutant(list) == list

(* free_block_list.pop(), after front() *)
Popped(list) == Tail(list)

(* Mutant: the inode may get more blocks than it has room for. *)
UnboundedMutant(I) == free_block_list = <<>>

(* No block for the inode to grow, or no room in it for one more. *)
NoSpace(I) == free_block_list = <<>> \/ Len(I.blocks) = FS_MAXFILEBLOCKS

AllocData(r) ==
    LET q == req[r] IN
    /\ q.pc = "alloc" /\ q.command.op = "write"
    /\ \/ /\ ~NoSpace(q.inode)
          /\ free_block_list' = Popped(free_block_list)
          /\ req' = [req EXCEPT
               ![r].pc = "write_new", ![r].new = Head(free_block_list),
               ![r].inode.blocks = Append(@, Head(free_block_list))]
          /\ UNCHANGED <<disk, lock_map>>
       \/ NoSpace(q.inode) /\ Throws(r, "upgrade")

-----------------------------------------------------------------------------
(* handle_create *)

(* validate_parent_inode *)
ValidParent(q, I) ==
    WalkLength(q.command) = 0 \/ (I.type = "d" /\ I.owner = q.command.username)

TargetName(c) == Last(c.pathname)

Exists(I, name) == Named(disk, I, name) # {}

CheckCreate(r) ==
    LET q == req[r]
        I == Inode(disk, q.curr)
        unused == {ij \in Places(I) : EntryAt(disk, I, ij).inode_block = 0}
        ij == First(unused)
        ok == ValidParent(q, I) /\ ~Exists(I, TargetName(q.command))
    IN  /\ q.pc = "check" /\ q.command.op = "create"
        /\ \/ /\ ok /\ unused # {}
              /\ req' = [req EXCEPT
                   ![r].pc = "alloc", ![r].inode = I, ![r].dir = I.blocks[ij[1]],
                   ![r].place = ij, ![r].entries = Entries(disk, I.blocks[ij[1]])]
              /\ UNCHANGED <<disk, free_block_list, lock_map>>
           \/ /\ ok /\ unused = {}
              /\ req' = [req EXCEPT ![r].pc = "alloc", ![r].inode = I, ![r].grows = TRUE,
                                    ![r].place = <<0, 1>>, ![r].entries = NoEntries]
              /\ UNCHANGED <<disk, free_block_list, lock_map>>
           \/ ~ok /\ Throws(r, "upgrade")

(* If no block is free the handler throws and does not unlock the parent.  *)
AllocInode(r) ==
    LET q == req[r] IN
    /\ q.pc = "alloc" /\ q.command.op = "create"
    /\ \/ /\ free_block_list # <<>>
          /\ free_block_list' = Popped(free_block_list)
          /\ req' = [req EXCEPT
               ![r].pc = IF q.grows THEN "alloc_dir" ELSE "write_new",
               ![r].new = Head(free_block_list),
               ![r].entries[q.place[2]] = [name |-> TargetName(q.command),
                                        inode_block |-> Head(free_block_list)]]
       \/ /\ free_block_list = <<>>
          /\ req' = [req EXCEPT ![r] = [NewRequest EXCEPT !.pc = "failed", !.curr = q.curr]]
          /\ UNCHANGED free_block_list
    /\ UNCHANGED <<disk, lock_map>>

(* If this fails the block taken by AllocInode is not given back. *)
AllocDir(r) ==
    LET q == req[r] IN
    /\ q.pc = "alloc_dir"
    /\ \/ /\ ~NoSpace(q.inode)
          /\ free_block_list' = Popped(free_block_list)
          /\ req' = [req EXCEPT
               ![r].pc = "write_new", ![r].dir = Head(free_block_list),
               ![r].inode.blocks = Append(@, Head(free_block_list))]
          /\ UNCHANGED <<disk, lock_map>>
       \/ NoSpace(q.inode) /\ Throws(r, "upgrade")

-----------------------------------------------------------------------------
(* handle_delete *)

CheckDelete(r) ==
    LET q == req[r]
        I == Inode(disk, q.curr)
        places == Named(disk, I, TargetName(q.command))
        ij == First(places)
        ok == ValidParent(q, I) /\ places # {}
    IN  /\ q.pc = "check" /\ q.command.op = "delete"
        /\ \/ /\ ok
              /\ req' = [req EXCEPT
                   ![r].pc = "upgrade", ![r].inode = I,
                   ![r].next = EntryAt(disk, I, ij).inode_block, ![r].dir = I.blocks[ij[1]],
                   ![r].place = ij, ![r].entries = Entries(disk, I.blocks[ij[1]])]
              /\ UNCHANGED <<disk, free_block_list, lock_map>>
           \/ ~ok /\ Throws(r, "upgrade")

RegisterChild(r) ==
    /\ req[r].pc = "register_child"
    /\ lock_map' = Registered(req[r].next)
    /\ Goes(r, "acquire_child")
    /\ UNCHANGED <<disk, free_block_list>>

AcquireChild(r) ==
    LET b == req[r].next IN
    /\ req[r].pc = "acquire_child" /\ CanLock(b, "upgrade")
    /\ lock_map' = Locked(b, "upgrade")
    /\ Goes(r, "inspect")
    /\ UNCHANGED <<disk, free_block_list>>

(* Mutant: a directory may be deleted with what is in it. *)
DeleteFullMutant(I, c) == I.owner = c.username

Deletable(I, c) == I.owner = c.username /\ (I.type = "d" => I.blocks = <<>>)

InspectChild(r) ==
    LET q == req[r]
        C == Inode(disk, q.next)
    IN  /\ q.pc = "inspect"
        /\ \/ /\ Deletable(C, q.command)
              /\ req' = [req EXCEPT
                   ![r].pc = "commit", ![r].entries[q.place[2]] = Unused,
                   ![r].tofree = <<q.next>> \o (IF C.type = "f" THEN C.blocks ELSE <<>>)]
              /\ UNCHANGED lock_map
           \/ /\ ~Deletable(C, q.command)
              /\ lock_map' = Unlocked(lock_map, q.curr, "exclusive")
              /\ req' = [req EXCEPT ![r].pc = "refuse", ![r].curr = q.next]
        /\ UNCHANGED <<disk, free_block_list>>

RefuseDelete(r) == req[r].pc = "refuse" /\ Throws(r, "upgrade")

(* Mutant: the loop ends after the first direntry. *)
FirstSlotMutant(entries) == entries[1].inode_block = 0

is_block_empty(entries) == \A j \in Slots : entries[j].inode_block = 0

CommitDelete(r) ==
    LET q == req[r]
        without == [q.inode EXCEPT !.blocks = RemoveAt(@, q.place[1])]
    IN  /\ q.pc = "commit" /\ q.command.op = "delete"
        /\ \/ /\ is_block_empty(q.entries)
              /\ disk' = [disk EXCEPT ![q.curr] = without]
              /\ Goes(r, "free_dir")
           \/ /\ ~is_block_empty(q.entries)
              /\ disk' = [disk EXCEPT ![q.dir] = DirBlock(q.entries)]
              /\ Goes(r, "upgrade_child")
        /\ UNCHANGED <<free_block_list, lock_map>>

FreeDir(r) ==
    /\ req[r].pc = "free_dir"
    /\ free_block_list' = Append(free_block_list, req[r].dir)
    /\ Goes(r, "upgrade_child")
    /\ UNCHANGED <<disk, lock_map>>

UpgradeChild(r) ==
    LET b == req[r].next IN
    /\ req[r].pc = "upgrade_child" /\ CanUpgrade(b)
    /\ lock_map' = Upgraded(b)
    /\ Goes(r, "release_parent")
    /\ UNCHANGED <<disk, free_block_list>>

ReleaseParent(r) ==
    LET q == req[r] IN
    /\ q.pc = "release_parent"
    /\ lock_map' = Unlocked(lock_map, q.curr, "exclusive")
    /\ req' = [req EXCEPT ![r].pc = "free", ![r].curr = q.next]
    /\ UNCHANGED <<disk, free_block_list>>

(* The child's inode block and its data blocks are freed one by one. *)
FreeBlock(r) ==
    LET q == req[r] IN
    /\ q.pc = "free"
    /\ free_block_list' = Append(free_block_list, Head(q.tofree))
    /\ req' = [req EXCEPT ![r].tofree = Tail(@),
                          ![r].pc = IF Len(q.tofree) = 1 THEN "unlock" ELSE "free"]
    /\ UNCHANGED <<disk, lock_map>>

-----------------------------------------------------------------------------
(* Steps shared by write, create and delete.                               *)

(* A file that grows gets its data first. *)
WriteData(r) ==
    LET q == req[r] IN
    /\ q.pc = "write_new" /\ q.command.op = "write"
    /\ disk' = [disk EXCEPT ![q.new] = DataBlock(q.command.data)]
    /\ Goes(r, "upgrade")
    /\ UNCHANGED <<free_block_list, lock_map>>

(* Mutant: nothing is written to the block of the new inode. *)
NewInodeLostMutant(c, old) == old

(* The inode of a new file or directory, instead of what was in its block. *)
NewInode(c, old) == InodeBlock(c.type, c.username, <<>>)

WriteInode(r) ==
    LET q == req[r] IN
    /\ q.pc = "write_new" /\ q.command.op = "create"
    /\ disk' = [disk EXCEPT ![q.new] = NewInode(q.command, @)]
    /\ Goes(r, IF q.grows THEN "write_dir" ELSE "upgrade")
    /\ UNCHANGED <<free_block_list, lock_map>>

WriteDir(r) ==
    /\ req[r].pc = "write_dir"
    /\ disk' = [disk EXCEPT ![req[r].dir] = DirBlock(req[r].entries)]
    /\ Goes(r, "upgrade")
    /\ UNCHANGED <<free_block_list, lock_map>>

(* upgrade_to_write_lock on the inode the handler works on *)
Upgrade(r) ==
    LET q == req[r] IN
    /\ q.pc = "upgrade" /\ CanUpgrade(q.curr)
    /\ lock_map' = Upgraded(q.curr)
    /\ Goes(r, IF q.command.op = "delete" THEN "register_child" ELSE "commit")
    /\ UNCHANGED <<disk, free_block_list>>

(* The last write of write, and of create. *)
CommitWrite(r) ==
    LET q == req[r] IN
    /\ q.pc = "commit" /\ q.command.op = "write"
    /\ disk' = IF q.grows THEN [disk EXCEPT ![q.curr] = q.inode]
               ELSE [disk EXCEPT ![q.inode.blocks[q.command.block + 1]] =
                                   DataBlock(q.command.data)]
    /\ Goes(r, "unlock")
    /\ UNCHANGED <<free_block_list, lock_map>>

CommitCreate(r) ==
    LET q == req[r] IN
    /\ q.pc = "commit" /\ q.command.op = "create"
    /\ disk' = IF q.grows THEN [disk EXCEPT ![q.curr] = q.inode]
               ELSE [disk EXCEPT ![q.dir] = DirBlock(q.entries)]
    /\ Goes(r, "unlock")
    /\ UNCHANGED <<free_block_list, lock_map>>

Unlock(r) ==
    /\ req[r].pc = "unlock"
    /\ lock_map' = Unlocked(lock_map, req[r].curr, "exclusive")
    /\ Ends(r, "done", NoData)
    /\ UNCHANGED <<disk, free_block_list>>

Active(q) == q.pc \notin {"new", "done", "failed", "lost"}

(* The server stops; a new one is started on the disk it leaves.  Nobody   *)
(* answers the requests it was serving.                                    *)
Crash ==
    /\ \E r \in Requests : Active(req[r])
    /\ free_block_list' = FreeBlocks(disk)
    /\ lock_map' = [b \in Blocks |-> NoLock]
    /\ req' = [r \in Requests |->
                 IF Active(req[r]) THEN [NewRequest EXCEPT !.pc = "lost"]
                 ELSE [req[r] EXCEPT !.curr = UNDEFINED_BLOCK]]
    /\ UNCHANGED disk

Walk(r) == Register(r) \/ Acquire(r) \/ Release(r) \/ find_next_inode(r)
Check(r) == ReadBlock(r) \/ CheckWrite(r) \/ CheckCreate(r) \/ CheckDelete(r)
Prepare(r) == \/ AllocData(r) \/ AllocInode(r) \/ AllocDir(r)
              \/ WriteData(r) \/ WriteInode(r) \/ WriteDir(r)
Finish(r) == Upgrade(r) \/ CommitWrite(r) \/ CommitCreate(r) \/ Unlock(r)
Delete(r) == \/ RegisterChild(r) \/ AcquireChild(r) \/ InspectChild(r) \/ RefuseDelete(r)
             \/ CommitDelete(r) \/ FreeDir(r) \/ UpgradeChild(r) \/ ReleaseParent(r) \/ FreeBlock(r)
Serve(r) == Walk(r) \/ Check(r) \/ Prepare(r) \/ Finish(r) \/ Delete(r)

Next == \/ \E r \in Requests : Serve(r) \/ \E c \in Commands : Receive(r, c)
        \/ Crash

Spec == Init /\ [][Next]_vars

(***************************************************************************)
(* Fairness: the threads of the server are scheduled, and as there are     *)
(* finitely many requests a lock that a thread waits for becomes and stays *)
(* free for it.  Clients need not send anything, and crashes need not be.  *)
(***************************************************************************)
FairSpec == Spec /\ \A r \in Requests : WF_vars(Serve(r))

-----------------------------------------------------------------------------
(* Properties.                                                             *)

Distinct(s) == Cardinality(ToSet(s)) = Len(s)

Contents == UNION {{InodeBlock(ty, o, bs) : ty \in {"f", "d"}, o \in Users \cup {NoUser},
                      bs \in BoundedSeq(Blocks, FS_MAXFILEBLOCKS)},
                   {DirBlock(es) : es \in [Slots -> [name : Names \cup {NoName},
                                                     inode_block : Blocks]]},
                   {DataBlock(d) : d \in Data \cup {NoData}}}

Numbers == Blocks \cup {UNDEFINED_BLOCK}

(* Types.  No inode, on the disk or in a handler, has more blocks than it  *)
(* has room for, and a lock has at most one user per request.              *)
TypeOK ==
    LET counts == 0 .. Cardinality(Requests) IN
    /\ disk \in [Blocks -> Contents] /\ free_block_list \in Seq(Blocks)
    /\ lock_map \in [Blocks -> [num_readers : counts, shared : counts,
                                upgrade : BOOLEAN, exclusive : BOOLEAN]]
    /\ DOMAIN req = Requests
    /\ \A r \in Requests : LET q == req[r] IN
         /\ q.command \in Commands \cup {NewRequest.command} /\ q.depth \in 0 .. MaxDepth
         /\ {q.curr, q.next, q.dir, q.new} \subseteq Numbers
         /\ q.inode \in Contents \cup {Garbage} /\ DirBlock(q.entries) \in Contents
         /\ q.tofree \in Seq(Blocks) /\ q.data \in Data \cup {NoData}

(* How a request has locked the inode it works on, and the one it goes on  *)
(* to; a request that failed may have kept a lock.                         *)
CurrMode(q) ==
    IF \/ q.pc \in {"register", "acquire", "release", "lookup"}
       \/ q.pc = "check" /\ q.command.op = "read"
    THEN "shared"
    ELSE IF q.pc \in {"check", "alloc", "alloc_dir", "write_new", "write_dir", "upgrade",
                      "refuse", "failed"}
    THEN "upgrade"
    ELSE IF q.pc \in {"register_child", "acquire_child", "inspect", "commit", "free_dir",
                      "upgrade_child", "release_parent", "free", "unlock"}
    THEN "exclusive"
    ELSE "none"
NextMode(q) ==
    IF q.pc \in {"acquire", "acquire_child"} THEN "awaited"
    ELSE IF q.pc = "release" THEN LockMode(q)
    ELSE IF q.pc \in {"inspect", "commit", "free_dir", "upgrade_child"}
              /\ q.command.op = "delete"
    THEN "upgrade"
    ELSE IF q.pc = "release_parent" THEN "exclusive" ELSE "none"

Held(q, modes) == (IF CurrMode(q) \in modes THEN {q.curr} ELSE {})
                    \cup (IF NextMode(q) \in modes THEN {q.next} ELSE {})

CurrHolders(b, mode) == {r \in Requests : CurrMode(req[r]) = mode /\ req[r].curr = b}
NextHolders(b, mode) == {r \in Requests : NextMode(req[r]) = mode /\ req[r].next = b}
Count(b, mode) == Cardinality(CurrHolders(b, mode)) + Cardinality(NextHolders(b, mode))

(* Every lock of lock_map counts its users right: those that hold it and   *)
(* those that wait for it.  So no lock is erased while a thread has a      *)
(* pointer to it, and none stays without a user (but for the one that a    *)
(* create without a free block leaves behind); and the locks exclude: one  *)
(* request at most has an upgradeable or exclusive lock on an inode, and   *)
(* with an exclusive one nobody reads.                                     *)
LockMapExact ==
    \A b \in Blocks : LET l == lock_map[b] IN
        /\ l.num_readers = Count(b, "shared") + Count(b, "upgrade") + Count(b, "exclusive")
                             + Count(b, "awaited")
        /\ l.shared = Count(b, "shared")
        /\ Count(b, "upgrade") = IF l.upgrade THEN 1 ELSE 0
        /\ Count(b, "exclusive") = IF l.exclusive THEN 1 ELSE 0
        /\ l.exclusive => l.shared = 0 /\ ~l.upgrade

(* The blocks a request has taken off the free list and not yet linked to  *)
(* the tree, or has unlinked and not yet freed.                            *)
Reserved(q) ==
    (IF q.pc \in {"alloc_dir", "write_new", "write_dir", "upgrade", "commit"}
     THEN {q.new} ELSE {})
      \cup (IF q.command.op = "create" /\ q.grows
                 /\ q.pc \in {"write_new", "write_dir", "upgrade", "commit"}
            THEN {q.dir} ELSE {})
      \cup (IF q.pc = "free_dir" THEN {q.dir} ELSE {})
      \cup (IF q.pc \in {"free_dir", "upgrade_child", "release_parent", "free"}
            THEN ToSet(q.tofree) ELSE {})

(* A block is allocated once: the free list has no block twice, no block   *)
(* of the tree, none that another request holds, and none of a file that   *)
(* somebody still reads although it has been deleted.                      *)
FreeSound ==
    LET free == ToSet(free_block_list)
        taken(r) == Reserved(req[r]) \ {UNDEFINED_BLOCK}
    IN  /\ Distinct(free_block_list)
        /\ free \cap find_free_blocks(disk) = {}
        /\ \A r \in Requests :
             /\ taken(r) \cap (free \cup find_free_blocks(disk)) = {}
             /\ \A s \in Requests \ {r} : taken(r) \cap taken(s) = {}
             /\ \A x \in Held(req[r], {"shared", "upgrade"}) \ {UNDEFINED_BLOCK} :
                  ({x} \cup ToSet(Inode(disk, x).blocks)) \cap free = {}

(* A sound tree: every inode and every block of direntries is one, belongs *)
(* to one place only, and is within its bounds; a name occurs once in a    *)
(* directory; and a directory has no block without a direntry in use (a    *)
(* directory of size 0 is how handle_delete recognises an empty one).      *)
Consistent(d) ==
    LET inodes == InodesOf(d)
        blocks(x) == Inode(d, x).blocks
        links == UNION {{<<x, ij>> : ij \in {kl \in Places(Inode(d, x)) :
                            EntryAt(d, Inode(d, x), kl).inode_block # 0}} :
                        x \in {y \in inodes : Inode(d, y).type = "d"}}
    IN  /\ Inode(d, ROOT_INODE).type = "d"
        /\ \A x \in inodes :
             /\ d[x].kind = "inode" /\ Len(blocks(x)) <= FS_MAXFILEBLOCKS
             /\ Distinct(blocks(x)) /\ ToSet(blocks(x)) \cap inodes = {}
             /\ \A y \in inodes \ {x} : ToSet(blocks(x)) \cap ToSet(blocks(y)) = {}
             /\ Inode(d, x).type = "d" =>
                  /\ \A i \in DOMAIN blocks(x) :
                       d[blocks(x)[i]].kind = "dir" /\ ~\A j \in Slots :
                          Entries(d, blocks(x)[i])[j].inode_block = 0
                  /\ \A n \in Names : Cardinality(Named(d, Inode(d, x), n)) <= 1
             /\ Inode(d, x).type = "f" =>
                  \A i \in DOMAIN blocks(x) : d[blocks(x)[i]].kind = "data"
        /\ Cardinality(links) = Cardinality(inodes) - 1

(* The server is started on the disk of a file system. *)
ASSUME ImagesAssumption == \A d \in Images : d \in [Blocks -> Contents] /\ Consistent(d)

(* The tree on the disk is sound in every state, so a server that is       *)
(* started after a crash between any two writes finds a sound one.         *)
DiskConsistent == Consistent(disk)

(* A handler works with the inode it read when it got its lock: it is      *)
(* still the one on the disk when the handler makes its last write, but    *)
(* for the blocks the handler has added itself.                            *)
CopyFresh ==
    \A r \in Requests : LET q == req[r] IN
        q.pc \in {"alloc", "alloc_dir", "write_new", "write_dir", "upgrade",
                  "register_child", "acquire_child", "inspect", "commit"} =>
            LET I == Inode(disk, q.curr) IN
            /\ I.type = q.inode.type /\ IsPrefix(I.blocks, q.inode.blocks)
            /\ Len(q.inode.blocks) <= Len(I.blocks) + 1
            /\ q.command.op # "write" /\ ~q.grows =>
                 \A j \in Slots \ {q.place[2]} : Entries(disk, q.dir)[j] = q.entries[j]

-----------------------------------------------------------------------------
(***************************************************************************)
(* The file system implements FileServer.  A write, create or delete takes *)
(* effect when its last block is written, a read when it gets the lock on  *)
(* its file.                                                               *)
(***************************************************************************)
(* What the directory with inode block x has under the name n. *)
ChildrenOf(x, n) ==
    LET I == Inode(disk, x)
    IN  IF I.type = "d" THEN {EntryAt(disk, I, ij).inode_block : ij \in Named(disk, I, n)} ELSE {}

(* The paths of at most depth names and the inode blocks they lead to. *)
InodesAt[depth \in 0 .. MaxDepth] ==
    IF depth = 0 THEN {<<<<>>, ROOT_INODE>>}
    ELSE {<<<<>>, ROOT_INODE>>} \cup UNION {
           {<<Append(px[1], n), y>> : y \in ChildrenOf(px[2], n)} :
             px \in InodesAt[depth - 1], n \in Names}

Node == [x \in Blocks |->
           [type |-> Inode(disk, x).type, owner |-> Inode(disk, x).owner,
            content |-> IF Inode(disk, x).type = "d" THEN <<>>
                        ELSE [i \in DOMAIN Inode(disk, x).blocks |->
                                DataIn(disk, Inode(disk, x).blocks[i])]]]

Tree == LET at == InodesAt[MaxDepth]
        IN  [p \in {px[1] : px \in at} |-> Node[(CHOOSE px \in at : px[1] = p)[2]]]

(* The inode on which a read has its lock. *)
Reading(q) == Inode(disk, IF q.pc = "check" THEN q.curr ELSE q.next)
ReadDone(q) == /\ q.command.op = "read" /\ Arrives(q) /\ q.pc \in {"release", "check"}
               /\ Readable(Reading(q), q.command)
Committed(q) == q.pc \in {"free_dir", "upgrade_child", "release_parent", "free", "unlock"}

Status(q) ==
    IF ReadDone(q)
    THEN [st |-> "done", data |-> DataIn(disk, Reading(q).blocks[q.command.block + 1])]
    ELSE IF Committed(q) THEN [st |-> "done", data |-> NoData]
    ELSE IF Active(q) THEN [st |-> "pending", command |-> q.command]
    ELSE [st |-> q.pc, data |-> q.data]

Server == INSTANCE FileServer WITH
            tree <- Tree,
            status <- [r \in Requests |-> Status(req[r])]

(* Whatever the threads do at the same time and wherever the server        *)
(* crashes: every request takes effect at one moment and completely, or    *)
(* not at all; one is refused only if it was not permitted then or needed  *)
(* space; and a read returns what was last written.                        *)
ImplementsFileServer == Server!Spec

(* A create that found no block for its inode has left with its lock. *)
LockLeft == \E r \in Requests : req[r].pc = "failed" /\ req[r].curr # UNDEFINED_BLOCK

(* The server answers every request, unless it crashes: the handlers never *)
(* wait for one another's locks forever, whatever they walk through,       *)
(* upgrade or delete at the same time.  The one exception is a create that *)
(* has run out of blocks: it leaves its lock behind, see LocksReleased,    *)
(* and later ones in that directory are never answered.                    *)
Answered == \A r \in Requests : Active(req[r]) ~> (~Active(req[r]) \/ LockLeft)

(* Once no request is being served every lock has been given back: the     *)
(* last user removes it from lock_map.                                     *)
LocksReleased ==
    (\A r \in Requests : ~Active(req[r])) => \A x \in Blocks : lock_map[x] = NoLock
=============================================================================
