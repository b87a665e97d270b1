-------------------------- MODULE FileSystemProofs --------------------------
(***************************************************************************)
(* FileSystem, for any number of requests, any disk and any crashes: every *)
(* lock counts its users right, the tree on the disk is sound, a block is  *)
(* in one place, and what a handler has read is not stale when it writes.  *)
(*                                                                         *)
(* Locks (LockInv).                                                        *)
(* A request holds at most two locks, on curr and on next.  Weight is what *)
(* it adds to the counts of a lock; a step of a request changes the count  *)
(* of a lock by the change of its own weight (CountStep), and every lock   *)
(* operation changes the lock by the same (RegisterLock, AcquireLock,      *)
(* UpgradeLock, ReleaseLock).                                              *)
(*                                                                         *)
(* Disk (FsInv).                                                           *)
(* The inodes of a tree are the smallest set with the root that no link    *)
(* leads out of (ReachFacts, ReachLeast), so one write changes them in a   *)
(* known way (LinkNew, LoseLink).  The invariant says of every request     *)
(* what it has read and taken and where it stands in the tree (At).  A     *)
(* request writes to a block it has taken off the free list, which is in   *)
(* no tree and nobody else's (FillFs), or commits: it replaces one block   *)
(* of the inode it has locked exclusively.  LockInv shows that nobody else *)
(* works on that inode or on the child that is unlinked (CommitSpares), so *)
(* what the invariant says of the others stays true (SparedAt).            *)
(***************************************************************************)
EXTENDS FileSystem, QueueProofs

Modes == {"shared", "upgrade", "exclusive", "awaited"}

Lock == [num_readers : Nat, shared : Nat, upgrade : BOOLEAN, exclusive : BOOLEAN]

(* The domains of the variables that locking is about. *)
Shape == /\ DOMAIN req = Requests
         /\ \A r \in Requests : DOMAIN req[r] = DOMAIN NewRequest
         /\ DOMAIN lock_map = Blocks

(* Only a delete locks the child. *)
ChildLocker(q) ==
    q.pc \in {"register_child", "acquire_child", "inspect", "free_dir", "upgrade_child"} =>
        q.command.op = "delete"

(* What a lock is, when its users are as many as these. *)
Exact(l, sh, up, ex, aw) ==
    /\ l \in Lock
    /\ l.num_readers = sh + up + ex + aw
    /\ l.shared = sh
    /\ up = (IF l.upgrade THEN 1 ELSE 0)
    /\ ex = (IF l.exclusive THEN 1 ELSE 0)
    /\ l.exclusive => l.shared = 0 /\ ~l.upgrade

ExactAt(b) == Exact(lock_map[b], Count(b, "shared"), Count(b, "upgrade"),
                    Count(b, "exclusive"), Count(b, "awaited"))

(* The inductive invariant: what LockMapExact says, and what its steps     *)
(* need of the requests, that a delete locks the child and nobody else     *)
(* does, and that a request that has not been received has locked nothing. *)
LockInv == /\ Shape
           /\ \A r \in Requests : /\ ChildLocker(req[r])
                                  /\ req[r].pc = "new" => req[r].curr = UNDEFINED_BLOCK
           /\ \A b \in Blocks : ExactAt(b)

(* What a request adds to the count of the lock of b. *)
CurrWeight(q, b, mode) == IF CurrMode(q) = mode /\ q.curr = b THEN 1 ELSE 0
NextWeight(q, b, mode) == IF NextMode(q) = mode /\ q.next = b THEN 1 ELSE 0
Weight(q, b, mode) == CurrWeight(q, b, mode) + NextWeight(q, b, mode)

(* Only request r moves. *)
OnlyMoves(r) == \A s \in Requests \ {r} : req'[s] = req[s]

-----------------------------------------------------------------------------
(* Counting.                                                               *)

(* One member more, one less, or the same. *)
LEMMA CardinalityStep ==
    ASSUME NEW S, IsFiniteSet(S), NEW T, NEW r, S \ {r} = T \ {r}
    PROVE  /\ Cardinality(S) \in Nat /\ Cardinality(T) \in Nat
           /\ r \in S => Cardinality(S) >= 1
           /\ Cardinality(T) + (IF r \in S THEN 1 ELSE 0)
                = Cardinality(S) + (IF r \in T THEN 1 ELSE 0)
<1> DEFINE U == S \ {r}
           n == Cardinality(U)
<1>1. IsFiniteSet(U) /\ n \in Nat
  BY FS_RemoveElement, FS_CardinalityType
<1>2. r \notin U /\ Cardinality(U \cup {r}) = n + 1
  BY <1>1, FS_AddElement
<1>3. S = (IF r \in S THEN U \cup {r} ELSE U) /\ T = (IF r \in T THEN U \cup {r} ELSE U)
  OBVIOUS
<1>4. /\ Cardinality(S) = (IF r \in S THEN n + 1 ELSE n)
      /\ Cardinality(T) = (IF r \in T THEN n + 1 ELSE n)
  BY <1>2, <1>3
<1> HIDE DEF n
<1> QED
  BY <1>1, <1>4

(* A step of one request changes every count by what that request adds to  *)
(* it.                                                                     *)
LEMMA CountStep ==
    ASSUME NEW r \in Requests, NEW b, NEW mode, OnlyMoves(r)
    PROVE  /\ Count(b, mode) \in Nat /\ Count(b, mode)' \in Nat
           /\ Count(b, mode) >= Weight(req[r], b, mode)
           /\ Count(b, mode)' + Weight(req[r], b, mode)
                = Count(b, mode) + Weight(req'[r], b, mode)
<1> DEFINE S == CurrHolders(b, mode)
           T == NextHolders(b, mode)
<1>1. IsFiniteSet(S) /\ IsFiniteSet(T)
  BY RequestsAssumption, FS_Subset DEF CurrHolders, NextHolders
<1>2. S \ {r} = S' \ {r} /\ T \ {r} = T' \ {r}
  BY DEF OnlyMoves, CurrHolders, NextHolders
<1>3. /\ (r \in S) <=> (CurrMode(req[r]) = mode /\ req[r].curr = b)
      /\ (r \in T) <=> (NextMode(req[r]) = mode /\ req[r].next = b)
      /\ (r \in S') <=> (CurrMode(req'[r]) = mode /\ req'[r].curr = b)
      /\ (r \in T') <=> (NextMode(req'[r]) = mode /\ req'[r].next = b)
  BY DEF CurrHolders, NextHolders
<1>4. PICK S1, T1 : S1 = S' /\ T1 = T'
  OBVIOUS
<1>5. PICK c, d, c1, d1 : /\ c = Cardinality(S) /\ d = Cardinality(T)
                          /\ c1 = Cardinality(S1) /\ d1 = Cardinality(T1)
  OBVIOUS
<1>6. /\ c \in Nat /\ c1 \in Nat /\ c >= CurrWeight(req[r], b, mode)
      /\ c1 + CurrWeight(req[r], b, mode) = c + CurrWeight(req'[r], b, mode)
  <2>1. S \ {r} = S1 \ {r}
    BY <1>2, <1>4
  <2>2. /\ c \in Nat /\ c1 \in Nat /\ (r \in S => c >= 1)
        /\ c1 + (IF r \in S THEN 1 ELSE 0) = c + (IF r \in S1 THEN 1 ELSE 0)
    <3> HIDE DEF S
    <3> QED
      BY <1>1, <1>5, <2>1, CardinalityStep
  <2> QED
    BY <2>2, <1>3, <1>4 DEF CurrWeight
<1>7. /\ d \in Nat /\ d1 \in Nat /\ d >= NextWeight(req[r], b, mode)
      /\ d1 + NextWeight(req[r], b, mode) = d + NextWeight(req'[r], b, mode)
  <2>1. T \ {r} = T1 \ {r}
    BY <1>2, <1>4
  <2>2. /\ d \in Nat /\ d1 \in Nat /\ (r \in T => d >= 1)
        /\ d1 + (IF r \in T THEN 1 ELSE 0) = d + (IF r \in T1 THEN 1 ELSE 0)
    <3> HIDE DEF T
    <3> QED
      BY <1>1, <1>5, <2>1, CardinalityStep
  <2> QED
    BY <2>2, <1>3, <1>4 DEF NextWeight
<1>8. Count(b, mode) = c + d /\ Count(b, mode)' = c1 + d1
  BY <1>4, <1>5 DEF Count
<1>9. /\ CurrWeight(req[r], b, mode) \in {0, 1} /\ CurrWeight(req'[r], b, mode) \in {0, 1}
      /\ NextWeight(req[r], b, mode) \in {0, 1} /\ NextWeight(req'[r], b, mode) \in {0, 1}
  BY DEF CurrWeight, NextWeight
<1> QED
  BY <1>6, <1>7, <1>8, <1>9 DEF Weight

-----------------------------------------------------------------------------
(* What the steps of a request do to a lock.                               *)

Keeps(r, b, modes) == \A m \in modes : Weight(req'[r], b, m) = Weight(req[r], b, m)
Gains(r, b, mode) == Weight(req'[r], b, mode) = Weight(req[r], b, mode) + 1
Loses(r, b, mode) == Weight(req'[r], b, mode) + 1 = Weight(req[r], b, mode)

(* The counts of the lock of b, by mode, before and after a step. *)
LEMMA CountsStep ==
    ASSUME NEW r \in Requests, NEW b, OnlyMoves(r)
    PROVE  \A m \in Modes :
             /\ Count(b, m) \in Nat /\ Count(b, m)' \in Nat
             /\ Weight(req[r], b, m) \in Nat /\ Weight(req'[r], b, m) \in Nat
             /\ Count(b, m) >= Weight(req[r], b, m)
             /\ Count(b, m)' + Weight(req[r], b, m) = Count(b, m) + Weight(req'[r], b, m)
<1> TAKE m \in Modes
<1>1. Weight(req[r], b, m) \in Nat /\ Weight(req'[r], b, m) \in Nat
  BY DEF Weight, CurrWeight, NextWeight
<1> QED
  BY <1>1, CountStep

(* A step that does not change what the request adds leaves a lock exact.  *)
LEMMA KeepLock ==
    ASSUME NEW r \in Requests, NEW b \in Blocks, OnlyMoves(r), ExactAt(b),
           lock_map'[b] = lock_map[b], Keeps(r, b, Modes)
    PROVE  ExactAt(b)'
<1>1. \A m \in Modes : Count(b, m)' = Count(b, m)
  BY CountsStep DEF Keeps
<1> QED
  BY <1>1 DEF ExactAt, Exact, Modes

(* lock_inode_read and lock_inode_upgrade, registering a user. *)
LEMMA RegisterLock ==
    ASSUME NEW r \in Requests, NEW b \in Blocks, OnlyMoves(r), ExactAt(b), Shape,
           lock_map' = Registered(b),
           Gains(r, b, "awaited"), Keeps(r, b, Modes \ {"awaited"})
    PROVE  ExactAt(b)'
<1>1. Count(b, "awaited")' = Count(b, "awaited") + 1 /\ Count(b, "awaited") \in Nat
  BY CountsStep DEF Gains, Modes
<1>2. \A m \in Modes \ {"awaited"} : Count(b, m)' = Count(b, m) /\ Count(b, m) \in Nat
  BY CountsStep DEF Keeps
<1>3. /\ lock_map'[b].num_readers = lock_map[b].num_readers + 1
      /\ lock_map'[b].shared = lock_map[b].shared
      /\ lock_map'[b].upgrade = lock_map[b].upgrade
      /\ lock_map'[b].exclusive = lock_map[b].exclusive
      /\ lock_map[b] \in Lock /\ lock_map'[b] \in Lock
  BY DEF Shape, ExactAt, Exact, Registered, Lock
<1> QED
  BY <1>1, <1>2, <1>3 DEF ExactAt, Exact, Modes, Lock

(* lock_inode_read and lock_inode_upgrade, getting the lock. *)
LEMMA AcquireLock ==
    ASSUME NEW r \in Requests, NEW b \in Blocks, OnlyMoves(r), ExactAt(b), Shape,
           NEW mode \in {"shared", "upgrade"}, CanLock(b, mode), lock_map' = Locked(b, mode),
           Loses(r, b, "awaited"), Gains(r, b, mode), Keeps(r, b, Modes \ {"awaited", mode})
    PROVE  ExactAt(b)'
<1>1. Count(b, "awaited")' + 1 = Count(b, "awaited") /\ Count(b, "awaited")' \in Nat
  BY CountsStep DEF Loses, Modes
<1>2. Count(b, mode)' = Count(b, mode) + 1 /\ Count(b, mode) \in Nat
  BY CountsStep DEF Gains, Modes
<1>3. \A m \in Modes \ {"awaited", mode} : Count(b, m)' = Count(b, m) /\ Count(b, m) \in Nat
  BY CountsStep DEF Keeps
<1>4. lock_map[b] \in Lock
  BY DEF ExactAt, Exact
<1>5. CASE mode = "shared"
  <2>1. /\ lock_map'[b].num_readers = lock_map[b].num_readers
        /\ lock_map'[b].shared = lock_map[b].shared + 1
        /\ lock_map'[b].upgrade = lock_map[b].upgrade
        /\ lock_map'[b].exclusive = lock_map[b].exclusive
        /\ lock_map'[b] \in Lock
    BY <1>4, <1>5 DEF Shape, Locked, Lock
  <2> QED
    BY <1>1, <1>2, <1>3, <1>4, <1>5, <2>1 DEF ExactAt, Exact, Modes, Lock, CanLock
<1>6. CASE mode = "upgrade"
  <2>1. /\ lock_map'[b].num_readers = lock_map[b].num_readers
        /\ lock_map'[b].shared = lock_map[b].shared
        /\ lock_map'[b].upgrade = TRUE
        /\ lock_map'[b].exclusive = lock_map[b].exclusive
        /\ lock_map'[b] \in Lock
    BY <1>4, <1>6 DEF Shape, Locked, Lock
  <2> QED
    BY <1>1, <1>2, <1>3, <1>4, <1>6, <2>1 DEF ExactAt, Exact, Modes, Lock, CanLock
<1> QED
  BY <1>5, <1>6

(* upgrade_to_write_lock: the one upgradeable lock becomes the one         *)
(* exclusive lock, when there is no reader.                                *)
LEMMA UpgradeLock ==
    ASSUME NEW r \in Requests, NEW b \in Blocks, OnlyMoves(r), ExactAt(b), Shape,
           CanUpgrade(b), lock_map' = Upgraded(b),
           Loses(r, b, "upgrade"), Gains(r, b, "exclusive"),
           Keeps(r, b, Modes \ {"upgrade", "exclusive"})
    PROVE  ExactAt(b)'
<1>1. /\ Count(b, "upgrade")' + 1 = Count(b, "upgrade") /\ Count(b, "upgrade")' \in Nat
  BY CountsStep DEF Loses, Modes
<1>2. Count(b, "exclusive")' = Count(b, "exclusive") + 1 /\ Count(b, "exclusive") \in Nat
  BY CountsStep DEF Gains, Modes
<1>3. \A m \in Modes \ {"upgrade", "exclusive"} :
        Count(b, m)' = Count(b, m) /\ Count(b, m) \in Nat
  BY CountsStep DEF Keeps
<1>4. /\ lock_map'[b].num_readers = lock_map[b].num_readers
      /\ lock_map'[b].shared = lock_map[b].shared
      /\ lock_map'[b].upgrade = FALSE
      /\ lock_map'[b].exclusive = TRUE
      /\ lock_map[b] \in Lock /\ lock_map'[b] \in Lock
  BY DEF Shape, ExactAt, Exact, Upgraded, Lock
<1> QED
  BY <1>1, <1>2, <1>3, <1>4 DEF ExactAt, Exact, Modes, Lock, CanUpgrade

(* unlock_inode_read, unlock_inode_upgrade, unlock_inode_write: the lock   *)
(* is erased by its last user only.                                        *)
LEMMA ReleaseLock ==
    ASSUME NEW r \in Requests, NEW b \in Blocks, OnlyMoves(r), ExactAt(b), Shape,
           NEW mode \in {"shared", "upgrade", "exclusive"},
           lock_map' = Unlocked(lock_map, b, mode),
           Loses(r, b, mode), Keeps(r, b, Modes \ {mode})
    PROVE  ExactAt(b)'
<1>1. Count(b, mode)' + 1 = Count(b, mode) /\ Count(b, mode)' \in Nat
  BY CountsStep DEF Loses, Modes
<1>2. \A m \in Modes \ {mode} : Count(b, m)' = Count(b, m) /\ Count(b, m) \in Nat
  BY CountsStep DEF Keeps
<1>3. PICK l : l = lock_map[b]
  OBVIOUS
<1>4. /\ l \in Lock
      /\ l.num_readers \in Nat /\ l.shared \in Nat
      /\ l.upgrade \in BOOLEAN /\ l.exclusive \in BOOLEAN
  BY <1>3 DEF ExactAt, Exact, Lock
<1>5. CASE l.num_readers = 1
  <2>1. lock_map'[b] = NoLock
    BY <1>3, <1>5 DEF Shape, Unlocked, LastUser
  <2>2. \A m \in Modes : Count(b, m)' = 0
    BY <1>1, <1>2, <1>3, <1>5 DEF ExactAt, Exact, Modes
  <2> QED
    BY <2>1, <2>2 DEF ExactAt, Exact, Modes, NoLock, Lock
<1>6. CASE l.num_readers # 1
  <2>1. /\ lock_map'[b].num_readers = l.num_readers - 1
        /\ lock_map'[b].shared = (IF mode = "shared" THEN l.shared - 1 ELSE l.shared)
        /\ lock_map'[b].upgrade = (l.upgrade /\ mode # "upgrade")
        /\ lock_map'[b].exclusive = (l.exclusive /\ mode # "exclusive")
    BY <1>3, <1>6 DEF Shape, Unlocked, LastUser
  <2>2. /\ l.num_readers - 1 \in Nat
        /\ mode = "shared" => l.shared - 1 \in Nat
    BY <1>1, <1>2, <1>3, <1>4 DEF ExactAt, Exact, Modes
  <2>3. lock_map'[b] \in Lock
    BY <1>3, <1>4, <1>6, <2>2 DEF Shape, Unlocked, LastUser, Lock
  <2>4. CASE mode = "shared"
    BY <1>1, <1>2, <1>3, <1>4, <2>1, <2>3, <2>4 DEF ExactAt, Exact, Modes
  <2>5. CASE mode = "upgrade"
    BY <1>1, <1>2, <1>3, <1>4, <2>1, <2>3, <2>5 DEF ExactAt, Exact, Modes
  <2>6. CASE mode = "exclusive"
    BY <1>1, <1>2, <1>3, <1>4, <2>1, <2>3, <2>6 DEF ExactAt, Exact, Modes
  <2> QED
    BY <2>4, <2>5, <2>6
<1> QED
  BY <1>5, <1>6

-----------------------------------------------------------------------------
(* The steps.                                                              *)

(* A step of one request preserves the invariant, if that request and the  *)
(* locks are all right after it.                                           *)
LEMMA StepLemma ==
    ASSUME LockInv, NEW r \in Requests, OnlyMoves(r), Shape', ChildLocker(req'[r]),
           req'[r].pc # "new", \A b \in Blocks : ExactAt(b)'
    PROVE  LockInv'
<1>1. \A s \in Requests : /\ ChildLocker(req'[s])
                          /\ req'[s].pc = "new" => req'[s].curr = UNDEFINED_BLOCK
  BY DEF LockInv, OnlyMoves
<1> QED
  BY <1>1 DEF LockInv

(* What a step of request r may do to its locks. *)
Moves(r) == /\ OnlyMoves(r) /\ DOMAIN req' = Requests
            /\ DOMAIN req'[r] = DOMAIN NewRequest
            /\ ChildLocker(req'[r]) /\ req'[r].pc # "new"

(* Steps that leave the locks alone: handlers that look something up,      *)
(* prepare or write a block.                                               *)
LEMMA QuietStep ==
    ASSUME LockInv, NEW r \in Requests, Moves(r), lock_map' = lock_map,
           \A b \in Blocks : Keeps(r, b, Modes)
    PROVE  LockInv'
<1>1. Shape'
  BY DEF LockInv, Shape, Moves, OnlyMoves
<1>2. \A b \in Blocks : ExactAt(b)'
  BY KeepLock DEF LockInv, Moves
<1> QED
  BY <1>1, <1>2, StepLemma DEF Moves

(* Steps on one lock, that keep all others as they are. *)
LEMMA OneLockStep ==
    ASSUME LockInv, NEW r \in Requests, Moves(r), NEW x, DOMAIN lock_map' = Blocks,
           \A b \in Blocks \ {x} : lock_map'[b] = lock_map[b] /\ Keeps(r, b, Modes),
           x \in Blocks => ExactAt(x)'
    PROVE  LockInv'
<1>1. Shape'
  BY DEF LockInv, Shape, Moves, OnlyMoves
<1>2. \A b \in Blocks \ {x} : ExactAt(b)'
  BY KeepLock DEF LockInv, Moves
<1> QED
  BY <1>1, <1>2, StepLemma DEF Moves

(* Quiet steps, by what the request keeps. *)
LEMMA QuietMove ==
    ASSUME LockInv, NEW r \in Requests, Moves(r), lock_map' = lock_map,
           CurrMode(req'[r]) = CurrMode(req[r]), req'[r].curr = req[r].curr,
           NextMode(req'[r]) = NextMode(req[r]),
           NextMode(req[r]) = "none" \/ req'[r].next = req[r].next
    PROVE  LockInv'
<1>1. ASSUME NEW b \in Blocks PROVE Keeps(r, b, Modes)
  BY DEF Keeps, Weight, CurrWeight, NextWeight, Modes
<1> QED
  BY <1>1, QuietStep

(* The steps that write a block or free one. *)
WritesOrFrees(r) == \/ WriteData(r) \/ WriteInode(r) \/ WriteDir(r) \/ CommitWrite(r)
                    \/ CommitCreate(r) \/ CommitDelete(r) \/ FreeDir(r) \/ FreeBlock(r)

(* None of them touches a lock. *)
LEMMA WritesOrFreesStep ==
    ASSUME LockInv, NEW r \in Requests, WritesOrFrees(r)
    PROVE  LockInv'
<1>1. PICK q, q1 : q = req[r] /\ q1 = req'[r]
  OBVIOUS
<1> DEFINE Onward == /\ OnlyMoves(r) /\ DOMAIN req' = Requests
                     /\ DOMAIN q1 = DOMAIN NewRequest /\ q1.command = q.command
                     /\ q1.curr = q.curr /\ q1.next = q.next /\ lock_map' = lock_map
<1>2. ChildLocker(q)
  BY <1>1 DEF LockInv
<1>3. CASE WriteData(r)
  <2>1. Onward /\ q1.pc = "upgrade"
    BY <1>1, <1>3 DEF LockInv, Shape, OnlyMoves, WriteData, Goes
  <2> QED
    BY <1>1, <1>2, <1>3, <2>1, QuietMove DEF Moves, ChildLocker, CurrMode, NextMode, WriteData
<1>4. CASE WriteInode(r)
  <2>1. Onward /\ q1.pc \in {"write_dir", "upgrade"}
    BY <1>1, <1>4 DEF LockInv, Shape, OnlyMoves, WriteInode, Goes
  <2> QED
    BY <1>1, <1>2, <1>4, <2>1, QuietMove DEF Moves, ChildLocker, CurrMode, NextMode, WriteInode
<1>5. CASE WriteDir(r)
  <2>1. Onward /\ q1.pc = "upgrade"
    BY <1>1, <1>5 DEF LockInv, Shape, OnlyMoves, WriteDir, Goes
  <2> QED
    BY <1>1, <1>2, <1>5, <2>1, QuietMove DEF Moves, ChildLocker, CurrMode, NextMode, WriteDir
<1>6. CASE CommitWrite(r)
  <2>1. Onward /\ q1.pc = "unlock"
    BY <1>1, <1>6 DEF LockInv, Shape, OnlyMoves, CommitWrite, Goes
  <2> QED
    BY <1>1, <1>2, <1>6, <2>1, QuietMove DEF Moves, ChildLocker, CurrMode, NextMode, CommitWrite
<1>7. CASE CommitCreate(r)
  <2>1. Onward /\ q1.pc = "unlock"
    BY <1>1, <1>7 DEF LockInv, Shape, OnlyMoves, CommitCreate, Goes
  <2> QED
    BY <1>1, <1>2, <1>7, <2>1, QuietMove DEF Moves, ChildLocker, CurrMode, NextMode, CommitCreate
<1>8. CASE CommitDelete(r)
  <2>1. Onward /\ q1.pc \in {"free_dir", "upgrade_child"}
    <3>1. lock_map' = lock_map /\ (Goes(r, "free_dir") \/ Goes(r, "upgrade_child"))
      BY <1>8 DEF CommitDelete
    <3>2. CASE Goes(r, "free_dir")
      BY <1>1, <3>1, <3>2 DEF LockInv, Shape, OnlyMoves, Goes
    <3>3. CASE Goes(r, "upgrade_child")
      BY <1>1, <3>1, <3>3 DEF LockInv, Shape, OnlyMoves, Goes
    <3> QED
      BY <3>1, <3>2, <3>3
  <2> QED
    BY <1>1, <1>2, <1>8, <2>1, QuietMove DEF Moves, ChildLocker, CurrMode, NextMode, CommitDelete
<1>9. CASE FreeDir(r)
  <2>1. Onward /\ q1.pc = "upgrade_child"
    BY <1>1, <1>9 DEF LockInv, Shape, OnlyMoves, FreeDir, Goes
  <2> QED
    BY <1>1, <1>2, <1>9, <2>1, QuietMove DEF Moves, ChildLocker, CurrMode, NextMode, FreeDir
<1>10. CASE FreeBlock(r)
  <2>1. Onward /\ q1.pc \in {"unlock", "free"}
    BY <1>1, <1>10 DEF LockInv, Shape, OnlyMoves, FreeBlock
  <2> QED
    BY <1>1, <1>2, <1>10, <2>1, QuietMove DEF Moves, ChildLocker, CurrMode, NextMode, FreeBlock
<1> QED
  BY <1>3, <1>4, <1>5, <1>6, <1>7, <1>8, <1>9, <1>10 DEF WritesOrFrees

(* The steps that receive a command, find an inode or a direntry, or take  *)
(* a block off the free list, and do not throw.                            *)
LEMMA ReceiveStep ==
    ASSUME LockInv, NEW r \in Requests, NEW c \in Commands, Receive(r, c)
    PROVE  LockInv'
<1>1. PICK q, q1 : q = req[r] /\ q1 = req'[r]
  OBVIOUS
<1>2. /\ OnlyMoves(r) /\ DOMAIN req' = Requests
      /\ DOMAIN q1 = DOMAIN NewRequest /\ q1.pc = "register" /\ q1.curr = q.curr
  BY <1>1 DEF LockInv, Shape, OnlyMoves, Receive
<1>3. q.pc = "new" /\ q.curr = UNDEFINED_BLOCK /\ lock_map' = lock_map
  BY <1>1 DEF LockInv, Receive
<1>4. ASSUME NEW b \in Blocks PROVE Keeps(r, b, Modes)
  <2>1. q1.curr # b /\ q.curr # b
    BY <1>2, <1>3, FileSystemAssumption DEF Blocks, UNDEFINED_BLOCK
  <2>2. NextMode(q) = "none" /\ NextMode(q1) = "none"
    BY <1>2, <1>3 DEF NextMode
  <2> QED
    BY <1>1, <2>1, <2>2 DEF Keeps, Weight, CurrWeight, NextWeight, Modes
<1>5. Moves(r)
  BY <1>1, <1>2 DEF Moves, ChildLocker
<1> QED
  BY <1>3, <1>4, <1>5, QuietStep

(* A handler that throws, or answers, gives back the one lock it holds. *)
LEMMA EndStep ==
    ASSUME LockInv, NEW r \in Requests, NEW data, NEW outcome \in {"done", "failed"},
           NEW mode \in {"shared", "upgrade", "exclusive"},
           lock_map' = Unlocked(lock_map, req[r].curr, mode), Ends(r, outcome, data),
           CurrMode(req[r]) = mode, NextMode(req[r]) = "none"
    PROVE  LockInv'
<1>1. PICK q, q1, x : q = req[r] /\ q1 = req'[r] /\ x = req[r].curr
  OBVIOUS
<1>2. /\ OnlyMoves(r) /\ DOMAIN req' = Requests
      /\ DOMAIN q1 = DOMAIN NewRequest /\ q1.pc = outcome /\ q1.curr = UNDEFINED_BLOCK
  BY <1>1 DEF LockInv, Shape, OnlyMoves, Ends, NewRequest
<1>3. Moves(r)
  BY <1>1, <1>2 DEF Moves, ChildLocker
<1>4. ASSUME NEW b \in Blocks, NEW m \in Modes PROVE Weight(q1, b, m) = 0
  <2>1. q1.curr # b
    BY <1>2, FileSystemAssumption DEF Blocks, UNDEFINED_BLOCK
  <2>2. NextMode(q1) = "none"
    BY <1>2 DEF NextMode
  <2> QED
    BY <2>1, <2>2 DEF Weight, CurrWeight, NextWeight, Modes
<1>5. ASSUME NEW b \in Blocks, NEW m \in Modes
      PROVE  Weight(q, b, m) = IF m = mode /\ b = x THEN 1 ELSE 0
  BY <1>1 DEF Weight, CurrWeight, NextWeight, Modes
<1>6. ASSUME NEW b \in Blocks \ {x}
      PROVE  lock_map'[b] = lock_map[b] /\ Keeps(r, b, Modes)
  BY <1>1, <1>4, <1>5 DEF Keeps, Unlocked, LockInv, Shape
<1>7. ASSUME x \in Blocks PROVE ExactAt(x)'
  <2>1. Loses(r, x, mode) /\ Keeps(r, x, Modes \ {mode})
    BY <1>1, <1>4, <1>5, <1>7 DEF Loses, Keeps, Modes
  <2> QED
    BY <1>1, <1>3, <1>7, <2>1, ReleaseLock DEF LockInv, Moves
<1>8. DOMAIN lock_map' = Blocks
  BY DEF LockInv, Shape, Unlocked
<1> QED
  BY <1>3, <1>6, <1>7, <1>8, OneLockStep

(* A handler that throws while it holds one lock. *)
LEMMA ThrowStep ==
    ASSUME LockInv, NEW r \in Requests, NEW mode \in {"shared", "upgrade"},
           Throws(r, mode), CurrMode(req[r]) = mode, NextMode(req[r]) = "none"
    PROVE  LockInv'
  BY EndStep DEF Throws

(* find_next_inode, and the checks of the handlers. *)
LEMMA LookupStep ==
    ASSUME LockInv, NEW r \in Requests, find_next_inode(r)
    PROVE  LockInv'
<1>1. PICK q, q1 : q = req[r] /\ q1 = req'[r]
  OBVIOUS
<1>2. q.pc = "lookup" /\ CurrMode(q) = "shared" /\ NextMode(q) = "none"
  BY <1>1 DEF find_next_inode, CurrMode, NextMode
<1>3. CASE Throws(r, "shared")
  BY <1>1, <1>2, <1>3, ThrowStep
<1>4. CASE ~Throws(r, "shared")
  <2>1. PICK d, n : /\ req' = [req EXCEPT ![r].pc = "register", ![r].depth = d, ![r].next = n]
                    /\ lock_map' = lock_map
    BY Zenon, <1>4 DEF find_next_inode
  <2>2. /\ OnlyMoves(r) /\ DOMAIN req' = Requests
        /\ DOMAIN q1 = DOMAIN NewRequest /\ q1.pc = "register" /\ q1.curr = q.curr
    BY <1>1, <2>1 DEF LockInv, Shape, OnlyMoves
  <2> QED
    BY <1>1, <1>2, <2>1, <2>2, QuietMove DEF Moves, ChildLocker, CurrMode, NextMode
<1> QED
  BY <1>3, <1>4

(* handle_read, whole. *)
LEMMA ReadStep ==
    ASSUME LockInv, NEW r \in Requests, ReadBlock(r)
    PROVE  LockInv'
<1>1. CurrMode(req[r]) = "shared" /\ NextMode(req[r]) = "none"
  BY DEF ReadBlock, CurrMode, NextMode
<1>2. CASE Throws(r, "shared")
  BY <1>1, <1>2, ThrowStep
<1>3. CASE ~Throws(r, "shared")
  <2>1. PICK data : /\ lock_map' = Unlocked(lock_map, req[r].curr, "shared")
                    /\ Ends(r, "done", data)
    BY <1>3 DEF ReadBlock
  <2> QED
    BY <1>1, <2>1, EndStep
<1> QED
  BY <1>2, <1>3

(* handle_write up to its first allocation or upgrade. *)
LEMMA CheckWriteStep ==
    ASSUME LockInv, NEW r \in Requests, CheckWrite(r)
    PROVE  LockInv'
<1>1. PICK q, q1 : q = req[r] /\ q1 = req'[r]
  OBVIOUS
<1>2. CurrMode(q) = "upgrade" /\ NextMode(q) = "none"
  BY <1>1 DEF CheckWrite, CurrMode, NextMode
<1>3. CASE Throws(r, "upgrade")
  BY <1>1, <1>2, <1>3, ThrowStep
<1>4. CASE ~Throws(r, "upgrade")
  <2> DEFINE I == Inode(disk, q.curr)
             grows == q.command.block = Len(I.blocks)
             pc == IF grows THEN "alloc" ELSE "upgrade"
  <2>2. /\ lock_map' = lock_map
        /\ req' = [req EXCEPT ![r].pc = pc, ![r].inode = I, ![r].grows = grows]
    BY <1>1, <1>4 DEF CheckWrite
  <2>3. pc \in {"alloc", "upgrade"}
    OBVIOUS
  <2> HIDE DEF I, grows, pc
  <2>1. /\ OnlyMoves(r) /\ DOMAIN req' = Requests /\ lock_map' = lock_map
        /\ DOMAIN q1 = DOMAIN NewRequest /\ q1.pc \in {"alloc", "upgrade"} /\ q1.curr = q.curr
    BY <1>1, <2>2, <2>3 DEF LockInv, Shape, OnlyMoves
  <2> QED
    BY <1>1, <1>2, <2>1, QuietMove DEF Moves, ChildLocker, CurrMode, NextMode
<1> QED
  BY <1>3, <1>4

(* handle_create up to its first allocation. *)
LEMMA CheckCreateStep ==
    ASSUME LockInv, NEW r \in Requests, CheckCreate(r)
    PROVE  LockInv'
<1>1. PICK q, q1 : q = req[r] /\ q1 = req'[r]
  OBVIOUS
<1>2. CurrMode(q) = "upgrade" /\ NextMode(q) = "none"
  BY Zenon, <1>1 DEF CheckCreate, CurrMode, NextMode
<1>3. CASE Throws(r, "upgrade")
  BY <1>1, <1>2, <1>3, ThrowStep
<1>4. CASE ~Throws(r, "upgrade")
  <2> DEFINE I == Inode(disk, q.curr)
             ij == First({kl \in Places(I) : EntryAt(disk, I, kl).inode_block = 0})
             e == Entries(disk, I.blocks[ij[1]])
             old == req' = [req EXCEPT ![r].pc = "alloc", ![r].inode = I,
                        ![r].dir = I.blocks[ij[1]], ![r].place = ij, ![r].entries = e]
             more == req' = [req EXCEPT ![r].pc = "alloc", ![r].inode = I, ![r].grows = TRUE,
                        ![r].place = <<0, 1>>, ![r].entries = NoEntries]
  <2>2. lock_map' = lock_map /\ (old \/ more)
    BY Zenon, <1>1, <1>4 DEF CheckCreate
  <2> HIDE DEF I, ij, e
  <2>1. /\ OnlyMoves(r) /\ DOMAIN req' = Requests /\ lock_map' = lock_map
        /\ DOMAIN q1 = DOMAIN NewRequest /\ q1.pc = "alloc" /\ q1.curr = q.curr
    <3>1. CASE old
      BY <1>1, <2>2, <3>1 DEF LockInv, Shape, OnlyMoves
    <3>2. CASE more
      BY <1>1, <2>2, <3>2 DEF LockInv, Shape, OnlyMoves
    <3> QED
      BY <2>2, <3>1, <3>2
  <2> QED
    BY <1>1, <1>2, <2>1, QuietMove DEF Moves, ChildLocker, CurrMode, NextMode
<1> QED
  BY <1>3, <1>4

(* handle_delete up to the upgrade of the parent's lock. *)
LEMMA CheckDeleteStep ==
    ASSUME LockInv, NEW r \in Requests, CheckDelete(r)
    PROVE  LockInv'
<1>1. PICK q, q1 : q = req[r] /\ q1 = req'[r]
  OBVIOUS
<1>2. CurrMode(q) = "upgrade" /\ NextMode(q) = "none"
  BY <1>1 DEF CheckDelete, CurrMode, NextMode
<1>3. CASE Throws(r, "upgrade")
  BY <1>1, <1>2, <1>3, ThrowStep
<1>4. CASE ~Throws(r, "upgrade")
  <2> DEFINE I == Inode(disk, q.curr)
             ij == First(Named(disk, I, TargetName(q.command)))
             n == EntryAt(disk, I, ij).inode_block
             d == I.blocks[ij[1]]
             e == Entries(disk, I.blocks[ij[1]])
  <2>2. /\ lock_map' = lock_map
        /\ req' = [req EXCEPT ![r].pc = "upgrade", ![r].inode = I, ![r].next = n,
                              ![r].dir = d, ![r].place = ij, ![r].entries = e]
    BY Zenon, <1>1, <1>4 DEF CheckDelete
  <2> HIDE DEF I, ij, n, d, e
  <2>1. /\ OnlyMoves(r) /\ DOMAIN req' = Requests /\ lock_map' = lock_map
        /\ DOMAIN q1 = DOMAIN NewRequest /\ q1.pc = "upgrade" /\ q1.curr = q.curr
    BY <1>1, <2>2 DEF LockInv, Shape, OnlyMoves
  <2> QED
    BY <1>1, <1>2, <2>1, QuietMove DEF Moves, ChildLocker, CurrMode, NextMode
<1> QED
  BY <1>3, <1>4

(* The handlers' allocations.  A create that finds no free block fails and *)
(* keeps its lock.                                                         *)
LEMMA AllocDataStep ==
    ASSUME LockInv, NEW r \in Requests, AllocData(r)
    PROVE  LockInv'
<1>1. PICK q, q1, new : q = req[r] /\ q1 = req'[r] /\ new = Head(free_block_list)
  OBVIOUS
<1>2. CurrMode(q) = "upgrade" /\ NextMode(q) = "none"
  BY <1>1 DEF AllocData, CurrMode, NextMode
<1>3. CASE Throws(r, "upgrade")
  BY <1>1, <1>2, <1>3, ThrowStep
<1>4. CASE ~Throws(r, "upgrade")
  <2>1. /\ lock_map' = lock_map
        /\ req' = [req EXCEPT ![r].pc = "write_new", ![r].new = new,
                              ![r].inode.blocks = Append(@, new)]
    BY <1>1, <1>4 DEF AllocData
  <2>2. /\ OnlyMoves(r) /\ DOMAIN req' = Requests
        /\ DOMAIN q1 = DOMAIN NewRequest /\ q1.pc = "write_new"
        /\ q1.curr = q.curr /\ q1.command = q.command
    BY <1>1, <2>1 DEF LockInv, Shape, OnlyMoves
  <2> QED
    BY <1>1, <1>2, <2>1, <2>2, QuietMove DEF Moves, ChildLocker, CurrMode, NextMode
<1> QED
  BY <1>3, <1>4

(* A block for the direntries of a directory that grows. *)
LEMMA AllocDirStep ==
    ASSUME LockInv, NEW r \in Requests, AllocDir(r)
    PROVE  LockInv'
<1>1. PICK q, q1, new : q = req[r] /\ q1 = req'[r] /\ new = Head(free_block_list)
  OBVIOUS
<1>2. CurrMode(q) = "upgrade" /\ NextMode(q) = "none"
  BY <1>1 DEF AllocDir, CurrMode, NextMode
<1>3. CASE Throws(r, "upgrade")
  BY <1>1, <1>2, <1>3, ThrowStep
<1>4. CASE ~Throws(r, "upgrade")
  <2>1. /\ lock_map' = lock_map
        /\ req' = [req EXCEPT ![r].pc = "write_new", ![r].dir = new,
                              ![r].inode.blocks = Append(@, new)]
    BY <1>1, <1>4 DEF AllocDir
  <2>2. /\ OnlyMoves(r) /\ DOMAIN req' = Requests
        /\ DOMAIN q1 = DOMAIN NewRequest /\ q1.pc = "write_new"
        /\ q1.curr = q.curr /\ q1.command = q.command
    BY <1>1, <2>1 DEF LockInv, Shape, OnlyMoves
  <2> QED
    BY <1>1, <1>2, <2>1, <2>2, QuietMove DEF Moves, ChildLocker, CurrMode, NextMode
<1> QED
  BY <1>3, <1>4

(* A block for the new inode; without one the lock is kept. *)
LEMMA AllocInodeStep ==
    ASSUME LockInv, NEW r \in Requests, AllocInode(r)
    PROVE  LockInv'
<1>1. PICK q, q1, new : q = req[r] /\ q1 = req'[r] /\ new = Head(free_block_list)
  OBVIOUS
<1>2. CurrMode(q) = "upgrade" /\ NextMode(q) = "none" /\ lock_map' = lock_map
  BY <1>1 DEF AllocInode, CurrMode, NextMode
<1>3. CASE free_block_list = <<>>
  <2>1. req' = [req EXCEPT ![r] = [NewRequest EXCEPT !.pc = "failed", !.curr = q.curr]]
    BY <1>1, <1>3 DEF AllocInode
  <2>2. /\ OnlyMoves(r) /\ DOMAIN req' = Requests
        /\ DOMAIN q1 = DOMAIN NewRequest /\ q1.pc = "failed" /\ q1.curr = q.curr
    BY <1>1, <2>1 DEF LockInv, Shape, OnlyMoves, NewRequest
  <2> QED
    BY <1>1, <1>2, <2>2, QuietMove DEF Moves, ChildLocker, CurrMode, NextMode
<1>4. CASE free_block_list # <<>>
  <2> DEFINE pc == IF q.grows THEN "alloc_dir" ELSE "write_new"
             e == [name |-> TargetName(q.command), inode_block |-> new]
  <2>1. req' = [req EXCEPT ![r].pc = pc, ![r].new = new, ![r].entries[q.place[2]] = e]
    BY <1>1, <1>4 DEF AllocInode
  <2>2. pc \in {"alloc_dir", "write_new"}
    OBVIOUS
  <2> HIDE DEF pc, e
  <2>3. /\ OnlyMoves(r) /\ DOMAIN req' = Requests
        /\ DOMAIN q1 = DOMAIN NewRequest /\ q1.pc = pc
        /\ q1.curr = q.curr /\ q1.command = q.command
    BY <1>1, <2>1 DEF LockInv, Shape, OnlyMoves
  <2> QED
    BY <1>1, <1>2, <2>2, <2>3, QuietMove DEF Moves, ChildLocker, CurrMode, NextMode
<1> QED
  BY <1>3, <1>4

(* Registering with the lock of next, on the way down and for the child. *)
LEMMA RegisterStep ==
    ASSUME LockInv, NEW r \in Requests, Register(r) \/ RegisterChild(r)
    PROVE  LockInv'
<1>1. PICK q, q1, x : q = req[r] /\ q1 = req'[r] /\ x = req[r].next
  OBVIOUS
<1>2. /\ lock_map' = Registered(x)
      /\ \/ q.pc = "register" /\ Goes(r, "acquire")
         \/ q.pc = "register_child" /\ Goes(r, "acquire_child")
  BY <1>1 DEF Register, RegisterChild
<1>3. ASSUME NEW pc, Goes(r, pc)
      PROVE  /\ OnlyMoves(r) /\ DOMAIN req' = Requests
             /\ DOMAIN q1 = DOMAIN NewRequest /\ q1.pc = pc
             /\ q1.curr = q.curr /\ q1.next = q.next /\ q1.command = q.command
  BY <1>1, <1>3 DEF LockInv, Shape, OnlyMoves, Goes
<1>4. Moves(r)
  BY <1>1, <1>2, <1>3 DEF Moves, ChildLocker, LockInv
<1>5. /\ CurrMode(q1) = CurrMode(q) /\ q1.curr = q.curr
      /\ NextMode(q) = "none" /\ NextMode(q1) = "awaited" /\ q1.next = x
  BY <1>1, <1>2, <1>3 DEF CurrMode, NextMode
<1>6. ASSUME NEW b \in Blocks \ {x}
      PROVE  lock_map'[b] = lock_map[b] /\ Keeps(r, b, Modes)
  <2>1. Keeps(r, b, Modes)
    BY <1>1, <1>5, <1>6 DEF Keeps, Weight, CurrWeight, NextWeight, Modes
  <2> QED
    BY <1>2, <2>1 DEF Registered, LockInv, Shape
<1>7. ASSUME x \in Blocks PROVE ExactAt(x)'
  <2>1. Gains(r, x, "awaited") /\ Keeps(r, x, Modes \ {"awaited"})
    BY <1>1, <1>5 DEF Gains, Keeps, Weight, CurrWeight, NextWeight, Modes
  <2> QED
    BY <1>2, <1>4, <1>7, <2>1, RegisterLock DEF LockInv, Moves
<1>8. DOMAIN lock_map' = Blocks
  BY <1>2 DEF LockInv, Shape, Registered
<1> QED
  BY <1>4, <1>6, <1>7, <1>8, OneLockStep

(* Getting the lock of next. *)
LEMMA AcquireStep ==
    ASSUME LockInv, NEW r \in Requests, Acquire(r)
    PROVE  LockInv'
<1>1. PICK q, q1, x, mode : /\ q = req[r] /\ q1 = req'[r]
                            /\ x = req[r].next /\ mode = LockMode(req[r])
  OBVIOUS
<1> DEFINE first == q.curr = UNDEFINED_BLOCK
           pc == IF first THEN AfterLock(q) ELSE "release"
           curr == IF first THEN x ELSE q.curr
<1>2. /\ q.pc = "acquire" /\ CanLock(x, mode) /\ lock_map' = Locked(x, mode)
      /\ req' = [req EXCEPT ![r].pc = pc, ![r].curr = curr]
  BY <1>1 DEF Acquire
<1>3. /\ mode \in {"shared", "upgrade"} /\ mode = LockMode(q)
      /\ pc \in {"check", "lookup", "release"}
  BY <1>1 DEF LockMode, AfterLock
<1>4. /\ OnlyMoves(r) /\ DOMAIN req' = Requests
      /\ DOMAIN q1 = DOMAIN NewRequest /\ q1.pc = pc /\ q1.curr = curr
      /\ q1.next = x /\ q1.command = q.command /\ q1.depth = q.depth
  <2> HIDE DEF pc, curr
  <2> QED
    BY <1>1, <1>2 DEF LockInv, Shape, OnlyMoves
<1>5. Moves(r)
  BY <1>1, <1>3, <1>4 DEF Moves, ChildLocker
<1>6. CurrMode(q) = "shared" /\ NextMode(q) = "awaited" /\ q.next = x
  BY <1>1, <1>2 DEF CurrMode, NextMode
<1>7. CASE first
  <2>1. CurrMode(q1) = mode /\ NextMode(q1) = "none" /\ q1.curr = x
    BY <1>3, <1>4, <1>7 DEF CurrMode, NextMode, LockMode, AfterLock
  <2>2. \A b \in Blocks : q.curr # b
    BY <1>7, FileSystemAssumption DEF Blocks, UNDEFINED_BLOCK
  <2>3. ASSUME NEW b \in Blocks \ {x} PROVE Keeps(r, b, Modes)
    BY <1>1, <1>6, <2>1, <2>2, <2>3 DEF Keeps, Weight, CurrWeight, NextWeight, Modes
  <2>4. ASSUME x \in Blocks
        PROVE  /\ Loses(r, x, "awaited") /\ Gains(r, x, mode)
               /\ Keeps(r, x, Modes \ {"awaited", mode})
    BY <1>1, <1>3, <1>6, <2>1, <2>2, <2>4
       DEF Loses, Gains, Keeps, Weight, CurrWeight, NextWeight, Modes
  <2>5. ASSUME x \in Blocks PROVE ExactAt(x)'
    BY <1>2, <1>3, <1>5, <2>4, <2>5, AcquireLock DEF LockInv, Moves
  <2>6. DOMAIN lock_map' = Blocks /\ \A b \in Blocks \ {x} : lock_map'[b] = lock_map[b]
    BY <1>2 DEF LockInv, Shape, Locked
  <2> QED
    BY <1>5, <2>3, <2>5, <2>6, OneLockStep
<1>8. CASE ~first
  <2>1. CurrMode(q1) = "shared" /\ NextMode(q1) = mode /\ q1.curr = q.curr
    BY <1>3, <1>4, <1>8 DEF CurrMode, NextMode, LockMode, Arrives
  <2>3. ASSUME NEW b \in Blocks \ {x} PROVE Keeps(r, b, Modes)
    BY <1>1, <1>4, <1>6, <2>1, <2>3 DEF Keeps, Weight, CurrWeight, NextWeight, Modes
  <2>4. ASSUME x \in Blocks
        PROVE  /\ Loses(r, x, "awaited") /\ Gains(r, x, mode)
               /\ Keeps(r, x, Modes \ {"awaited", mode})
    BY <1>1, <1>3, <1>4, <1>6, <2>1, <2>4
       DEF Loses, Gains, Keeps, Weight, CurrWeight, NextWeight, Modes
  <2>5. ASSUME x \in Blocks PROVE ExactAt(x)'
    BY <1>2, <1>3, <1>5, <2>4, <2>5, AcquireLock DEF LockInv, Moves
  <2>6. DOMAIN lock_map' = Blocks /\ \A b \in Blocks \ {x} : lock_map'[b] = lock_map[b]
    BY <1>2 DEF LockInv, Shape, Locked
  <2> QED
    BY <1>5, <2>3, <2>5, <2>6, OneLockStep
<1> QED
  BY <1>7, <1>8

(* A delete gets the lock of the child. *)
LEMMA AcquireChildStep ==
    ASSUME LockInv, NEW r \in Requests, AcquireChild(r)
    PROVE  LockInv'
<1>1. PICK q, q1, x : q = req[r] /\ q1 = req'[r] /\ x = req[r].next
  OBVIOUS
<1>2. /\ q.pc = "acquire_child" /\ CanLock(x, "upgrade")
      /\ lock_map' = Locked(x, "upgrade") /\ Goes(r, "inspect")
  BY <1>1 DEF AcquireChild
<1>3. /\ OnlyMoves(r) /\ DOMAIN req' = Requests
      /\ DOMAIN q1 = DOMAIN NewRequest /\ q1.pc = "inspect"
      /\ q1.curr = q.curr /\ q1.next = x /\ q1.command = q.command
  BY <1>1, <1>2 DEF LockInv, Shape, OnlyMoves, Goes
<1>4. q.command.op = "delete"
  BY <1>1, <1>2 DEF LockInv, ChildLocker
<1>5. Moves(r)
  BY <1>1, <1>3, <1>4 DEF Moves, ChildLocker
<1>6. /\ CurrMode(q) = "exclusive" /\ NextMode(q) = "awaited" /\ q.next = x
      /\ CurrMode(q1) = "exclusive" /\ NextMode(q1) = "upgrade"
  BY <1>1, <1>2, <1>3, <1>4 DEF CurrMode, NextMode
<1>7. ASSUME NEW b \in Blocks \ {x} PROVE Keeps(r, b, Modes)
  BY <1>1, <1>3, <1>6, <1>7 DEF Keeps, Weight, CurrWeight, NextWeight, Modes
<1>8. /\ Loses(r, x, "awaited") /\ Gains(r, x, "upgrade")
      /\ Keeps(r, x, Modes \ {"awaited", "upgrade"})
  BY <1>1, <1>3, <1>6 DEF Loses, Gains, Keeps, Weight, CurrWeight, NextWeight, Modes
<1>9. ASSUME x \in Blocks PROVE ExactAt(x)'
  BY <1>2, <1>5, <1>8, <1>9, AcquireLock DEF LockInv, Moves
<1>10. DOMAIN lock_map' = Blocks /\ \A b \in Blocks \ {x} : lock_map'[b] = lock_map[b]
  BY <1>2 DEF LockInv, Shape, Locked
<1> QED
  BY <1>5, <1>7, <1>9, <1>10, OneLockStep

(* upgrade_to_write_lock, for the inode and for the child. *)
LEMMA UpgradeStep ==
    ASSUME LockInv, NEW r \in Requests, Upgrade(r)
    PROVE  LockInv'
<1>1. PICK q, q1, x : q = req[r] /\ q1 = req'[r] /\ x = req[r].curr
  OBVIOUS
<1> DEFINE pc == IF q.command.op = "delete" THEN "register_child" ELSE "commit"
<1>2. /\ q.pc = "upgrade" /\ CanUpgrade(x)
      /\ lock_map' = Upgraded(x) /\ Goes(r, pc)
  BY <1>1 DEF Upgrade
<1>3. /\ OnlyMoves(r) /\ DOMAIN req' = Requests
      /\ DOMAIN q1 = DOMAIN NewRequest /\ q1.pc = pc
      /\ q1.curr = x /\ q1.next = q.next /\ q1.command = q.command
  <2> HIDE DEF pc
  <2> QED
    BY <1>1, <1>2 DEF LockInv, Shape, OnlyMoves, Goes
<1>4. Moves(r)
  BY <1>1, <1>3 DEF Moves, ChildLocker
<1>5. /\ CurrMode(q) = "upgrade" /\ NextMode(q) = "none" /\ q.curr = x
      /\ CurrMode(q1) = "exclusive" /\ NextMode(q1) = "none"
  BY <1>1, <1>2, <1>3 DEF CurrMode, NextMode
<1>6. ASSUME NEW b \in Blocks \ {x} PROVE Keeps(r, b, Modes)
  BY <1>1, <1>3, <1>5, <1>6 DEF Keeps, Weight, CurrWeight, NextWeight, Modes
<1>7. /\ Loses(r, x, "upgrade") /\ Gains(r, x, "exclusive")
      /\ Keeps(r, x, Modes \ {"upgrade", "exclusive"})
  BY <1>1, <1>3, <1>5 DEF Loses, Gains, Keeps, Weight, CurrWeight, NextWeight, Modes
<1>8. ASSUME x \in Blocks PROVE ExactAt(x)'
  BY <1>2, <1>4, <1>7, <1>8, UpgradeLock DEF LockInv, Moves
<1>9. DOMAIN lock_map' = Blocks /\ \A b \in Blocks \ {x} : lock_map'[b] = lock_map[b]
  BY <1>2 DEF LockInv, Shape, Upgraded
<1> QED
  BY <1>4, <1>6, <1>8, <1>9, OneLockStep

(* A delete upgrades the lock of the child. *)
LEMMA UpgradeChildStep ==
    ASSUME LockInv, NEW r \in Requests, UpgradeChild(r)
    PROVE  LockInv'
<1>1. PICK q, q1, x : q = req[r] /\ q1 = req'[r] /\ x = req[r].next
  OBVIOUS
<1>2. /\ q.pc = "upgrade_child" /\ CanUpgrade(x)
      /\ lock_map' = Upgraded(x) /\ Goes(r, "release_parent")
  BY <1>1 DEF UpgradeChild
<1>3. /\ OnlyMoves(r) /\ DOMAIN req' = Requests
      /\ DOMAIN q1 = DOMAIN NewRequest /\ q1.pc = "release_parent"
      /\ q1.curr = q.curr /\ q1.next = x /\ q1.command = q.command
  BY <1>1, <1>2 DEF LockInv, Shape, OnlyMoves, Goes
<1>4. q.command.op = "delete"
  BY <1>1, <1>2 DEF LockInv, ChildLocker
<1>5. Moves(r)
  BY <1>1, <1>3 DEF Moves, ChildLocker
<1>6. /\ CurrMode(q) = "exclusive" /\ NextMode(q) = "upgrade" /\ q.next = x
      /\ CurrMode(q1) = "exclusive" /\ NextMode(q1) = "exclusive"
  BY <1>1, <1>2, <1>3, <1>4 DEF CurrMode, NextMode
<1>7. ASSUME NEW b \in Blocks \ {x} PROVE Keeps(r, b, Modes)
  BY <1>1, <1>3, <1>6, <1>7 DEF Keeps, Weight, CurrWeight, NextWeight, Modes
<1>8. /\ Loses(r, x, "upgrade") /\ Gains(r, x, "exclusive")
      /\ Keeps(r, x, Modes \ {"upgrade", "exclusive"})
  BY <1>1, <1>3, <1>6 DEF Loses, Gains, Keeps, Weight, CurrWeight, NextWeight, Modes
<1>9. ASSUME x \in Blocks PROVE ExactAt(x)'
  BY <1>2, <1>5, <1>8, <1>9, UpgradeLock DEF LockInv, Moves
<1>10. DOMAIN lock_map' = Blocks /\ \A b \in Blocks \ {x} : lock_map'[b] = lock_map[b]
  BY <1>2 DEF LockInv, Shape, Upgraded
<1> QED
  BY <1>5, <1>7, <1>9, <1>10, OneLockStep

(* Unlocking curr and going on with next, which is locked already. *)
LEMMA HandOver ==
    ASSUME LockInv, NEW r \in Requests, Moves(r), NEW mode \in {"shared", "exclusive"},
           lock_map' = Unlocked(lock_map, req[r].curr, mode), CurrMode(req[r]) = mode,
           req'[r].curr = req[r].next, CurrMode(req'[r]) = NextMode(req[r]),
           NextMode(req'[r]) = "none"
    PROVE  LockInv'
<1>1. PICK q, q1, x : q = req[r] /\ q1 = req'[r] /\ x = req[r].curr
  OBVIOUS
<1>2. ASSUME NEW b \in Blocks \ {x} PROVE Keeps(r, b, Modes)
  BY <1>1, <1>2 DEF Keeps, Weight, CurrWeight, NextWeight, Modes
<1>3. Loses(r, x, mode) /\ Keeps(r, x, Modes \ {mode})
  BY <1>1 DEF Loses, Keeps, Weight, CurrWeight, NextWeight, Modes
<1>4. ASSUME x \in Blocks PROVE ExactAt(x)'
  BY <1>1, <1>3, <1>4, ReleaseLock DEF LockInv, Moves
<1>5. DOMAIN lock_map' = Blocks /\ \A b \in Blocks \ {x} : lock_map'[b] = lock_map[b]
  BY <1>1 DEF LockInv, Shape, Unlocked
<1> QED
  BY <1>2, <1>4, <1>5, OneLockStep

(* The walk lets go of the previous inode. *)
LEMMA ReleaseStep ==
    ASSUME LockInv, NEW r \in Requests, Release(r)
    PROVE  LockInv'
<1>1. PICK q, q1 : q = req[r] /\ q1 = req'[r]
  OBVIOUS
<1> DEFINE pc == AfterLock(q)
<1>2. /\ q.pc = "release" /\ lock_map' = Unlocked(lock_map, q.curr, "shared")
      /\ req' = [req EXCEPT ![r].pc = pc, ![r].curr = q.next]
  BY <1>1 DEF Release
<1>3. pc \in {"check", "lookup"}
  BY DEF AfterLock
<1>4. /\ OnlyMoves(r) /\ DOMAIN req' = Requests
      /\ DOMAIN q1 = DOMAIN NewRequest /\ q1.pc = pc /\ q1.curr = q.next
      /\ q1.command = q.command
  <2> HIDE DEF pc
  <2> QED
    BY <1>1, <1>2 DEF LockInv, Shape, OnlyMoves
<1>5. Moves(r)
  BY <1>1, <1>3, <1>4 DEF Moves, ChildLocker
<1>6. /\ CurrMode(q) = "shared" /\ NextMode(q) = LockMode(q)
      /\ CurrMode(q1) = LockMode(q) /\ NextMode(q1) = "none"
  BY <1>2, <1>3, <1>4 DEF CurrMode, NextMode, LockMode, AfterLock
<1> QED
  BY <1>1, <1>2, <1>4, <1>5, <1>6, HandOver

(* A delete that has committed lets go of the parent. *)
LEMMA ReleaseParentStep ==
    ASSUME LockInv, NEW r \in Requests, ReleaseParent(r)
    PROVE  LockInv'
<1>1. PICK q, q1 : q = req[r] /\ q1 = req'[r]
  OBVIOUS
<1>2. /\ q.pc = "release_parent" /\ lock_map' = Unlocked(lock_map, q.curr, "exclusive")
      /\ req' = [req EXCEPT ![r].pc = "free", ![r].curr = q.next]
  BY <1>1 DEF ReleaseParent
<1>3. /\ OnlyMoves(r) /\ DOMAIN req' = Requests
      /\ DOMAIN q1 = DOMAIN NewRequest /\ q1.pc = "free" /\ q1.curr = q.next
  BY <1>1, <1>2 DEF LockInv, Shape, OnlyMoves
<1>4. Moves(r)
  BY <1>1, <1>3 DEF Moves, ChildLocker
<1>5. /\ CurrMode(q) = "exclusive" /\ NextMode(q) = "exclusive"
      /\ CurrMode(q1) = "exclusive" /\ NextMode(q1) = "none"
  BY <1>2, <1>3 DEF CurrMode, NextMode
<1> QED
  BY <1>1, <1>2, <1>3, <1>4, <1>5, HandOver

(* A delete goes on, or lets go of the parent and refuses. *)
LEMMA InspectChildStep ==
    ASSUME LockInv, NEW r \in Requests, InspectChild(r)
    PROVE  LockInv'
<1>1. PICK q, q1, C : q = req[r] /\ q1 = req'[r] /\ C = Inode(disk, req[r].next)
  OBVIOUS
<1>2. q.pc = "inspect" /\ q.command.op = "delete"
  BY <1>1 DEF InspectChild, LockInv, ChildLocker
<1>3. CurrMode(q) = "exclusive" /\ NextMode(q) = "upgrade"
  BY <1>2 DEF CurrMode, NextMode
<1>4. CASE Deletable(C, q.command)
  <2> DEFINE t == <<q.next>> \o (IF C.type = "f" THEN C.blocks ELSE <<>>)
  <2>1. /\ lock_map' = lock_map
        /\ req' = [req EXCEPT ![r].pc = "commit", ![r].entries[q.place[2]] = Unused,
                              ![r].tofree = t]
    BY <1>1, <1>4 DEF InspectChild
  <2> HIDE DEF t
  <2>2. /\ OnlyMoves(r) /\ DOMAIN req' = Requests
        /\ DOMAIN q1 = DOMAIN NewRequest /\ q1.pc = "commit"
        /\ q1.curr = q.curr /\ q1.next = q.next /\ q1.command = q.command
    BY <1>1, <2>1 DEF LockInv, Shape, OnlyMoves
  <2>3. Moves(r) /\ CurrMode(q1) = "exclusive" /\ NextMode(q1) = "upgrade"
    BY <1>1, <1>2, <2>2 DEF Moves, ChildLocker, CurrMode, NextMode
  <2> QED
    BY <1>1, <1>3, <2>1, <2>2, <2>3, QuietMove
<1>5. CASE ~Deletable(C, q.command)
  <2>1. /\ lock_map' = Unlocked(lock_map, q.curr, "exclusive")
        /\ req' = [req EXCEPT ![r].pc = "refuse", ![r].curr = q.next]
    BY <1>1, <1>5 DEF InspectChild
  <2>2. /\ OnlyMoves(r) /\ DOMAIN req' = Requests
        /\ DOMAIN q1 = DOMAIN NewRequest /\ q1.pc = "refuse" /\ q1.curr = q.next
    BY <1>1, <2>1 DEF LockInv, Shape, OnlyMoves
  <2>3. Moves(r) /\ CurrMode(q1) = "upgrade" /\ NextMode(q1) = "none"
    BY <1>1, <1>2, <2>2 DEF Moves, ChildLocker, CurrMode, NextMode
  <2> QED
    BY <1>1, <1>3, <2>1, <2>2, <2>3, HandOver
<1> QED
  BY <1>4, <1>5

(* A delete that is refused, and the end of a handler that has written. *)
LEMMA LastStep ==
    ASSUME LockInv, NEW r \in Requests, RefuseDelete(r) \/ Unlock(r)
    PROVE  LockInv'
<1>1. CASE RefuseDelete(r)
  <2>1. CurrMode(req[r]) = "upgrade" /\ NextMode(req[r]) = "none" /\ Throws(r, "upgrade")
    BY <1>1 DEF RefuseDelete, CurrMode, NextMode
  <2> QED
    BY <2>1, ThrowStep
<1>2. CASE Unlock(r)
  <2>1. /\ CurrMode(req[r]) = "exclusive" /\ NextMode(req[r]) = "none"
        /\ lock_map' = Unlocked(lock_map, req[r].curr, "exclusive")
        /\ Ends(r, "done", NoData)
    BY <1>2 DEF Unlock, CurrMode, NextMode
  <2> QED
    BY <2>1, EndStep
<1> QED
  BY <1>1, <1>2

-----------------------------------------------------------------------------
(* Locks without users: when the server starts, and after a crash.         *)

NoHolders(q) == q.curr = UNDEFINED_BLOCK /\ ~Active(q)

(* A server that has just been started: nobody holds a lock. *)
Started == /\ Shape /\ lock_map = [b \in Blocks |-> NoLock]
           /\ \A r \in Requests : NoHolders(req[r])

(* Such a server satisfies the invariant. *)
LEMMA NobodyHolds == Started => LockInv
<1> SUFFICES ASSUME Started PROVE LockInv
  OBVIOUS
<1>1. ASSUME NEW b \in Blocks PROVE ExactAt(b)
  <2>1. b # UNDEFINED_BLOCK
    BY FileSystemAssumption DEF Blocks, UNDEFINED_BLOCK
  <2>2. ASSUME NEW m \in Modes PROVE Count(b, m) = 0
    <3>1. CurrHolders(b, m) = {}
      BY <2>1 DEF Started, CurrHolders, NoHolders
    <3>2. NextHolders(b, m) = {}
      BY DEF Started, NextHolders, NextMode, NoHolders, Active, Modes
    <3> QED
      BY <3>1, <3>2, FS_EmptySet DEF Count
  <2> QED
    BY <2>2 DEF Started, ExactAt, Exact, NoLock, Modes, Lock
<1>2. \A r \in Requests : /\ ChildLocker(req[r])
                          /\ req[r].pc = "new" => req[r].curr = UNDEFINED_BLOCK
  BY DEF Started, ChildLocker, NoHolders, Active
<1> QED
  BY <1>1, <1>2 DEF Started, LockInv

(* The invariant holds when the server is first started. *)
LEMMA InitLockInv == Init => LockInv
<1> SUFFICES ASSUME Init PROVE LockInv
  OBVIOUS
<1>1. Shape
  BY DEF Init, Shape
<1>2. \A r \in Requests : NoHolders(req[r])
  BY DEF Init, NoHolders, Active, NewRequest
<1> QED
  BY <1>1, <1>2, NobodyHolds DEF Init, Started

(* A crash leaves a server that has just been started. *)
LEMMA CrashStep ==
    ASSUME LockInv, Crash
    PROVE  LockInv'
<1>1. ASSUME NEW r \in Requests
      PROVE  DOMAIN req'[r] = DOMAIN NewRequest /\ NoHolders(req'[r])
  <2>1. CASE Active(req[r])
    <3>1. req'[r] = [NewRequest EXCEPT !.pc = "lost"]
      BY <2>1 DEF Crash
    <3> QED
      BY <3>1 DEF NoHolders, Active, NewRequest
  <2>2. CASE ~Active(req[r])
    <3>1. req'[r] = [req[r] EXCEPT !.curr = UNDEFINED_BLOCK]
      BY <2>2 DEF Crash
    <3>2. DOMAIN req[r] = DOMAIN NewRequest
      BY DEF LockInv, Shape
    <3>3. /\ DOMAIN req'[r] = DOMAIN NewRequest /\ req'[r].pc = req[r].pc
          /\ req'[r].curr = UNDEFINED_BLOCK
      BY <3>1, <3>2 DEF NewRequest
    <3> QED
      BY <2>2, <3>3 DEF NoHolders, Active
  <2> QED
    BY <2>1, <2>2
<1>2. DOMAIN req' = Requests /\ lock_map' = [b \in Blocks |-> NoLock]
  BY DEF Crash
<1>3. Started'
  BY <1>1, <1>2 DEF Started, Shape
<1>4. (Started => LockInv)'
  BY NobodyHolds, PTL
<1> QED
  BY <1>3, <1>4

(* Every step preserves the invariant. *)
LEMMA NextLockInv == LockInv /\ [Next]_vars => LockInv'
<1> SUFFICES ASSUME LockInv, [Next]_vars PROVE LockInv'
  OBVIOUS
<1>1. ASSUME NEW r \in Requests, Walk(r) PROVE LockInv'
  BY <1>1, RegisterStep, AcquireStep, ReleaseStep, LookupStep DEF Walk
<1>2. ASSUME NEW r \in Requests, Check(r) PROVE LockInv'
  BY <1>2, ReadStep, CheckWriteStep, CheckCreateStep, CheckDeleteStep DEF Check
<1>3. ASSUME NEW r \in Requests, Prepare(r) PROVE LockInv'
  BY <1>3, AllocDataStep, AllocInodeStep, AllocDirStep, WritesOrFreesStep
     DEF Prepare, WritesOrFrees
<1>4. ASSUME NEW r \in Requests, Finish(r) PROVE LockInv'
  BY <1>4, UpgradeStep, LastStep, WritesOrFreesStep DEF Finish, WritesOrFrees
<1>5. ASSUME NEW r \in Requests, Delete(r) PROVE LockInv'
  BY <1>5, RegisterStep, AcquireChildStep, InspectChildStep, LastStep, UpgradeChildStep,
     ReleaseParentStep, WritesOrFreesStep DEF Delete, WritesOrFrees
<1>6. ASSUME NEW r \in Requests, NEW c \in Commands, Receive(r, c) PROVE LockInv'
  BY <1>6, ReceiveStep
<1>7. CASE Crash
  BY <1>7, CrashStep
<1>8. CASE UNCHANGED vars
  <2>1. \A b \in Blocks, m \in Modes : Count(b, m)' = Count(b, m)
    BY <1>8 DEF vars, Count, CurrHolders, NextHolders
  <2>2. \A b \in Blocks : ExactAt(b)'
    BY <1>8, <2>1 DEF vars, LockInv, ExactAt, Exact, Modes
  <2> QED
    BY <1>8, <2>2 DEF vars, LockInv, Shape, ChildLocker
<1> QED
  BY <1>1, <1>2, <1>3, <1>4, <1>5, <1>6, <1>7, <1>8 DEF Next, Serve

(* Every lock of lock_map counts its users right, whatever the requests do *)
(* and wherever the server crashes: lock_inode_read, lock_inode_upgrade,   *)
(* upgrade_to_write_lock and the unlock functions erase no lock that a     *)
(* thread holds or awaits and keep none that nobody uses (but for the one  *)
(* of a create that found no free block), and at most one request has an   *)
(* upgradeable or exclusive lock, an exclusive one with no reader beside   *)
(* it.                                                                     *)
THEOREM LocksCounted == Spec => []LockMapExact
<1>1. LockInv => LockMapExact
  BY DEF LockInv, LockMapExact, ExactAt, Exact
<1> QED
  BY <1>1, InitLockInv, NextLockInv, PTL DEF Spec

-----------------------------------------------------------------------------
(* The inductive invariant of the disk: FsInv.                             *)

(* The blocks of an inode, as a set; what the direntries of a directory    *)
(* lead to, by block and slot.                                             *)
Owns(d, x) == ToSet(Inode(d, x).blocks)
IsDir(d, x) == Inode(d, x).type = "d"
Leads(d, b, j) == Entries(d, b)[j].inode_block
HasChild(d, x, y) == IsDir(d, x) /\ y # 0 /\ \E b \in Owns(d, x), j \in Slots : Leads(d, b, j) = y

(* The blocks of the tree *)
Used(d) == InodesOf(d) \cup UNION {Owns(d, x) : x \in InodesOf(d)}

(* What is sound about an inode x of the tree on its own *)
InodeOK(d, x) ==
    /\ d[x].kind = "inode" /\ IsInjective(d[x].blocks)
    /\ IsDir(d, x) => \A b \in Owns(d, x) : d[b].kind = "dir" /\ \E j \in Slots : Leads(d, b, j) # 0
    /\ ~IsDir(d, x) => \A b \in Owns(d, x) : d[b].kind = "data"
(* ... a name occurs once in a directory; *)
NamesOK(d, x) ==
    \A b, c \in Owns(d, x), j, k \in Slots :
        (/\ Leads(d, b, j) # 0 /\ Leads(d, c, k) # 0 /\ Entries(d, b)[j].name \in Names
         /\ Entries(d, b)[j].name = Entries(d, c)[k].name) => b = c /\ j = k

(* and of two inodes: no block and no inode is in two places. *)
Apart(d, x, y) == x # y => Owns(d, x) \cap Owns(d, y) = {}
LinksOK(d, x, y) ==
    \A b \in Owns(d, x), c \in Owns(d, y), j, k \in Slots :
        Leads(d, b, j) # 0 /\ Leads(d, b, j) = Leads(d, c, k) => b = c /\ j = k

(* A sound tree: Consistent, said without counting. *)
TreeOK(d) ==
    LET R == InodesOf(d) IN
    /\ IsDir(d, ROOT_INODE)
    /\ \A x \in R : InodeOK(d, x) /\ Owns(d, x) \cap R = {} /\ (IsDir(d, x) => NamesOK(d, x))
    /\ \A x, y \in R : Apart(d, x, y) /\ (IsDir(d, x) /\ IsDir(d, y) => LinksOK(d, x, y))

(* What the request q works on, as long as it has its lock on curr *)
Changing == {"alloc", "alloc_dir", "write_new", "write_dir", "upgrade", "commit"}
Deleting == {"upgrade", "register_child", "acquire_child", "inspect", "commit"}
Grown(I, b) == [I EXCEPT !.blocks = Append(@, b)]

(* handle_write, on file curr: its inode, as read and as it is to          *)
(* be, and the block of data if the file grows.                            *)
WriteAt(d, q) ==
    /\ d[q.curr].type = "f"
    /\ q.pc \in {"alloc", "write_new"} => q.grows
    /\ q.command.block <= Len(d[q.curr].blocks)
    /\ q.grows <=> q.command.block = Len(d[q.curr].blocks)
    /\ q.inode = IF q.grows /\ q.pc # "alloc" THEN Grown(d[q.curr], q.new) ELSE d[q.curr]
    /\ q.grows /\ q.pc # "alloc" =>
         /\ q.new \in Blocks /\ Len(d[q.curr].blocks) < FS_MAXFILEBLOCKS
         /\ q.pc # "write_new" => d[q.new].kind = "data"
    /\ ~q.grows => q.new = UNDEFINED_BLOCK

(* handle_create, in directory curr: the name is not there, the entry is   *)
(* unused, and the new inode and block of direntries are on the disk once  *)
(* they have been written.                                                 *)
NewEntry(q) == [name |-> TargetName(q.command), inode_block |-> q.new]
CreateAt(d, q) ==
    LET I == d[q.curr]
        old == IF q.grows THEN NoEntries ELSE Entries(d, q.dir)
        j == q.place[2]
    IN  /\ I.type = "d"
        /\ \A b \in ToSet(I.blocks), k \in Slots :
             Leads(d, b, k) # 0 => Entries(d, b)[k].name # TargetName(q.command)
        /\ j \in Slots
        /\ q.entries = IF q.pc = "alloc" THEN old ELSE [old EXCEPT ![j] = NewEntry(q)]
        /\ ~q.grows => q.dir \in ToSet(I.blocks) /\ Leads(d, q.dir, j) = 0 /\ q.inode = I
        /\ q.grows => IF q.pc \in {"alloc", "alloc_dir"} THEN q.inode = I
                      ELSE /\ q.inode = Grown(I, q.dir) /\ q.dir \in Blocks /\ q.dir # q.new
                           /\ Len(I.blocks) < FS_MAXFILEBLOCKS
        /\ q.pc \in {"alloc_dir", "write_dir"} => q.grows
        /\ q.pc # "alloc" => q.new \in Blocks
        /\ q.pc \in {"write_dir", "upgrade", "commit"} =>
             d[q.new] = InodeBlock(q.command.type, q.command.username, <<>>)
        /\ q.pc \in {"upgrade", "commit"} /\ q.grows => d[q.dir] = DirBlock(q.entries)

(* handle_delete, in directory curr: the direntry leads to the child, and  *)
(* the child may be deleted once that has been checked.                    *)
Removed(I) == IF I.type = "f" THEN I.blocks ELSE <<>>
DeleteAt(d, q) ==
    LET I == d[q.curr]
        old == Entries(d, q.dir)
        j == q.place[2]
    IN  /\ I.type = "d" /\ q.inode = I /\ ~q.grows /\ q.new = UNDEFINED_BLOCK
        /\ q.place[1] \in DOMAIN I.blocks /\ q.dir = I.blocks[q.place[1]] /\ j \in Slots
        /\ q.next # 0 /\ Leads(d, q.dir, j) = q.next
        /\ q.entries = IF q.pc = "commit" THEN [old EXCEPT ![j] = Unused] ELSE old
        /\ q.pc = "commit" => /\ d[q.next].type = "d" => d[q.next].blocks = <<>>
                              /\ q.tofree = <<q.next>> \o Removed(d[q.next])

(* An inode that has been unlinked and not been freed *)
VictimAt(d, q) ==
    /\ q.next \in Blocks /\ q.next # q.curr /\ d[q.next].kind = "inode"
    /\ IsDir(d, q.next) => Owns(d, q.next) = {}
    /\ q.tofree = <<q.next>> \o Removed(d[q.next]) /\ IsInjective(q.tofree)
    /\ q.pc = "free_dir" => q.dir \in Blocks /\ q.dir \notin ToSet(q.tofree)

(* Where a request walks down the path, works on an inode it has locked    *)
(* for itself, has unlinked a child, or reads.                             *)
Walking == {"register", "acquire", "release"}
Owning == {"alloc", "alloc_dir", "write_new", "write_dir", "upgrade", "register_child",
           "acquire_child", "inspect", "commit", "refuse"}
Unlinked == {"free_dir", "upgrade_child", "release_parent"}
Standing(q) == q.pc = "lookup" \/ (q.pc = "check" /\ q.command.op = "read")

(* Where request q is in the tree on disk d, and what it has of it *)
At(d, q) ==
    /\ q.pc \in Walking => \/ q.curr = UNDEFINED_BLOCK /\ q.next = ROOT_INODE /\ q.pc # "release"
                           \/ q.curr \in InodesOf(d) /\ HasChild(d, q.curr, q.next)
    /\ q.pc \in Owning \/ (q.pc = "check" /\ q.command.op # "read") => q.curr \in InodesOf(d)
    /\ q.pc = "failed" => q.curr \in InodesOf(d) \cup {UNDEFINED_BLOCK}
    /\ q.pc \in Changing /\ q.command.op = "write" => WriteAt(d, q)
    /\ q.pc \in Changing /\ q.command.op = "create" => CreateAt(d, q)
    /\ q.pc \in Deleting /\ q.command.op = "delete" => DeleteAt(d, q)
    /\ q.pc \in Unlinked => VictimAt(d, q)
    /\ q.pc = "free" => q.tofree # <<>> /\ IsInjective(q.tofree)

(* Which commands get where *)
OpAt(q) ==
    /\ q.pc \in {"alloc_dir", "write_dir"} => q.command.op = "create"
    /\ q.pc \in {"alloc", "write_new"} => q.command.op \in {"write", "create"}
    /\ q.pc \in {"upgrade", "commit"} => q.command.op \in {"write", "create", "delete"}
    /\ q.pc \in {"register_child", "acquire_child", "inspect", "refuse", "free_dir",
                 "upgrade_child", "release_parent", "free"} => q.command.op = "delete"

(* Another request has unlinked the inode of r and waits for r to go on. *)
Orphan(r) == \E s \in Requests : req[s].pc \in {"free_dir", "upgrade_child"} /\ req[s].next = req[r].curr

(* A block is free, in the tree, or taken by one request. *)
Taken(r) == Reserved(req[r]) \ {UNDEFINED_BLOCK}
FreeInv ==
    /\ IsInjective(free_block_list) /\ ToSet(free_block_list) \cap Used(disk) = {}
    /\ \A r \in Requests : Taken(r) \cap (ToSet(free_block_list) \cup Used(disk)) = {}
    /\ \A r, s \in Requests : r # s => Taken(r) \cap Taken(s) = {}

(* How far q has got on its path *)
PathInv(q) ==
    Active(q) => /\ q.command \in Commands /\ q.depth \in 0 .. WalkLength(q.command)
                 /\ q.pc = "lookup" => q.depth < WalkLength(q.command)
                 /\ q.pc = "check" => q.depth = WalkLength(q.command)
                 /\ q.depth = 0 /\ q.pc \in Walking => q.next = ROOT_INODE
                 /\ q.depth = 0 /\ q.pc = "check" => q.curr = ROOT_INODE

(* The local variables of a request that has not taken anything *)
Early == {"new", "register", "acquire", "release", "lookup", "check"}
Fresh(q) == /\ q.pc \in Early => q.new = UNDEFINED_BLOCK /\ q.grows = FALSE
            /\ q.pc = "new" => q.depth = 0

(* The types of the local variables *)
ReqType(q) ==
    /\ q.command \in Commands \cup {NewRequest.command} /\ q.depth \in 0 .. MaxDepth
    /\ {q.curr, q.next, q.dir, q.new} \subseteq Numbers
    /\ q.inode \in Contents \cup {Garbage} /\ DirBlock(q.entries) \in Contents
    /\ q.tofree \in Seq(Blocks) /\ q.data \in Data \cup {NoData}
    /\ q.grows \in BOOLEAN

(* What holds of each request *)
ReqOK(d, q) == At(d, q) /\ OpAt(q) /\ PathInv(q) /\ Fresh(q) /\ ReqType(q)

(* A request that reads an inode reads it in the tree, or it has been      *)
(* unlinked by a request that waits for the readers.                       *)
Stands(r) == Standing(req[r]) => /\ req[r].curr \in Blocks
                                 /\ req[r].curr \in InodesOf(disk) \/ Orphan(r)

(* The inductive invariant, together with LockInv *)
FsInv ==
    /\ disk \in [Blocks -> Contents] /\ TreeOK(disk)
    /\ free_block_list \in Seq(Blocks) /\ FreeInv
    /\ \A r \in Requests : ReqOK(disk, req[r]) /\ Stands(r)

-----------------------------------------------------------------------------
(* What the breadth-first search of find_free_blocks finds.                *)

(* The recursive function of Near exists. *)
LEMMA NearExists ==
    ASSUME NEW d
    PROVE  \E f : f = [n \in 0 .. FS_DISKSIZE |->
                         IF n = 0 THEN {ROOT_INODE} ELSE Further(d, f[n - 1])]
<1> DEFINE D(f, m) == f = [n \in 0 .. m |-> IF n = 0 THEN {ROOT_INODE} ELSE Further(d, f[n - 1])]
           T == {m \in Nat : \E f : D(f, m)}
<1>1. 0 \in T
  <2>1. D([n \in 0 .. 0 |-> {ROOT_INODE}], 0)
    OBVIOUS
  <2> HIDE DEF D
  <2> QED
    BY <2>1
<1>2. ASSUME NEW m \in Nat, m \in T PROVE m + 1 \in T
  <2>1. PICK f : D(f, m)
    BY <1>2
  <2> DEFINE g == [n \in 0 .. m + 1 |-> IF n = 0 THEN {ROOT_INODE}
                                        ELSE IF n <= m THEN f[n] ELSE Further(d, f[m])]
  <2>2. \A n \in 0 .. m : g[n] = f[n]
    BY <2>1
  <2>3. D(g, m + 1)
    <3>1. ASSUME NEW n \in 0 .. m + 1
          PROVE  g[n] = IF n = 0 THEN {ROOT_INODE} ELSE Further(d, g[n - 1])
      <4>1. CASE n = 0
        BY <4>1
      <4>2. CASE n \in 1 .. m
        <5>1. n - 1 \in 0 .. m /\ n \in 0 .. m /\ n # 0
          BY <4>2
        <5>2. f[n] = Further(d, f[n - 1])
          BY <2>1, <5>1
        <5> QED
          BY <2>2, <5>1, <5>2
      <4>3. CASE n = m + 1
        <5>1. g[n] = Further(d, f[m]) /\ n - 1 = m /\ n # 0 /\ m \in 0 .. m
          BY <4>3
        <5> QED
          BY <2>2, <5>1
      <4> QED
        BY <4>1, <4>2, <4>3
    <3> HIDE DEF g
    <3>2. g = [n \in 0 .. m + 1 |-> g[n]]
      BY DEF g
    <3> QED
      BY <3>1, <3>2
  <2> HIDE DEF D, g
  <2> QED
    BY <2>3
<1> HIDE DEF T, D
<1>3. FS_DISKSIZE \in T
  BY <1>1, <1>2, NatSetInduction, FileSystemAssumption
<1> QED
  BY <1>3 DEF T, D

(* The search, level by level. *)
LEMMA NearDef ==
    ASSUME NEW d
    PROVE  /\ Near(d)[0] = {ROOT_INODE}
           /\ \A n \in 1 .. FS_DISKSIZE : Near(d)[n] = Further(d, Near(d)[n - 1])
<1> DEFINE f == Near(d)
<1>1. f = [n \in 0 .. FS_DISKSIZE |-> IF n = 0 THEN {ROOT_INODE} ELSE Further(d, f[n - 1])]
  BY NearExists DEF Near
<1> HIDE DEF f
<1>2. f[0] = {ROOT_INODE}
  BY <1>1, FileSystemAssumption
<1>3. ASSUME NEW n \in 1 .. FS_DISKSIZE PROVE f[n] = Further(d, f[n - 1])
  <2>1. n \in 0 .. FS_DISKSIZE /\ n # 0
    OBVIOUS
  <2> QED
    BY <1>1, <2>1
<1> QED
  BY <1>2, <1>3 DEF f

(* A set that no link leads out of *)
Closed(d, T) == \A x \in T : Inode(d, x).type = "d" => Children(d, Inode(d, x)) \subseteq T

(* One level more stays in a closed set, *)
LEMMA FurtherWithin ==
    ASSUME NEW d, NEW S, NEW T, S \subseteq T, Closed(d, T)
    PROVE  Further(d, S) \subseteq T /\ S \subseteq Further(d, S)
BY DEF Further, Closed

(* and adds nothing to one, and only to a closed set. *)
LEMMA FurtherSame ==
    ASSUME NEW d, NEW S
    PROVE  Further(d, S) = S <=> Closed(d, S)
BY DEF Further, Closed

(* The inodes are the smallest closed set with the root. *)
LEMMA ReachWithin ==
    ASSUME NEW d, NEW T, ROOT_INODE \in T, Closed(d, T)
    PROVE  InodesOf(d) \subseteq T
<1> DEFINE f == Near(d)
           N == FS_DISKSIZE
           S == {n \in 0 .. N : f[n] \subseteq T}
<1>0. N \in Nat
  BY FileSystemAssumption
<1>1. f[0] = {ROOT_INODE} /\ \A n \in 1 .. N : f[n] = Further(d, f[n - 1])
  BY NearDef
<1> HIDE DEF f, N
<1>2. 0 \in S
  BY <1>0, <1>1
<1>3. ASSUME NEW n \in 0 .. N - 1, n \in S PROVE n + 1 \in S
  <2>1. n + 1 \in 1 .. N /\ (n + 1) - 1 = n /\ n + 1 \in 0 .. N
    BY <1>0
  <2>2. f[n + 1] = Further(d, f[n])
    BY <1>1, <2>1
  <2>3. f[n] \subseteq T
    BY <1>3
  <2> QED
    BY <2>1, <2>2, <2>3, FurtherWithin
<1> HIDE DEF S
<1>4. 0 .. N \subseteq S
  BY <1>0, <1>2, <1>3, UpToInduction
<1> QED
  BY <1>0, <1>4 DEF S, InodesOf, f, N

(* What a disk may hold *)
Entry == [name : Names \cup {NoName}, inode_block : Blocks]
Disks == [Blocks -> Contents]

(* What a block holds is an inode, direntries or data, as its kind says. *)
LEMMA ContentKinds ==
    ASSUME NEW c \in Contents
    PROVE  \/ /\ c.kind = "inode" /\ c.type \in {"f", "d"} /\ c.owner \in Users \cup {NoUser}
              /\ c.blocks \in Seq(Blocks) /\ Len(c.blocks) <= FS_MAXFILEBLOCKS
              /\ c = InodeBlock(c.type, c.owner, c.blocks)
           \/ c.kind = "dir" /\ c.entries \in [Slots -> Entry] /\ c = DirBlock(c.entries)
           \/ c.kind = "data" /\ c.data \in Data \cup {NoData} /\ c = DataBlock(c.data)
<1>1. CASE \E ty \in {"f", "d"}, o \in Users \cup {NoUser},
                bs \in BoundedSeq(Blocks, FS_MAXFILEBLOCKS) : c = InodeBlock(ty, o, bs)
  <2>1. PICK ty \in {"f", "d"}, o \in Users \cup {NoUser},
             bs \in BoundedSeq(Blocks, FS_MAXFILEBLOCKS) : c = InodeBlock(ty, o, bs)
    BY <1>1
  <2>2. PICK n \in 0 .. FS_MAXFILEBLOCKS : bs \in [1 .. n -> Blocks]
    BY DEF BoundedSeq, SeqOf
  <2>3. n \in Nat /\ n <= FS_MAXFILEBLOCKS
    BY <2>2, FileSystemAssumption
  <2>4. bs \in Seq(Blocks) /\ Len(bs) = n
    BY <2>2, <2>3
  <2> QED
    BY <2>1, <2>3, <2>4 DEF InodeBlock
<1>2. CASE \E es \in [Slots -> [name : Names \cup {NoName}, inode_block : Blocks]] : c = DirBlock(es)
  BY <1>2 DEF DirBlock, Entry
<1>3. CASE \E d \in Data \cup {NoData} : c = DataBlock(d)
  BY <1>3 DEF DataBlock
<1> QED
  BY <1>1, <1>2, <1>3 DEF Contents

(* The root is block 0 and a block; UNDEFINED_BLOCK is not one. *)
LEMMA BlocksFacts ==
    /\ FS_DISKSIZE \in Nat /\ Blocks = 0 .. FS_DISKSIZE - 1 /\ ROOT_INODE \in Blocks /\ 0 \in Blocks
    /\ UNDEFINED_BLOCK \notin Blocks /\ Blocks \subseteq Nat
    /\ IsFiniteSet(Blocks) /\ Cardinality(Blocks) = FS_DISKSIZE
<1>1. /\ FS_DISKSIZE \in Nat /\ Blocks = 0 .. FS_DISKSIZE - 1 /\ ROOT_INODE \in Blocks /\ 0 \in Blocks
      /\ UNDEFINED_BLOCK \notin Blocks /\ Blocks \subseteq Nat
  BY FileSystemAssumption DEF Blocks, ROOT_INODE, UNDEFINED_BLOCK
<1>2. IsFiniteSet(Blocks) /\ Cardinality(Blocks) = FS_DISKSIZE
  <2>1. FS_DISKSIZE - 1 \in Int /\ 0 \in Int /\ ~(0 > FS_DISKSIZE - 1)
        /\ (FS_DISKSIZE - 1) - 0 + 1 = FS_DISKSIZE
    BY FileSystemAssumption
  <2> QED
    BY <1>1, <2>1, FS_Interval
<1> QED
  BY <1>1, <1>2

(* The types of what an inode, and a block of direntries, holds. *)
LEMMA InodeFacts ==
    ASSUME NEW d \in Disks, NEW x \in Blocks
    PROVE  /\ Inode(d, x).blocks \in Seq(Blocks) /\ Len(Inode(d, x).blocks) \in Nat
           /\ Len(Inode(d, x).blocks) <= FS_MAXFILEBLOCKS
           /\ DOMAIN Inode(d, x).blocks = 1 .. Len(Inode(d, x).blocks)
           /\ Owns(d, x) \subseteq Blocks
           /\ Entries(d, x) \in [Slots -> Entry]
           /\ \A j \in Slots : Leads(d, x, j) \in Blocks
           /\ d[x].kind # "inode" => Owns(d, x) = {} /\ ~IsDir(d, x)
<1>0. d[x] \in Contents
  BY DEF Disks
<1>1. d[x].kind = "inode" => /\ Inode(d, x) = d[x] /\ d[x].blocks \in Seq(Blocks)
                             /\ Len(d[x].blocks) <= FS_MAXFILEBLOCKS
  BY <1>0, ContentKinds DEF Inode
<1>2. d[x].kind # "inode" => Inode(d, x).blocks = <<>> /\ Inode(d, x).type = "?"
  BY DEF Inode, Garbage, InodeBlock
<1>3. <<>> \in Seq(Blocks) /\ Len(<<>>) = 0 /\ ToSet(<<>>) = {}
  BY EmptyLemma
<1>4. Inode(d, x).blocks \in Seq(Blocks) /\ Len(Inode(d, x).blocks) <= FS_MAXFILEBLOCKS
  <2>1. CASE d[x].kind = "inode"
    BY <1>1, <2>1
  <2>2. CASE d[x].kind # "inode"
    <3>1. Inode(d, x).blocks = <<>>
      BY <1>2, <2>2
    <3>2. 0 <= FS_MAXFILEBLOCKS
      BY FileSystemAssumption
    <3> QED
      BY <1>3, <3>1, <3>2
  <2> QED
    BY <2>1, <2>2
<1>5. Entries(d, x) \in [Slots -> Entry]
  <2>1. NoEntries \in [Slots -> Entry]
    BY BlocksFacts DEF NoEntries, Unused, Entry
  <2>2. d[x].kind = "dir" => d[x].entries \in [Slots -> Entry]
    BY <1>0, ContentKinds
  <2> QED
    BY <2>1, <2>2 DEF Entries
<1>6. \A j \in Slots : Leads(d, x, j) \in Blocks
  BY <1>5 DEF Leads, Entry
<1>7. d[x].kind # "inode" => Owns(d, x) = {} /\ ~IsDir(d, x)
  BY <1>2, <1>3 DEF Owns, IsDir
<1>8. ToSet(Inode(d, x).blocks) \subseteq Blocks
  BY <1>4 DEF ToSet
<1> QED
  BY <1>4, <1>5, <1>6, <1>7, <1>8, LenProperties DEF Owns

(* The children of a directory, without the order of its blocks *)
LEMMA ChildrenAre ==
    ASSUME NEW d \in Disks, NEW x \in Blocks
    PROVE  \A y : y \in Children(d, Inode(d, x)) <=>
                   y # 0 /\ \E b \in Owns(d, x), j \in Slots : Leads(d, b, j) = y
<1> DEFINE s == Inode(d, x).blocks
<1>1. DOMAIN s = 1 .. Len(s) /\ ToSet(s) = {s[i] : i \in DOMAIN s}
  BY InodeFacts DEF ToSet
<1> HIDE DEF s
<1>2. \A i \in DOMAIN s, j \in Slots :
        EntryAt(d, Inode(d, x), <<i, j>>).inode_block = Leads(d, s[i], j)
  BY DEF EntryAt, Leads, s
<1>3. Places(Inode(d, x)) = (DOMAIN s) \X Slots
  BY DEF Places, s
<1>4. ASSUME NEW y
      PROVE  y \in Children(d, Inode(d, x)) <=> y # 0 /\ \E i \in DOMAIN s, j \in Slots : Leads(d, s[i], j) = y
  <2>1. ASSUME y \in Children(d, Inode(d, x))
        PROVE  y # 0 /\ \E i \in DOMAIN s, j \in Slots : Leads(d, s[i], j) = y
    <3>1. PICK ij \in (DOMAIN s) \X Slots : y = EntryAt(d, Inode(d, x), ij).inode_block
      BY <1>3, <2>1 DEF Children
    <3>2. ij = <<ij[1], ij[2]>> /\ ij[1] \in DOMAIN s /\ ij[2] \in Slots
      OBVIOUS
    <3>3. y = Leads(d, s[ij[1]], ij[2])
      BY <1>2, <3>1, <3>2
    <3>4. y # 0
      BY <2>1 DEF Children
    <3> QED
      BY <3>2, <3>3, <3>4
  <2>2. ASSUME y # 0, NEW i \in DOMAIN s, NEW j \in Slots, Leads(d, s[i], j) = y
        PROVE  y \in Children(d, Inode(d, x))
    <3>1. <<i, j>> \in Places(Inode(d, x)) /\ y = EntryAt(d, Inode(d, x), <<i, j>>).inode_block
      BY <1>2, <1>3, <2>2
    <3> QED
      BY <2>2, <3>1 DEF Children
  <2> QED
    BY <2>1, <2>2
<1> QED
  BY <1>1, <1>4 DEF Owns, s

(* A closed set, by its links. *)
LEMMA ClosedIs ==
    ASSUME NEW d \in Disks, NEW T, T \subseteq Blocks
    PROVE  Closed(d, T) <=> \A x \in T : \A y : HasChild(d, x, y) => y \in T
<1>1. ASSUME NEW x \in T
      PROVE  (IsDir(d, x) => Children(d, Inode(d, x)) \subseteq T)
               <=> \A y : HasChild(d, x, y) => y \in T
  <2>1. \A y : y \in Children(d, Inode(d, x)) <=>
                   y # 0 /\ \E b \in Owns(d, x), j \in Slots : Leads(d, b, j) = y
    BY ChildrenAre
  <2> QED
    BY <2>1 DEF HasChild
<1> QED
  BY <1>1 DEF Closed, IsDir

(* What a direntry leads to is a block. *)
LEMMA ChildInBlocks ==
    ASSUME NEW d \in Disks, NEW x \in Blocks, NEW y, HasChild(d, x, y)
    PROVE  y \in Blocks /\ y # 0
<1>1. PICK b \in Owns(d, x), j \in Slots : Leads(d, b, j) = y
  BY DEF HasChild
<1>2. b \in Blocks
  BY InodeFacts
<1> QED
  BY <1>1, <1>2, InodeFacts DEF HasChild

(* The search has found everything after as many levels as there are       *)
(* blocks: as long as it has not, every level adds a block.                *)
LEMMA ReachClosed ==
    ASSUME NEW d \in Disks
    PROVE  InodesOf(d) \subseteq Blocks /\ ROOT_INODE \in InodesOf(d) /\ Closed(d, InodesOf(d))
<1> DEFINE f == Near(d)
           N == FS_DISKSIZE
           S == {n \in 0 .. N : /\ f[n] \subseteq Blocks /\ ROOT_INODE \in f[n]
                                /\ Closed(d, f[n]) \/ Cardinality(f[n]) >= n + 1}
<1>0. N \in Nat /\ ROOT_INODE \in Blocks /\ IsFiniteSet(Blocks) /\ Cardinality(Blocks) = N
  BY BlocksFacts
<1>1. f[0] = {ROOT_INODE} /\ \A n \in 1 .. N : f[n] = Further(d, f[n - 1])
  BY NearDef
<1>a. Closed(d, Blocks)
  BY ClosedIs, ChildInBlocks
<1> HIDE DEF f, N
<1>2. 0 \in S
  <2>1. Cardinality({ROOT_INODE}) = 1
    BY FS_Singleton
  <2>2. Cardinality(f[0]) >= 0 + 1
    BY <1>1, <2>1
  <2> QED
    BY <1>0, <1>1, <2>2
<1>3. ASSUME NEW n \in 0 .. N - 1, n \in S PROVE n + 1 \in S
  <2>1. n + 1 \in 1 .. N /\ (n + 1) - 1 = n /\ n + 1 \in 0 .. N /\ n \in Nat
    BY <1>0
  <2>2. f[n + 1] = Further(d, f[n])
    BY <1>1, <2>1
  <2>3. f[n] \subseteq Blocks /\ ROOT_INODE \in f[n]
    BY <1>3
  <2>4. f[n + 1] \subseteq Blocks /\ f[n] \subseteq f[n + 1]
    BY <1>a, <2>2, <2>3, FurtherWithin
  <2>5. Closed(d, f[n + 1]) \/ Cardinality(f[n + 1]) >= (n + 1) + 1
    <3>1. CASE Closed(d, f[n])
      <4>1. f[n + 1] = f[n]
        BY <2>2, <3>1, FurtherSame
      <4> QED
        BY <3>1, <4>1
    <3>2. CASE ~Closed(d, f[n])
      <4>1. f[n + 1] # f[n]
        BY <2>2, <3>2, FurtherSame
      <4>2. Cardinality(f[n]) >= n + 1
        BY <1>3, <3>2
      <4>3. IsFiniteSet(f[n + 1]) /\ IsFiniteSet(f[n])
        BY <1>0, <2>3, <2>4, FS_Subset
      <4>4. PICK a, c : a = Cardinality(f[n]) /\ c = Cardinality(f[n + 1])
        OBVIOUS
      <4>5. a \in Nat /\ c \in Nat
        BY <4>3, <4>4, FS_CardinalityType
      <4>6. a <= c /\ a # c
        BY <2>4, <4>1, <4>3, <4>4, FS_Subset
      <4>7. c >= (n + 1) + 1
        BY <2>1, <4>2, <4>4, <4>5, <4>6
      <4> QED
        BY <4>4, <4>7
    <3> QED
      BY <3>1, <3>2
  <2> QED
    BY <2>1, <2>3, <2>4, <2>5
<1> HIDE DEF S
<1>4. 0 .. N \subseteq S
  BY <1>0, <1>2, <1>3, UpToInduction
<1>5. N \in S
  BY <1>0, <1>4
<1>6. f[N] \subseteq Blocks /\ ROOT_INODE \in f[N] /\ (Closed(d, f[N]) \/ Cardinality(f[N]) >= N + 1)
  BY <1>5 DEF S
<1>7. ~(Cardinality(f[N]) >= N + 1)
  <2>1. PICK c : c = Cardinality(f[N])
    OBVIOUS
  <2>2. c <= N
    BY <1>0, <1>6, <2>1, FS_Subset
  <2>3. c \in Nat
    BY <1>0, <1>6, <2>1, FS_Subset, FS_CardinalityType
  <2> QED
    BY <1>0, <2>1, <2>2, <2>3
<1> QED
  BY <1>6, <1>7 DEF InodesOf, f, N

(* The inodes are a closed set with the root, and the smallest one.        *)
LEMMA ReachFacts ==
    ASSUME NEW d \in Disks
    PROVE  /\ InodesOf(d) \subseteq Blocks /\ 0 \in InodesOf(d)
           /\ \A x \in InodesOf(d) : \A y : HasChild(d, x, y) => y \in InodesOf(d)
BY ReachClosed, ClosedIs DEF ROOT_INODE

(* ... and the smallest one. *)
LEMMA ReachLeast ==
    ASSUME NEW d \in Disks, NEW T, T \subseteq Blocks, 0 \in T,
           \A x \in T : \A y : HasChild(d, x, y) => y \in T
    PROVE  InodesOf(d) \subseteq T
BY ReachWithin, ClosedIs DEF ROOT_INODE

(* How the inodes change with the links: not at all, *)
LEMMA ReachSame ==
    ASSUME NEW d \in Disks, NEW e \in Disks,
           \A x \in InodesOf(d) : \A y : HasChild(e, x, y) <=> HasChild(d, x, y)
    PROVE  InodesOf(e) = InodesOf(d)
<1>1. InodesOf(e) \subseteq InodesOf(d)
  BY ReachFacts, ReachLeast
<1>2. InodesOf(d) \subseteq InodesOf(e)
  BY <1>1, ReachFacts, ReachLeast
<1> QED
  BY <1>1, <1>2

(* one more, *)
LEMMA ReachMore ==
    ASSUME NEW d \in Disks, NEW e \in Disks, NEW p \in InodesOf(d), NEW c \in Blocks,
           c # 0,
           \A x \in InodesOf(d) : \A y : HasChild(e, x, y) <=> HasChild(d, x, y) \/ (x = p /\ y = c),
           \A y : ~HasChild(e, c, y)
    PROVE  InodesOf(e) = InodesOf(d) \cup {c}
<1> DEFINE R == InodesOf(d)
           Q == InodesOf(e)
<1>1. Q \subseteq R \cup {c}
  <2>1. R \cup {c} \subseteq Blocks /\ 0 \in R \cup {c}
    BY ReachFacts
  <2>2. \A x \in R \cup {c} : \A y : HasChild(e, x, y) => y \in R \cup {c}
    BY ReachFacts
  <2> QED
    BY <2>1, <2>2, ReachLeast
<1>2. R \subseteq Q \cap R
  <2>1. Q \cap R \subseteq Blocks /\ 0 \in Q \cap R
    BY ReachFacts
  <2>2. \A x \in Q \cap R : \A y : HasChild(d, x, y) => y \in Q \cap R
    BY ReachFacts
  <2> QED
    BY <2>1, <2>2, ReachLeast
<1>3. c \in Q
  BY <1>2, ReachFacts
<1> QED
  BY <1>1, <1>2, <1>3

(* or one less. *)
LEMMA ReachLess ==
    ASSUME NEW d \in Disks, NEW e \in Disks, NEW c \in Blocks, c # 0,
           \A x \in InodesOf(d) \ {c} : \A y : HasChild(e, x, y) <=> HasChild(d, x, y) /\ y # c,
           \A y : ~HasChild(d, c, y)
    PROVE  InodesOf(e) = InodesOf(d) \ {c}
<1> DEFINE R == InodesOf(d)
           Q == InodesOf(e)
<1>1. Q \subseteq R \ {c}
  <2>1. R \ {c} \subseteq Blocks /\ 0 \in R \ {c}
    BY ReachFacts
  <2>2. \A x \in R \ {c} : \A y : HasChild(e, x, y) => y \in R \ {c}
    BY ReachFacts
  <2> QED
    BY <2>1, <2>2, ReachLeast
<1>2. R \subseteq Q \cup {c}
  <2>1. Q \cup {c} \subseteq Blocks /\ 0 \in Q \cup {c}
    BY ReachFacts
  <2>2. \A x \in Q \cup {c} : \A y : HasChild(d, x, y) => y \in Q \cup {c}
    BY <1>1, ReachFacts
  <2> QED
    BY <2>1, <2>2, ReachLeast
<1> QED
  BY <1>1, <1>2

(* What a sound tree is like: an inode other than the root has one link to *)
(* it, from another one.                                                   *)
LEMMA OneLink ==
    ASSUME NEW d \in Disks, TreeOK(d), NEW x \in InodesOf(d), NEW z \in InodesOf(d), NEW y,
           HasChild(d, x, y), HasChild(d, z, y)
    PROVE  x = z
<1>1. PICK b \in Owns(d, x), j \in Slots : Leads(d, b, j) = y
  BY DEF HasChild
<1>2. PICK c \in Owns(d, z), k \in Slots : Leads(d, c, k) = y
  BY DEF HasChild
<1>3. LinksOK(d, x, z) /\ Apart(d, x, z) /\ y # 0
  BY DEF TreeOK, HasChild
<1>4. b = c
  BY <1>1, <1>2, <1>3 DEF LinksOK
<1> QED
  BY <1>3, <1>4 DEF Apart

(* No directory is in itself. *)
LEMMA NotOwnChild ==
    ASSUME NEW d \in Disks, TreeOK(d), NEW x \in InodesOf(d)
    PROVE  ~HasChild(d, x, x)
<1> SUFFICES ASSUME HasChild(d, x, x) PROVE FALSE
  OBVIOUS
<1> DEFINE T == InodesOf(d) \ {x}
<1>1. T \subseteq Blocks /\ 0 \in T
  BY ReachFacts DEF HasChild
<1>2. \A z \in T : \A y : HasChild(d, z, y) => y \in T
  BY ReachFacts, OneLink
<1>3. InodesOf(d) \subseteq T
  BY <1>1, <1>2, ReachLeast
<1> QED
  BY <1>3

(* Every inode of the tree but the root is in a directory of it. *)
LEMMA HasParent ==
    ASSUME NEW d \in Disks, NEW c \in InodesOf(d), c # 0
    PROVE  \E x \in InodesOf(d) : HasChild(d, x, c)
<1> SUFFICES ASSUME \A x \in InodesOf(d) : ~HasChild(d, x, c) PROVE FALSE
  OBVIOUS
<1> DEFINE T == InodesOf(d) \ {c}
<1>1. T \subseteq Blocks /\ 0 \in T
  BY ReachFacts
<1>2. \A z \in T : \A y : HasChild(d, z, y) => y \in T
  BY ReachFacts
<1>3. InodesOf(d) \subseteq T
  BY <1>1, <1>2, ReachLeast
<1> QED
  BY <1>3

-----------------------------------------------------------------------------
(* How writing a block changes a sound tree.                               *)

(* Nothing of the inode x, nor of its blocks, is changed. *)
SameAt(d, e, x) == e[x] = d[x] /\ \A b \in Owns(d, x) : e[b] = d[b]

(* An inode that is not changed is as sound as it was. *)
LEMMA SameInode ==
    ASSUME NEW d, NEW e, NEW x, SameAt(d, e, x)
    PROVE  /\ Inode(e, x) = Inode(d, x) /\ Owns(e, x) = Owns(d, x) /\ (IsDir(e, x) <=> IsDir(d, x))
           /\ \A b \in Owns(d, x) : Entries(e, b) = Entries(d, b) /\ \A j : Leads(e, b, j) = Leads(d, b, j)
           /\ \A y : HasChild(e, x, y) <=> HasChild(d, x, y)
           /\ InodeOK(d, x) => InodeOK(e, x)
           /\ NamesOK(d, x) => NamesOK(e, x)
<1>1. e[x] = d[x] /\ \A b \in Owns(d, x) : e[b] = d[b]
  BY DEF SameAt
<1>2. Inode(e, x) = Inode(d, x) /\ Owns(e, x) = Owns(d, x) /\ (IsDir(e, x) <=> IsDir(d, x))
  BY <1>1 DEF Inode, Owns, IsDir
<1>3. \A b \in Owns(d, x) : Entries(e, b) = Entries(d, b) /\ \A j : Leads(e, b, j) = Leads(d, b, j)
  BY <1>1 DEF Entries, Leads
<1>4. \A y : HasChild(e, x, y) <=> HasChild(d, x, y)
  BY <1>2, <1>3 DEF HasChild
<1>5. InodeOK(d, x) => InodeOK(e, x)
  BY <1>1, <1>2, <1>3 DEF InodeOK
<1>6. NamesOK(d, x) => NamesOK(e, x)
  BY <1>2, <1>3 DEF NamesOK
<1> QED
  BY <1>2, <1>3, <1>4, <1>5, <1>6

(***************************************************************************)
(* One inode p of the tree has changed, and at most one, c, has been added.*)
(* The links of p are links that it had, or the new one to c.              *)
(***************************************************************************)
Kept1(d, e, p, b, j) == b \in Owns(d, p) /\ Leads(d, b, j) = Leads(e, b, j)
Changed(d, e, p, c, w, k) ==
    /\ p \in InodesOf(d) /\ c \notin Used(d) /\ InodesOf(e) \subseteq InodesOf(d) \cup {c}
    /\ \A x \in InodesOf(d) \ {p} : SameAt(d, e, x)
    /\ IsDir(e, p) <=> IsDir(d, p)
    /\ InodeOK(e, p) /\ (IsDir(e, p) => NamesOK(e, p))
    /\ Owns(e, p) \cap (Used(d) \cup {c}) \subseteq Owns(d, p)
    /\ c \in InodesOf(e) => InodeOK(e, c) /\ Owns(e, c) = {}
    /\ IsDir(e, p) => \A b \in Owns(e, p), j \in Slots :
                         Leads(e, b, j) # 0 => \/ Kept1(d, e, p, b, j)
                                               \/ Leads(e, b, j) = c /\ b = w /\ j = k

(* The tree is sound if p and c are, and if what p got belongs to nobody   *)
(* else.                                                                   *)
LEMMA ChangedTree ==
    ASSUME NEW d \in Disks, NEW e \in Disks, TreeOK(d), NEW p, NEW c, NEW w, NEW k,
           Changed(d, e, p, c, w, k)
    PROVE  /\ TreeOK(e)
           /\ Used(e) \subseteq Used(d) \cup Owns(e, p) \cup {c}
           /\ c \notin InodesOf(e) => Used(e) \subseteq Used(d) \cup Owns(e, p)
<1> DEFINE R == InodesOf(d)
           Q == InodesOf(e)
<1>0. /\ p \in R /\ c \notin Used(d) /\ Q \subseteq R \cup {c}
      /\ \A x \in R \ {p} : SameAt(d, e, x)
      /\ IsDir(e, p) <=> IsDir(d, p)
      /\ InodeOK(e, p) /\ (IsDir(e, p) => NamesOK(e, p))
      /\ Owns(e, p) \cap (Used(d) \cup {c}) \subseteq Owns(d, p)
      /\ c \in Q => InodeOK(e, c) /\ Owns(e, c) = {}
  BY DEF Changed
<1>1. IsDir(d, 0) /\ 0 \in R
  BY ReachFacts DEF TreeOK, ROOT_INODE
<1>2. \A x \in R : InodeOK(d, x) /\ Owns(d, x) \cap R = {} /\ (IsDir(d, x) => NamesOK(d, x))
  BY DEF TreeOK
<1>3. \A x, y \in R : Apart(d, x, y) /\ (IsDir(d, x) /\ IsDir(d, y) => LinksOK(d, x, y))
  BY DEF TreeOK
<1>4. R \subseteq Used(d) /\ \A x \in R : Owns(d, x) \subseteq Used(d)
  BY DEF Used
<1>5. \A x \in R \ {p} : /\ Owns(e, x) = Owns(d, x) /\ (IsDir(e, x) <=> IsDir(d, x))
                         /\ InodeOK(e, x) /\ (IsDir(e, x) => NamesOK(e, x))
                         /\ \A b \in Owns(d, x), j \in Slots : Leads(e, b, j) = Leads(d, b, j)
  BY <1>0, <1>2, SameInode
<1>6. IsDir(e, 0)
  BY <1>0, <1>1, <1>5
<1>7. ASSUME NEW x \in Q
      PROVE  InodeOK(e, x) /\ Owns(e, x) \cap Q = {} /\ (IsDir(e, x) => NamesOK(e, x))
  <2>1. CASE x = p
    BY <1>0, <1>2, <1>4, <2>1
  <2>2. CASE x \in R \ {p}
    BY <1>0, <1>2, <1>4, <1>5, <2>2
  <2>3. CASE x = c
    BY <1>0, <2>3 DEF NamesOK
  <2> QED
    BY <1>0, <2>1, <2>2, <2>3
<1>8. ASSUME NEW x \in Q, NEW y \in Q PROVE Apart(e, x, y)
  <2> SUFFICES ASSUME x # y PROVE Owns(e, x) \cap Owns(e, y) = {}
    BY DEF Apart
  <2>1. CASE x = c \/ y = c
    BY <1>0, <2>1
  <2>2. CASE x \in R \ {p} /\ y \in R \ {p}
    BY <1>3, <1>5, <2>2 DEF Apart
  <2>3. CASE x = p /\ y \in R \ {p}
    BY <1>0, <1>3, <1>4, <1>5, <2>3 DEF Apart
  <2>4. CASE y = p /\ x \in R \ {p}
    BY <1>0, <1>3, <1>4, <1>5, <2>4 DEF Apart
  <2> QED
    BY <1>0, <2>1, <2>2, <2>3, <2>4
<1>9. ASSUME NEW x \in Q, NEW y \in Q, IsDir(e, x), IsDir(e, y) PROVE LinksOK(e, x, y)
  <2> SUFFICES ASSUME NEW b1 \in Owns(e, x), NEW b2 \in Owns(e, y), NEW j1 \in Slots, NEW j2 \in Slots,
                      Leads(e, b1, j1) # 0, Leads(e, b1, j1) = Leads(e, b2, j2)
               PROVE  b1 = b2 /\ j1 = j2
    BY DEF LinksOK
  <2>0. x \in R /\ y \in R
    BY <1>0
  <2>1. ASSUME NEW z \in Q, NEW b \in Owns(e, z), NEW j \in Slots, IsDir(e, z), Leads(e, b, j) # 0
        PROVE  \/ Leads(e, b, j) = c /\ b = w /\ j = k
               \/ b \in Owns(d, z) /\ Leads(d, b, j) = Leads(e, b, j) /\ Leads(e, b, j) \in R
    <3>0. z \in R
      BY <1>0, <2>1
    <3>1. CASE z = p
      <4>1. \/ Kept1(d, e, p, b, j)
            \/ Leads(e, b, j) = c /\ b = w /\ j = k
        BY <2>1, <3>1 DEF Changed
      <4>2. ASSUME Kept1(d, e, p, b, j) PROVE Leads(e, b, j) \in R
        <5>1. HasChild(d, p, Leads(e, b, j))
          BY <1>0, <2>1, <3>1, <4>2 DEF Kept1, HasChild
        <5> QED
          BY <1>0, <5>1, ReachFacts
      <4> QED
        BY <3>1, <4>1, <4>2 DEF Kept1
    <3>2. CASE z # p
      <4>1. b \in Owns(d, z) /\ Leads(d, b, j) = Leads(e, b, j) /\ IsDir(d, z)
        BY <1>5, <2>1, <3>0, <3>2
      <4>2. HasChild(d, z, Leads(e, b, j))
        BY <2>1, <4>1 DEF HasChild
      <4> QED
        BY <3>0, <4>1, <4>2, ReachFacts
    <3> QED
      BY <3>1, <3>2
  <2>2. IsDir(d, x) /\ IsDir(d, y)
    BY <1>0, <1>5, <1>9, <2>0
  <2>3. c \notin R
    BY <1>0, <1>4
  <2>4. LinksOK(d, x, y)
    BY <1>3, <2>0, <2>2
  <2>5. \/ Leads(e, b1, j1) = c /\ b1 = w /\ j1 = k
        \/ b1 \in Owns(d, x) /\ Leads(d, b1, j1) = Leads(e, b1, j1) /\ Leads(e, b1, j1) \in R
    BY <1>9, <2>1
  <2>6. \/ Leads(e, b2, j2) = c /\ b2 = w /\ j2 = k
        \/ b2 \in Owns(d, y) /\ Leads(d, b2, j2) = Leads(e, b2, j2) /\ Leads(e, b2, j2) \in R
    BY <1>9, <2>1
  <2> QED
    BY <2>3, <2>4, <2>5, <2>6 DEF LinksOK
<1>10. TreeOK(e)
  BY <1>6, <1>7, <1>8, <1>9 DEF TreeOK, ROOT_INODE
<1>11. ASSUME NEW z \in Used(e), z \notin Used(d), z \notin Owns(e, p) PROVE z = c /\ c \in Q
  <2>1. CASE z \in Q
    BY <1>0, <1>4, <1>11, <2>1
  <2>2. CASE z \notin Q
    <3>1. PICK x \in Q : z \in Owns(e, x)
      BY <1>11, <2>2 DEF Used
    <3> QED
      BY <1>0, <1>4, <1>5, <1>11, <3>1
  <2> QED
    BY <2>1, <2>2
<1> QED
  BY <1>10, <1>11

(* A block that is not in the tree *)
LEMMA WriteOutside ==
    ASSUME NEW d \in Disks, NEW e \in Disks, TreeOK(d), \A b \in Used(d) : e[b] = d[b]
    PROVE  /\ InodesOf(e) = InodesOf(d) /\ TreeOK(e) /\ Used(e) = Used(d)
           /\ \A x \in InodesOf(d) : SameAt(d, e, x)
<1> DEFINE R == InodesOf(d)
<1>1. \A x \in R : SameAt(d, e, x)
  BY DEF Used, SameAt
<1>2. InodesOf(e) = R
  BY <1>1, SameInode, ReachSame
<1>3. Used(e) = Used(d)
  <2>1. \A x \in R : Owns(e, x) = Owns(d, x)
    BY <1>1, SameInode
  <2> QED
    BY <1>2, <2>1 DEF Used
<1>4. 0 \in R /\ SameAt(d, e, 0) /\ UNDEFINED_BLOCK \notin Used(d)
  <2>1. Used(d) \subseteq Blocks
    BY ReachFacts, InodeFacts DEF Used
  <2> QED
    BY <1>1, <2>1, ReachFacts, BlocksFacts
<1>5. Changed(d, e, 0, UNDEFINED_BLOCK, 0, 0)
  <2>1. /\ Owns(e, 0) = Owns(d, 0) /\ (IsDir(e, 0) <=> IsDir(d, 0))
        /\ \A b \in Owns(d, 0) : \A j : Leads(e, b, j) = Leads(d, b, j)
        /\ InodeOK(d, 0) => InodeOK(e, 0)
        /\ NamesOK(d, 0) => NamesOK(e, 0)
    BY <1>4, SameInode
  <2>2. InodeOK(d, 0) /\ (IsDir(d, 0) => NamesOK(d, 0))
    BY <1>4 DEF TreeOK
  <2>3. \A x \in R \ {0} : SameAt(d, e, x)
    BY <1>1
  <2>4. UNDEFINED_BLOCK \notin InodesOf(e)
    BY <1>2, <1>4 DEF Used
  <2>5. \A b \in Owns(e, 0), j \in Slots : Kept1(d, e, 0, b, j)
    BY <2>1 DEF Kept1
  <2>6. Owns(e, 0) \cap (Used(d) \cup {UNDEFINED_BLOCK}) \subseteq Owns(d, 0)
    BY <2>1
  <2> QED
    BY <1>2, <1>4, <2>1, <2>2, <2>3, <2>4, <2>5, <2>6 DEF Changed
<1>6. TreeOK(e)
  BY <1>5, ChangedTree
<1> QED
  BY <1>1, <1>2, <1>3, <1>6

(* The disk e is d with v in block w. *)
Written(d, e, w, v) == e[w] = v /\ \A b \in Blocks \ {w} : e[b] = d[b]

(* The blocks of the tree. *)
LEMMA UsedBlocks ==
    ASSUME NEW d \in Disks
    PROVE  /\ Used(d) \subseteq Blocks /\ UNDEFINED_BLOCK \notin Used(d)
           /\ InodesOf(d) \subseteq Used(d) /\ \A x \in InodesOf(d) : Owns(d, x) \subseteq Used(d)
<1>1. Used(d) \subseteq Blocks
  BY ReachFacts, InodeFacts DEF Used
<1> QED
  BY <1>1, BlocksFacts DEF Used

(* An inode of the tree *)
LEMMA TreeInode ==
    ASSUME NEW d \in Disks, TreeOK(d), NEW x \in InodesOf(d)
    PROVE  /\ x \in Blocks /\ d[x] \in Contents /\ d[x].kind = "inode" /\ Inode(d, x) = d[x]
           /\ d[x].type \in {"f", "d"} /\ d[x].blocks \in Seq(Blocks) /\ IsInjective(d[x].blocks)
           /\ Len(d[x].blocks) <= FS_MAXFILEBLOCKS
           /\ Owns(d, x) = ToSet(d[x].blocks) /\ Owns(d, x) \subseteq Blocks
           /\ Owns(d, x) \cap InodesOf(d) = {}
           /\ IsDir(d, x) <=> d[x].type = "d"
           /\ InodeOK(d, x)
<1>1. x \in Blocks /\ d[x].kind = "inode" /\ InodeOK(d, x) /\ Owns(d, x) \cap InodesOf(d) = {}
  BY ReachFacts DEF TreeOK, InodeOK
<1>2. d[x] \in Contents
  BY <1>1 DEF Disks
<1>3. /\ d[x].type \in {"f", "d"} /\ d[x].blocks \in Seq(Blocks)
      /\ Len(d[x].blocks) <= FS_MAXFILEBLOCKS
  BY <1>1, <1>2, ContentKinds
<1>4. Inode(d, x) = d[x]
  BY <1>1 DEF Inode
<1>5. Owns(d, x) \subseteq Blocks
  BY <1>1, InodeFacts
<1> QED
  BY <1>1, <1>2, <1>3, <1>4, <1>5 DEF Owns, IsDir, InodeOK

(* A write to a block of the inode p leaves the other inodes alone. *)
LEMMA OthersSame ==
    ASSUME NEW d \in Disks, NEW e, TreeOK(d), NEW p \in InodesOf(d), NEW w, NEW v, Written(d, e, w, v),
           w = p \/ w \in Owns(d, p)
    PROVE  \A x \in InodesOf(d) \ {p} : SameAt(d, e, x)
<1> SUFFICES ASSUME NEW x \in InodesOf(d) \ {p} PROVE SameAt(d, e, x)
  OBVIOUS
<1>1. Apart(d, x, p) /\ Owns(d, x) \cap InodesOf(d) = {} /\ Owns(d, p) \cap InodesOf(d) = {}
  BY DEF TreeOK
<1>2. x # w /\ w \notin Owns(d, x) /\ x \in Blocks /\ Owns(d, x) \subseteq Blocks
  BY <1>1, TreeInode DEF Apart
<1> QED
  BY <1>2 DEF Written, SameAt

(* A data block of a file *)
LEMMA WriteInFile ==
    ASSUME NEW d \in Disks, NEW e \in Disks, TreeOK(d), NEW p \in InodesOf(d), ~IsDir(d, p),
           NEW w \in Owns(d, p), NEW v, Written(d, e, w, v), v.kind = "data"
    PROVE  InodesOf(e) = InodesOf(d) /\ TreeOK(e) /\ Used(e) \subseteq Used(d)
<1>1. \A x \in InodesOf(d) \ {p} : SameAt(d, e, x)
  BY OthersSame
<1>2. /\ p \in Blocks /\ p # w /\ InodeOK(d, p) /\ Owns(d, p) \subseteq Blocks /\ w \in Blocks
      /\ d[p].kind = "inode"
  BY TreeInode
<1>3. e[p] = d[p] /\ e[w] = v /\ \A b \in Blocks \ {w} : e[b] = d[b]
  BY <1>2 DEF Written
<1>4. Owns(e, p) = Owns(d, p) /\ ~IsDir(e, p)
  BY <1>3 DEF Owns, IsDir, Inode
<1>5. InodeOK(e, p)
  BY <1>2, <1>3, <1>4 DEF InodeOK
<1>6. \A x \in InodesOf(d) : \A y : HasChild(e, x, y) <=> HasChild(d, x, y)
  BY <1>1, <1>4, SameInode DEF HasChild
<1>7. InodesOf(e) = InodesOf(d)
  BY <1>6, ReachSame
<1>8. UNDEFINED_BLOCK \notin Used(d) /\ UNDEFINED_BLOCK \notin InodesOf(e)
  BY <1>7, UsedBlocks
<1>9. Changed(d, e, p, UNDEFINED_BLOCK, 0, 0)
  <2>1. Owns(e, p) \cap (Used(d) \cup {UNDEFINED_BLOCK}) \subseteq Owns(d, p)
    BY <1>4
  <2> QED
    BY <1>1, <1>4, <1>5, <1>7, <1>8, <2>1 DEF Changed
<1>10. TreeOK(e) /\ Used(e) \subseteq Used(d) \cup Owns(e, p)
  BY <1>8, <1>9, ChangedTree
<1> QED
  BY <1>4, <1>7, <1>10, UsedBlocks

(* One more block of an inode *)
LEMMA GrownFacts ==
    ASSUME NEW d \in Disks, TreeOK(d), NEW p \in InodesOf(d), NEW n \in Blocks, n \notin Used(d)
    PROVE  /\ Grown(d[p], n).kind = "inode" /\ Grown(d[p], n).type = d[p].type
           /\ Grown(d[p], n).owner = d[p].owner
           /\ Grown(d[p], n).blocks = Append(d[p].blocks, n)
           /\ Grown(d[p], n).blocks \in Seq(Blocks) /\ IsInjective(Grown(d[p], n).blocks)
           /\ ToSet(Grown(d[p], n).blocks) = Owns(d, p) \cup {n}
<1> DEFINE v == Grown(d[p], n)
<1>1. /\ d[p].blocks \in Seq(Blocks) /\ IsInjective(d[p].blocks) /\ Owns(d, p) = ToSet(d[p].blocks)
      /\ d[p].kind = "inode" /\ d[p] \in Contents
  BY TreeInode
<1>2. d[p] = InodeBlock(d[p].type, d[p].owner, d[p].blocks)
  BY <1>1, ContentKinds
<1>3. v.kind = "inode" /\ v.type = d[p].type /\ v.owner = d[p].owner /\ v.blocks = Append(d[p].blocks, n)
  <2> DEFINE t == d[p].type
             o == d[p].owner
             s == d[p].blocks
  <2>1. d[p] = [kind |-> "inode", type |-> t, owner |-> o, blocks |-> s]
    BY <1>2 DEF InodeBlock
  <2> HIDE DEF t, o, s
  <2>2. v = [kind |-> "inode", type |-> t, owner |-> o, blocks |-> Append(s, n)]
    BY <2>1 DEF Grown
  <2> HIDE DEF v
  <2> QED
    BY <2>2 DEF t, o, s
<1>4. n \notin Owns(d, p)
  BY UsedBlocks
<1> QED
  BY <1>1, <1>3, <1>4, AppendLemma

(* A file with one block of data more is a file of a sound tree. *)
LEMMA GrowFile ==
    ASSUME NEW d \in Disks, NEW e \in Disks, TreeOK(d), NEW p \in InodesOf(d), ~IsDir(d, p),
           NEW n \in Blocks, n \notin Used(d), d[n].kind = "data",
           Written(d, e, p, Grown(d[p], n))
    PROVE  InodesOf(e) = InodesOf(d) /\ TreeOK(e) /\ Used(e) \subseteq Used(d) \cup {n}
<1>1. \A x \in InodesOf(d) \ {p} : SameAt(d, e, x)
  BY OthersSame
<1>2. /\ p \in Blocks /\ InodeOK(d, p) /\ Owns(d, p) \subseteq Blocks
      /\ d[p].kind = "inode" /\ d[p].type # "d" /\ p \notin Owns(d, p) /\ p # n
  BY TreeInode, UsedBlocks
<1>3. e[p] = Grown(d[p], n) /\ \A b \in Blocks \ {p} : e[b] = d[b]
  BY DEF Written
<1>4. /\ e[p].kind = "inode" /\ e[p].type = d[p].type
      /\ IsInjective(e[p].blocks) /\ ToSet(e[p].blocks) = Owns(d, p) \cup {n}
  <2> DEFINE v == Grown(d[p], n)
  <2>1. /\ v.kind = "inode" /\ v.type = d[p].type
        /\ IsInjective(v.blocks) /\ ToSet(v.blocks) = Owns(d, p) \cup {n}
    BY GrownFacts
  <2>2. e[p] = v
    BY <1>3
  <2> HIDE DEF v
  <2> QED
    BY <2>1, <2>2
<1>5. Owns(e, p) = Owns(d, p) \cup {n} /\ ~IsDir(e, p)
  BY <1>2, <1>4 DEF Owns, IsDir, Inode
<1>6. InodeOK(e, p)
  BY <1>2, <1>3, <1>4, <1>5 DEF InodeOK
<1>7. \A x \in InodesOf(d) : \A y : HasChild(e, x, y) <=> HasChild(d, x, y)
  BY <1>1, <1>5, SameInode DEF HasChild
<1>8. InodesOf(e) = InodesOf(d)
  BY <1>7, ReachSame
<1>9. UNDEFINED_BLOCK \notin Used(d) /\ UNDEFINED_BLOCK \notin InodesOf(e) /\ UNDEFINED_BLOCK # n
  BY <1>8, UsedBlocks, BlocksFacts
<1>10. Changed(d, e, p, UNDEFINED_BLOCK, 0, 0)
  <2>1. Owns(e, p) \cap (Used(d) \cup {UNDEFINED_BLOCK}) \subseteq Owns(d, p)
    BY <1>5, <1>9
  <2> QED
    BY <1>1, <1>5, <1>6, <1>8, <1>9, <2>1 DEF Changed
<1>11. TreeOK(e) /\ Used(e) \subseteq Used(d) \cup Owns(e, p)
  BY <1>9, <1>10, ChangedTree
<1> QED
  BY <1>5, <1>8, <1>11, UsedBlocks

(* The directory p has one link more, to c, in entry k of block w, which   *)
(* may be a new block.                                                     *)
Links(d, e, p, w, k, c, name) ==
    /\ p \in InodesOf(d) /\ IsDir(d, p) /\ IsDir(e, p)
    /\ e[p].kind = "inode" /\ IsInjective(e[p].blocks)
    /\ Owns(e, p) = Owns(d, p) \cup {w} /\ (w \in Owns(d, p) \/ w \notin Used(d)) /\ w # c
    /\ \A x \in InodesOf(d) \ {p} : SameAt(d, e, x)
    /\ \A b \in Owns(e, p) : e[b].kind = "dir"
    /\ k \in Slots /\ Entries(e, w)[k].inode_block = c /\ Entries(e, w)[k].name = name
    /\ \A b \in Owns(e, p), j \in Slots :
         (b # w \/ j # k) => IF b \in Owns(d, p) THEN Entries(e, b)[j] = Entries(d, b)[j]
                             ELSE Leads(e, b, j) = 0
    /\ w \in Owns(d, p) => Leads(d, w, k) = 0
    /\ \A b \in Owns(d, p), j \in Slots : Leads(d, b, j) # 0 => Entries(d, b)[j].name # name
    /\ c \in Blocks /\ c \notin Used(d) /\ e[c].kind = "inode" /\ e[c].blocks = <<>>

(* With the new link the tree is sound, and has one inode more. *)
LEMMA LinkNew ==
    ASSUME NEW d \in Disks, NEW e \in Disks, TreeOK(d), NEW p, NEW w, NEW k, NEW c, NEW name,
           Links(d, e, p, w, k, c, name)
    PROVE  InodesOf(e) = InodesOf(d) \cup {c} /\ TreeOK(e) /\ Used(e) \subseteq Used(d) \cup {w, c}
<1> DEFINE R == InodesOf(d)
<1>0. /\ p \in R /\ IsDir(d, p) /\ IsDir(e, p)
      /\ e[p].kind = "inode" /\ IsInjective(e[p].blocks)
      /\ Owns(e, p) = Owns(d, p) \cup {w} /\ (w \in Owns(d, p) \/ w \notin Used(d)) /\ w # c
      /\ \A x \in R \ {p} : SameAt(d, e, x)
      /\ \A b \in Owns(e, p) : e[b].kind = "dir"
      /\ k \in Slots /\ Leads(e, w, k) = c /\ Entries(e, w)[k].name = name
      /\ w \in Owns(d, p) => Leads(d, w, k) = 0
      /\ \A b \in Owns(d, p), j \in Slots : Leads(d, b, j) # 0 => Entries(d, b)[j].name # name
      /\ c \in Blocks /\ c \notin Used(d) /\ e[c].kind = "inode" /\ e[c].blocks = <<>>
  BY DEF Links, Leads
<1>1. c # 0 /\ c \notin R
  BY <1>0, UsedBlocks, ReachFacts
<1>2. /\ \A b \in Owns(d, p), j \in Slots : (b # w \/ j # k) => Entries(e, b)[j] = Entries(d, b)[j]
      /\ \A b \in Owns(d, p), j \in Slots : (b # w \/ j # k) => Leads(e, b, j) = Leads(d, b, j)
      /\ \A b \in Owns(e, p), j \in Slots :
           (b # w \/ j # k) /\ Leads(e, b, j) # 0 => b \in Owns(d, p)
  BY <1>0 DEF Links, Leads
<1>3. Owns(e, c) = {} /\ InodeOK(e, c)
  BY <1>0, EmptyLemma DEF Owns, InodeOK, Inode
<1>4. \A y : ~HasChild(e, c, y)
  BY <1>3 DEF HasChild
<1>5. ASSUME NEW x \in R, NEW y
      PROVE  HasChild(e, x, y) <=> HasChild(d, x, y) \/ (x = p /\ y = c)
  <2>1. CASE x # p
    BY <1>0, <2>1, SameInode
  <2>2. CASE x = p
    <3>1. ASSUME HasChild(e, p, y), y # c PROVE HasChild(d, p, y)
      <4>1. PICK b \in Owns(e, p), j \in Slots : Leads(e, b, j) = y /\ y # 0
        BY <3>1 DEF HasChild
      <4>2. (b # w \/ j # k) /\ b \in Owns(d, p)
        BY <1>0, <1>2, <3>1, <4>1
      <4> QED
        BY <1>0, <1>2, <4>1, <4>2 DEF HasChild
    <3>2. ASSUME HasChild(d, p, y) PROVE HasChild(e, p, y)
      <4>1. PICK b \in Owns(d, p), j \in Slots : Leads(d, b, j) = y /\ y # 0
        BY <3>2 DEF HasChild
      <4>2. b # w \/ j # k
        BY <1>0, <4>1
      <4> QED
        BY <1>0, <1>2, <4>1, <4>2 DEF HasChild
    <3>3. HasChild(e, p, c)
      BY <1>0, <1>1 DEF HasChild
    <3> QED
      BY <2>2, <3>1, <3>2, <3>3
  <2> QED
    BY <2>1, <2>2
<1>6. InodesOf(e) = R \cup {c}
  BY <1>0, <1>1, <1>4, <1>5, ReachMore
<1>7. InodeOK(e, p)
  <2>1. ASSUME NEW b \in Owns(e, p) PROVE \E j \in Slots : Leads(e, b, j) # 0
    <3>1. CASE b = w
      BY <1>0, <1>1, <3>1
    <3>2. CASE b # w
      <4>1. b \in Owns(d, p)
        BY <1>0, <3>2
      <4>2. \E j \in Slots : Leads(d, b, j) # 0
        BY <1>0, <4>1, TreeInode DEF InodeOK
      <4> QED
        BY <1>2, <3>2, <4>1, <4>2
    <3> QED
      BY <3>1, <3>2
  <2> QED
    BY <1>0, <2>1 DEF InodeOK
<1>8. NamesOK(e, p)
  <2> SUFFICES ASSUME NEW b1 \in Owns(e, p), NEW b2 \in Owns(e, p), NEW j1 \in Slots, NEW j2 \in Slots,
                      Leads(e, b1, j1) # 0, Leads(e, b2, j2) # 0, Entries(e, b1)[j1].name \in Names,
                      Entries(e, b1)[j1].name = Entries(e, b2)[j2].name
               PROVE  b1 = b2 /\ j1 = j2
    BY DEF NamesOK
  <2>1. NamesOK(d, p)
    BY <1>0 DEF TreeOK
  <2>2. CASE (b1 # w \/ j1 # k) /\ (b2 # w \/ j2 # k)
    <3>1. b1 \in Owns(d, p) /\ b2 \in Owns(d, p)
      BY <1>2, <2>2
    <3>2. Entries(e, b1)[j1] = Entries(d, b1)[j1] /\ Entries(e, b2)[j2] = Entries(d, b2)[j2]
      BY <1>2, <2>2, <3>1
    <3>3. Leads(d, b1, j1) # 0 /\ Leads(d, b2, j2) # 0
      BY <3>2 DEF Leads
    <3> QED
      BY <2>1, <3>1, <3>2, <3>3 DEF NamesOK
  <2>3. CASE b1 = w /\ j1 = k /\ (b2 # w \/ j2 # k)
    <3>1. b2 \in Owns(d, p)
      BY <1>2, <2>3
    <3>2. Entries(e, b2)[j2] = Entries(d, b2)[j2]
      BY <1>2, <2>3, <3>1
    <3>3. Leads(d, b2, j2) # 0
      BY <3>2 DEF Leads
    <3> QED
      BY <1>0, <2>3, <3>1, <3>2, <3>3
  <2>4. CASE b2 = w /\ j2 = k /\ (b1 # w \/ j1 # k)
    <3>1. b1 \in Owns(d, p)
      BY <1>2, <2>4
    <3>2. Entries(e, b1)[j1] = Entries(d, b1)[j1]
      BY <1>2, <2>4, <3>1
    <3>3. Leads(d, b1, j1) # 0
      BY <3>2 DEF Leads
    <3> QED
      BY <1>0, <2>4, <3>1, <3>2, <3>3
  <2> QED
    BY <2>2, <2>3, <2>4
<1>9. Changed(d, e, p, c, w, k)
  <2>1. Owns(e, p) \cap (Used(d) \cup {c}) \subseteq Owns(d, p)
    BY <1>0
  <2>2. ASSUME NEW b \in Owns(e, p), NEW j \in Slots, Leads(e, b, j) # 0
        PROVE  Kept1(d, e, p, b, j) \/ (Leads(e, b, j) = c /\ b = w /\ j = k)
    BY <1>0, <1>2, <2>2 DEF Kept1
  <2> QED
    BY <1>0, <1>3, <1>6, <1>7, <1>8, <2>1, <2>2 DEF Changed
<1>10. TreeOK(e) /\ Used(e) \subseteq Used(d) \cup Owns(e, p) \cup {c}
  BY <1>9, ChangedTree
<1> QED
  BY <1>0, <1>6, <1>10, UsedBlocks

(* The directory p has lost its link to c, in entry k of block w, and with *)
(* it the block if it had no other link.                                   *)
Unlinks(d, e, p, w, k, c) ==
    /\ p \in InodesOf(d) /\ IsDir(d, p) /\ IsDir(e, p)
    /\ e[p].kind = "inode" /\ IsInjective(e[p].blocks)
    /\ w \in Owns(d, p) /\ Owns(e, p) \subseteq Owns(d, p) /\ Owns(d, p) \subseteq Owns(e, p) \cup {w}
    /\ \A x \in InodesOf(d) \ {p} : SameAt(d, e, x)
    /\ \A b \in Owns(e, p) : e[b].kind = "dir"
    /\ k \in Slots /\ Leads(d, w, k) = c /\ c # 0
    /\ \A b \in Owns(e, p), j \in Slots : (b # w \/ j # k) => Entries(e, b)[j] = Entries(d, b)[j]
    /\ w \in Owns(e, p) => Leads(e, w, k) = 0 /\ \E j \in Slots : Leads(e, w, j) # 0
    /\ w \notin Owns(e, p) => \A j \in Slots \ {k} : Leads(d, w, j) = 0
    /\ IsDir(d, c) => Owns(d, c) = {}

(* Without the link the tree is sound, and has one inode less. *)
LEMMA LoseLink ==
    ASSUME NEW d \in Disks, NEW e \in Disks, TreeOK(d), NEW p, NEW w, NEW k, NEW c,
           Unlinks(d, e, p, w, k, c)
    PROVE  /\ InodesOf(e) = InodesOf(d) \ {c} /\ TreeOK(e) /\ Used(e) \subseteq Used(d)
           /\ c \in InodesOf(d) /\ c # p /\ c \notin Used(e) /\ Owns(d, c) \cap Used(e) = {}
           /\ w \notin Owns(e, p) => w \notin Used(e)
<1> DEFINE R == InodesOf(d)
<1>0. /\ p \in R /\ IsDir(d, p) /\ IsDir(e, p)
      /\ e[p].kind = "inode" /\ IsInjective(e[p].blocks)
      /\ w \in Owns(d, p) /\ Owns(e, p) \subseteq Owns(d, p) /\ Owns(d, p) \subseteq Owns(e, p) \cup {w}
      /\ \A x \in R \ {p} : SameAt(d, e, x)
      /\ \A b \in Owns(e, p) : e[b].kind = "dir"
      /\ k \in Slots /\ Leads(d, w, k) = c /\ c # 0
      /\ w \in Owns(e, p) => Leads(e, w, k) = 0 /\ \E j \in Slots : Leads(e, w, j) # 0
      /\ w \notin Owns(e, p) => \A j \in Slots \ {k} : Leads(d, w, j) = 0
      /\ IsDir(d, c) => Owns(d, c) = {}
  BY DEF Unlinks
<1>1. /\ \A b \in Owns(e, p), j \in Slots : (b # w \/ j # k) => Entries(e, b)[j] = Entries(d, b)[j]
      /\ \A b \in Owns(e, p), j \in Slots : (b # w \/ j # k) => Leads(e, b, j) = Leads(d, b, j)
  BY DEF Unlinks, Leads
<1>2. HasChild(d, p, c)
  BY <1>0 DEF HasChild
<1>3. c \in R /\ c # p /\ c \in Blocks
  BY <1>0, <1>2, ReachFacts, NotOwnChild
<1>4. \A y : ~HasChild(d, c, y)
  BY <1>0 DEF HasChild
<1>5. LinksOK(d, p, p)
  BY <1>0 DEF TreeOK
<1>6. ASSUME NEW x \in R \ {c}, NEW y
      PROVE  HasChild(e, x, y) <=> HasChild(d, x, y) /\ y # c
  <2>1. CASE x # p
    <3>1. HasChild(e, x, y) <=> HasChild(d, x, y)
      BY <1>0, <2>1, SameInode
    <3>2. ~HasChild(d, x, c)
      BY <1>0, <1>2, <2>1, OneLink
    <3> QED
      BY <3>1, <3>2
  <2>2. CASE x = p
    <3>1. ASSUME HasChild(e, p, y) PROVE HasChild(d, p, y) /\ y # c
      <4>1. PICK b \in Owns(e, p), j \in Slots : Leads(e, b, j) = y /\ y # 0
        BY <3>1 DEF HasChild
      <4>2. (b # w \/ j # k) /\ b \in Owns(d, p)
        BY <1>0, <4>1
      <4>3. Leads(d, b, j) = y
        BY <1>1, <4>1, <4>2
      <4>4. y # c
        BY <1>0, <1>5, <4>1, <4>2, <4>3 DEF LinksOK
      <4> QED
        BY <1>0, <4>1, <4>2, <4>3, <4>4 DEF HasChild
    <3>2. ASSUME HasChild(d, p, y), y # c PROVE HasChild(e, p, y)
      <4>1. PICK b \in Owns(d, p), j \in Slots : Leads(d, b, j) = y /\ y # 0
        BY <3>2 DEF HasChild
      <4>2. b # w \/ j # k
        BY <1>0, <3>2, <4>1
      <4>3. b \in Owns(e, p)
        BY <1>0, <4>1, <4>2
      <4> QED
        BY <1>0, <1>1, <4>1, <4>2, <4>3 DEF HasChild
    <3> QED
      BY <2>2, <3>1, <3>2
  <2> QED
    BY <2>1, <2>2
<1>7. InodesOf(e) = R \ {c}
  BY <1>0, <1>3, <1>4, <1>6, ReachLess
<1>8. InodeOK(e, p)
  <2>1. ASSUME NEW b \in Owns(e, p) PROVE \E j \in Slots : Leads(e, b, j) # 0
    <3>1. CASE b = w
      BY <1>0, <2>1, <3>1
    <3>2. CASE b # w
      <4>1. b \in Owns(d, p)
        BY <1>0, <3>2
      <4>2. \E j \in Slots : Leads(d, b, j) # 0
        BY <1>0, <4>1, TreeInode DEF InodeOK
      <4> QED
        BY <1>1, <2>1, <3>2, <4>1, <4>2
    <3> QED
      BY <3>1, <3>2
  <2> QED
    BY <1>0, <2>1 DEF InodeOK
<1>9. NamesOK(e, p)
  <2> SUFFICES ASSUME NEW b1 \in Owns(e, p), NEW b2 \in Owns(e, p), NEW j1 \in Slots, NEW j2 \in Slots,
                      Leads(e, b1, j1) # 0, Leads(e, b2, j2) # 0, Entries(e, b1)[j1].name \in Names,
                      Entries(e, b1)[j1].name = Entries(e, b2)[j2].name
               PROVE  b1 = b2 /\ j1 = j2
    BY DEF NamesOK
  <2>1. NamesOK(d, p)
    BY <1>0 DEF TreeOK
  <2>2. (b1 # w \/ j1 # k) /\ (b2 # w \/ j2 # k)
    BY <1>0
  <2>3. b1 \in Owns(d, p) /\ b2 \in Owns(d, p)
    BY <1>0
  <2>4. Entries(e, b1)[j1] = Entries(d, b1)[j1] /\ Entries(e, b2)[j2] = Entries(d, b2)[j2]
    BY <1>1, <2>2
  <2>5. Leads(d, b1, j1) # 0 /\ Leads(d, b2, j2) # 0
    BY <2>4 DEF Leads
  <2> QED
    BY <2>1, <2>3, <2>4, <2>5 DEF NamesOK
<1>a. UNDEFINED_BLOCK \notin Used(d) /\ UNDEFINED_BLOCK \notin InodesOf(e)
  BY <1>7, UsedBlocks
<1>10. Changed(d, e, p, UNDEFINED_BLOCK, w, k)
  <2>1. Owns(e, p) \cap (Used(d) \cup {UNDEFINED_BLOCK}) \subseteq Owns(d, p)
    BY <1>0
  <2>2. ASSUME NEW b \in Owns(e, p), NEW j \in Slots, Leads(e, b, j) # 0
        PROVE  Kept1(d, e, p, b, j)
    BY <1>0, <1>1, <2>2 DEF Kept1
  <2> QED
    BY <1>0, <1>7, <1>8, <1>9, <1>a, <2>1, <2>2 DEF Changed
<1>11. TreeOK(e) /\ Used(e) \subseteq Used(d)
  <2>1. TreeOK(e) /\ Used(e) \subseteq Used(d) \cup Owns(e, p)
    BY <1>10, <1>a, ChangedTree
  <2> QED
    BY <1>0, <2>1, UsedBlocks
<1>12. ASSUME NEW z \in Used(e)
       PROVE  z # c /\ z \notin Owns(d, c) /\ (w \notin Owns(e, p) => z # w)
  <2>0. \A x, y \in R : Apart(d, x, y) /\ Owns(d, x) \cap R = {}
    BY DEF TreeOK
  <2>1. CASE z \in InodesOf(e)
    BY <1>0, <1>3, <1>7, <2>0, <2>1
  <2>2. CASE z \notin InodesOf(e)
    <3>1. PICK x \in InodesOf(e) : z \in Owns(e, x)
      BY <2>2 DEF Used
    <3>2. x \in R /\ x # c
      BY <1>7
    <3>3. CASE x = p
      BY <1>0, <1>3, <2>0, <3>1, <3>3 DEF Apart
    <3>4. CASE x # p
      <4>1. z \in Owns(d, x)
        BY <1>0, <3>1, <3>2, <3>4, SameInode
      <4> QED
        BY <1>0, <1>3, <2>0, <3>2, <3>4, <4>1 DEF Apart
    <3> QED
      BY <3>3, <3>4
  <2> QED
    BY <2>1, <2>2
<1> QED
  BY <1>3, <1>7, <1>11, <1>12

-----------------------------------------------------------------------------
(* What handle_create and handle_delete write last.                        *)

(* RemoveAt takes one member of a sequence out and keeps the others. *)
LEMMA RemoveLemma ==
    ASSUME NEW S, NEW s \in Seq(S), IsInjective(s), NEW i \in DOMAIN s
    PROVE  /\ RemoveAt(s, i) \in Seq(S) /\ IsInjective(RemoveAt(s, i))
           /\ ToSet(RemoveAt(s, i)) = ToSet(s) \ {s[i]}
           /\ Len(RemoveAt(s, i)) < Len(s)
<1> DEFINE a == SubSeq(s, 1, i - 1)
           c == SubSeq(s, i + 1, Len(s))
<1>0. Len(s) \in Nat /\ DOMAIN s = 1 .. Len(s) /\ i \in 1 .. Len(s)
  OBVIOUS
<1>1. /\ 1 \in 1 .. Len(s) + 1 /\ i - 1 \in 0 .. Len(s)
      /\ i + 1 \in 1 .. Len(s) + 1 /\ Len(s) \in 0 .. Len(s)
  BY <1>0
<1>2. /\ a \in Seq(S) /\ ToSet(a) = {s[j] : j \in 1 .. i - 1} /\ IsInjective(a)
      /\ Len(a) = IF 1 <= i - 1 THEN i - 1 - 1 + 1 ELSE 0
  BY <1>1, SubSeqLemma
<1>3. /\ c \in Seq(S) /\ ToSet(c) = {s[j] : j \in i + 1 .. Len(s)} /\ IsInjective(c)
      /\ Len(c) = IF i + 1 <= Len(s) THEN Len(s) - (i + 1) + 1 ELSE 0
  BY <1>1, SubSeqLemma
<1>4. RemoveAt(s, i) = a \o c
  BY DEF RemoveAt
<1>5. \A j, k \in DOMAIN s : s[j] = s[k] => j = k
  BY DEF IsInjective
<1>6. ToSet(a) \cap ToSet(c) = {}
  BY <1>0, <1>2, <1>3, <1>5
<1>7. ToSet(a) \cup ToSet(c) = ToSet(s) \ {s[i]}
  <2>1. ToSet(s) = {s[j] : j \in 1 .. Len(s)}
    BY <1>0 DEF ToSet
  <2>2. \A j \in 1 .. Len(s) : j \in 1 .. i - 1 \/ j = i \/ j \in i + 1 .. Len(s)
    BY <1>0
  <2>3. (1 .. i - 1) \subseteq 1 .. Len(s) /\ (i + 1 .. Len(s)) \subseteq 1 .. Len(s)
        /\ i \notin 1 .. i - 1 /\ i \notin i + 1 .. Len(s)
    BY <1>0
  <2> QED
    BY <1>0, <1>2, <1>3, <1>5, <2>1, <2>2, <2>3
<1>8. Len(a \o c) < Len(s)
  <2>1. Len(a) = i - 1 /\ Len(c) = Len(s) - i
    BY <1>0, <1>2, <1>3
  <2>2. Len(a \o c) = Len(a) + Len(c)
    BY <1>2, <1>3
  <2> QED
    BY <1>0, <2>1, <2>2
<1> HIDE DEF a, c
<1>9. a \o c \in Seq(S) /\ ToSet(a \o c) = ToSet(a) \cup ToSet(c) /\ IsInjective(a \o c)
  <2>1. a \in Seq(S) /\ c \in Seq(S) /\ IsInjective(a) /\ IsInjective(c)
    BY <1>2, <1>3
  <2>2. a \o c \in Seq(S)
    BY <2>1
  <2>3. ToSet(a \o c) = ToSet(a) \cup ToSet(c)
    BY Zenon, <2>1, ConcatLemma
  <2>4. IsInjective(a \o c)
    BY Zenon, <1>6, <2>1, ConcatLemma
  <2> QED
    BY <2>2, <2>3, <2>4
<1> QED
  BY <1>4, <1>7, <1>8, <1>9

(* The block of direntries es *)
LEMMA DirEntries ==
    ASSUME NEW e, NEW b, NEW es, e[b] = DirBlock(es)
    PROVE  e[b].kind = "dir" /\ Entries(e, b) = es /\ \A j : Leads(e, b, j) = es[j].inode_block
BY DEF DirBlock, Entries, Leads

(* The direntries of a block that holds direntries. *)
LEMMA EntriesType ==
    ASSUME NEW es, DirBlock(es) \in Contents
    PROVE  es \in [Slots -> Entry]
<1>1. DirBlock(es).kind = "dir" /\ DirBlock(es).entries = es
  BY DEF DirBlock
<1> QED
  BY <1>1, ContentKinds

(* CommitCreate, from disk d to e *)
CommitCreateTo(d, e, q) ==
    IF q.grows THEN Written(d, e, q.curr, q.inode) ELSE Written(d, e, q.dir, DirBlock(q.entries))

(* The last write of handle_create links the new inode. *)
LEMMA CreateLinks ==
    ASSUME NEW d \in Disks, NEW e, TreeOK(d), NEW q, q.curr \in InodesOf(d), q.pc = "commit",
           CreateAt(d, q), DirBlock(q.entries) \in Contents, q.grows \in BOOLEAN,
           q.new \notin Used(d), q.grows => q.dir \notin Used(d), CommitCreateTo(d, e, q)
    PROVE  Links(d, e, q.curr, q.dir, q.place[2], q.new, TargetName(q.command))
<1> DEFINE p == q.curr
           k == q.place[2]
           w == q.dir
           c == q.new
           name == TargetName(q.command)
           I == d[p]
<1>1. /\ p \in Blocks /\ InodeOK(d, p) /\ Owns(d, p) \subseteq Blocks /\ Owns(d, p) = ToSet(I.blocks)
      /\ I.kind = "inode" /\ Inode(d, p) = I /\ p \notin Owns(d, p)
      /\ IsInjective(I.blocks) /\ (IsDir(d, p) <=> I.type = "d")
  BY TreeInode
<1>2. /\ I.type = "d"
      /\ \A b \in Owns(d, p), j \in Slots : Leads(d, b, j) # 0 => Entries(d, b)[j].name # name
      /\ k \in Slots
      /\ ~q.grows => w \in Owns(d, p) /\ Leads(d, w, k) = 0 /\ q.entries = [Entries(d, w) EXCEPT ![k] = NewEntry(q)]
      /\ q.grows => /\ q.inode = Grown(I, w) /\ w \in Blocks /\ w # c /\ d[w] = DirBlock(q.entries)
                    /\ q.entries = [NoEntries EXCEPT ![k] = NewEntry(q)]
      /\ c \in Blocks
      /\ d[c] = InodeBlock(q.command.type, q.command.username, <<>>)
  BY <1>1 DEF CreateAt
<1>3. /\ NewEntry(q).name = name /\ NewEntry(q).inode_block = c
      /\ d[c].kind = "inode" /\ d[c].blocks = <<>>
  BY <1>2 DEF NewEntry, InodeBlock
<1>4. c # p /\ c \notin Owns(d, p) /\ p \in Used(d)
  BY UsedBlocks
<1>5. IsDir(d, p)
  BY <1>1, <1>2
<1>6. \A b \in Owns(d, p) : d[b].kind = "dir"
  BY <1>1, <1>5 DEF InodeOK
<1> HIDE DEF I, k, w, c, name, p
<1>7. CASE ~q.grows
  <2>0. w \in Owns(d, p) /\ Leads(d, w, k) = 0 /\ q.entries = [Entries(d, w) EXCEPT ![k] = NewEntry(q)]
    BY <1>2, <1>7
  <2>1. Written(d, e, w, DirBlock(q.entries))
    BY <1>7 DEF CommitCreateTo, w
  <2>2. e[w] = DirBlock(q.entries) /\ \A b \in Blocks \ {w} : e[b] = d[b]
    BY <2>1 DEF Written
  <2>3. e[p] = d[p] /\ e[c] = d[c]
    BY <1>1, <1>2, <1>4, <2>0, <2>2
  <2>4. Owns(e, p) = Owns(d, p) /\ IsDir(e, p)
    BY <1>5, <2>3 DEF Owns, IsDir, Inode
  <2>5. e[w].kind = "dir" /\ Entries(e, w) = q.entries
    BY <2>2, DirEntries
  <2>6. /\ Entries(e, w)[k] = NewEntry(q)
        /\ \A j \in Slots \ {k} : Entries(e, w)[j] = Entries(d, w)[j]
    <3>1. Entries(d, w) \in [Slots -> Entry]
      BY <1>1, <2>0, InodeFacts
    <3> QED
      BY <1>2, <2>0, <2>5, <3>1
  <2>7. \A b \in Owns(d, p) \ {w} : Entries(e, b) = Entries(d, b) /\ e[b].kind = "dir"
    BY <1>1, <1>6, <2>2 DEF Entries
  <2>8. \A x \in InodesOf(d) \ {p} : SameAt(d, e, x)
    <3>1. p \in InodesOf(d)
      BY DEF p
    <3> QED
      BY <2>0, <2>1, <3>1, OthersSame
  <2>9. \A b \in Owns(e, p), j \in Slots :
         (b # w \/ j # k) => IF b \in Owns(d, p) THEN Entries(e, b)[j] = Entries(d, b)[j]
                             ELSE Leads(e, b, j) = 0
    BY <2>4, <2>6, <2>7
  <2>10. \A b \in Owns(e, p) : e[b].kind = "dir"
    BY <2>4, <2>5, <2>7
  <2>11. c \notin Used(d) /\ p \in InodesOf(d)
    BY DEF c, p
  <2> QED
    BY <1>1, <1>2, <1>3, <1>4, <1>5, <2>0, <2>3, <2>4, <2>6, <2>8, <2>9, <2>10, <2>11
       DEF Links, I, p, k, w, c, name
<1>8. CASE q.grows
  <2>0. /\ q.inode = Grown(I, w) /\ w \in Blocks /\ w # c /\ d[w] = DirBlock(q.entries) /\ w \notin Used(d)
        /\ q.entries = [NoEntries EXCEPT ![k] = NewEntry(q)]
    BY <1>2, <1>8 DEF w
  <2>1. Written(d, e, p, Grown(I, w))
    BY <1>8, <2>0 DEF CommitCreateTo, p
  <2>2. e[p] = Grown(I, w) /\ \A b \in Blocks \ {p} : e[b] = d[b]
    BY <2>1 DEF Written
  <2>3. e[c] = d[c] /\ e[w] = d[w] /\ w # p /\ w \notin Owns(d, p)
    <3>1. Owns(d, p) \subseteq Used(d) /\ p \in Used(d)
      BY UsedBlocks DEF p
    <3> QED
      BY <1>1, <1>2, <1>4, <2>0, <2>2, <3>1
  <2>4. /\ e[p].kind = "inode" /\ e[p].type = "d"
        /\ IsInjective(e[p].blocks) /\ ToSet(e[p].blocks) = Owns(d, p) \cup {w}
    <3> DEFINE v == Grown(I, w)
    <3>0. p \in InodesOf(d)
      BY DEF p
    <3>1. /\ v.kind = "inode" /\ v.type = d[p].type
          /\ IsInjective(v.blocks) /\ ToSet(v.blocks) = Owns(d, p) \cup {w}
      <4>1. w \in Blocks /\ w \notin Used(d)
        BY <2>0
      <4> QED
        BY <3>0, <4>1, GrownFacts DEF I
    <3>2. e[p] = v
      BY <2>2
    <3> HIDE DEF v
    <3> QED
      BY <1>2, <3>1, <3>2 DEF I
  <2>5. Owns(e, p) = Owns(d, p) \cup {w} /\ IsDir(e, p)
    BY <2>4 DEF Owns, IsDir, Inode
  <2>6. e[w].kind = "dir" /\ Entries(e, w) = q.entries
    <3>1. e[w] = DirBlock(q.entries)
      BY <2>0, <2>3
    <3> QED
      BY <3>1 DEF DirBlock, Entries
  <2>7. /\ Entries(e, w)[k] = NewEntry(q)
        /\ \A j \in Slots \ {k} : Leads(e, w, j) = 0
    <3>1. NoEntries = [j \in Slots |-> Unused] /\ Unused.inode_block = 0
      BY DEF NoEntries, Unused
    <3>2. \A j \in Slots \ {k} : Entries(e, w)[j] = Unused
      BY <1>2, <2>0, <2>6, <3>1
    <3>3. Entries(e, w)[k] = NewEntry(q)
      BY <1>2, <2>0, <2>6, <3>1
    <3> QED
      BY <3>1, <3>2, <3>3 DEF Leads
  <2>8. \A b \in Owns(d, p) : Entries(e, b) = Entries(d, b) /\ e[b].kind = "dir"
    BY <1>1, <1>6, <2>2 DEF Entries
  <2>9. \A x \in InodesOf(d) \ {p} : SameAt(d, e, x)
    <3>1. p \in InodesOf(d)
      BY DEF p
    <3> QED
      BY <2>1, <3>1, OthersSame
  <2>10. \A b \in Owns(e, p), j \in Slots :
         (b # w \/ j # k) => IF b \in Owns(d, p) THEN Entries(e, b)[j] = Entries(d, b)[j]
                             ELSE Leads(e, b, j) = 0
    BY <2>5, <2>7, <2>8
  <2>11. \A b \in Owns(e, p) : e[b].kind = "dir"
    BY <2>5, <2>6, <2>8
  <2>12. c \notin Used(d) /\ p \in InodesOf(d)
    BY DEF c, p
  <2> QED
    BY <1>1, <1>2, <1>3, <1>4, <1>5, <2>0, <2>3, <2>4, <2>5, <2>7, <2>9, <2>10, <2>11, <2>12
       DEF Links, p, k, w, c, name
<1> QED
  BY <1>7, <1>8

(* CommitDelete, from disk d to e *)
CommitDeleteTo(d, e, q) ==
    IF is_block_empty(q.entries)
    THEN Written(d, e, q.curr, [q.inode EXCEPT !.blocks = RemoveAt(@, q.place[1])])
    ELSE Written(d, e, q.dir, DirBlock(q.entries))

Shrunk(I, i) == [I EXCEPT !.blocks = RemoveAt(@, i)]

(* An inode with a block less. *)
LEMMA ShrunkFacts ==
    ASSUME NEW d \in Disks, TreeOK(d), NEW p \in InodesOf(d), NEW i \in DOMAIN d[p].blocks, NEW v,
           v = Shrunk(d[p], i)
    PROVE  /\ v \in Contents /\ v.kind = "inode" /\ v.type = d[p].type /\ IsInjective(v.blocks)
           /\ ToSet(v.blocks) = Owns(d, p) \ {d[p].blocks[i]} /\ v.blocks \in Seq(Blocks)
<1> DEFINE t == d[p].type
           o == d[p].owner
           s == d[p].blocks
           u == RemoveAt(s, i)
<1>1. /\ d[p].blocks \in Seq(Blocks) /\ IsInjective(d[p].blocks) /\ Owns(d, p) = ToSet(d[p].blocks)
      /\ d[p].kind = "inode" /\ d[p] \in Contents /\ Len(d[p].blocks) <= FS_MAXFILEBLOCKS
  BY TreeInode
<1>2. d[p] = InodeBlock(t, o, s) /\ t \in {"f", "d"} /\ o \in Users \cup {NoUser}
  BY <1>1, ContentKinds
<1>3. d[p] = [kind |-> "inode", type |-> t, owner |-> o, blocks |-> s]
  BY <1>2 DEF InodeBlock
<1>4. u \in Seq(Blocks) /\ IsInjective(u) /\ ToSet(u) = ToSet(s) \ {s[i]} /\ Len(u) < Len(s)
  BY <1>1, RemoveLemma
<1> HIDE DEF t, o, u
<1>5. v = [kind |-> "inode", type |-> t, owner |-> o, blocks |-> u]
  <2> HIDE DEF s
  <2> QED
    BY <1>3 DEF u, Shrunk
<1>6. u \in BoundedSeq(Blocks, FS_MAXFILEBLOCKS)
  <2>1. Len(u) \in Nat /\ Len(s) \in Nat /\ FS_MAXFILEBLOCKS \in Nat
    BY <1>1, <1>4, FileSystemAssumption
  <2>2. Len(u) \in 0 .. FS_MAXFILEBLOCKS
    BY <1>1, <1>4, <2>1
  <2>3. u \in [1 .. Len(u) -> Blocks]
    BY <1>4
  <2> QED
    BY <2>2, <2>3 DEF BoundedSeq, SeqOf
<1>7. v = InodeBlock(t, o, u)
  BY <1>5 DEF InodeBlock
<1>8. v \in Contents
  BY <1>2, <1>6, <1>7 DEF Contents
<1> QED
  BY <1>1, <1>4, <1>5, <1>8 DEF t

(* The first write of handle_delete unlinks the child. *)
LEMMA DeleteUnlinks ==
    ASSUME NEW d \in Disks, NEW e, TreeOK(d), NEW q, q.curr \in InodesOf(d), q.pc = "commit",
           DeleteAt(d, q), CommitDeleteTo(d, e, q)
    PROVE  /\ Unlinks(d, e, q.curr, q.dir, q.place[2], q.next)
           /\ is_block_empty(q.entries) <=> q.dir \notin Owns(e, q.curr)
<1> DEFINE p == q.curr
           i == q.place[1]
           k == q.place[2]
           w == q.dir
           c == q.next
           I == d[p]
<1>1. /\ p \in Blocks /\ InodeOK(d, p) /\ Owns(d, p) \subseteq Blocks /\ Owns(d, p) = ToSet(I.blocks)
      /\ I.kind = "inode" /\ Inode(d, p) = I /\ p \notin Owns(d, p) /\ p \in InodesOf(d)
      /\ IsInjective(I.blocks) /\ (IsDir(d, p) <=> I.type = "d")
  BY TreeInode
<1>2. /\ I.type = "d" /\ q.inode = I /\ i \in DOMAIN I.blocks /\ w = I.blocks[i] /\ k \in Slots
      /\ c # 0 /\ Leads(d, w, k) = c
      /\ q.entries = [Entries(d, w) EXCEPT ![k] = Unused]
      /\ d[c].type = "d" => d[c].blocks = <<>>
  BY DEF DeleteAt
<1>3. IsDir(d, p) /\ w \in Owns(d, p) /\ w \in Blocks
  BY <1>1, <1>2 DEF ToSet
<1>4. IsDir(d, c) => Owns(d, c) = {}
  <2>1. HasChild(d, p, c)
    BY <1>2, <1>3 DEF HasChild
  <2>2. c \in InodesOf(d)
    BY <1>1, <2>1, ReachFacts
  <2>3. Owns(d, c) = ToSet(d[c].blocks) /\ (IsDir(d, c) <=> d[c].type = "d")
    BY <2>2, TreeInode
  <2> QED
    BY <1>2, <2>3, EmptyLemma
<1>5. \A b \in Owns(d, p) : d[b].kind = "dir"
  BY <1>1, <1>3 DEF InodeOK
<1>6. /\ q.entries[k].inode_block = 0
      /\ \A j \in Slots \ {k} : q.entries[j] = Entries(d, w)[j]
  <2>1. Entries(d, w) \in [Slots -> Entry]
    BY <1>3, InodeFacts
  <2>2. q.entries[k] = Unused /\ \A j \in Slots \ {k} : q.entries[j] = Entries(d, w)[j]
    BY Zenon, <1>2, <2>1
  <2> QED
    BY <2>2 DEF Unused
<1> HIDE DEF I, i, k, w, c, p
<1>7. CASE is_block_empty(q.entries)
  <2> DEFINE v == [I EXCEPT !.blocks = RemoveAt(@, i)]
  <2>1. Written(d, e, p, v)
    BY <1>2, <1>7 DEF CommitDeleteTo, p, i
  <2>2. /\ v.kind = "inode" /\ v.type = d[p].type /\ IsInjective(v.blocks)
        /\ ToSet(v.blocks) = Owns(d, p) \ {w}
    <3>1. v = Shrunk(d[p], i) /\ p \in InodesOf(d) /\ i \in DOMAIN d[p].blocks
      BY <1>1, <1>2 DEF I, Shrunk
    <3>2. w = d[p].blocks[i]
      BY <1>2 DEF I
    <3> HIDE DEF v
    <3> QED
      BY <3>1, <3>2, ShrunkFacts
  <2> HIDE DEF v
  <2>3. e[p] = v /\ \A b \in Blocks \ {p} : e[b] = d[b]
    BY <2>1 DEF Written
  <2>4. Owns(e, p) = Owns(d, p) \ {w} /\ IsDir(e, p)
    BY <1>2, <2>2, <2>3 DEF Owns, IsDir, Inode, I
  <2>5. \A b \in Owns(e, p) : Entries(e, b) = Entries(d, b) /\ e[b].kind = "dir"
    BY <1>1, <1>5, <2>3, <2>4 DEF Entries
  <2>6. \A x \in InodesOf(d) \ {p} : SameAt(d, e, x)
    BY <1>1, <2>1, OthersSame
  <2>7. \A j \in Slots \ {k} : Leads(d, w, j) = 0
    BY <1>6, <1>7 DEF is_block_empty, Leads
  <2>8. w \notin Owns(e, p)
    BY <2>4
  <2>9. Unlinks(d, e, p, w, k, c)
    BY <1>1, <1>2, <1>3, <1>4, <2>2, <2>3, <2>4, <2>5, <2>6, <2>7, <2>8 DEF Unlinks
  <2> QED
    BY <1>7, <2>8, <2>9 DEF p, w, k, c
<1>8. CASE ~is_block_empty(q.entries)
  <2>1. Written(d, e, w, DirBlock(q.entries))
    BY <1>8 DEF CommitDeleteTo, w
  <2>2. e[w] = DirBlock(q.entries) /\ \A b \in Blocks \ {w} : e[b] = d[b]
    BY <2>1 DEF Written
  <2>3. e[p] = d[p]
    BY <1>1, <1>3, <2>2
  <2>4. Owns(e, p) = Owns(d, p) /\ IsDir(e, p)
    BY <1>3, <2>3 DEF Owns, IsDir, Inode
  <2>5. e[w].kind = "dir" /\ Entries(e, w) = q.entries /\ \A j : Leads(e, w, j) = q.entries[j].inode_block
    BY <2>2 DEF DirBlock, Entries, Leads
  <2>6. \A b \in Owns(d, p) \ {w} : Entries(e, b) = Entries(d, b) /\ e[b].kind = "dir"
    BY <1>1, <1>5, <2>2 DEF Entries
  <2>7. \A x \in InodesOf(d) \ {p} : SameAt(d, e, x)
    BY <1>1, <1>3, <2>1, OthersSame
  <2>8. Leads(e, w, k) = 0 /\ \E j \in Slots : Leads(e, w, j) # 0
    BY <1>6, <1>8, <2>5 DEF is_block_empty
  <2>9. \A b \in Owns(e, p), j \in Slots : (b # w \/ j # k) => Entries(e, b)[j] = Entries(d, b)[j]
    BY <1>6, <2>4, <2>5, <2>6
  <2>10. \A b \in Owns(e, p) : e[b].kind = "dir"
    BY <2>4, <2>5, <2>6
  <2>11. w \in Owns(e, p)
    BY <1>3, <2>4
  <2>12. e[p].kind = "inode" /\ IsInjective(e[p].blocks)
    BY <1>1, <2>3 DEF I
  <2>13. Unlinks(d, e, p, w, k, c)
    BY <1>1, <1>2, <1>3, <1>4, <2>4, <2>7, <2>8, <2>9, <2>10, <2>11, <2>12 DEF Unlinks
  <2> QED
    BY <1>8, <2>11, <2>13 DEF p, w, k, c
<1> QED
  BY <1>7, <1>8

-----------------------------------------------------------------------------
(* The locks, and what the other requests work on.                         *)

(* The request q has a lock on b in the given mode. *)
Holds(q, b, mode) == (CurrMode(q) = mode /\ q.curr = b) \/ (NextMode(q) = mode /\ q.next = b)

(* A request that holds a lock is counted. *)
LEMMA HoldersCounted ==
    ASSUME NEW b, NEW mode
    PROVE  /\ Count(b, mode) \in Nat
           /\ \A r \in Requests : Holds(req[r], b, mode) => Count(b, mode) >= 1
           /\ \A r, s \in Requests : r # s /\ Holds(req[r], b, mode) /\ Holds(req[s], b, mode)
                                       => Count(b, mode) >= 2
<1> DEFINE C == CurrHolders(b, mode)
           N == NextHolders(b, mode)
<1>1. IsFiniteSet(C) /\ IsFiniteSet(N)
  BY RequestsAssumption, FS_Subset DEF CurrHolders, NextHolders
<1>2. \A r \in Requests : Holds(req[r], b, mode) <=> r \in C \/ r \in N
  BY DEF Holds, CurrHolders, NextHolders
<1> HIDE DEF C, N
<1>3. PICK c, n : c = Cardinality(C) /\ n = Cardinality(N)
  OBVIOUS
<1>4. c \in Nat /\ n \in Nat /\ Count(b, mode) = c + n
  BY <1>1, <1>3, FS_CardinalityType DEF Count, C, N
<1>5. ASSUME NEW S, IsFiniteSet(S), NEW k, k = Cardinality(S), NEW x \in S
      PROVE  k >= 1 /\ \A y \in S : x # y => k >= 2
  <2>1. k \in Nat /\ k # 0
    BY <1>5, FS_CardinalityType, FS_EmptySet
  <2>2. k = 1 => \E z : S = {z}
    BY <1>5, FS_Singleton
  <2> QED
    BY <2>1, <2>2
<1>6. \A x \in C : c >= 1 /\ \A y \in C : x # y => c >= 2
  BY <1>1, <1>3, <1>5
<1>7. \A x \in N : n >= 1 /\ \A y \in N : x # y => n >= 2
  BY <1>1, <1>3, <1>5
<1>8. Count(b, mode) \in Nat
  BY <1>4
<1>9. ASSUME NEW r \in Requests, Holds(req[r], b, mode) PROVE Count(b, mode) >= 1
  BY <1>2, <1>4, <1>6, <1>7, <1>9
<1>10. ASSUME NEW r \in Requests, NEW s \in Requests, r # s, Holds(req[r], b, mode), Holds(req[s], b, mode)
       PROVE  Count(b, mode) >= 2
  <2>1. (r \in C \/ r \in N) /\ (s \in C \/ s \in N)
    BY <1>2, <1>10
  <2> QED
    BY <1>4, <1>6, <1>7, <1>10, <2>1
<1> QED
  BY <1>8, <1>9, <1>10

(* What LockInv says of two requests *)
LEMMA LocksExclude ==
    ASSUME LockInv, NEW r \in Requests, NEW s \in Requests, r # s, NEW b \in Blocks
    PROVE  /\ Holds(req[r], b, "exclusive") =>
                ~Holds(req[s], b, "shared") /\ ~Holds(req[s], b, "upgrade") /\ ~Holds(req[s], b, "exclusive")
           /\ Holds(req[r], b, "upgrade") => ~Holds(req[s], b, "upgrade") /\ ~Holds(req[s], b, "exclusive")
<1> DEFINE l == lock_map[b]
<1>1. /\ l.shared = Count(b, "shared")
      /\ Count(b, "upgrade") = (IF l.upgrade THEN 1 ELSE 0)
      /\ Count(b, "exclusive") = (IF l.exclusive THEN 1 ELSE 0)
      /\ l.exclusive => l.shared = 0 /\ ~l.upgrade
  BY DEF LockInv, ExactAt, Exact
<1> HIDE DEF l
<1>2. PICK sh, up, ex : sh = Count(b, "shared") /\ up = Count(b, "upgrade") /\ ex = Count(b, "exclusive")
  OBVIOUS
<1>3. sh \in Nat /\ up \in {0, 1} /\ ex \in {0, 1} /\ (ex = 1 => sh = 0 /\ up = 0)
  BY <1>1, <1>2, HoldersCounted
<1>4. /\ Holds(req[s], b, "shared") => sh >= 1
      /\ Holds(req[s], b, "upgrade") => up >= 1
      /\ Holds(req[s], b, "exclusive") => ex >= 1
      /\ Holds(req[r], b, "upgrade") => up >= 1
      /\ Holds(req[r], b, "exclusive") => ex >= 1
      /\ Holds(req[r], b, "upgrade") /\ Holds(req[s], b, "upgrade") => up >= 2
      /\ Holds(req[r], b, "exclusive") /\ Holds(req[s], b, "exclusive") => ex >= 2
  BY <1>2, HoldersCounted
<1> QED
  BY <1>3, <1>4

(* Nobody reads an inode whose shared count is 0. *)
LEMMA NoReaders ==
    ASSUME LockInv, NEW b \in Blocks, CanUpgrade(b), NEW s \in Requests
    PROVE  ~Holds(req[s], b, "shared")
<1>1. lock_map[b].shared = Count(b, "shared") /\ lock_map[b].shared = 0
  BY DEF LockInv, ExactAt, Exact, CanUpgrade
<1> QED
  BY <1>1, HoldersCounted

-----------------------------------------------------------------------------
(* A write to the disk that leaves alone what the request q works on.      *)
OnCurr(q) == q.pc \in Walking \cup Owning \/ (q.pc = "check" /\ q.command.op # "read")
Spares(d, e, q) ==
    /\ OnCurr(q) /\ q.curr \in InodesOf(d) => q.curr \in InodesOf(e) /\ SameAt(d, e, q.curr)
    /\ q.pc = "failed" /\ q.curr \in InodesOf(d) => q.curr \in InodesOf(e)
    /\ \A b \in Reserved(q) \ {UNDEFINED_BLOCK} : e[b] = d[b]
    /\ q.pc = "commit" /\ q.command.op = "delete" => e[q.next] = d[q.next]

(* What a delete frees is the child's inode block and the child's blocks.  *)
LEMMA FreedBlocks ==
    ASSUME NEW d \in Disks, NEW x \in Blocks, d[x].kind = "inode", IsDir(d, x) => Owns(d, x) = {}
    PROVE  /\ <<x>> \o Removed(d[x]) \in Seq(Blocks)
           /\ ToSet(<<x>> \o Removed(d[x])) = {x} \cup Owns(d, x)
           /\ IsInjective(d[x].blocks) /\ x \notin Owns(d, x) => IsInjective(<<x>> \o Removed(d[x]))
<1> DEFINE u == Removed(d[x])
<1>0. d[x] \in Contents /\ Inode(d, x) = d[x]
  BY DEF Disks, Inode
<1>1. d[x].blocks \in Seq(Blocks) /\ d[x].type \in {"f", "d"} /\ Owns(d, x) = ToSet(d[x].blocks)
  BY <1>0, ContentKinds DEF Owns
<1>2. CASE d[x].type = "f"
  <2>1. u = d[x].blocks
    BY <1>2 DEF Removed
  <2>2. <<x>> \in Seq(Blocks) /\ ToSet(<<x>>) = {x} /\ IsInjective(<<x>>)
    BY DEF ToSet, IsInjective
  <2> HIDE DEF u
  <2>3. u \in Seq(Blocks) /\ ToSet(u) = Owns(d, x)
    BY <1>1, <2>1
  <2> DEFINE a == <<x>>
  <2>4. a \in Seq(Blocks) /\ ToSet(a) = {x} /\ IsInjective(a)
    BY <2>2
  <2> HIDE DEF a
  <2>5. /\ a \o u \in Seq(Blocks) /\ ToSet(a \o u) = {x} \cup Owns(d, x)
        /\ IsInjective(u) /\ x \notin Owns(d, x) => IsInjective(a \o u)
    BY <2>3, <2>4, ConcatLemma
  <2> QED
    BY <2>1, <2>5 DEF a, u
<1>3. CASE d[x].type = "d"
  <2>1. u = <<>> /\ Owns(d, x) = {}
    BY <1>0, <1>3 DEF Removed, IsDir
  <2>2. <<x>> \o u = <<x>>
    BY <2>1
  <2>3. <<x>> \in Seq(Blocks) /\ ToSet(<<x>>) = {x} /\ IsInjective(<<x>>)
    BY DEF ToSet, IsInjective
  <2> QED
    BY <2>1, <2>2, <2>3
<1> QED
  BY <1>1, <1>2, <1>3

(* What a delete frees, once the child is unlinked. *)
LEMMA VictimBlocks ==
    ASSUME NEW d \in Disks, NEW q, VictimAt(d, q)
    PROVE  q.tofree \in Seq(Blocks) /\ ToSet(q.tofree) = {q.next} \cup Owns(d, q.next)
<1>1. /\ q.next \in Blocks /\ d[q.next].kind = "inode" /\ (IsDir(d, q.next) => Owns(d, q.next) = {})
      /\ q.tofree = <<q.next>> \o Removed(d[q.next])
  BY DEF VictimAt
<1> QED
  BY <1>1, FreedBlocks

(* Such a write keeps what the invariant says of q. *)
LEMMA SparedAt ==
    ASSUME NEW d \in Disks, NEW e \in Disks, TreeOK(d), NEW q, At(d, q), OpAt(q), Spares(d, e, q)
    PROVE  At(e, q)
<1>1. q.pc \in Walking => \/ q.curr = UNDEFINED_BLOCK /\ q.next = ROOT_INODE /\ q.pc # "release"
                          \/ q.curr \in InodesOf(e) /\ HasChild(e, q.curr, q.next)
  <2> SUFFICES ASSUME q.pc \in Walking, q.curr \in InodesOf(d), HasChild(d, q.curr, q.next)
               PROVE  q.curr \in InodesOf(e) /\ HasChild(e, q.curr, q.next)
    BY DEF At
  <2>1. q.curr \in InodesOf(e) /\ SameAt(d, e, q.curr)
    BY DEF Spares, OnCurr
  <2> QED
    BY <2>1, SameInode
<1>2. q.pc \in Owning \/ (q.pc = "check" /\ q.command.op # "read") =>
        q.curr \in InodesOf(d) /\ q.curr \in InodesOf(e) /\ SameAt(d, e, q.curr)
  BY DEF At, Spares, OnCurr
<1>3. q.pc = "failed" => q.curr \in InodesOf(e) \cup {UNDEFINED_BLOCK}
  BY DEF At, Spares
<1>4. q.pc \in Changing \cup Deleting => q.pc \in Owning
  BY DEF Changing, Deleting, Owning
<1>5. ASSUME q.pc \in Changing \cup Deleting
      PROVE  /\ q.curr \in InodesOf(d) /\ e[q.curr] = d[q.curr] /\ Owns(d, q.curr) = ToSet(d[q.curr].blocks)
             /\ \A b \in Owns(d, q.curr) : e[b] = d[b] /\ Entries(e, b) = Entries(d, b)
             /\ \A b \in Owns(d, q.curr), j \in Slots : Leads(e, b, j) = Leads(d, b, j)
  <2>1. q.curr \in InodesOf(d) /\ SameAt(d, e, q.curr)
    BY <1>2, <1>4, <1>5
  <2>2. Owns(d, q.curr) = ToSet(d[q.curr].blocks)
    BY <2>1, TreeInode
  <2>3. e[q.curr] = d[q.curr] /\ \A b \in Owns(d, q.curr) : e[b] = d[b]
    BY <2>1 DEF SameAt
  <2> QED
    BY <2>1, <2>2, <2>3 DEF Entries, Leads
<1>6. ASSUME q.pc \in Changing, q.command.op = "write" PROVE WriteAt(e, q)
  <2>1. WriteAt(d, q)
    BY <1>6 DEF At
  <2>2. e[q.curr] = d[q.curr]
    BY <1>5, <1>6
  <2>3. q.grows /\ q.pc # "alloc" => q.new \in Blocks /\ e[q.new] = d[q.new]
    <3>1. q.pc # "alloc" => q.new \in Reserved(q)
      BY <1>6 DEF Changing, Reserved
    <3>2. q.grows /\ q.pc # "alloc" => q.new \in Blocks
      BY <2>1 DEF WriteAt
    <3> QED
      BY <3>1, <3>2, BlocksFacts DEF Spares
  <2> QED
    BY <2>1, <2>2, <2>3 DEF WriteAt
<1>7. ASSUME q.pc \in Changing, q.command.op = "create" PROVE CreateAt(e, q)
  <2>1. CreateAt(d, q)
    BY <1>7 DEF At
  <2>2. /\ e[q.curr] = d[q.curr] /\ Owns(d, q.curr) = ToSet(d[q.curr].blocks)
        /\ \A b \in Owns(d, q.curr) : Entries(e, b) = Entries(d, b)
        /\ \A b \in Owns(d, q.curr), j \in Slots : Leads(e, b, j) = Leads(d, b, j)
    BY <1>5, <1>7
  <2>3. q.pc \in {"write_dir", "upgrade", "commit"} => e[q.new] = d[q.new]
    <3>1. q.pc # "alloc" => q.new \in Reserved(q) /\ q.new \in Blocks
      BY <1>7, <2>1 DEF Changing, Reserved, CreateAt
    <3> QED
      BY <3>1, BlocksFacts DEF Spares
  <2>4. q.pc \in {"upgrade", "commit"} /\ q.grows => e[q.dir] = d[q.dir]
    <3>1. q.pc \in {"upgrade", "commit"} /\ q.grows => q.dir \in Reserved(q) /\ q.dir \in Blocks
      BY <1>7, <2>1 DEF Reserved, CreateAt
    <3> QED
      BY <3>1, BlocksFacts DEF Spares
  <2>5. ~q.grows => /\ q.dir \in Owns(d, q.curr) /\ Entries(e, q.dir) = Entries(d, q.dir)
                    /\ \A j \in Slots : Leads(e, q.dir, j) = Leads(d, q.dir, j)
    BY <2>1, <2>2 DEF CreateAt
  <2>6. \A b \in ToSet(d[q.curr].blocks), k \in Slots :
           Leads(e, b, k) # 0 => Entries(e, b)[k].name # TargetName(q.command)
    BY <2>1, <2>2 DEF CreateAt
  <2> QED
    BY <2>1, <2>2, <2>3, <2>4, <2>5, <2>6 DEF CreateAt
<1>8. ASSUME q.pc \in Deleting, q.command.op = "delete" PROVE DeleteAt(e, q)
  <2>1. DeleteAt(d, q)
    BY <1>8 DEF At
  <2>2. /\ e[q.curr] = d[q.curr] /\ Owns(d, q.curr) = ToSet(d[q.curr].blocks)
        /\ \A b \in Owns(d, q.curr) : Entries(e, b) = Entries(d, b)
        /\ \A b \in Owns(d, q.curr), j \in Slots : Leads(e, b, j) = Leads(d, b, j)
    BY <1>5, <1>8
  <2>3. q.dir \in Owns(d, q.curr)
    BY <2>1, <2>2 DEF DeleteAt, ToSet
  <2>4. q.pc = "commit" => e[q.next] = d[q.next]
    BY <1>8 DEF Spares
  <2>5. Entries(e, q.dir) = Entries(d, q.dir) /\ \A j \in Slots : Leads(e, q.dir, j) = Leads(d, q.dir, j)
    BY <2>2, <2>3
  <2> QED
    BY <2>1, <2>2, <2>4, <2>5 DEF DeleteAt
<1>9. ASSUME q.pc \in Unlinked PROVE VictimAt(e, q)
  <2>1. VictimAt(d, q)
    BY <1>9 DEF At
  <2>2. q.next \in Reserved(q) /\ q.next \in Blocks
    <3>1. q.next \in Blocks /\ q.next \in ToSet(q.tofree)
      BY <2>1, VictimBlocks DEF VictimAt
    <3> QED
      BY <1>9, <3>1 DEF Unlinked, Reserved
  <2>3. e[q.next] = d[q.next]
    BY <2>2, BlocksFacts DEF Spares
  <2>4. Inode(e, q.next) = Inode(d, q.next)
    BY <2>3 DEF Inode
  <2> QED
    BY <2>1, <2>3, <2>4 DEF VictimAt, IsDir, Owns
<1>10. q.pc = "free" => q.tofree # <<>> /\ IsInjective(q.tofree)
  BY DEF At
<1> QED
  BY <1>1, <1>2, <1>3, <1>6, <1>7, <1>8, <1>9, <1>10 DEF At

-----------------------------------------------------------------------------
(* Steps of one request.                                                   *)

(* How a step of request r may move blocks: what is free, in the tree or   *)
(* held by r after it was free, in the tree or held by r before.           *)
FreeMoves(r) ==
    /\ free_block_list' \in Seq(Blocks) /\ IsInjective(free_block_list')
    /\ ToSet(free_block_list') \cap Used(disk') = {}
    /\ Taken(r)' \cap (ToSet(free_block_list') \cup Used(disk')) = {}
    /\ ToSet(free_block_list') \cup Used(disk') \cup Taken(r)'
         \subseteq ToSet(free_block_list) \cup Used(disk) \cup Taken(r)

(* Blocks that only move between these stay in one place. *)
LEMMA FreeStep ==
    ASSUME FreeInv, NEW r \in Requests, OnlyMoves(r), FreeMoves(r)
    PROVE  FreeInv'
<1>1. \A s \in Requests \ {r} : Taken(s)' = Taken(s)
  BY DEF OnlyMoves, Taken
<1>2. PICK L, U, T, L1, U1, T1 :
        /\ L = ToSet(free_block_list) /\ U = Used(disk) /\ T = Taken(r)
        /\ L1 = ToSet(free_block_list') /\ U1 = Used(disk') /\ T1 = Taken(r)'
  OBVIOUS
<1>3. /\ L1 \cap U1 = {} /\ T1 \cap (L1 \cup U1) = {} /\ L1 \cup U1 \cup T1 \subseteq L \cup U \cup T
      /\ IsInjective(free_block_list')
  BY <1>2 DEF FreeMoves
<1>4. /\ \A s \in Requests : Taken(s) \cap (L \cup U) = {}
      /\ \A s, t \in Requests : s # t => Taken(s) \cap Taken(t) = {}
  BY <1>2 DEF FreeInv
<1>5. ASSUME NEW s \in Requests PROVE Taken(s)' \cap (L1 \cup U1) = {}
  <2>1. CASE s = r
    BY <1>2, <1>3, <2>1
  <2>2. CASE s # r
    <3>1. Taken(s)' = Taken(s) /\ Taken(s) \cap (L \cup U \cup T) = {}
      BY <1>1, <1>2, <1>4, <2>2
    <3> QED
      BY <1>3, <3>1
  <2> QED
    BY <2>1, <2>2
<1>6. ASSUME NEW s \in Requests, s # r PROVE Taken(s)' \cap T1 = {} /\ T1 \cap Taken(s)' = {}
  <2>1. Taken(s)' = Taken(s) /\ Taken(s) \cap (L \cup U \cup T) = {}
    BY <1>1, <1>2, <1>4, <1>6
  <2> QED
    BY <1>3, <2>1
<1>7. ASSUME NEW s \in Requests, NEW t \in Requests, s # t PROVE Taken(s)' \cap Taken(t)' = {}
  <2>1. CASE s = r
    BY <1>2, <1>6, <1>7, <2>1
  <2>2. CASE t = r
    BY <1>2, <1>6, <1>7, <2>2
  <2>3. CASE s # r /\ t # r
    BY <1>1, <1>4, <1>7, <2>3
  <2> QED
    BY <2>1, <2>2, <2>3
<1> QED
  BY <1>2, <1>3, <1>5, <1>7 DEF FreeInv

(* A step of request r *)
LEMMA FsStep ==
    ASSUME FsInv, NEW r \in Requests, OnlyMoves(r), disk' \in Disks, TreeOK(disk'), FreeMoves(r),
           ReqOK(disk', req'[r]), \A s \in Requests \ {r} : Spares(disk, disk', req[s]),
           \A s \in Requests : Stands(s)'
    PROVE  FsInv'
<1>1. FreeInv'
  BY FreeStep DEF FsInv
<1>2. ASSUME NEW s \in Requests PROVE ReqOK(disk', req'[s])
  <2>1. CASE s = r
    BY <2>1
  <2>2. CASE s # r
    <3>1. req'[s] = req[s] /\ ReqOK(disk, req[s]) /\ Spares(disk, disk', req[s])
      BY <2>2 DEF OnlyMoves, FsInv
    <3>2. disk \in Disks /\ TreeOK(disk)
      BY DEF FsInv, Disks
    <3>3. At(disk', req[s])
      BY <3>1, <3>2, SparedAt DEF ReqOK
    <3> QED
      BY <3>1, <3>3 DEF ReqOK
  <2> QED
    BY <2>1, <2>2
<1>3. free_block_list' \in Seq(Blocks)
  BY DEF FreeMoves
<1> QED
  BY <1>1, <1>2, <1>3 DEF FsInv, Disks

(* What the disk does not change *)
LEMMA SameDisk ==
    ASSUME NEW d, NEW q
    PROVE  Spares(d, d, q)
BY DEF Spares, SameAt

(* A request that has unlinked a child waits for its readers, still. *)
MakerKept(r) == req[r].pc \in {"free_dir", "upgrade_child"} =>
                  req'[r].pc \in {"free_dir", "upgrade_child"} /\ req'[r].next = req[r].next

(* ... those that read keep their place, if the inodes of the tree are all kept. *)
LEMMA StandsKept ==
    ASSUME FsInv, NEW r \in Requests, OnlyMoves(r), MakerKept(r), InodesOf(disk) \subseteq InodesOf(disk'),
           NEW s \in Requests, s # r
    PROVE  Stands(s)'
<1>1. req'[s] = req[s] /\ Stands(s)
  BY DEF OnlyMoves, FsInv
<1> SUFFICES ASSUME Standing(req[s])
             PROVE  req[s].curr \in Blocks /\ (req[s].curr \in InodesOf(disk') \/ Orphan(s)')
  BY <1>1 DEF Stands
<1>2. req[s].curr \in Blocks /\ (req[s].curr \in InodesOf(disk) \/ Orphan(s))
  BY <1>1 DEF Stands
<1>3. ASSUME Orphan(s) PROVE Orphan(s)'
  <2>1. PICK t \in Requests : req[t].pc \in {"free_dir", "upgrade_child"} /\ req[t].next = req[s].curr
    BY <1>3 DEF Orphan
  <2>2. req'[t].pc \in {"free_dir", "upgrade_child"} /\ req'[t].next = req[s].curr
    BY <2>1 DEF OnlyMoves, MakerKept
  <2> QED
    BY <1>1, <2>2 DEF Orphan
<1> QED
  BY <1>2, <1>3

(* A step that changes neither the disk nor the free list *)
LEMMA QuietFs ==
    ASSUME FsInv, NEW r \in Requests, OnlyMoves(r), disk' = disk, free_block_list' = free_block_list,
           ReqOK(disk, req'[r]), Reserved(req'[r]) \subseteq Reserved(req[r]) \cup {UNDEFINED_BLOCK},
           MakerKept(r), Standing(req'[r]) => req'[r].curr \in InodesOf(disk)
    PROVE  FsInv'
<1>0. disk \in Disks /\ TreeOK(disk) /\ FreeInv /\ free_block_list \in Seq(Blocks)
  BY DEF FsInv, Disks
<1>1. FreeMoves(r)
  <2>1. Taken(r)' \subseteq Taken(r)
    BY DEF Taken
  <2>2. /\ IsInjective(free_block_list) /\ ToSet(free_block_list) \cap Used(disk) = {}
        /\ Taken(r) \cap (ToSet(free_block_list) \cup Used(disk)) = {}
    BY <1>0 DEF FreeInv
  <2> HIDE DEF Taken
  <2> QED
    BY <1>0, <2>1, <2>2 DEF FreeMoves
<1>2. \A s \in Requests \ {r} : Spares(disk, disk', req[s])
  BY SameDisk
<1>3. \A s \in Requests \ {r} : Stands(s)'
  BY StandsKept
<1>4. Stands(r)'
  BY <1>0, ReachFacts DEF Stands
<1>5. \A s \in Requests : Stands(s)'
  BY <1>3, <1>4
<1> QED
  BY <1>0, <1>1, <1>2, <1>5, FsStep

-----------------------------------------------------------------------------
(* Walking down the path: the steps of every handler.                      *)

(* The local variables are kept. *)
Onward(q, n) ==
    /\ n.command = q.command /\ n.depth = q.depth /\ n.curr = q.curr /\ n.next = q.next
    /\ n.inode = q.inode /\ n.place = q.place /\ n.entries = q.entries /\ n.dir = q.dir
    /\ n.new = q.new /\ n.grows = q.grows /\ n.tofree = q.tofree /\ n.data = q.data

(* A request that only goes on keeps its local variables, *)
LEMMA GoesFacts ==
    ASSUME LockInv, NEW r \in Requests, NEW pc, Goes(r, pc)
    PROVE  OnlyMoves(r) /\ req'[r].pc = pc /\ Onward(req[r], req'[r])
BY DEF LockInv, Shape, OnlyMoves, Goes, Onward, NewRequest

(* and the blocks it has taken. *)
LEMMA OnwardReserved ==
    ASSUME NEW q, NEW n, Onward(q, n)
    PROVE  /\ ReqType(q) => ReqType(n)
           /\ n.pc \notin Early \/ (q.pc \in Early /\ n.pc # "new") => (Fresh(q) => Fresh(n))
           /\ PathInv(q) /\ Active(q) /\ n.pc \notin {"lookup", "check"}
                /\ (n.pc \in Walking => q.pc \in Walking) => PathInv(n)
BY DEF Onward, ReqType, Fresh, PathInv, Early, WalkLength

(* A request that has ended *)
Ended(n) ==
    /\ n.command = NewRequest.command /\ n.depth = 0 /\ n.next = UNDEFINED_BLOCK
    /\ n.inode = Garbage /\ n.entries = NoEntries /\ n.dir = UNDEFINED_BLOCK
    /\ n.new = UNDEFINED_BLOCK /\ n.grows = FALSE /\ n.tofree = <<>>

(* It works on nothing. *)
LEMMA EndedOK ==
    ASSUME NEW d \in Disks, NEW n, Ended(n), n.pc \in {"new", "done", "failed", "lost"},
           n.data \in Data \cup {NoData},
           n.curr = UNDEFINED_BLOCK \/ (n.pc = "failed" /\ n.curr \in InodesOf(d))
    PROVE  ReqOK(d, n) /\ Reserved(n) = {} /\ ~Standing(n)
<1>1. NoEntries \in [Slots -> Entry]
  BY BlocksFacts DEF NoEntries, Unused, Entry
<1>2. DirBlock(NoEntries) \in Contents
  BY <1>1 DEF Contents, Entry
<1>3. n.curr \in Numbers /\ UNDEFINED_BLOCK \in Numbers
  BY ReachFacts DEF Numbers
<1>4. 0 \in 0 .. MaxDepth
  BY FileSystemAssumption
<1>5. ReqType(n)
  BY <1>2, <1>3, <1>4, EmptyLemma DEF ReqType, Ended
<1>6. At(d, n)
  BY DEF At, Walking, Owning, Changing, Deleting, Unlinked
<1>7. OpAt(n) /\ PathInv(n) /\ Fresh(n)
  BY DEF OpAt, PathInv, Fresh, Active, Ended
<1> QED
  BY <1>5, <1>6, <1>7 DEF ReqOK, Reserved, Standing

(* Ends leaves such a request. *)
LEMMA EndsFacts ==
    ASSUME NEW r \in Requests, DOMAIN req = Requests, NEW outcome, NEW data, Ends(r, outcome, data)
    PROVE  /\ OnlyMoves(r) /\ Ended(req'[r]) /\ req'[r].pc = outcome /\ req'[r].data = data
           /\ req'[r].curr = UNDEFINED_BLOCK
<1>1. req'[r] = [NewRequest EXCEPT !.pc = outcome, !.data = data] /\ OnlyMoves(r)
  BY DEF Ends, OnlyMoves
<1>2. Ended(req'[r]) /\ req'[r].pc = outcome /\ req'[r].data = data /\ req'[r].curr = UNDEFINED_BLOCK
  BY <1>1 DEF NewRequest, Ended
<1> QED
  BY <1>1, <1>2

(* A handler that answers, or throws *)
LEMMA EndFs ==
    ASSUME LockInv, FsInv, NEW r \in Requests, NEW outcome \in {"done", "failed"},
           NEW data \in Data \cup {NoData}, Ends(r, outcome, data),
           disk' = disk, free_block_list' = free_block_list,
           req[r].pc \notin {"free_dir", "upgrade_child"}
    PROVE  FsInv'
<1>1. /\ OnlyMoves(r) /\ Ended(req'[r]) /\ req'[r].pc = outcome /\ req'[r].data = data
      /\ req'[r].curr = UNDEFINED_BLOCK
  BY EndsFacts DEF LockInv, Shape
<1>2. disk \in Disks
  BY DEF FsInv, Disks
<1>3. ReqOK(disk, req'[r]) /\ Reserved(req'[r]) = {} /\ ~Standing(req'[r])
  BY <1>1, <1>2, EndedOK
<1>4. MakerKept(r)
  BY DEF MakerKept
<1> QED
  BY <1>1, <1>3, <1>4, QuietFs

(* An exception after the lock is given up. *)
LEMMA ThrowFs ==
    ASSUME LockInv, FsInv, NEW r \in Requests, NEW mode, Throws(r, mode),
           req[r].pc \notin {"free_dir", "upgrade_child"}
    PROVE  FsInv'
<1>1. Ends(r, "failed", NoData) /\ disk' = disk /\ free_block_list' = free_block_list
  BY DEF Throws
<1> QED
  BY <1>1, EndFs

(* A pathname has at least one name, and at most MaxDepth. *)
LEMMA CommandFacts ==
    ASSUME NEW c \in Commands
    PROVE  /\ WalkLength(c) \in 0 .. MaxDepth /\ WalkLength(c) \in Nat
           /\ c.op \in {"read", "write", "create", "delete"}
           /\ c.op = "create" => c.type \in {"f", "d"} /\ c.username \in Users /\ Last(c.pathname) \in Names
           /\ c.op = "write" => c.data \in Data
           /\ c.op \in {"read", "write"} => c.block \in Nat
<1>1. c \in AllCommands
  BY FileSystemAssumption
<1>2. c.pathname \in Paths /\ c.op \in {"read", "write", "create", "delete"} /\ c.username \in Users
  BY <1>1 DEF AllCommands
<1>3. PICK n \in 1 .. MaxDepth : c.pathname \in [1 .. n -> Names]
  BY <1>2 DEF Paths
<1>4. n \in Nat /\ Len(c.pathname) = n /\ n - 1 \in Nat /\ n \in 0 .. MaxDepth /\ n - 1 \in 0 .. MaxDepth
  BY <1>3, FileSystemAssumption
<1>5. Last(c.pathname) \in Names
  BY <1>3, <1>4 DEF Last
<1>6. WalkLength(c) \in 0 .. MaxDepth /\ WalkLength(c) \in Nat
  BY <1>4 DEF WalkLength
<1>7. c.op = "create" => c.type \in {"f", "d"}
  BY <1>1 DEF AllCommands
<1>8. c.op = "write" => c.data \in Data
  BY <1>1 DEF AllCommands
<1>9. c.op \in {"read", "write"} => c.block \in Nat
  BY <1>1, FileSystemAssumption DEF AllCommands
<1> QED
  BY <1>2, <1>5, <1>6, <1>7, <1>8, <1>9

(* handle_request: the request starts at the root. *)
LEMMA ReceiveFs ==
    ASSUME LockInv, FsInv, NEW r \in Requests, NEW c \in Commands, Receive(r, c)
    PROVE  FsInv'
<1>1. PICK q, n : q = req[r] /\ n = req'[r]
  OBVIOUS
<1>2. /\ q.pc = "new" /\ q.curr = UNDEFINED_BLOCK /\ disk' = disk /\ free_block_list' = free_block_list
      /\ ReqOK(disk, q)
  BY <1>1 DEF Receive, LockInv, FsInv
<1>3. /\ OnlyMoves(r) /\ n.pc = "register" /\ n.command = c /\ n.next = ROOT_INODE
      /\ n.depth = q.depth /\ n.curr = q.curr
      /\ n.inode = q.inode /\ n.place = q.place /\ n.entries = q.entries /\ n.dir = q.dir
      /\ n.new = q.new /\ n.grows = q.grows /\ n.tofree = q.tofree /\ n.data = q.data
  BY <1>1 DEF Receive, LockInv, Shape, OnlyMoves, NewRequest
<1>4. At(disk, n)
  BY <1>2, <1>3 DEF At, Walking, Owning, Changing, Deleting, Unlinked
<1>5. OpAt(n) /\ Fresh(n)
  BY <1>2, <1>3 DEF OpAt, Fresh, ReqOK, Early
<1>6. PathInv(n)
  <2>1. q.depth = 0
    BY <1>2 DEF ReqOK, Fresh
  <2>2. WalkLength(c) \in Nat
    BY CommandFacts
  <2> QED
    BY <1>3, <2>1, <2>2 DEF PathInv, Walking
<1>7. ReqType(n)
  BY <1>2, <1>3, BlocksFacts DEF ReqOK, ReqType, Numbers
<1>8. ReqOK(disk, n) /\ Reserved(n) = {} /\ ~Standing(n)
  BY <1>3, <1>4, <1>5, <1>6, <1>7 DEF ReqOK, Reserved, Standing
<1>9. MakerKept(r)
  BY <1>1, <1>2 DEF MakerKept
<1> QED
  BY <1>1, <1>2, <1>3, <1>8, <1>9, QuietFs

(* A lock has one more user; nothing else changes. *)
LEMMA RegisterFs ==
    ASSUME LockInv, FsInv, NEW r \in Requests, Register(r)
    PROVE  FsInv'
<1>1. PICK q, n : q = req[r] /\ n = req'[r]
  OBVIOUS
<1>2. q.pc = "register" /\ ReqOK(disk, q) /\ disk' = disk /\ free_block_list' = free_block_list
  BY <1>1 DEF Register, FsInv
<1>3. OnlyMoves(r) /\ n.pc = "acquire" /\ Onward(q, n)
  BY <1>1, GoesFacts DEF Register
<1>4. At(disk, n) /\ OpAt(n)
  BY <1>2, <1>3 DEF At, OpAt, ReqOK, Onward, Walking, Owning, Changing, Deleting, Unlinked
<1>5. ReqType(n) /\ Fresh(n) /\ PathInv(n)
  BY <1>2, <1>3, OnwardReserved DEF ReqOK, Early, Active, Walking
<1>6. ReqOK(disk, n) /\ Reserved(n) = {} /\ ~Standing(n)
  BY <1>3, <1>4, <1>5 DEF ReqOK, Reserved, Standing
<1>7. MakerKept(r)
  BY <1>1, <1>2 DEF MakerKept
<1> QED
  BY <1>1, <1>2, <1>3, <1>6, <1>7, QuietFs

(* A request that has come to an inode of the tree and works on it, or     *)
(* looks for the next one.                                                 *)
Arrived(q, n) ==
    /\ n.pc = AfterLock(q) /\ n.curr = q.next
    /\ n.command = q.command /\ n.depth = q.depth /\ n.next = q.next
    /\ n.inode = q.inode /\ n.place = q.place /\ n.entries = q.entries /\ n.dir = q.dir
    /\ n.new = q.new /\ n.grows = q.grows /\ n.tofree = q.tofree /\ n.data = q.data

(* The invariant holds of a request that has arrived. *)
LEMMA ArriveFs ==
    ASSUME LockInv, FsInv, NEW r \in Requests, OnlyMoves(r), Arrived(req[r], req'[r]),
           disk' = disk, free_block_list' = free_block_list,
           req[r].pc \in {"acquire", "release"}, req[r].next \in InodesOf(disk)
    PROVE  FsInv'
<1>1. PICK q, n : q = req[r] /\ n = req'[r]
  OBVIOUS
<1>2. ReqOK(disk, q) /\ Arrived(q, n) /\ disk \in Disks
  BY <1>1 DEF FsInv, Disks
<1>3. n.pc \in {"check", "lookup"} /\ n.curr \in InodesOf(disk) /\ n.curr \in Blocks
  BY <1>1, <1>2, ReachFacts DEF Arrived, AfterLock
<1>4. At(disk, n) /\ OpAt(n)
  BY <1>3 DEF At, OpAt, Walking, Owning, Changing, Deleting, Unlinked
<1>5. Fresh(n)
  BY <1>1, <1>2, <1>3 DEF ReqOK, Fresh, Early, Arrived
<1>6. ReqType(n)
  BY <1>2, <1>3 DEF ReqOK, ReqType, Arrived, Numbers
<1>7. PathInv(n)
  <2>1. q.command \in Commands /\ q.depth \in 0 .. WalkLength(q.command)
    BY <1>1, <1>2 DEF ReqOK, PathInv, Active
  <2>2. WalkLength(q.command) \in Nat
    BY <2>1, CommandFacts
  <2>3. n.command = q.command /\ n.depth = q.depth
    BY <1>2 DEF Arrived
  <2>4. /\ n.pc = "check" => q.depth = WalkLength(q.command)
        /\ n.pc = "lookup" => q.depth # WalkLength(q.command)
    BY <1>2 DEF Arrived, AfterLock, Arrives
  <2>5. q.depth = 0 => n.curr = ROOT_INODE
    BY <1>1, <1>2 DEF ReqOK, PathInv, Arrived, Active, Walking
  <2> QED
    BY <1>3, <2>1, <2>2, <2>3, <2>4, <2>5 DEF PathInv, Walking
<1>8. ReqOK(disk, n) /\ Reserved(n) = {}
  BY <1>3, <1>4, <1>5, <1>6, <1>7 DEF ReqOK, Reserved
<1>9. MakerKept(r)
  BY DEF MakerKept
<1> QED
  BY <1>1, <1>3, <1>8, <1>9, QuietFs

(* The next inode is locked: it is still the child of the one the request  *)
(* holds.                                                                  *)
LEMMA AcquireFs ==
    ASSUME LockInv, FsInv, NEW r \in Requests, Acquire(r)
    PROVE  FsInv'
<1>1. PICK q, n : q = req[r] /\ n = req'[r]
  OBVIOUS
<1>2. /\ q.pc = "acquire" /\ ReqOK(disk, q) /\ disk' = disk /\ free_block_list' = free_block_list
      /\ disk \in Disks
  BY <1>1 DEF Acquire, FsInv, Disks
<1>3. \/ q.curr = UNDEFINED_BLOCK /\ q.next = ROOT_INODE
      \/ q.curr \in InodesOf(disk) /\ HasChild(disk, q.curr, q.next) /\ q.curr # UNDEFINED_BLOCK
  <2>1. InodesOf(disk) \subseteq Blocks /\ UNDEFINED_BLOCK \notin Blocks
    BY <1>2, ReachFacts, BlocksFacts
  <2> QED
    BY <1>2, <2>1 DEF ReqOK, At, Walking
<1>4. CASE q.curr = UNDEFINED_BLOCK
  <2>1. req' = [req EXCEPT ![r].pc = AfterLock(q), ![r].curr = q.next]
    BY <1>1, <1>4 DEF Acquire
  <2>2. OnlyMoves(r) /\ Arrived(q, n)
    <3> DEFINE a == AfterLock(q)
    <3>1. n.pc = a
      BY <1>1, <2>1 DEF LockInv, Shape, NewRequest
    <3> HIDE DEF a
    <3>2. req' = [req EXCEPT ![r].pc = a, ![r].curr = q.next]
      BY <2>1 DEF a
    <3>3. OnlyMoves(r) /\ n.curr = q.next
          /\ n.command = q.command /\ n.depth = q.depth /\ n.next = q.next
          /\ n.inode = q.inode /\ n.place = q.place /\ n.entries = q.entries /\ n.dir = q.dir
          /\ n.new = q.new /\ n.grows = q.grows /\ n.tofree = q.tofree /\ n.data = q.data
      BY <1>1, <3>2 DEF LockInv, Shape, NewRequest, OnlyMoves
    <3> QED
      BY <3>1, <3>3 DEF Arrived, a
  <2>3. q.next \in InodesOf(disk)
    BY <1>2, <1>3, <1>4, ReachFacts DEF ROOT_INODE
  <2> QED
    BY <1>1, <1>2, <2>2, <2>3, ArriveFs
<1>5. CASE q.curr # UNDEFINED_BLOCK
  <2>1. req' = [req EXCEPT ![r].pc = "release", ![r].curr = q.curr]
    BY <1>1, <1>5 DEF Acquire
  <2>2. OnlyMoves(r) /\ n.pc = "release" /\ Onward(q, n)
    BY <1>1, <2>1 DEF LockInv, Shape, NewRequest, OnlyMoves, Onward
  <2>3. At(disk, n) /\ OpAt(n)
    BY <1>3, <1>5, <2>2 DEF At, OpAt, Onward, Walking, Owning, Changing, Deleting, Unlinked
  <2>4. ReqType(n) /\ Fresh(n) /\ PathInv(n)
    BY <1>2, <2>2, OnwardReserved DEF ReqOK, Early, Active, Walking
  <2>5. ReqOK(disk, n) /\ Reserved(n) = {} /\ ~Standing(n)
    BY <2>2, <2>3, <2>4 DEF ReqOK, Reserved, Standing
  <2>6. MakerKept(r)
    BY <1>1, <1>2 DEF MakerKept
  <2> QED
    BY <1>1, <1>2, <2>2, <2>5, <2>6, QuietFs
<1> QED
  BY <1>4, <1>5

(* The previous inode is unlocked, and the request stands on the next. *)
LEMMA ReleaseFs ==
    ASSUME LockInv, FsInv, NEW r \in Requests, Release(r)
    PROVE  FsInv'
<1>1. PICK q, n : q = req[r] /\ n = req'[r]
  OBVIOUS
<1>2. /\ q.pc = "release" /\ ReqOK(disk, q) /\ disk' = disk /\ free_block_list' = free_block_list
      /\ disk \in Disks
  BY <1>1 DEF Release, FsInv, Disks
<1>3. q.curr \in InodesOf(disk) /\ HasChild(disk, q.curr, q.next)
  BY <1>2 DEF ReqOK, At, Walking
<1>4. q.next \in InodesOf(disk)
  BY <1>2, <1>3, ReachFacts
<1>5. OnlyMoves(r) /\ Arrived(q, n)
  <2> DEFINE a == AfterLock(q)
  <2>1. req' = [req EXCEPT ![r].pc = a, ![r].curr = q.next]
    BY <1>1 DEF Release
  <2> HIDE DEF a
  <2>2. OnlyMoves(r) /\ n.curr = q.next /\ n.pc = a
        /\ n.command = q.command /\ n.depth = q.depth /\ n.next = q.next
        /\ n.inode = q.inode /\ n.place = q.place /\ n.entries = q.entries /\ n.dir = q.dir
        /\ n.new = q.new /\ n.grows = q.grows /\ n.tofree = q.tofree /\ n.data = q.data
    BY <1>1, <2>1 DEF LockInv, Shape, NewRequest, OnlyMoves
  <2> QED
    BY <2>2 DEF Arrived, a
<1> QED
  BY <1>1, <1>2, <1>4, <1>5, ArriveFs

(* The first of the places with a name is one. *)
LEMMA FirstLemma ==
    ASSUME NEW T, T \subseteq Nat \X Nat, T # {}
    PROVE  First(T) \in T
<1> DEFINE A == {ij[1] : ij \in T}
<1>1. A \subseteq Nat /\ A # {}
  OBVIOUS
<1>2. PICK i \in A : \A a \in A : i <= a
  BY <1>1, LeastOf
<1> DEFINE B == {ij[2] : ij \in {kl \in T : kl[1] = i}}
<1>3. B \subseteq Nat /\ B # {}
  BY <1>2
<1>4. PICK j \in B : \A a \in B : j <= a
  BY <1>3, LeastOf
<1>5. PICK ij \in T : ij[1] = i /\ ij[2] = j
  BY <1>4
<1>6. ASSUME NEW kl \in T PROVE ij[1] < kl[1] \/ (ij[1] = kl[1] /\ ij[2] <= kl[2])
  <2>1. i <= kl[1] /\ i \in Nat /\ kl[1] \in Nat
    BY <1>1, <1>2
  <2>2. kl[1] = i => j <= kl[2]
    BY <1>4
  <2> QED
    BY <1>5, <2>1, <2>2
<1>7. \E x \in T : \A kl \in T : x[1] < kl[1] \/ (x[1] = kl[1] /\ x[2] <= kl[2])
  BY <1>6
<1> QED
  BY <1>7 DEF First

(* A place of an inode *)
LEMMA PlaceFacts ==
    ASSUME NEW d \in Disks, NEW x \in Blocks, NEW T, T \subseteq Places(Inode(d, x)), T # {}
    PROVE  /\ First(T) \in T /\ First(T)[1] \in DOMAIN Inode(d, x).blocks /\ First(T)[2] \in Slots
           /\ Inode(d, x).blocks[First(T)[1]] \in Owns(d, x)
           /\ EntryAt(d, Inode(d, x), First(T)).inode_block
                = Leads(d, Inode(d, x).blocks[First(T)[1]], First(T)[2])
<1> DEFINE s == Inode(d, x).blocks
<1>1. DOMAIN s = 1 .. Len(s) /\ Len(s) \in Nat
  BY InodeFacts
<1>2. Places(Inode(d, x)) = (DOMAIN s) \X Slots
  BY DEF Places
<1>3. DOMAIN s \subseteq Nat /\ Slots \subseteq Nat
  BY <1>1 DEF Slots
<1>4. T \subseteq Nat \X Nat
  BY <1>2, <1>3
<1>5. First(T) \in T
  BY <1>4, FirstLemma
<1>6. First(T)[1] \in DOMAIN s /\ First(T)[2] \in Slots
  BY <1>2, <1>5
<1>7. s[First(T)[1]] \in Owns(d, x)
  BY <1>6 DEF Owns, ToSet
<1> QED
  BY <1>5, <1>6, <1>7 DEF EntryAt, Leads

(* find_next_inode: what it finds is a child of the directory the request  *)
(* holds.                                                                  *)
LEMMA LookupFs ==
    ASSUME LockInv, FsInv, NEW r \in Requests, find_next_inode(r)
    PROVE  FsInv'
<1>1. PICK q, n : q = req[r] /\ n = req'[r]
  OBVIOUS
<1> DEFINE I == Inode(disk, q.curr)
           places == Named(disk, I, q.command.pathname[q.depth + 1])
<1>2. /\ q.pc = "lookup" /\ ReqOK(disk, q) /\ disk \in Disks /\ TreeOK(disk) /\ Stands(r)
  BY <1>1 DEF find_next_inode, FsInv, Disks
<1>3. CASE Throws(r, "shared")
  BY <1>1, <1>2, <1>3, ThrowFs
<1>4. CASE ~Throws(r, "shared")
  <2> DEFINE child == EntryAt(disk, I, First(places)).inode_block
  <2>1. /\ MayPass(q, I) /\ places # {}
        /\ req' = [req EXCEPT ![r].pc = "register", ![r].depth = q.depth + 1, ![r].next = child]
        /\ disk' = disk /\ free_block_list' = free_block_list
    BY <1>1, <1>4 DEF find_next_inode
  <2>2. q.curr \in Blocks
    BY <1>1, <1>2 DEF Stands, Standing
  <2>3. IsDir(disk, q.curr)
    BY <2>1 DEF MayPass, IsDir
  <2>4. places \subseteq Places(Inode(disk, q.curr))
    BY DEF Named
  <2>5. \A ij \in places : EntryAt(disk, I, ij).inode_block # 0
    BY DEF Named
  <2> HIDE DEF places
  <2>6. /\ First(places) \in places /\ First(places)[2] \in Slots
        /\ I.blocks[First(places)[1]] \in Owns(disk, q.curr)
        /\ child = Leads(disk, I.blocks[First(places)[1]], First(places)[2])
    BY <1>2, <2>1, <2>2, <2>4, PlaceFacts
  <2>7. child # 0
    BY <2>5, <2>6
  <2> HIDE DEF child, I
  <2>8. HasChild(disk, q.curr, child)
    BY <2>3, <2>6, <2>7 DEF HasChild
  <2>9. q.curr \in InodesOf(disk)
    <3> SUFFICES ASSUME q.curr \notin InodesOf(disk) PROVE FALSE
      OBVIOUS
    <3>1. PICK s \in Requests : req[s].pc \in {"free_dir", "upgrade_child"} /\ req[s].next = q.curr
      BY <1>1, <1>2 DEF Stands, Standing, Orphan
    <3>2. VictimAt(disk, req[s])
      BY <3>1 DEF FsInv, ReqOK, At, Unlinked
    <3>3. Owns(disk, q.curr) = {}
      BY <2>3, <3>1, <3>2 DEF VictimAt
    <3> QED
      BY <2>6, <3>3
  <2>10. child \in Blocks
    BY <1>2, <2>2, <2>8, ChildInBlocks
  <2>11. /\ OnlyMoves(r) /\ n.pc = "register" /\ n.depth = q.depth + 1 /\ n.next = child
         /\ n.command = q.command /\ n.curr = q.curr
         /\ n.inode = q.inode /\ n.place = q.place /\ n.entries = q.entries /\ n.dir = q.dir
         /\ n.new = q.new /\ n.grows = q.grows /\ n.tofree = q.tofree /\ n.data = q.data
    BY <1>1, <2>1 DEF LockInv, Shape, NewRequest, OnlyMoves
  <2>12. At(disk, n) /\ OpAt(n)
    BY <2>8, <2>9, <2>11 DEF At, OpAt, Walking, Owning, Changing, Deleting, Unlinked
  <2>13. Fresh(n)
    BY <1>2, <2>11 DEF ReqOK, Fresh, Early
  <2>14. PathInv(n) /\ n.depth \in 0 .. MaxDepth
    <3>1. q.command \in Commands /\ q.depth \in 0 .. WalkLength(q.command) /\ q.depth < WalkLength(q.command)
      BY <1>2 DEF ReqOK, PathInv, Active
    <3>2. WalkLength(q.command) \in Nat /\ WalkLength(q.command) \in 0 .. MaxDepth /\ MaxDepth \in Nat
      BY <3>1, CommandFacts, FileSystemAssumption
    <3>3. q.depth + 1 \in 0 .. WalkLength(q.command) /\ q.depth + 1 \in 0 .. MaxDepth
      BY <3>1, <3>2
    <3> QED
      BY <2>11, <3>1, <3>3 DEF PathInv, Walking
  <2>15. ReqType(n)
    BY <1>2, <2>10, <2>11, <2>14 DEF ReqOK, ReqType, Numbers
  <2>16. ReqOK(disk, n) /\ Reserved(n) = {} /\ ~Standing(n)
    BY <2>11, <2>12, <2>13, <2>14, <2>15 DEF ReqOK, Reserved, Standing
  <2>17. MakerKept(r)
    BY <1>1, <1>2 DEF MakerKept
  <2> QED
    BY <1>1, <2>1, <2>11, <2>16, <2>17, QuietFs
<1> QED
  BY <1>3, <1>4

(* handle_read answers or throws. *)
LEMMA ReadFs ==
    ASSUME LockInv, FsInv, NEW r \in Requests, ReadBlock(r)
    PROVE  FsInv'
<1>1. PICK q : q = req[r]
  OBVIOUS
<1> DEFINE I == Inode(disk, q.curr)
           data == DataIn(disk, I.blocks[q.command.block + 1])
<1>2. /\ q.pc = "check" /\ q.command.op = "read" /\ ReqOK(disk, q) /\ disk \in Disks /\ Stands(r)
  BY <1>1 DEF ReadBlock, FsInv, Disks
<1>3. CASE Throws(r, "shared")
  BY <1>1, <1>2, <1>3, ThrowFs
<1>4. CASE ~Throws(r, "shared")
  <2>1. Readable(I, q.command) /\ Ends(r, "done", data) /\ disk' = disk /\ free_block_list' = free_block_list
    BY <1>1, <1>4 DEF ReadBlock
  <2>2. q.curr \in Blocks
    BY <1>1, <1>2 DEF Stands, Standing
  <2>3. q.command.block \in Nat
    <3>1. q.command \in Commands
      BY <1>2 DEF ReqOK, PathInv, Active
    <3> QED
      BY <1>2, <3>1, CommandFacts
  <2>4. I.blocks[q.command.block + 1] \in Blocks
    <3>1. I.blocks \in Seq(Blocks) /\ Len(I.blocks) \in Nat
      BY <1>2, <2>2, InodeFacts
    <3>2. q.command.block < Len(I.blocks)
      BY <2>1 DEF Readable
    <3> QED
      BY <2>3, <3>1, <3>2
  <2>5. data \in Data \cup {NoData}
    <3> DEFINE b == I.blocks[q.command.block + 1]
    <3>1. b \in Blocks
      BY <2>4
    <3> HIDE DEF b
    <3>2. disk[b] \in Contents
      BY <1>2, <3>1 DEF Disks
    <3>3. DataIn(disk, b) \in Data \cup {NoData}
      BY <3>2, ContentKinds DEF DataIn
    <3> QED
      BY <3>3 DEF b
  <2> HIDE DEF data
  <2> QED
    BY <1>1, <1>2, <2>1, <2>5, EndFs
<1> QED
  BY <1>3, <1>4

-----------------------------------------------------------------------------
(* The checks of handle_write, handle_create and handle_delete.            *)

(* A request at the check of the inode it has come to *)
LEMMA AtCheck ==
    ASSUME FsInv, NEW r \in Requests, req[r].pc = "check", req[r].command.op # "read"
    PROVE  /\ disk \in Disks /\ TreeOK(disk) /\ ReqOK(disk, req[r])
           /\ req[r].curr \in InodesOf(disk) /\ req[r].curr \in Blocks
           /\ Inode(disk, req[r].curr) = disk[req[r].curr] /\ disk[req[r].curr] \in Contents
           /\ req[r].new = UNDEFINED_BLOCK /\ req[r].grows = FALSE
           /\ req[r].command \in Commands /\ req[r].depth \in 0 .. WalkLength(req[r].command)
           /\ WalkLength(req[r].command) = 0 => disk[req[r].curr].type = "d"
<1>1. disk \in Disks /\ TreeOK(disk) /\ ReqOK(disk, req[r])
  BY DEF FsInv, Disks
<1>2. req[r].curr \in InodesOf(disk)
  BY <1>1 DEF ReqOK, At
<1>3. /\ req[r].curr \in Blocks
      /\ Inode(disk, req[r].curr) = disk[req[r].curr] /\ disk[req[r].curr] \in Contents
      /\ IsDir(disk, req[r].curr) <=> disk[req[r].curr].type = "d"
  BY <1>1, <1>2, TreeInode
<1>4. req[r].new = UNDEFINED_BLOCK /\ req[r].grows = FALSE
  BY <1>1 DEF ReqOK, Fresh, Early
<1>5. /\ req[r].command \in Commands /\ req[r].depth \in 0 .. WalkLength(req[r].command)
      /\ req[r].depth = WalkLength(req[r].command)
      /\ req[r].depth = 0 => req[r].curr = ROOT_INODE
  BY <1>1 DEF ReqOK, PathInv, Active
<1>6. WalkLength(req[r].command) = 0 => disk[req[r].curr].type = "d"
  BY <1>1, <1>3, <1>5 DEF TreeOK
<1> QED
  BY <1>1, <1>2, <1>3, <1>4, <1>5, <1>6

(* handle_write has found the file writable. *)
LEMMA CheckWriteFs ==
    ASSUME LockInv, FsInv, NEW r \in Requests, CheckWrite(r)
    PROVE  FsInv'
<1>1. PICK q, n : q = req[r] /\ n = req'[r]
  OBVIOUS
<1> DEFINE I == Inode(disk, q.curr)
           grows == (q.command.block = Len(I.blocks))
           pc == IF grows THEN "alloc" ELSE "upgrade"
<1>0. q.pc = "check" /\ q.command.op = "write"
  BY <1>1 DEF CheckWrite
<1>2. /\ disk \in Disks /\ TreeOK(disk) /\ ReqOK(disk, q)
      /\ q.curr \in InodesOf(disk) /\ q.curr \in Blocks /\ I = disk[q.curr] /\ I \in Contents
      /\ q.new = UNDEFINED_BLOCK /\ q.command \in Commands /\ q.depth \in 0 .. WalkLength(q.command)
  BY <1>0, <1>1, AtCheck
<1>3. CASE Throws(r, "upgrade")
  BY <1>0, <1>1, <1>3, ThrowFs
<1>4. CASE ~Throws(r, "upgrade")
  <2>1. /\ Writable(I, q.command)
        /\ req' = [req EXCEPT ![r].pc = pc, ![r].inode = I, ![r].grows = grows]
        /\ disk' = disk /\ free_block_list' = free_block_list
    BY <1>1, <1>4 DEF CheckWrite
  <2>2. grows \in BOOLEAN /\ pc \in {"alloc", "upgrade"} /\ (grows <=> q.command.block = Len(I.blocks))
        /\ (grows <=> pc = "alloc") /\ I.type = "f" /\ q.command.block <= Len(I.blocks)
    BY <2>1 DEF Writable
  <2> HIDE DEF pc, grows, I
  <2>3. /\ OnlyMoves(r) /\ n.pc = pc /\ n.inode = I /\ n.grows = grows
        /\ n.command = q.command /\ n.depth = q.depth /\ n.curr = q.curr /\ n.next = q.next
        /\ n.place = q.place /\ n.entries = q.entries /\ n.dir = q.dir
        /\ n.new = q.new /\ n.tofree = q.tofree /\ n.data = q.data
    BY <1>1, <2>1 DEF LockInv, Shape, NewRequest, OnlyMoves
  <2>4. WriteAt(disk, n)
    BY <1>2, <2>2, <2>3 DEF WriteAt
  <2>5. At(disk, n)
    BY <1>0, <1>2, <2>2, <2>3, <2>4 DEF At, Walking, Owning, Changing, Deleting, Unlinked
  <2>6. OpAt(n) /\ Fresh(n) /\ PathInv(n)
    BY <1>0, <1>2, <2>2, <2>3 DEF OpAt, Fresh, Early, PathInv, Walking
  <2>7. ReqType(n)
    BY <1>2, <2>2, <2>3 DEF ReqOK, ReqType
  <2>8. ReqOK(disk, n) /\ Reserved(n) \subseteq {UNDEFINED_BLOCK} /\ ~Standing(n)
    BY <1>0, <1>2, <2>2, <2>3, <2>5, <2>6, <2>7 DEF ReqOK, Reserved, Standing
  <2>9. MakerKept(r)
    BY <1>0, <1>1 DEF MakerKept
  <2> QED
    BY <1>1, <2>1, <2>3, <2>8, <2>9, QuietFs
<1> QED
  BY <1>3, <1>4

(* No entry with a name, as a loop over the places finds it *)
LEMMA NameAbsent ==
    ASSUME NEW d \in Disks, NEW x \in Blocks, NEW name, Named(d, Inode(d, x), name) = {}
    PROVE  \A b \in Owns(d, x), k \in Slots : Leads(d, b, k) # 0 => Entries(d, b)[k].name # name
<1> DEFINE s == Inode(d, x).blocks
<1> SUFFICES ASSUME NEW b \in Owns(d, x), NEW k \in Slots, Leads(d, b, k) # 0, Entries(d, b)[k].name = name
             PROVE  FALSE
  OBVIOUS
<1>1. PICK i \in DOMAIN s : b = s[i]
  BY DEF Owns, ToSet
<1>2. <<i, k>> \in Places(Inode(d, x)) /\ EntryAt(d, Inode(d, x), <<i, k>>) = Entries(d, b)[k]
  BY <1>1 DEF Places, EntryAt
<1>3. <<i, k>> \in Named(d, Inode(d, x), name)
  BY <1>2 DEF Named, Leads
<1> QED
  BY <1>3

(* Direntries read from the disk can be written to it. *)
LEMMA EntriesContent ==
    ASSUME NEW es \in [Slots -> Entry]
    PROVE  DirBlock(es) \in Contents
BY DEF Contents, Entry

(* handle_create has found no such name and a place for it, or none in use. *)
LEMMA CheckCreateFs ==
    ASSUME LockInv, FsInv, NEW r \in Requests, CheckCreate(r)
    PROVE  FsInv'
<1>1. PICK q, n : q = req[r] /\ n = req'[r]
  OBVIOUS
<1> DEFINE I == Inode(disk, q.curr)
           unused == {ij \in Places(I) : EntryAt(disk, I, ij).inode_block = 0}
           ij == First(unused)
           b == I.blocks[ij[1]]
           name == TargetName(q.command)
<1>0. q.pc = "check" /\ q.command.op = "create"
  BY Zenon, <1>1 DEF CheckCreate
<1>2. /\ disk \in Disks /\ TreeOK(disk) /\ ReqOK(disk, q)
      /\ q.curr \in InodesOf(disk) /\ q.curr \in Blocks /\ I = disk[q.curr] /\ I \in Contents
      /\ q.new = UNDEFINED_BLOCK /\ q.grows = FALSE
      /\ q.command \in Commands /\ q.depth \in 0 .. WalkLength(q.command)
      /\ WalkLength(q.command) = 0 => I.type = "d"
  BY <1>0, <1>1, AtCheck
<1>3. CASE Throws(r, "upgrade")
  BY <1>0, <1>1, <1>3, ThrowFs
<1>4. ASSUME ValidParent(q, I), ~Exists(I, name)
      PROVE  /\ I.type = "d"
             /\ \A c \in ToSet(I.blocks), k \in Slots : Leads(disk, c, k) # 0 => Entries(disk, c)[k].name # name
  <2>1. I.type = "d"
    BY <1>2, <1>4 DEF ValidParent
  <2>2. Named(disk, I, name) = {}
    BY <1>4 DEF Exists
  <2>3. \A c \in Owns(disk, q.curr), k \in Slots : Leads(disk, c, k) # 0 => Entries(disk, c)[k].name # name
    BY <1>2, <2>2, NameAbsent
  <2> QED
    BY <2>1, <2>3 DEF Owns
<1>5. CASE ~Throws(r, "upgrade") /\ unused # {}
  <2>1. /\ ValidParent(q, I) /\ ~Exists(I, name)
        /\ req' = [req EXCEPT ![r].pc = "alloc", ![r].inode = I, ![r].dir = b,
                              ![r].place = ij, ![r].entries = Entries(disk, b)]
        /\ disk' = disk /\ free_block_list' = free_block_list
    BY Zenon, <1>1, <1>5 DEF CheckCreate
  <2>2. \A x \in unused : EntryAt(disk, I, x).inode_block = 0
    OBVIOUS
  <2>3. unused \subseteq Places(Inode(disk, q.curr)) /\ unused # {}
    BY <1>5
  <2>4. /\ I.type = "d"
        /\ \A c \in ToSet(I.blocks), k \in Slots : Leads(disk, c, k) # 0 => Entries(disk, c)[k].name # name
    BY Zenon, <1>4, <2>1
  <2> HIDE DEF unused
  <2>5. /\ ij \in unused /\ ij[2] \in Slots /\ b \in Owns(disk, q.curr)
        /\ EntryAt(disk, I, ij).inode_block = Leads(disk, b, ij[2])
    BY <1>2, <2>3, PlaceFacts
  <2>6. Leads(disk, b, ij[2]) = 0 /\ b \in ToSet(I.blocks)
    BY <2>2, <2>5 DEF Owns
  <2>7. b \in Blocks
    BY <1>2, <2>5, InodeFacts
  <2> HIDE DEF ij, b, I, name
  <2>8. Entries(disk, b) \in [Slots -> Entry]
    BY <1>2, <2>7, InodeFacts
  <2>9. /\ OnlyMoves(r) /\ n.pc = "alloc" /\ n.inode = I /\ n.dir = b /\ n.place = ij
        /\ n.entries = Entries(disk, b) /\ n.grows = q.grows
        /\ n.command = q.command /\ n.depth = q.depth /\ n.curr = q.curr /\ n.next = q.next
        /\ n.new = q.new /\ n.tofree = q.tofree /\ n.data = q.data
    BY <1>1, <2>1 DEF LockInv, Shape, NewRequest, OnlyMoves
  <2>10. CreateAt(disk, n)
    BY <1>2, <2>4, <2>5, <2>6, <2>9 DEF CreateAt, name
  <2>11. At(disk, n)
    BY <1>0, <1>2, <2>9, <2>10 DEF At, Walking, Owning, Changing, Deleting, Unlinked
  <2>12. OpAt(n) /\ Fresh(n) /\ PathInv(n)
    BY <1>0, <1>2, <2>9 DEF OpAt, Fresh, Early, PathInv, Walking
  <2>13. ReqType(n)
    <3>1. DirBlock(n.entries) \in Contents
      BY <2>8, <2>9, EntriesContent
    <3> QED
      BY <1>2, <2>7, <2>9, <3>1 DEF ReqOK, ReqType, Numbers
  <2>14. ReqOK(disk, n) /\ Reserved(n) = {} /\ ~Standing(n)
    BY <2>9, <2>11, <2>12, <2>13 DEF ReqOK, Reserved, Standing
  <2>15. MakerKept(r)
    BY <1>0, <1>1 DEF MakerKept
  <2> QED
    BY Zenon, <1>1, <2>1, <2>9, <2>14, <2>15, QuietFs
<1>6. CASE ~Throws(r, "upgrade") /\ unused = {}
  <2>1. /\ ValidParent(q, I) /\ ~Exists(I, name)
        /\ req' = [req EXCEPT ![r].pc = "alloc", ![r].inode = I, ![r].grows = TRUE,
                              ![r].place = <<0, 1>>, ![r].entries = NoEntries]
        /\ disk' = disk /\ free_block_list' = free_block_list
    BY Zenon, <1>1, <1>6 DEF CheckCreate
  <2>2. /\ I.type = "d"
        /\ \A c \in ToSet(I.blocks), k \in Slots : Leads(disk, c, k) # 0 => Entries(disk, c)[k].name # name
    BY <1>4, <2>1
  <2> HIDE DEF I, name
  <2>3. /\ OnlyMoves(r) /\ n.pc = "alloc" /\ n.inode = I /\ n.dir = q.dir /\ n.place = <<0, 1>>
        /\ n.entries = NoEntries /\ n.grows = TRUE
        /\ n.command = q.command /\ n.depth = q.depth /\ n.curr = q.curr /\ n.next = q.next
        /\ n.new = q.new /\ n.tofree = q.tofree /\ n.data = q.data
    BY <1>1, <2>1 DEF LockInv, Shape, NewRequest, OnlyMoves
  <2>4. n.place[2] \in Slots
    BY <2>3, FileSystemAssumption DEF Slots
  <2>5. CreateAt(disk, n)
    BY <1>2, <2>2, <2>3, <2>4 DEF CreateAt, name
  <2>6. At(disk, n)
    BY <1>0, <1>2, <2>3, <2>5 DEF At, Walking, Owning, Changing, Deleting, Unlinked
  <2>7. OpAt(n) /\ Fresh(n) /\ PathInv(n)
    BY <1>0, <1>2, <2>3 DEF OpAt, Fresh, Early, PathInv, Walking
  <2>8. ReqType(n)
    <3>1. NoEntries \in [Slots -> Entry]
      BY BlocksFacts DEF NoEntries, Unused, Entry
    <3>2. DirBlock(n.entries) \in Contents
      BY <2>3, <3>1, EntriesContent
    <3> QED
      BY <1>2, <2>3, <3>2 DEF ReqOK, ReqType, Numbers
  <2>9. ReqOK(disk, n) /\ Reserved(n) = {} /\ ~Standing(n)
    BY <2>3, <2>6, <2>7, <2>8 DEF ReqOK, Reserved, Standing
  <2>10. MakerKept(r)
    BY <1>0, <1>1 DEF MakerKept
  <2> QED
    BY Zenon, <1>1, <2>1, <2>3, <2>9, <2>10, QuietFs
<1> QED
  BY <1>3, <1>5, <1>6

(* handle_delete has found the direntry of the child. *)
LEMMA CheckDeleteFs ==
    ASSUME LockInv, FsInv, NEW r \in Requests, CheckDelete(r)
    PROVE  FsInv'
<1>1. PICK q, n : q = req[r] /\ n = req'[r]
  OBVIOUS
<1> DEFINE I == Inode(disk, q.curr)
           places == Named(disk, I, TargetName(q.command))
           ij == First(places)
           b == I.blocks[ij[1]]
           child == EntryAt(disk, I, ij).inode_block
<1>0. q.pc = "check" /\ q.command.op = "delete"
  BY <1>1 DEF CheckDelete
<1>2. /\ disk \in Disks /\ TreeOK(disk) /\ ReqOK(disk, q)
      /\ q.curr \in InodesOf(disk) /\ q.curr \in Blocks /\ I = disk[q.curr] /\ I \in Contents
      /\ q.new = UNDEFINED_BLOCK /\ q.grows = FALSE
      /\ q.command \in Commands /\ q.depth \in 0 .. WalkLength(q.command)
      /\ WalkLength(q.command) = 0 => I.type = "d"
  BY <1>0, <1>1, AtCheck
<1>3. CASE Throws(r, "upgrade")
  BY <1>0, <1>1, <1>3, ThrowFs
<1>4. CASE ~Throws(r, "upgrade")
  <2>1. /\ ValidParent(q, I) /\ places # {}
        /\ req' = [req EXCEPT ![r].pc = "upgrade", ![r].inode = I, ![r].next = child,
                              ![r].dir = b, ![r].place = ij, ![r].entries = Entries(disk, b)]
        /\ disk' = disk /\ free_block_list' = free_block_list
    BY Zenon, <1>1, <1>4 DEF CheckDelete
  <2>2. \A x \in places : EntryAt(disk, I, x).inode_block # 0
    BY DEF Named
  <2>3. places \subseteq Places(Inode(disk, q.curr)) /\ places # {}
    BY Zenon, <2>1 DEF Named
  <2>4. I.type = "d"
    BY <1>2, <2>1 DEF ValidParent
  <2> HIDE DEF places
  <2>5. /\ ij \in places /\ ij[1] \in DOMAIN I.blocks /\ ij[2] \in Slots /\ b \in Owns(disk, q.curr)
        /\ child = Leads(disk, b, ij[2])
    BY <1>2, <2>3, PlaceFacts
  <2>6. child # 0 /\ Leads(disk, b, ij[2]) = child /\ b \in ToSet(I.blocks)
    BY <2>2, <2>5 DEF Owns
  <2>7. b \in Blocks
    BY <1>2, <2>5, InodeFacts
  <2>8. b = I.blocks[ij[1]]
    OBVIOUS
  <2> HIDE DEF ij, b, I, child
  <2>9. Entries(disk, b) \in [Slots -> Entry] /\ child \in Blocks
    BY <1>2, <2>5, <2>6, <2>7, InodeFacts
  <2>10. /\ OnlyMoves(r) /\ n.pc = "upgrade" /\ n.inode = I /\ n.dir = b /\ n.place = ij
         /\ n.entries = Entries(disk, b) /\ n.grows = q.grows /\ n.next = child
         /\ n.command = q.command /\ n.depth = q.depth /\ n.curr = q.curr
         /\ n.new = q.new /\ n.tofree = q.tofree /\ n.data = q.data
    BY <1>1, <2>1 DEF LockInv, Shape, NewRequest, OnlyMoves
  <2>11. DeleteAt(disk, n)
    BY <1>2, <2>4, <2>5, <2>6, <2>8, <2>10 DEF DeleteAt
  <2>12. At(disk, n)
    BY <1>0, <1>2, <2>10, <2>11 DEF At, Walking, Owning, Changing, Deleting, Unlinked
  <2>13. OpAt(n) /\ Fresh(n) /\ PathInv(n)
    BY <1>0, <1>2, <2>10 DEF OpAt, Fresh, Early, PathInv, Walking
  <2>14. ReqType(n)
    <3>1. DirBlock(n.entries) \in Contents
      BY <2>9, <2>10, EntriesContent
    <3> QED
      BY <1>2, <2>7, <2>9, <2>10, <3>1 DEF ReqOK, ReqType, Numbers
  <2>15. ReqOK(disk, n) /\ Reserved(n) \subseteq {UNDEFINED_BLOCK} /\ ~Standing(n)
    BY <1>0, <1>2, <2>10, <2>12, <2>13, <2>14 DEF ReqOK, Reserved, Standing
  <2>16. MakerKept(r)
    BY <1>0, <1>1 DEF MakerKept
  <2> QED
    BY Zenon, <1>1, <2>1, <2>10, <2>15, <2>16, QuietFs
<1> QED
  BY <1>3, <1>4

-----------------------------------------------------------------------------
(* Taking blocks off the free list and giving them back.                   *)

(* A step that does not change the disk *)
LEMMA StillFs ==
    ASSUME FsInv, NEW r \in Requests, OnlyMoves(r), disk' = disk, FreeMoves(r),
           ReqOK(disk, req'[r]), MakerKept(r), ~Standing(req'[r])
    PROVE  FsInv'
<1>0. disk' \in Disks /\ TreeOK(disk')
  BY DEF FsInv, Disks
<1>1. \A s \in Requests \ {r} : Spares(disk, disk', req[s])
  BY SameDisk
<1>2. \A s \in Requests \ {r} : Stands(s)'
  BY StandsKept
<1>3. Stands(r)'
  BY DEF Stands
<1>4. \A s \in Requests : Stands(s)'
  BY <1>2, <1>3
<1> QED
  BY <1>0, <1>1, <1>4, FsStep

(* ... and takes a block off the free list, *)
LEMMA TakeMoves ==
    ASSUME FsInv, NEW r \in Requests, disk' = disk, free_block_list # <<>>,
           free_block_list' = Tail(free_block_list),
           Taken(r)' \subseteq Taken(r) \cup {Head(free_block_list)}
    PROVE  FreeMoves(r)
<1>1. PICK h, t, L : h = Head(free_block_list) /\ t = Tail(free_block_list) /\ L = free_block_list
  OBVIOUS
<1>2. FreeInv /\ L \in Seq(Blocks) /\ L # <<>>
  BY <1>1 DEF FsInv
<1>3. IsInjective(L)
  BY <1>1, <1>2 DEF FreeInv
<1>4. /\ h \in Blocks /\ t \in Seq(Blocks) /\ ToSet(L) = {h} \cup ToSet(t)
      /\ h \notin ToSet(t) /\ IsInjective(t)
  BY <1>1, <1>2, <1>3, HeadTailLemma
<1>5. PICK U, T, S : U = Used(disk) /\ T = Taken(r) /\ S = ToSet(t)
  OBVIOUS
<1>6. ({h} \cup S) \cap U = {} /\ T \cap ({h} \cup S \cup U) = {}
  BY <1>1, <1>2, <1>4, <1>5 DEF FreeInv
<1>7. PICK T1 : T1 = Taken(r)'
  OBVIOUS
<1>8. T1 \subseteq T \cup {h}
  BY <1>1, <1>5, <1>7
<1>9. S \cap U = {} /\ T1 \cap (S \cup U) = {} /\ S \cup U \cup T1 \subseteq {h} \cup S \cup U \cup T
  BY <1>4, <1>5, <1>6, <1>8
<1> QED
  BY <1>1, <1>4, <1>5, <1>7, <1>9 DEF FreeMoves

(* ... or gives one back. *)
LEMMA GiveMoves ==
    ASSUME FsInv, NEW r \in Requests, disk' = disk, NEW b \in Blocks, b \in Taken(r),
           free_block_list' = Append(free_block_list, b), Taken(r)' \subseteq Taken(r) \ {b}
    PROVE  FreeMoves(r)
<1>1. PICK L, U, T, S, T1, L1 : /\ L = free_block_list /\ U = Used(disk) /\ T = Taken(r)
                                /\ S = ToSet(free_block_list) /\ T1 = Taken(r)' /\ L1 = free_block_list'
  OBVIOUS
<1>2. FreeInv /\ L \in Seq(Blocks)
  BY <1>1 DEF FsInv
<1>3. IsInjective(L) /\ S \cap U = {} /\ T \cap (S \cup U) = {}
  BY <1>1, <1>2 DEF FreeInv
<1>4. b \notin S /\ b \notin U /\ b \in T /\ T1 \subseteq T \ {b}
  BY <1>1, <1>3
<1>5. L1 \in Seq(Blocks) /\ ToSet(L1) = S \cup {b} /\ IsInjective(L1)
  BY <1>1, <1>2, <1>3, <1>4, AppendLemma
<1>6. /\ (S \cup {b}) \cap U = {} /\ T1 \cap (S \cup {b} \cup U) = {}
      /\ S \cup {b} \cup U \cup T1 \subseteq S \cup U \cup T
  BY <1>3, <1>4
<1> QED
  BY <1>1, <1>5, <1>6 DEF FreeMoves

(* The first free block *)
LEMMA FirstFree ==
    ASSUME FsInv, free_block_list # <<>>
    PROVE  /\ Head(free_block_list) \in Blocks /\ Head(free_block_list) \notin Used(disk)
           /\ \A r \in Requests : Head(free_block_list) \notin Taken(r)
<1>1. FreeInv /\ free_block_list \in Seq(Blocks)
  BY DEF FsInv
<1>2. Head(free_block_list) \in Blocks /\ Head(free_block_list) \in ToSet(free_block_list)
  BY <1>1, HeadTailLemma
<1> QED
  BY <1>1, <1>2 DEF FreeInv

(* An inode with room for one more block *)
LEMMA GrownType ==
    ASSUME NEW d \in Disks, TreeOK(d), NEW p \in InodesOf(d), NEW n \in Blocks, n \notin Used(d),
           Len(d[p].blocks) # FS_MAXFILEBLOCKS
    PROVE  Grown(d[p], n) \in Contents /\ Len(d[p].blocks) < FS_MAXFILEBLOCKS
<1>1. PICK v, k, m : v = Grown(d[p], n) /\ k = Len(d[p].blocks) /\ m = FS_MAXFILEBLOCKS
  OBVIOUS
<1>2. /\ d[p] \in Contents /\ d[p].kind = "inode" /\ d[p].type \in {"f", "d"}
      /\ d[p].blocks \in Seq(Blocks) /\ k <= m
  BY <1>1, TreeInode
<1>3. k \in Nat /\ m \in Nat /\ k < m
  BY <1>1, <1>2, FileSystemAssumption
<1>4. /\ v.kind = "inode" /\ v.type = d[p].type /\ v.owner = d[p].owner /\ v.blocks \in Seq(Blocks)
      /\ v.blocks = Append(d[p].blocks, n)
  BY <1>1, GrownFacts
<1>5. d[p].owner \in Users \cup {NoUser} /\ d[p] = InodeBlock(d[p].type, d[p].owner, d[p].blocks)
  BY <1>2, ContentKinds
<1>6. Len(v.blocks) = k + 1
  BY <1>1, <1>2, <1>4
<1>7. Len(v.blocks) <= m
  BY <1>3, <1>6
<1>8. v = InodeBlock(v.type, v.owner, v.blocks)
  <2>1. PICK J, t, o, u : J = d[p] /\ t = d[p].type /\ o = d[p].owner /\ u = d[p].blocks
    OBVIOUS
  <2>2. J = [kind |-> "inode", type |-> t, owner |-> o, blocks |-> u]
    BY <1>5, <2>1 DEF InodeBlock
  <2>3. v = [kind |-> "inode", type |-> t, owner |-> o, blocks |-> Append(u, n)]
    <3>1. v = Grown(J, n)
      BY <1>1, <2>1
    <3>2. PICK a : a = Append(u, n)
      OBVIOUS
    <3>3. v = [J EXCEPT !.blocks = a]
      BY <2>2, <3>1, <3>2 DEF Grown
    <3> QED
      BY <2>2, <3>2, <3>3
  <2> QED
    BY <1>4, <2>1, <2>3 DEF InodeBlock
<1>9. v.blocks \in BoundedSeq(Blocks, FS_MAXFILEBLOCKS)
  <2>1. Len(v.blocks) \in 0 .. FS_MAXFILEBLOCKS
    BY <1>1, <1>3, <1>6, <1>7
  <2>2. PICK u : u = v.blocks
    OBVIOUS
  <2>4. u \in Seq(Blocks)
    BY <1>4, <2>2
  <2>3. u \in [1 .. Len(u) -> Blocks]
    BY <2>4
  <2> QED
    BY <2>1, <2>2, <2>3 DEF BoundedSeq, SeqOf
<1>10. v.type \in {"f", "d"} /\ v.owner \in Users \cup {NoUser}
  BY <1>2, <1>4, <1>5
<1>11. v \in Contents
  BY <1>8, <1>9, <1>10 DEF Contents
<1> QED
  BY <1>1, <1>3, <1>11

(* Facts of a request that works on its inode *)
LEMMA AtWork ==
    ASSUME FsInv, NEW r \in Requests, req[r].pc \in Owning
    PROVE  /\ disk \in Disks /\ TreeOK(disk) /\ ReqOK(disk, req[r])
           /\ req[r].curr \in InodesOf(disk) /\ req[r].curr \in Blocks
           /\ disk[req[r].curr] \in Contents
           /\ req[r].pc \in Changing /\ req[r].command.op = "write" => WriteAt(disk, req[r])
           /\ req[r].pc \in Changing /\ req[r].command.op = "create" => CreateAt(disk, req[r])
           /\ req[r].pc \in Deleting /\ req[r].command.op = "delete" => DeleteAt(disk, req[r])
           /\ req[r].command \in Commands /\ req[r].depth \in 0 .. WalkLength(req[r].command)
<1>1. disk \in Disks /\ TreeOK(disk) /\ ReqOK(disk, req[r])
  BY DEF FsInv, Disks
<1>2. req[r].curr \in InodesOf(disk)
  BY <1>1 DEF ReqOK, At
<1>3. req[r].curr \in Blocks /\ disk[req[r].curr] \in Contents
  BY <1>1, <1>2, TreeInode
<1>4. req[r].command \in Commands /\ req[r].depth \in 0 .. WalkLength(req[r].command)
  BY <1>1 DEF ReqOK, PathInv, Active, Owning
<1> QED
  BY <1>1, <1>2, <1>3, <1>4 DEF ReqOK, At

(* handle_write takes a block for the data. *)
LEMMA AllocDataFs ==
    ASSUME LockInv, FsInv, NEW r \in Requests, AllocData(r)
    PROVE  FsInv'
<1>1. PICK q, n, h : q = req[r] /\ n = req'[r] /\ h = Head(free_block_list)
  OBVIOUS
<1>0. q.pc = "alloc" /\ q.command.op = "write"
  BY <1>1 DEF AllocData
<1>2. /\ disk \in Disks /\ TreeOK(disk) /\ ReqOK(disk, q) /\ q.curr \in InodesOf(disk)
      /\ WriteAt(disk, q) /\ q.command \in Commands /\ q.depth \in 0 .. WalkLength(q.command)
  BY <1>0, <1>1, AtWork DEF Owning, Changing
<1>3. CASE Throws(r, "upgrade")
  BY <1>0, <1>1, <1>3, ThrowFs
<1>4. CASE ~Throws(r, "upgrade")
  <2>1. /\ ~NoSpace(q.inode) /\ free_block_list' = Tail(free_block_list)
        /\ req' = [req EXCEPT ![r].pc = "write_new", ![r].new = h, ![r].inode.blocks = Append(@, h)]
        /\ disk' = disk
    BY <1>1, <1>4 DEF AllocData, Popped
  <2>2. free_block_list # <<>> /\ Len(q.inode.blocks) # FS_MAXFILEBLOCKS
    BY <2>1 DEF NoSpace
  <2>3. h \in Blocks /\ h \notin Used(disk)
    BY <1>1, <2>2, FirstFree
  <2>4. q.inode = disk[q.curr] /\ q.grows /\ disk[q.curr].type = "f"
        /\ q.command.block <= Len(disk[q.curr].blocks) /\ q.command.block = Len(disk[q.curr].blocks)
    BY <1>0, <1>2 DEF WriteAt
  <2>5. Grown(disk[q.curr], h) \in Contents /\ Len(disk[q.curr].blocks) < FS_MAXFILEBLOCKS
    BY <1>2, <2>2, <2>3, <2>4, GrownType
  <2>6. /\ OnlyMoves(r) /\ n.pc = "write_new" /\ n.new = h
        /\ n.inode = Grown(q.inode, h)
        /\ n.command = q.command /\ n.depth = q.depth /\ n.curr = q.curr /\ n.next = q.next
        /\ n.place = q.place /\ n.entries = q.entries /\ n.dir = q.dir /\ n.grows = q.grows
        /\ n.tofree = q.tofree /\ n.data = q.data
    BY <1>1, <2>1 DEF LockInv, Shape, NewRequest, OnlyMoves, Grown
  <2>7. WriteAt(disk, n)
    BY <2>3, <2>4, <2>5, <2>6 DEF WriteAt
  <2>8. At(disk, n)
    BY <1>0, <1>2, <2>6, <2>7 DEF At, Walking, Owning, Changing, Deleting, Unlinked
  <2>9. OpAt(n) /\ Fresh(n) /\ PathInv(n)
    BY <1>0, <1>2, <2>6 DEF OpAt, Fresh, Early, PathInv, Walking
  <2>10. ReqType(n)
    BY <1>2, <2>3, <2>4, <2>5, <2>6 DEF ReqOK, ReqType, Numbers
  <2>11. ReqOK(disk, n) /\ Reserved(n) = {h} /\ ~Standing(n)
    BY <1>0, <2>6, <2>8, <2>9, <2>10 DEF ReqOK, Reserved, Standing
  <2>12. MakerKept(r)
    BY <1>0, <1>1 DEF MakerKept
  <2>13. FreeMoves(r)
    BY <1>1, <2>1, <2>2, <2>11, TakeMoves DEF Taken
  <2> QED
    BY <1>1, <2>1, <2>6, <2>11, <2>12, <2>13, StillFs
<1> QED
  BY <1>3, <1>4

(* A block of direntries with one more *)
LEMMA EntrySet ==
    ASSUME NEW es, DirBlock(es) \in Contents, NEW j \in Slots, NEW v \in Entry
    PROVE  DirBlock([es EXCEPT ![j] = v]) \in Contents
<1>1. es \in [Slots -> Entry]
  BY EntriesType
<1>2. [es EXCEPT ![j] = v] \in [Slots -> Entry]
  BY <1>1
<1> QED
  BY <1>2, EntriesContent

(* handle_create takes a block for the new inode, *)
LEMMA AllocInodeFs ==
    ASSUME LockInv, FsInv, NEW r \in Requests, AllocInode(r)
    PROVE  FsInv'
<1>1. PICK q, n, h : q = req[r] /\ n = req'[r] /\ h = Head(free_block_list)
  OBVIOUS
<1>0. q.pc = "alloc" /\ q.command.op = "create" /\ disk' = disk
  BY <1>1 DEF AllocInode
<1>2. /\ disk \in Disks /\ TreeOK(disk) /\ ReqOK(disk, q) /\ q.curr \in InodesOf(disk)
      /\ CreateAt(disk, q) /\ q.command \in Commands /\ q.depth \in 0 .. WalkLength(q.command)
  BY <1>0, <1>1, AtWork DEF Owning, Changing
<1>3. MakerKept(r)
  BY <1>0, <1>1 DEF MakerKept
<1>4. CASE free_block_list = <<>>
  <2>1. /\ req' = [req EXCEPT ![r] = [NewRequest EXCEPT !.pc = "failed", !.curr = q.curr]]
        /\ free_block_list' = free_block_list
    BY <1>1, <1>4 DEF AllocInode
  <2>2. n = [NewRequest EXCEPT !.pc = "failed", !.curr = q.curr] /\ OnlyMoves(r)
    BY <1>1, <2>1 DEF LockInv, Shape, OnlyMoves
  <2>3. Ended(n) /\ n.pc = "failed" /\ n.curr = q.curr /\ n.data = NoData
    BY <2>2 DEF NewRequest, Ended
  <2>4. ReqOK(disk, n) /\ Reserved(n) = {} /\ ~Standing(n)
    BY <1>2, <2>3, EndedOK
  <2> QED
    BY <1>0, <1>1, <1>3, <2>1, <2>2, <2>4, QuietFs
<1>5. CASE free_block_list # <<>>
  <2> DEFINE pc == IF q.grows THEN "alloc_dir" ELSE "write_new"
             e == [name |-> TargetName(q.command), inode_block |-> h]
             j == q.place[2]
  <2>1. /\ req' = [req EXCEPT ![r].pc = pc, ![r].new = h, ![r].entries[q.place[2]] = e]
        /\ free_block_list' = Tail(free_block_list)
    BY <1>1, <1>5 DEF AllocInode, Popped
  <2>2. pc \in {"alloc_dir", "write_new"} /\ (pc = "alloc_dir" <=> q.grows)
    OBVIOUS
  <2>3. h \in Blocks /\ h \notin Used(disk)
    BY <1>1, <1>5, FirstFree
  <2>4. TargetName(q.command) \in Names
    BY <1>0, <1>2, CommandFacts DEF TargetName
  <2>5. e \in Entry /\ e = [name |-> TargetName(q.command), inode_block |-> h]
    BY <2>3, <2>4 DEF Entry
  <2>6. j \in Slots
    BY <1>2 DEF CreateAt
  <2>7. DirBlock(q.entries) \in Contents /\ ReqType(q) /\ q.grows \in BOOLEAN
    BY <1>2 DEF ReqOK, ReqType
  <2>8. DirBlock([q.entries EXCEPT ![j] = e]) \in Contents
    BY <2>5, <2>6, <2>7, EntrySet
  <2> HIDE DEF pc, e
  <2>9. /\ OnlyMoves(r) /\ n.pc = pc /\ n.new = h
        /\ n.entries = [q.entries EXCEPT ![j] = e]
        /\ n.inode = q.inode
        /\ n.command = q.command /\ n.depth = q.depth /\ n.curr = q.curr /\ n.next = q.next
        /\ n.place = q.place /\ n.dir = q.dir /\ n.grows = q.grows
        /\ n.tofree = q.tofree /\ n.data = q.data
    BY <1>1, <2>1 DEF LockInv, Shape, NewRequest, OnlyMoves
  <2>10. /\ disk[q.curr].type = "d" /\ q.inode = disk[q.curr]
         /\ q.entries = (IF q.grows THEN NoEntries ELSE Entries(disk, q.dir))
         /\ \A b \in ToSet(disk[q.curr].blocks), k \in Slots :
               Leads(disk, b, k) # 0 => Entries(disk, b)[k].name # TargetName(q.command)
         /\ ~q.grows => q.dir \in ToSet(disk[q.curr].blocks) /\ Leads(disk, q.dir, j) = 0
    BY <1>0, <1>2, <2>7 DEF CreateAt
  <2>11. NewEntry(n) = e
    BY <2>5, <2>9 DEF NewEntry
  <2> HIDE DEF j
  <2>20. n.place[2] = j
    BY <2>9 DEF j
  <2>12. CreateAt(disk, n)
    <3>1. n.pc \notin {"alloc", "write_dir", "upgrade", "commit"}
      BY <2>2, <2>9
    <3>2. n.entries = [(IF n.grows THEN NoEntries ELSE Entries(disk, n.dir)) EXCEPT ![j] = NewEntry(n)]
      BY <2>9, <2>10, <2>11
    <3>3. n.grows => n.pc \in {"alloc", "alloc_dir"}
      BY <2>2, <2>9
    <3>4. n.pc \in {"alloc_dir", "write_dir"} => n.grows
      BY <2>2, <2>9
    <3> QED
      BY <2>3, <2>6, <2>9, <2>10, <2>20, <3>1, <3>2, <3>3, <3>4 DEF CreateAt
  <2>13. At(disk, n)
    BY <1>0, <1>2, <2>2, <2>9, <2>12 DEF At, Walking, Owning, Changing, Deleting, Unlinked
  <2>14. OpAt(n) /\ Fresh(n) /\ PathInv(n)
    BY <1>0, <1>2, <2>2, <2>9 DEF OpAt, Fresh, Early, PathInv, Walking
  <2>15. ReqType(n)
    BY <2>3, <2>7, <2>8, <2>9 DEF ReqType, Numbers
  <2>16. ReqOK(disk, n) /\ Reserved(n) = {h} /\ ~Standing(n)
    BY <1>0, <2>2, <2>9, <2>13, <2>14, <2>15 DEF ReqOK, Reserved, Standing
  <2>17. FreeMoves(r)
    BY <1>0, <1>1, <1>5, <2>1, <2>16, TakeMoves DEF Taken
  <2> QED
    BY <1>0, <1>1, <1>3, <2>9, <2>16, <2>17, StillFs
<1> QED
  BY <1>4, <1>5

(* and one for the direntries of a directory that is full. *)
LEMMA AllocDirFs ==
    ASSUME LockInv, FsInv, NEW r \in Requests, AllocDir(r)
    PROVE  FsInv'
<1>1. PICK q, n, h : q = req[r] /\ n = req'[r] /\ h = Head(free_block_list)
  OBVIOUS
<1>0. q.pc = "alloc_dir"
  BY <1>1 DEF AllocDir
<1>2. /\ disk \in Disks /\ TreeOK(disk) /\ ReqOK(disk, q) /\ q.curr \in InodesOf(disk)
      /\ q.command \in Commands /\ q.depth \in 0 .. WalkLength(q.command)
  BY <1>0, <1>1, AtWork DEF Owning
<1>3. q.command.op = "create"
  BY <1>0, <1>2 DEF ReqOK, OpAt
<1>4. CreateAt(disk, q)
  BY <1>0, <1>1, <1>3, AtWork DEF Owning, Changing
<1>5. CASE Throws(r, "upgrade")
  BY <1>0, <1>1, <1>5, ThrowFs
<1>6. CASE ~Throws(r, "upgrade")
  <2>1. /\ ~NoSpace(q.inode) /\ free_block_list' = Tail(free_block_list)
        /\ req' = [req EXCEPT ![r].pc = "write_new", ![r].dir = h, ![r].inode.blocks = Append(@, h)]
        /\ disk' = disk
    BY <1>1, <1>6 DEF AllocDir, Popped
  <2>2. free_block_list # <<>> /\ Len(q.inode.blocks) # FS_MAXFILEBLOCKS
    BY <2>1 DEF NoSpace
  <2>3. h \in Blocks /\ h \notin Used(disk) /\ h \notin Taken(r)
    BY <1>1, <2>2, FirstFree
  <2>4. /\ q.grows /\ q.inode = disk[q.curr] /\ disk[q.curr].type = "d" /\ q.new \in Blocks
        /\ \A b \in ToSet(disk[q.curr].blocks), k \in Slots :
              Leads(disk, b, k) # 0 => Entries(disk, b)[k].name # TargetName(q.command)
        /\ q.place[2] \in Slots
        /\ q.entries = [NoEntries EXCEPT ![q.place[2]] = NewEntry(q)]
    BY <1>0, <1>4 DEF CreateAt
  <2>5. Grown(disk[q.curr], h) \in Contents /\ Len(disk[q.curr].blocks) < FS_MAXFILEBLOCKS
    BY <1>2, <2>2, <2>3, <2>4, GrownType
  <2>6. /\ OnlyMoves(r) /\ n.pc = "write_new" /\ n.dir = h
        /\ n.inode = Grown(q.inode, h)
        /\ n.command = q.command /\ n.depth = q.depth /\ n.curr = q.curr /\ n.next = q.next
        /\ n.place = q.place /\ n.entries = q.entries /\ n.new = q.new /\ n.grows = q.grows
        /\ n.tofree = q.tofree /\ n.data = q.data
    BY <1>1, <2>1 DEF LockInv, Shape, NewRequest, OnlyMoves, Grown
  <2>7. Reserved(q) = {q.new} /\ Taken(r) = {q.new} /\ h # q.new
    <3>1. Reserved(q) = {q.new}
      BY <1>0 DEF Reserved
    <3>2. q.new # UNDEFINED_BLOCK
      BY <2>4, BlocksFacts
    <3> QED
      BY <1>1, <2>3, <3>1, <3>2 DEF Taken
  <2>8. NewEntry(n) = NewEntry(q)
    BY <2>6 DEF NewEntry
  <2>9. CreateAt(disk, n)
    BY <2>3, <2>4, <2>5, <2>6, <2>7, <2>8 DEF CreateAt
  <2>10. At(disk, n)
    BY <1>2, <1>3, <2>6, <2>9 DEF At, Walking, Owning, Changing, Deleting, Unlinked
  <2>11. OpAt(n) /\ Fresh(n) /\ PathInv(n)
    BY <1>2, <1>3, <2>6 DEF OpAt, Fresh, Early, PathInv, Walking
  <2>12. ReqType(n)
    BY <1>2, <2>3, <2>4, <2>5, <2>6 DEF ReqOK, ReqType, Numbers
  <2>13. ReqOK(disk, n) /\ Reserved(n) = {q.new, h} /\ ~Standing(n)
    BY <1>3, <2>4, <2>6, <2>10, <2>11, <2>12 DEF ReqOK, Reserved, Standing
  <2>14. MakerKept(r)
    BY <1>0, <1>1 DEF MakerKept
  <2>15. Taken(r)' \subseteq Taken(r) \cup {h}
    BY <1>1, <2>7, <2>13 DEF Taken
  <2>16. FreeMoves(r)
    BY <1>1, <2>1, <2>2, <2>15, TakeMoves
  <2> QED
    BY <1>1, <2>1, <2>6, <2>13, <2>14, <2>16, StillFs
<1> QED
  BY <1>5, <1>6

(* handle_delete frees the block of direntries that has become empty, *)
LEMMA FreeDirFs ==
    ASSUME LockInv, FsInv, NEW r \in Requests, FreeDir(r)
    PROVE  FsInv'
<1>1. PICK q, n : q = req[r] /\ n = req'[r]
  OBVIOUS
<1>2. /\ q.pc = "free_dir" /\ free_block_list' = Append(free_block_list, q.dir) /\ disk' = disk
      /\ Goes(r, "upgrade_child")
  BY <1>1 DEF FreeDir
<1>3. OnlyMoves(r) /\ n.pc = "upgrade_child" /\ Onward(q, n)
  BY <1>1, <1>2, GoesFacts
<1>4. disk \in Disks /\ ReqOK(disk, q)
  BY <1>1 DEF FsInv, Disks
<1>5. VictimAt(disk, q) /\ q.command.op = "delete"
  BY <1>2, <1>4 DEF ReqOK, At, Unlinked, OpAt
<1>6. q.dir \in Blocks /\ q.dir \notin ToSet(q.tofree) /\ q.dir # UNDEFINED_BLOCK
  BY <1>2, <1>5, BlocksFacts DEF VictimAt
<1>7. VictimAt(disk, n)
  BY <1>3, <1>5 DEF VictimAt, Onward
<1>8. At(disk, n)
  BY <1>3, <1>7 DEF At, Walking, Owning, Changing, Deleting, Unlinked
<1>9. OpAt(n)
  BY <1>3, <1>5 DEF OpAt, Onward
<1>10. Fresh(n) /\ PathInv(n) /\ ReqType(n)
  <2>1. PathInv(q) /\ Fresh(q) /\ ReqType(q) /\ Active(q)
    BY <1>2, <1>4 DEF ReqOK, Active
  <2>2. n.pc \notin Early /\ n.pc \notin Walking /\ n.pc \notin {"lookup", "check"}
    BY <1>3 DEF Early, Walking
  <2> QED
    BY <1>3, <2>1, <2>2, OnwardReserved
<1>11. ReqOK(disk, n) /\ ~Standing(n)
  BY <1>3, <1>8, <1>9, <1>10 DEF ReqOK, Standing
<1>12. Reserved(q) = {q.dir} \cup ToSet(q.tofree) /\ Reserved(n) = ToSet(q.tofree)
  BY <1>2, <1>3, <1>5 DEF Reserved, Onward
<1>13. q.dir \in Taken(r) /\ Taken(r)' \subseteq Taken(r) \ {q.dir}
  BY <1>1, <1>6, <1>12 DEF Taken
<1>14. FreeMoves(r)
  BY <1>2, <1>6, <1>13, GiveMoves
<1>15. MakerKept(r)
  BY <1>1, <1>3 DEF MakerKept, Onward
<1> QED
  BY <1>1, <1>2, <1>3, <1>11, <1>14, <1>15, StillFs

(* and the blocks of the child, one by one. *)
LEMMA FreeBlockFs ==
    ASSUME LockInv, FsInv, NEW r \in Requests, FreeBlock(r)
    PROVE  FsInv'
<1>1. PICK q, n, h, t : q = req[r] /\ n = req'[r] /\ h = Head(req[r].tofree) /\ t = Tail(req[r].tofree)
  OBVIOUS
<1> DEFINE pc == IF Len(q.tofree) = 1 THEN "unlock" ELSE "free"
<1>2. /\ q.pc = "free" /\ free_block_list' = Append(free_block_list, h) /\ disk' = disk
      /\ req' = [req EXCEPT ![r].tofree = Tail(@), ![r].pc = pc]
  BY <1>1 DEF FreeBlock
<1>3. pc \in {"unlock", "free"} /\ (pc = "free" <=> Len(q.tofree) # 1)
  OBVIOUS
<1> HIDE DEF pc
<1>4. /\ OnlyMoves(r) /\ n.pc = pc /\ n.tofree = t
      /\ n.command = q.command /\ n.depth = q.depth /\ n.curr = q.curr /\ n.next = q.next
      /\ n.place = q.place /\ n.entries = q.entries /\ n.new = q.new /\ n.grows = q.grows
      /\ n.dir = q.dir /\ n.inode = q.inode /\ n.data = q.data
  BY <1>1, <1>2 DEF LockInv, Shape, NewRequest, OnlyMoves
<1>5. disk \in Disks /\ ReqOK(disk, q) /\ ReqType(q)
  BY <1>1 DEF FsInv, Disks, ReqOK
<1>6. q.tofree # <<>> /\ IsInjective(q.tofree) /\ q.tofree \in Seq(Blocks) /\ q.command.op = "delete"
  BY <1>2, <1>5 DEF ReqOK, At, ReqType, OpAt
<1>7. /\ h \in Blocks /\ t \in Seq(Blocks) /\ ToSet(q.tofree) = {h} \cup ToSet(t)
      /\ h \notin ToSet(t) /\ IsInjective(t)
  BY <1>1, <1>6, HeadTailLemma
<1>8. pc = "free" => t # <<>>
  <2>1. PICK u, k : u = q.tofree /\ k = Len(u)
    OBVIOUS
  <2>2. k \in Nat /\ k # 0 /\ Len(Tail(u)) = k - 1
    BY <1>6, <2>1
  <2>3. Len(t) = k - 1
    BY <1>1, <2>1, <2>2
  <2>4. t = <<>> => Len(t) = 0
    OBVIOUS
  <2> QED
    BY <1>3, <2>1, <2>2, <2>3, <2>4
<1>9. At(disk, n)
  BY <1>3, <1>4, <1>7, <1>8 DEF At, Walking, Owning, Changing, Deleting, Unlinked
<1>10. OpAt(n) /\ Fresh(n) /\ PathInv(n)
  BY <1>2, <1>3, <1>4, <1>5, <1>6 DEF OpAt, Fresh, Early, PathInv, Walking, ReqOK, Active
<1>11. ReqType(n)
  BY <1>4, <1>5, <1>7 DEF ReqType
<1>12. ReqOK(disk, n) /\ ~Standing(n)
  BY <1>3, <1>4, <1>9, <1>10, <1>11 DEF ReqOK, Standing
<1>13. Reserved(q) = {h} \cup ToSet(t) /\ Reserved(n) \subseteq ToSet(t)
  BY <1>2, <1>3, <1>4, <1>6, <1>7 DEF Reserved
<1>14. h \in Taken(r) /\ Taken(r)' \subseteq Taken(r) \ {h}
  BY <1>1, <1>7, <1>13, BlocksFacts DEF Taken
<1>15. FreeMoves(r)
  BY <1>2, <1>7, <1>14, GiveMoves
<1>16. MakerKept(r)
  BY <1>1, <1>2 DEF MakerKept
<1> QED
  BY <1>1, <1>2, <1>4, <1>12, <1>15, <1>16, StillFs

-----------------------------------------------------------------------------
(* Upgrading locks, and locking the child of a delete.                     *)

(* upgrade_to_write_lock changes nothing on the disk. *)
LEMMA UpgradeFs ==
    ASSUME LockInv, FsInv, NEW r \in Requests, Upgrade(r)
    PROVE  FsInv'
<1>1. PICK q, n : q = req[r] /\ n = req'[r]
  OBVIOUS
<1> DEFINE pc == IF q.command.op = "delete" THEN "register_child" ELSE "commit"
<1>2. q.pc = "upgrade" /\ disk' = disk /\ free_block_list' = free_block_list /\ Goes(r, pc)
  BY <1>1 DEF Upgrade
<1>3. pc \in {"register_child", "commit"} /\ (pc = "register_child" <=> q.command.op = "delete")
  OBVIOUS
<1> HIDE DEF pc
<1>4. OnlyMoves(r) /\ n.pc = pc /\ Onward(q, n)
  BY <1>1, <1>2, GoesFacts
<1>5. /\ disk \in Disks /\ TreeOK(disk) /\ ReqOK(disk, q) /\ q.curr \in InodesOf(disk)
      /\ q.command.op = "write" => WriteAt(disk, q)
      /\ q.command.op = "create" => CreateAt(disk, q)
      /\ q.command.op = "delete" => DeleteAt(disk, q)
  BY <1>1, <1>2, AtWork DEF Owning, Changing, Deleting
<1>6. q.command.op \in {"write", "create", "delete"}
  BY <1>2, <1>5 DEF ReqOK, OpAt
<1>7. q.command.op = "write" => WriteAt(disk, n)
  BY <1>2, <1>3, <1>4, <1>5 DEF WriteAt, Onward
<1>8. q.command.op = "create" => CreateAt(disk, n)
  <2>1. NewEntry(n) = NewEntry(q)
    BY <1>4 DEF NewEntry, Onward
  <2> QED
    BY <1>2, <1>3, <1>4, <1>5, <2>1 DEF CreateAt, Onward
<1>9. q.command.op = "delete" => DeleteAt(disk, n)
  BY <1>2, <1>3, <1>4, <1>5 DEF DeleteAt, Onward
<1>10. At(disk, n)
  BY <1>3, <1>4, <1>5, <1>6, <1>7, <1>8, <1>9 DEF At, Walking, Owning, Unlinked, Onward
<1>11. OpAt(n)
  BY <1>3, <1>4, <1>6 DEF OpAt, Onward
<1>12. Fresh(n) /\ PathInv(n) /\ ReqType(n)
  <2>1. PathInv(q) /\ Fresh(q) /\ ReqType(q) /\ Active(q)
    BY <1>2, <1>5 DEF ReqOK, Active
  <2>2. n.pc \notin Early /\ n.pc \notin Walking /\ n.pc \notin {"lookup", "check"}
    BY <1>3, <1>4 DEF Early, Walking
  <2> QED
    BY <1>4, <2>1, <2>2, OnwardReserved
<1>13. ReqOK(disk, n) /\ ~Standing(n)
  BY <1>3, <1>4, <1>10, <1>11, <1>12 DEF ReqOK, Standing
<1>14. Reserved(n) \subseteq Reserved(q)
  BY <1>2, <1>3, <1>4 DEF Reserved, Onward
<1>15. MakerKept(r)
  BY <1>1, <1>2 DEF MakerKept
<1> QED
  BY <1>1, <1>2, <1>4, <1>13, <1>14, <1>15, QuietFs

(* Locking the child *)
LEMMA ChildLockFs ==
    ASSUME LockInv, FsInv, NEW r \in Requests, RegisterChild(r) \/ AcquireChild(r)
    PROVE  FsInv'
<1>1. PICK q, n : q = req[r] /\ n = req'[r]
  OBVIOUS
<1>2. PICK pc \in {"acquire_child", "inspect"} :
        /\ q.pc \in {"register_child", "acquire_child"} /\ disk' = disk
        /\ free_block_list' = free_block_list /\ Goes(r, pc)
  BY <1>1 DEF RegisterChild, AcquireChild
<1>3. OnlyMoves(r) /\ n.pc = pc /\ Onward(q, n)
  BY <1>1, <1>2, GoesFacts
<1>4. disk \in Disks /\ ReqOK(disk, q) /\ q.curr \in InodesOf(disk)
  BY <1>1, <1>2, AtWork DEF Owning
<1>5. q.command.op = "delete"
  BY <1>2, <1>4 DEF ReqOK, OpAt
<1>6. DeleteAt(disk, q)
  BY <1>1, <1>2, <1>5, AtWork DEF Owning, Deleting
<1>7. DeleteAt(disk, n)
  BY <1>2, <1>3, <1>6 DEF DeleteAt, Onward
<1>8. At(disk, n)
  BY <1>2, <1>3, <1>4, <1>7 DEF At, Walking, Owning, Changing, Unlinked, Onward
<1>9. OpAt(n)
  BY <1>2, <1>3, <1>5 DEF OpAt, Onward
<1>10. Fresh(n) /\ PathInv(n) /\ ReqType(n)
  <2>1. PathInv(q) /\ Fresh(q) /\ ReqType(q) /\ Active(q)
    BY <1>2, <1>4 DEF ReqOK, Active
  <2>2. n.pc \notin Early /\ n.pc \notin Walking /\ n.pc \notin {"lookup", "check"}
    BY <1>2, <1>3 DEF Early, Walking
  <2> QED
    BY <1>3, <2>1, <2>2, OnwardReserved
<1>11. ReqOK(disk, n) /\ ~Standing(n)
  BY <1>2, <1>3, <1>8, <1>9, <1>10 DEF ReqOK, Standing
<1>12. Reserved(n) = {}
  BY <1>2, <1>3, <1>5 DEF Reserved, Onward
<1>13. MakerKept(r)
  BY <1>1, <1>2 DEF MakerKept
<1> QED
  BY <1>1, <1>2, <1>3, <1>11, <1>12, <1>13, QuietFs

(* What a delete has found is in the tree. *)
LEMMA VictimInTree ==
    ASSUME NEW d \in Disks, TreeOK(d), NEW q, q.curr \in InodesOf(d), DeleteAt(d, q)
    PROVE  /\ HasChild(d, q.curr, q.next) /\ q.next \in InodesOf(d) /\ q.next \in Blocks
           /\ q.dir \in Owns(d, q.curr) /\ q.next # q.curr
<1>1. /\ IsDir(d, q.curr) <=> d[q.curr].type = "d"
      /\ Owns(d, q.curr) = ToSet(d[q.curr].blocks)
  BY TreeInode
<1>2. /\ d[q.curr].type = "d" /\ q.place[1] \in DOMAIN d[q.curr].blocks
      /\ q.dir = d[q.curr].blocks[q.place[1]] /\ q.place[2] \in Slots
      /\ q.next # 0 /\ Leads(d, q.dir, q.place[2]) = q.next
  BY DEF DeleteAt
<1>3. q.dir \in Owns(d, q.curr)
  BY <1>1, <1>2 DEF ToSet
<1>4. HasChild(d, q.curr, q.next)
  BY <1>1, <1>2, <1>3 DEF HasChild
<1>5. q.next \in InodesOf(d) /\ InodesOf(d) \subseteq Blocks
  BY <1>4, ReachFacts
<1>6. q.next # q.curr
  BY <1>4, NotOwnChild
<1> QED
  BY <1>3, <1>4, <1>5, <1>6

(* The child may be deleted, or not; nobody can change it while it is      *)
(* locked.                                                                 *)
LEMMA InspectChildFs ==
    ASSUME LockInv, FsInv, NEW r \in Requests, InspectChild(r)
    PROVE  FsInv'
<1>1. PICK q, n, C : q = req[r] /\ n = req'[r] /\ C = Inode(disk, req[r].next)
  OBVIOUS
<1>2. q.pc = "inspect" /\ disk' = disk /\ free_block_list' = free_block_list
  BY <1>1 DEF InspectChild
<1>3. /\ disk \in Disks /\ TreeOK(disk) /\ ReqOK(disk, q) /\ q.curr \in InodesOf(disk)
      /\ q.command \in Commands /\ q.depth \in 0 .. WalkLength(q.command) /\ ReqType(q)
  BY <1>1, <1>2, AtWork DEF Owning, ReqOK
<1>4. q.command.op = "delete"
  BY <1>2, <1>3 DEF ReqOK, OpAt
<1>5. DeleteAt(disk, q)
  BY <1>1, <1>2, <1>4, AtWork DEF Owning, Deleting
<1>6. q.next \in InodesOf(disk) /\ q.next \in Blocks
  BY <1>3, <1>5, VictimInTree
<1>7. /\ C = disk[q.next] /\ disk[q.next].kind = "inode" /\ disk[q.next].blocks \in Seq(Blocks)
      /\ IsDir(disk, q.next) <=> disk[q.next].type = "d"
      /\ Owns(disk, q.next) = ToSet(disk[q.next].blocks)
  BY <1>1, <1>3, <1>6, TreeInode
<1>8. MakerKept(r)
  BY <1>1, <1>2 DEF MakerKept
<1>9. CASE Deletable(C, q.command)
  <2> DEFINE f == <<q.next>> \o (IF C.type = "f" THEN C.blocks ELSE <<>>)
             j == q.place[2]
  <2>1. req' = [req EXCEPT ![r].pc = "commit", ![r].entries[q.place[2]] = Unused, ![r].tofree = f]
    BY <1>1, <1>9 DEF InspectChild
  <2>2. disk[q.next].type = "d" => disk[q.next].blocks = <<>>
    BY <1>7, <1>9 DEF Deletable
  <2>3. f = <<q.next>> \o Removed(disk[q.next])
    BY <1>7 DEF Removed
  <2>4. IsDir(disk, q.next) => Owns(disk, q.next) = {}
    BY <1>7, <2>2, EmptyLemma
  <2>5. f \in Seq(Blocks)
    BY <1>3, <1>6, <1>7, <2>3, <2>4, FreedBlocks
  <2> HIDE DEF f
  <2>6. /\ OnlyMoves(r) /\ n.pc = "commit" /\ n.tofree = f
        /\ n.entries = [q.entries EXCEPT ![j] = Unused]
        /\ n.command = q.command /\ n.depth = q.depth /\ n.curr = q.curr /\ n.next = q.next
        /\ n.place = q.place /\ n.new = q.new /\ n.grows = q.grows
        /\ n.dir = q.dir /\ n.inode = q.inode /\ n.data = q.data
    BY <1>1, <2>1 DEF LockInv, Shape, NewRequest, OnlyMoves
  <2>7. q.entries = Entries(disk, q.dir) /\ j \in Slots /\ q.new = UNDEFINED_BLOCK
    BY <1>2, <1>5 DEF DeleteAt
  <2>8. DeleteAt(disk, n)
    <3>1. /\ disk[q.curr].type = "d" /\ q.inode = disk[q.curr] /\ ~q.grows
          /\ q.place[1] \in DOMAIN disk[q.curr].blocks /\ q.dir = disk[q.curr].blocks[q.place[1]]
          /\ q.next # 0 /\ Leads(disk, q.dir, j) = q.next
      BY Zenon, <1>5 DEF DeleteAt
    <3>2. n.entries = [Entries(disk, n.dir) EXCEPT ![n.place[2]] = Unused] /\ n.place[2] \in Slots
      BY <2>6, <2>7
    <3> QED
      BY Zenon, <2>2, <2>3, <2>6, <2>7, <3>1, <3>2 DEF DeleteAt
  <2>9. At(disk, n)
    BY <1>3, <1>4, <2>6, <2>8 DEF At, Walking, Owning, Unlinked
  <2>10. OpAt(n) /\ Fresh(n) /\ PathInv(n)
    BY <1>3, <1>4, <2>6 DEF OpAt, Fresh, Early, PathInv, Walking
  <2>11. ReqType(n)
    <3>1. Unused \in Entry
      BY BlocksFacts DEF Unused, Entry
    <3>2. DirBlock(q.entries) \in Contents
      BY <1>3 DEF ReqType
    <3>3. DirBlock([q.entries EXCEPT ![j] = Unused]) \in Contents
      BY <2>7, <3>1, <3>2, EntrySet
    <3> QED
      BY <1>3, <2>5, <2>6, <3>3 DEF ReqType
  <2>12. ReqOK(disk, n) /\ Reserved(n) \subseteq {UNDEFINED_BLOCK} /\ ~Standing(n)
    BY <1>4, <2>6, <2>7, <2>9, <2>10, <2>11 DEF ReqOK, Reserved, Standing
  <2> QED
    BY <1>1, <1>2, <1>8, <2>6, <2>12, QuietFs
<1>10. CASE ~Deletable(C, q.command)
  <2>1. req' = [req EXCEPT ![r].pc = "refuse", ![r].curr = q.next]
    BY <1>1, <1>10 DEF InspectChild
  <2>2. /\ OnlyMoves(r) /\ n.pc = "refuse" /\ n.curr = q.next
        /\ n.command = q.command /\ n.depth = q.depth /\ n.next = q.next
        /\ n.place = q.place /\ n.new = q.new /\ n.grows = q.grows /\ n.entries = q.entries
        /\ n.dir = q.dir /\ n.inode = q.inode /\ n.data = q.data /\ n.tofree = q.tofree
    BY <1>1, <2>1 DEF LockInv, Shape, NewRequest, OnlyMoves
  <2>3. At(disk, n)
    BY <1>6, <2>2 DEF At, Walking, Changing, Deleting, Unlinked
  <2>4. OpAt(n) /\ Fresh(n) /\ PathInv(n)
    BY <1>3, <1>4, <2>2 DEF OpAt, Fresh, Early, PathInv, Walking
  <2>5. ReqType(n)
    BY <1>3, <2>2 DEF ReqType
  <2>6. ReqOK(disk, n) /\ Reserved(n) = {} /\ ~Standing(n)
    BY <1>4, <2>2, <2>3, <2>4, <2>5 DEF ReqOK, Reserved, Standing
  <2> QED
    BY <1>1, <1>2, <1>8, <2>2, <2>6, QuietFs
<1> QED
  BY <1>9, <1>10

(* The child is locked for writing once nobody reads it any more. *)
LEMMA UpgradeChildFs ==
    ASSUME LockInv, FsInv, NEW r \in Requests, UpgradeChild(r)
    PROVE  FsInv'
<1>1. PICK q, n : q = req[r] /\ n = req'[r]
  OBVIOUS
<1>2. /\ q.pc = "upgrade_child" /\ disk' = disk /\ free_block_list' = free_block_list
      /\ CanUpgrade(q.next) /\ Goes(r, "release_parent")
  BY <1>1 DEF UpgradeChild
<1>3. OnlyMoves(r) /\ n.pc = "release_parent" /\ Onward(q, n)
  BY <1>1, <1>2, GoesFacts
<1>4. disk \in Disks /\ TreeOK(disk) /\ ReqOK(disk, q) /\ FreeInv /\ free_block_list \in Seq(Blocks)
  BY <1>1 DEF FsInv, Disks
<1>5. VictimAt(disk, q) /\ q.command.op = "delete"
  BY <1>2, <1>4 DEF ReqOK, At, Unlinked, OpAt
<1>6. VictimAt(disk, n) /\ q.next \in Blocks
  BY <1>3, <1>5 DEF VictimAt, Onward
<1>7. At(disk, n)
  BY <1>3, <1>6 DEF At, Walking, Owning, Changing, Deleting, Unlinked
<1>8. OpAt(n)
  BY <1>3, <1>5 DEF OpAt, Onward
<1>9. Fresh(n) /\ PathInv(n) /\ ReqType(n)
  <2>1. PathInv(q) /\ Fresh(q) /\ ReqType(q) /\ Active(q)
    BY <1>2, <1>4 DEF ReqOK, Active
  <2>2. n.pc \notin Early /\ n.pc \notin Walking /\ n.pc \notin {"lookup", "check"}
    BY <1>3 DEF Early, Walking
  <2> QED
    BY <1>3, <2>1, <2>2, OnwardReserved
<1>10. ReqOK(disk, n) /\ ~Standing(n)
  BY <1>3, <1>7, <1>8, <1>9 DEF ReqOK, Standing
<1>11. Reserved(n) = Reserved(q)
  BY <1>2, <1>3 DEF Reserved, Onward
<1>12. FreeMoves(r)
  <2>1. Taken(r)' = Taken(r)
    BY <1>1, <1>11 DEF Taken
  <2>2. /\ IsInjective(free_block_list) /\ ToSet(free_block_list) \cap Used(disk) = {}
        /\ Taken(r) \cap (ToSet(free_block_list) \cup Used(disk)) = {}
    BY <1>4 DEF FreeInv
  <2> QED
    BY <1>2, <1>4, <2>1, <2>2 DEF FreeMoves
<1>13. \A s \in Requests \ {r} : Spares(disk, disk', req[s])
  BY <1>2, SameDisk
<1>14. ASSUME NEW s \in Requests PROVE Stands(s)'
  <2>1. CASE s = r
    BY <1>1, <1>10, <2>1 DEF Stands
  <2>2. CASE s # r
    <3>1. req'[s] = req[s] /\ Stands(s)
      BY <1>3, <2>2 DEF OnlyMoves, FsInv
    <3> SUFFICES ASSUME Standing(req[s])
                 PROVE  req[s].curr \in Blocks /\ (req[s].curr \in InodesOf(disk') \/ Orphan(s)')
      BY <3>1 DEF Stands
    <3>2. req[s].curr \in Blocks /\ (req[s].curr \in InodesOf(disk) \/ Orphan(s))
      BY <3>1 DEF Stands
    <3>3. ASSUME Orphan(s) PROVE Orphan(s)'
      <4>1. PICK t \in Requests : req[t].pc \in {"free_dir", "upgrade_child"} /\ req[t].next = req[s].curr
        BY <3>3 DEF Orphan
      <4>2. ~Holds(req[s], q.next, "shared")
        BY <1>2, <1>6, NoReaders
      <4>3. CurrMode(req[s]) = "shared"
        BY DEF Standing, CurrMode
      <4>4. t # r
        BY <1>1, <4>1, <4>2, <4>3 DEF Holds
      <4> QED
        BY <1>3, <3>1, <4>1, <4>4 DEF Orphan, OnlyMoves
    <3> QED
      BY <1>2, <3>2, <3>3
  <2> QED
    BY <2>1, <2>2
<1>15. disk' \in Disks /\ TreeOK(disk')
  BY <1>2, <1>4
<1> QED
  BY <1>1, <1>2, <1>3, <1>10, <1>12, <1>13, <1>14, <1>15, FsStep

(* The parent is unlocked; the child has been unlinked before. *)
LEMMA ReleaseParentFs ==
    ASSUME LockInv, FsInv, NEW r \in Requests, ReleaseParent(r)
    PROVE  FsInv'
<1>1. PICK q, n : q = req[r] /\ n = req'[r]
  OBVIOUS
<1>2. /\ q.pc = "release_parent" /\ disk' = disk /\ free_block_list' = free_block_list
      /\ req' = [req EXCEPT ![r].pc = "free", ![r].curr = q.next]
  BY <1>1 DEF ReleaseParent
<1>3. /\ OnlyMoves(r) /\ n.pc = "free" /\ n.curr = q.next
      /\ n.command = q.command /\ n.depth = q.depth /\ n.next = q.next
      /\ n.place = q.place /\ n.new = q.new /\ n.grows = q.grows /\ n.entries = q.entries
      /\ n.dir = q.dir /\ n.inode = q.inode /\ n.data = q.data /\ n.tofree = q.tofree
  BY <1>1, <1>2 DEF LockInv, Shape, NewRequest, OnlyMoves
<1>4. disk \in Disks /\ ReqOK(disk, q) /\ ReqType(q)
  BY <1>1 DEF FsInv, Disks, ReqOK
<1>5. VictimAt(disk, q) /\ q.command.op = "delete"
  BY <1>2, <1>4 DEF ReqOK, At, Unlinked, OpAt
<1>6. ToSet(q.tofree) = {q.next} \cup Owns(disk, q.next)
  BY <1>4, <1>5, VictimBlocks
<1>7. q.tofree # <<>> /\ IsInjective(q.tofree)
  BY <1>5, <1>6, EmptyLemma DEF VictimAt
<1>8. At(disk, n)
  BY <1>3, <1>7 DEF At, Walking, Owning, Changing, Deleting, Unlinked
<1>9. OpAt(n) /\ Fresh(n) /\ PathInv(n)
  BY <1>2, <1>3, <1>4, <1>5 DEF OpAt, Fresh, Early, PathInv, Walking, ReqOK, Active
<1>10. ReqType(n)
  BY <1>3, <1>4 DEF ReqType
<1>11. ReqOK(disk, n) /\ ~Standing(n)
  BY <1>3, <1>8, <1>9, <1>10 DEF ReqOK, Standing
<1>12. Reserved(n) = Reserved(q)
  BY <1>2, <1>3 DEF Reserved
<1>13. MakerKept(r)
  BY <1>1, <1>2 DEF MakerKept
<1> QED
  BY <1>1, <1>2, <1>3, <1>11, <1>12, <1>13, QuietFs

(* RefuseDelete and Unlock end a request. *)
LEMMA EndsFs ==
    ASSUME LockInv, FsInv, NEW r \in Requests, Unlock(r) \/ RefuseDelete(r)
    PROVE  FsInv'
<1>1. CASE Unlock(r)
  <2>1. req[r].pc = "unlock" /\ Ends(r, "done", NoData) /\ disk' = disk /\ free_block_list' = free_block_list
    BY <1>1 DEF Unlock
  <2> QED
    BY <2>1, EndFs
<1>2. CASE RefuseDelete(r)
  <2>1. req[r].pc = "refuse" /\ Throws(r, "upgrade")
    BY <1>2 DEF RefuseDelete
  <2> QED
    BY <2>1, ThrowFs
<1> QED
  BY <1>1, <1>2

-----------------------------------------------------------------------------
(* Writing to blocks that are not in the tree yet.                         *)

(* What a request has taken are blocks. *)
LEMMA TakenBlocks ==
    ASSUME FsInv, NEW s \in Requests
    PROVE  Taken(s) \subseteq Blocks
<1>1. PICK q : q = req[s]
  OBVIOUS
<1>2. {q.new, q.dir} \subseteq Numbers /\ q.tofree \in Seq(Blocks)
  BY <1>1 DEF FsInv, ReqOK, ReqType
<1>3. ToSet(q.tofree) \subseteq Blocks
  BY <1>2, ToSetType
<1>4. Reserved(q) \subseteq Numbers
  BY <1>2, <1>3 DEF Reserved, Numbers
<1> QED
  BY <1>1, <1>4 DEF Taken, Numbers

(* A request writes to a block it has taken off the free list. *)
Fills(r, w, v) ==
    /\ w \in Blocks /\ w \in Taken(r) /\ v \in Contents
    /\ disk' = [disk EXCEPT ![w] = v] /\ free_block_list' = free_block_list

(* Such a block is not in the tree, and the tree stays as it is. *)
LEMMA FillFacts ==
    ASSUME FsInv, NEW r \in Requests, NEW w, NEW v, Fills(r, w, v)
    PROVE  /\ disk \in Disks /\ TreeOK(disk) /\ disk' \in Disks /\ TreeOK(disk')
           /\ InodesOf(disk') = InodesOf(disk) /\ Used(disk') = Used(disk)
           /\ \A x \in InodesOf(disk) : SameAt(disk, disk', x)
           /\ disk'[w] = v /\ w \notin Used(disk) /\ \A b \in Blocks \ {w} : disk'[b] = disk[b]
<1>1. disk \in Disks /\ TreeOK(disk) /\ FreeInv
  BY DEF FsInv, Disks
<1>2. w \notin Used(disk)
  BY <1>1 DEF Fills, FreeInv
<1>3. disk' \in Disks /\ disk'[w] = v /\ \A b \in Blocks \ {w} : disk'[b] = disk[b]
  BY <1>1 DEF Fills, Disks
<1>4. \A b \in Used(disk) : disk'[b] = disk[b]
  BY <1>1, <1>2, <1>3, UsedBlocks
<1>5. /\ InodesOf(disk') = InodesOf(disk) /\ Used(disk') = Used(disk) /\ TreeOK(disk')
      /\ \A x \in InodesOf(disk) : SameAt(disk, disk', x)
  BY <1>1, <1>3, <1>4, WriteOutside
<1> QED
  BY <1>1, <1>2, <1>3, <1>5

(* What others work on is elsewhere. *)
LEMMA FillFs ==
    ASSUME FsInv, NEW r \in Requests, OnlyMoves(r), NEW w, NEW v, Fills(r, w, v),
           ReqOK(disk', req'[r]), Reserved(req'[r]) \subseteq Reserved(req[r]) \cup {UNDEFINED_BLOCK},
           MakerKept(r), ~Standing(req'[r])
    PROVE  FsInv'
<1>1. /\ disk \in Disks /\ TreeOK(disk) /\ disk' \in Disks /\ TreeOK(disk')
      /\ InodesOf(disk') = InodesOf(disk) /\ Used(disk') = Used(disk)
      /\ \A x \in InodesOf(disk) : SameAt(disk, disk', x)
      /\ disk'[w] = v /\ w \notin Used(disk) /\ \A b \in Blocks \ {w} : disk'[b] = disk[b]
  BY FillFacts
<1>2. FreeInv /\ free_block_list \in Seq(Blocks) /\ free_block_list' = free_block_list /\ w \in Taken(r)
  BY DEF FsInv, Fills
<1>3. FreeMoves(r)
  <2>1. Taken(r)' \subseteq Taken(r)
    BY DEF Taken
  <2>2. /\ IsInjective(free_block_list) /\ ToSet(free_block_list) \cap Used(disk) = {}
        /\ Taken(r) \cap (ToSet(free_block_list) \cup Used(disk)) = {}
    BY <1>2 DEF FreeInv
  <2> QED
    BY <1>1, <1>2, <2>1, <2>2 DEF FreeMoves
<1>4. ASSUME NEW s \in Requests \ {r} PROVE Spares(disk, disk', req[s])
  <2>1. PICK q : q = req[s]
    OBVIOUS
  <2>2. ReqOK(disk, q) /\ q.curr \in Numbers /\ Reserved(q) \ {UNDEFINED_BLOCK} = Taken(s)
    BY <2>1 DEF FsInv, ReqOK, ReqType, Taken
  <2>3. w \notin Taken(s)
    BY <1>2 DEF FreeInv
  <2>4. ASSUME NEW b \in Reserved(q) \ {UNDEFINED_BLOCK} PROVE disk'[b] = disk[b]
    BY <1>1, <2>2, <2>3, <2>4, TakenBlocks
  <2>5. ASSUME q.pc = "commit", q.command.op = "delete" PROVE disk'[q.next] = disk[q.next]
    <3>1. DeleteAt(disk, q) /\ q.curr \in InodesOf(disk)
      BY <2>2, <2>5 DEF ReqOK, At, Deleting, Owning
    <3>2. q.next \in InodesOf(disk) /\ q.next \in Blocks
      BY <1>1, <3>1, VictimInTree
    <3> QED
      BY <1>1, <3>2 DEF SameAt
  <2>6. Spares(disk, disk', q)
    BY <1>1, <2>4, <2>5 DEF Spares
  <2> QED
    BY <2>1, <2>6
<1>5. \A s \in Requests \ {r} : Stands(s)'
  BY <1>1, StandsKept
<1>6. Stands(r)'
  BY DEF Stands
<1>7. \A s \in Requests : Stands(s)'
  BY <1>5, <1>6
<1> QED
  BY <1>1, <1>3, <1>4, <1>7, FsStep

(* handle_write writes the data of a file that grows. *)
LEMMA WriteDataFs ==
    ASSUME LockInv, FsInv, NEW r \in Requests, WriteData(r)
    PROVE  FsInv'
<1>1. PICK q, n, v : q = req[r] /\ n = req'[r] /\ v = DataBlock(req[r].command.data)
  OBVIOUS
<1>2. /\ q.pc = "write_new" /\ q.command.op = "write" /\ disk' = [disk EXCEPT ![q.new] = v]
      /\ free_block_list' = free_block_list /\ Goes(r, "upgrade")
  BY <1>1 DEF WriteData
<1>3. OnlyMoves(r) /\ n.pc = "upgrade" /\ Onward(q, n)
  BY <1>1, <1>2, GoesFacts
<1>4. /\ disk \in Disks /\ TreeOK(disk) /\ ReqOK(disk, q) /\ q.curr \in InodesOf(disk)
      /\ q.command \in Commands /\ WriteAt(disk, q)
  BY <1>1, <1>2, AtWork DEF Owning, Changing
<1>5. q.grows /\ q.new \in Blocks /\ q.new # UNDEFINED_BLOCK
  BY <1>2, <1>4, BlocksFacts DEF WriteAt
<1>6. v \in Contents /\ v.kind = "data"
  <2>1. q.command.data \in Data
    BY <1>2, <1>4, CommandFacts
  <2> QED
    BY <1>1, <2>1 DEF Contents, DataBlock
<1>7. Reserved(q) = {q.new} /\ Reserved(n) = {q.new}
  BY <1>2, <1>3 DEF Reserved, Onward
<1>8. Fills(r, q.new, v)
  BY <1>1, <1>2, <1>5, <1>6, <1>7 DEF Fills, Taken
<1>9. InodesOf(disk') = InodesOf(disk) /\ SameAt(disk, disk', q.curr) /\ disk'[q.new] = v
  BY <1>4, <1>8, FillFacts
<1>10. disk'[q.curr] = disk[q.curr]
  BY <1>9 DEF SameAt
<1>11. WriteAt(disk', n)
  BY <1>2, <1>3, <1>4, <1>5, <1>6, <1>9, <1>10 DEF WriteAt, Onward
<1>12. At(disk', n)
  BY <1>2, <1>3, <1>4, <1>9, <1>11 DEF At, Walking, Owning, Unlinked, Onward
<1>13. OpAt(n)
  BY <1>2, <1>3 DEF OpAt, Onward
<1>14. Fresh(n) /\ PathInv(n) /\ ReqType(n)
  <2>1. PathInv(q) /\ Fresh(q) /\ ReqType(q) /\ Active(q)
    BY <1>2, <1>4 DEF ReqOK, Active
  <2>2. n.pc \notin Early /\ n.pc \notin Walking /\ n.pc \notin {"lookup", "check"}
    BY <1>3 DEF Early, Walking
  <2> QED
    BY <1>3, <2>1, <2>2, OnwardReserved
<1>15. ReqOK(disk', n) /\ ~Standing(n)
  BY <1>3, <1>12, <1>13, <1>14 DEF ReqOK, Standing
<1>16. MakerKept(r)
  BY <1>1, <1>2 DEF MakerKept
<1> QED
  BY <1>1, <1>3, <1>7, <1>8, <1>15, <1>16, FillFs

(* What a create has found is still so when one of its blocks is filled. *)
LEMMA CreateKept ==
    ASSUME NEW d \in Disks, TreeOK(d), NEW e, NEW q, q.curr \in InodesOf(d), SameAt(d, e, q.curr),
           CreateAt(d, q)
    PROVE  /\ e[q.curr] = d[q.curr]
           /\ \A b \in ToSet(e[q.curr].blocks), k \in Slots :
                Leads(e, b, k) # 0 => Entries(e, b)[k].name # TargetName(q.command)
           /\ ~q.grows => Entries(e, q.dir) = Entries(d, q.dir) /\ Leads(e, q.dir, q.place[2]) = 0
<1>1. /\ e[q.curr] = d[q.curr]
      /\ \A b \in Owns(d, q.curr) : Entries(e, b) = Entries(d, b) /\ \A j : Leads(e, b, j) = Leads(d, b, j)
  <2>1. \A b \in Owns(d, q.curr) : Entries(e, b) = Entries(d, b) /\ \A j : Leads(e, b, j) = Leads(d, b, j)
    BY SameInode
  <2>2. e[q.curr] = d[q.curr]
    BY DEF SameAt
  <2> QED
    BY <2>1, <2>2
<1>2. Owns(d, q.curr) = ToSet(d[q.curr].blocks)
  BY TreeInode
<1>3. /\ \A b \in ToSet(d[q.curr].blocks), k \in Slots :
            Leads(d, b, k) # 0 => Entries(d, b)[k].name # TargetName(q.command)
      /\ ~q.grows => q.dir \in ToSet(d[q.curr].blocks) /\ Leads(d, q.dir, q.place[2]) = 0
  BY DEF CreateAt
<1> QED
  BY <1>1, <1>2, <1>3

(* handle_create writes the new inode, *)
LEMMA WriteInodeFs ==
    ASSUME LockInv, FsInv, NEW r \in Requests, WriteInode(r)
    PROVE  FsInv'
<1>1. PICK q, n, v : /\ q = req[r] /\ n = req'[r]
                     /\ v = InodeBlock(req[r].command.type, req[r].command.username, <<>>)
  OBVIOUS
<1> DEFINE pc == IF q.grows THEN "write_dir" ELSE "upgrade"
<1>2. /\ q.pc = "write_new" /\ q.command.op = "create" /\ disk' = [disk EXCEPT ![q.new] = v]
      /\ free_block_list' = free_block_list /\ Goes(r, pc)
  BY <1>1 DEF WriteInode, NewInode
<1>17. pc \in {"write_dir", "upgrade"} /\ (pc = "write_dir" <=> q.grows)
  OBVIOUS
<1> HIDE DEF pc
<1>3. OnlyMoves(r) /\ n.pc = pc /\ Onward(q, n)
  BY <1>1, <1>2, GoesFacts
<1>4. /\ disk \in Disks /\ TreeOK(disk) /\ ReqOK(disk, q) /\ q.curr \in InodesOf(disk)
      /\ q.command \in Commands /\ CreateAt(disk, q)
  BY <1>1, <1>2, AtWork DEF Owning, Changing
<1>5. q.new \in Blocks /\ q.new # UNDEFINED_BLOCK
  BY <1>2, <1>4, BlocksFacts DEF CreateAt
<1>6. v \in Contents
  <2>1. q.command.type \in {"f", "d"} /\ q.command.username \in Users
    BY <1>2, <1>4, CommandFacts
  <2>2. <<>> \in BoundedSeq(Blocks, FS_MAXFILEBLOCKS)
    BY FileSystemAssumption DEF BoundedSeq, SeqOf
  <2> QED
    BY <1>1, <2>1, <2>2 DEF Contents
<1>7. q.new \in Reserved(q) /\ Reserved(n) \subseteq Reserved(q)
  BY <1>2, <1>3, <1>17 DEF Reserved, Onward
<1>8. Fills(r, q.new, v)
  BY <1>1, <1>2, <1>5, <1>6, <1>7 DEF Fills, Taken
<1>9. InodesOf(disk') = InodesOf(disk) /\ SameAt(disk, disk', q.curr) /\ disk'[q.new] = v
  BY <1>4, <1>8, FillFacts
<1>10. /\ disk'[q.curr] = disk[q.curr]
       /\ \A b \in ToSet(disk'[q.curr].blocks), k \in Slots :
            Leads(disk', b, k) # 0 => Entries(disk', b)[k].name # TargetName(q.command)
       /\ ~q.grows => Entries(disk', q.dir) = Entries(disk, q.dir) /\ Leads(disk', q.dir, q.place[2]) = 0
  BY <1>4, <1>9, CreateKept
<1>11. CreateAt(disk', n)
  <2>1. NewEntry(n) = NewEntry(q)
    BY <1>3 DEF NewEntry, Onward
  <2>2. /\ disk[q.curr].type = "d" /\ q.place[2] \in Slots /\ q.new \in Blocks
        /\ q.entries = [(IF q.grows THEN NoEntries ELSE Entries(disk, q.dir)) EXCEPT ![q.place[2]] = NewEntry(q)]
        /\ ~q.grows => q.dir \in ToSet(disk[q.curr].blocks) /\ q.inode = disk[q.curr]
        /\ q.grows => /\ q.inode = Grown(disk[q.curr], q.dir) /\ q.dir \in Blocks /\ q.dir # q.new
                      /\ Len(disk[q.curr].blocks) < FS_MAXFILEBLOCKS
    BY <1>2, <1>4 DEF CreateAt
  <2>3. n.entries = [(IF n.grows THEN NoEntries ELSE Entries(disk', n.dir)) EXCEPT ![n.place[2]] = NewEntry(n)]
    BY  <1>3, <1>10, <2>1, <2>2 DEF Onward
  <2> QED
    BY <1>1, <1>3, <1>9, <1>10, <1>17, <2>2, <2>3 DEF CreateAt, Onward
<1>12. At(disk', n)
  BY <1>2, <1>3, <1>4, <1>9, <1>11, <1>17 DEF At, Walking, Owning, Unlinked, Onward
<1>13. OpAt(n)
  BY <1>2, <1>3, <1>17 DEF OpAt, Onward
<1>14. Fresh(n) /\ PathInv(n) /\ ReqType(n)
  <2>1. PathInv(q) /\ Fresh(q) /\ ReqType(q) /\ Active(q)
    BY <1>2, <1>4 DEF ReqOK, Active
  <2>2. n.pc \notin Early /\ n.pc \notin Walking /\ n.pc \notin {"lookup", "check"}
    BY <1>3, <1>17 DEF Early, Walking
  <2> QED
    BY <1>3, <2>1, <2>2, OnwardReserved
<1>15. ReqOK(disk', n) /\ ~Standing(n)
  BY <1>3, <1>12, <1>13, <1>14, <1>17 DEF ReqOK, Standing
<1>16. MakerKept(r)
  BY <1>1, <1>2 DEF MakerKept
<1> QED
  BY <1>1, <1>3, <1>7, <1>8, <1>15, <1>16, FillFs

(* and the direntries of a new block. *)
LEMMA WriteDirFs ==
    ASSUME LockInv, FsInv, NEW r \in Requests, WriteDir(r)
    PROVE  FsInv'
<1>1. PICK q, n, v : q = req[r] /\ n = req'[r] /\ v = DirBlock(req[r].entries)
  OBVIOUS
<1>2. /\ q.pc = "write_dir" /\ disk' = [disk EXCEPT ![q.dir] = v]
      /\ free_block_list' = free_block_list /\ Goes(r, "upgrade")
  BY <1>1 DEF WriteDir
<1>3. OnlyMoves(r) /\ n.pc = "upgrade" /\ Onward(q, n)
  BY <1>1, <1>2, GoesFacts
<1>4. disk \in Disks /\ TreeOK(disk) /\ ReqOK(disk, q) /\ q.curr \in InodesOf(disk)
  BY <1>1, <1>2, AtWork DEF Owning
<1>17. q.command.op = "create" /\ v \in Contents
  BY <1>1, <1>2, <1>4 DEF ReqOK, OpAt, ReqType
<1>18. CreateAt(disk, q)
  BY <1>1, <1>2, <1>17, AtWork DEF Owning, Changing
<1>5. /\ q.grows /\ q.dir \in Blocks /\ q.dir # UNDEFINED_BLOCK /\ q.new \in Blocks /\ q.new # q.dir
      /\ disk[q.new] = InodeBlock(q.command.type, q.command.username, <<>>)
  BY <1>2, <1>18, BlocksFacts DEF CreateAt
<1>7. q.dir \in Reserved(q) /\ Reserved(n) \subseteq Reserved(q)
  BY <1>2, <1>3, <1>5, <1>17 DEF Reserved, Onward
<1>8. Fills(r, q.dir, v)
  BY <1>1, <1>2, <1>5, <1>7, <1>17 DEF Fills, Taken
<1>9. /\ InodesOf(disk') = InodesOf(disk) /\ SameAt(disk, disk', q.curr) /\ disk'[q.dir] = v
      /\ disk'[q.new] = disk[q.new]
  BY <1>4, <1>5, <1>8, FillFacts
<1>10. /\ disk'[q.curr] = disk[q.curr]
       /\ \A b \in ToSet(disk'[q.curr].blocks), k \in Slots :
            Leads(disk', b, k) # 0 => Entries(disk', b)[k].name # TargetName(q.command)
  BY <1>4, <1>9, <1>18, CreateKept
<1>11. CreateAt(disk', n)
  <2>1. NewEntry(n) = NewEntry(q)
    BY <1>3 DEF NewEntry, Onward
  <2>2. /\ disk[q.curr].type = "d" /\ q.place[2] \in Slots /\ q.new \in Blocks
        /\ q.entries = [(IF q.grows THEN NoEntries ELSE Entries(disk, q.dir)) EXCEPT ![q.place[2]] = NewEntry(q)]
        /\ ~q.grows => q.dir \in ToSet(disk[q.curr].blocks) /\ q.inode = disk[q.curr]
        /\ q.grows => /\ q.inode = Grown(disk[q.curr], q.dir) /\ q.dir \in Blocks /\ q.dir # q.new
                      /\ Len(disk[q.curr].blocks) < FS_MAXFILEBLOCKS
    BY <1>2, <1>18 DEF CreateAt
  <2>3. n.entries = [(IF n.grows THEN NoEntries ELSE Entries(disk', n.dir)) EXCEPT ![n.place[2]] = NewEntry(n)]
    BY <1>5, <1>3, <1>10, <2>1, <2>2 DEF Onward
  <2> QED
    BY <1>1, <1>3, <1>5, <1>9, <1>10, <2>2, <2>3 DEF CreateAt, Onward
<1>12. At(disk', n)
  BY <1>3, <1>4, <1>9, <1>11, <1>17 DEF At, Walking, Owning, Unlinked, Onward
<1>13. OpAt(n)
  BY <1>3, <1>17 DEF OpAt, Onward
<1>14. Fresh(n) /\ PathInv(n) /\ ReqType(n)
  <2>1. PathInv(q) /\ Fresh(q) /\ ReqType(q) /\ Active(q)
    BY <1>2, <1>4 DEF ReqOK, Active
  <2>2. n.pc \notin Early /\ n.pc \notin Walking /\ n.pc \notin {"lookup", "check"}
    BY <1>3 DEF Early, Walking
  <2> QED
    BY <1>3, <2>1, <2>2, OnwardReserved
<1>15. ReqOK(disk', n) /\ ~Standing(n)
  BY <1>3, <1>12, <1>13, <1>14 DEF ReqOK, Standing
<1>16. MakerKept(r)
  BY <1>1, <1>2 DEF MakerKept
<1> QED
  BY <1>1, <1>3, <1>7, <1>8, <1>15, <1>16, FillFs

-----------------------------------------------------------------------------
(* The last writes.                                                        *)

(* The modes in which a request works on its inode *)
LEMMA ModesAt ==
    ASSUME NEW q
    PROVE  /\ q.pc \in Walking => CurrMode(q) = "shared"
           /\ (q.pc \in Owning \/ (q.pc = "check" /\ q.command.op # "read") \/ q.pc = "failed") =>
                CurrMode(q) \in {"upgrade", "exclusive"}
           /\ q.pc = "commit" => CurrMode(q) = "exclusive"
           /\ q.pc = "commit" /\ q.command.op = "delete" => NextMode(q) = "upgrade"
BY DEF CurrMode, NextMode, Walking, Owning

(* A commit writes to the inode it has locked, or to a block of it. *)
Commits(r, w, v) ==
    /\ req[r].pc = "commit"
    /\ w \in Blocks /\ v \in Contents /\ disk' = [disk EXCEPT ![w] = v]
    /\ w = req[r].curr \/ w \in Owns(disk, req[r].curr)

(* The disk after such a write; the other inodes of the tree stay as they  *)
(* are.                                                                    *)
LEMMA CommitFacts ==
    ASSUME FsInv, NEW r \in Requests, NEW w, NEW v, Commits(r, w, v)
    PROVE  /\ disk \in Disks /\ TreeOK(disk) /\ disk' \in Disks /\ Written(disk, disk', w, v)
           /\ req[r].curr \in InodesOf(disk) /\ req[r].curr \in Blocks /\ w \in Used(disk)
           /\ \A x \in InodesOf(disk) \ {req[r].curr} : SameAt(disk, disk', x)
<1>1. disk \in Disks /\ TreeOK(disk) /\ req[r].curr \in InodesOf(disk) /\ req[r].curr \in Blocks
  BY AtWork DEF Commits, Owning
<1>2. disk' \in Disks /\ Written(disk, disk', w, v)
  BY <1>1 DEF Commits, Disks, Written
<1>3. w \in Used(disk)
  BY <1>1, UsedBlocks DEF Commits
<1>4. w = req[r].curr \/ w \in Owns(disk, req[r].curr)
  BY DEF Commits
<1>5. \A x \in InodesOf(disk) \ {req[r].curr} : SameAt(disk, disk', x)
  BY <1>1, <1>2, <1>4, OthersSame
<1> QED
  BY <1>1, <1>2, <1>3, <1>5

(* The locks keep what others work on from changing: nobody else works on  *)
(* the inode, and nobody but readers is at the child that is deleted.      *)
LEMMA CommitSpares ==
    ASSUME LockInv, FsInv, NEW r \in Requests, NEW w, NEW v, Commits(r, w, v),
           \A x \in InodesOf(disk) :
             x \in InodesOf(disk') \/ (req[r].command.op = "delete" /\ x = req[r].next),
           NEW s \in Requests, s # r
    PROVE  Spares(disk, disk', req[s])
<1>1. PICK q, p, m : p = req[r].curr /\ m = req[r] /\ q = req[s]
  OBVIOUS
<1>2. /\ disk \in Disks /\ TreeOK(disk) /\ disk' \in Disks /\ Written(disk, disk', w, v)
      /\ p \in InodesOf(disk) /\ p \in Blocks /\ w \in Used(disk)
      /\ \A x \in InodesOf(disk) \ {p} : SameAt(disk, disk', x)
  BY <1>1, CommitFacts
<1>3. m.pc = "commit" /\ ReqOK(disk, q) /\ InodesOf(disk) \subseteq Blocks
  BY <1>1, <1>2, ReachFacts DEF Commits, FsInv
<1>4. ~Holds(q, p, "shared") /\ ~Holds(q, p, "upgrade") /\ ~Holds(q, p, "exclusive")
  <2>1. Holds(m, p, "exclusive")
    BY <1>1, <1>3, ModesAt DEF Holds
  <2> QED
    BY <1>1, <1>2, <2>1, LocksExclude
<1>5. ASSUME m.command.op = "delete"
      PROVE  /\ m.next \in Blocks /\ ~Holds(q, m.next, "upgrade") /\ ~Holds(q, m.next, "exclusive")
             /\ \A y : ~HasChild(disk, m.next, y)
  <2>1. DeleteAt(disk, m)
    BY <1>1, <1>3, <1>5, AtWork DEF Owning, Deleting
  <2>2. m.next \in InodesOf(disk) /\ m.next \in Blocks
    BY <1>1, <1>2, <2>1, VictimInTree
  <2>3. Holds(m, m.next, "upgrade")
    BY <1>3, <1>5, ModesAt DEF Holds
  <2>4. disk[m.next].type = "d" => disk[m.next].blocks = <<>>
    BY <1>3, <2>1 DEF DeleteAt
  <2>5. /\ IsDir(disk, m.next) <=> disk[m.next].type = "d"
        /\ Owns(disk, m.next) = ToSet(disk[m.next].blocks)
    BY <1>2, <2>2, TreeInode
  <2>6. IsDir(disk, m.next) => Owns(disk, m.next) = {}
    BY <2>4, <2>5, EmptyLemma
  <2>7. ~Holds(q, m.next, "upgrade") /\ ~Holds(q, m.next, "exclusive")
    BY <1>1, <2>2, <2>3, LocksExclude
  <2> QED
    BY <2>2, <2>6, <2>7 DEF HasChild
<1>6. ASSUME OnCurr(q), q.curr \in InodesOf(disk)
      PROVE  q.curr \in InodesOf(disk') /\ SameAt(disk, disk', q.curr)
  <2>1. CurrMode(q) \in {"shared", "upgrade", "exclusive"}
    BY <1>6, ModesAt DEF OnCurr
  <2>2. q.curr # p
    BY <1>4, <2>1 DEF Holds
  <2>3. ASSUME m.command.op = "delete", q.curr = m.next PROVE FALSE
    <3>1. CASE q.pc \in Walking
      <4>1. q.curr # UNDEFINED_BLOCK
        BY <1>3, <1>6, BlocksFacts
      <4>2. HasChild(disk, q.curr, q.next)
        BY <1>3, <3>1, <4>1 DEF ReqOK, At
      <4> QED
        BY <1>5, <2>3, <4>2
    <3>2. CASE q.pc \notin Walking
      <4>1. CurrMode(q) \in {"upgrade", "exclusive"}
        BY <1>6, <3>2, ModesAt DEF OnCurr
      <4> QED
        BY <1>5, <2>3, <4>1 DEF Holds
    <3> QED
      BY <3>1, <3>2
  <2> QED
    BY <1>1, <1>2, <1>6, <2>2, <2>3
<1>7. ASSUME q.pc = "failed", q.curr \in InodesOf(disk) PROVE q.curr \in InodesOf(disk')
  <2>1. CurrMode(q) \in {"upgrade", "exclusive"}
    BY <1>7, ModesAt
  <2> QED
    BY <1>1, <1>5, <1>7, <2>1 DEF Holds
<1>8. ASSUME NEW b \in Reserved(q) \ {UNDEFINED_BLOCK} PROVE disk'[b] = disk[b]
  <2>1. b \in Taken(s) /\ Taken(s) \cap Used(disk) = {}
    BY <1>1 DEF Taken, FsInv, FreeInv
  <2>2. b \in Blocks /\ b # w
    BY <1>2, <2>1, TakenBlocks
  <2> QED
    BY <1>2, <2>2 DEF Written
<1>9. ASSUME q.pc = "commit", q.command.op = "delete" PROVE disk'[q.next] = disk[q.next]
  <2>1. DeleteAt(disk, q) /\ q.curr \in InodesOf(disk)
    BY <1>3, <1>9 DEF ReqOK, At, Deleting, Owning
  <2>2. q.next \in InodesOf(disk)
    BY <1>2, <2>1, VictimInTree
  <2>3. Holds(q, q.next, "upgrade")
    BY <1>9, ModesAt DEF Holds
  <2>4. q.next # p
    BY <1>4, <2>3
  <2> QED
    BY <1>2, <2>2, <2>4 DEF SameAt
<1>10. Spares(disk, disk', q)
  BY <1>6, <1>7, <1>8, <1>9 DEF Spares
<1> QED
  BY <1>1, <1>10

(* What a commit moves *)
LEMMA CommitMoves ==
    ASSUME FsInv, NEW r \in Requests, free_block_list' = free_block_list,
           Used(disk') \cup Taken(r)' \subseteq Used(disk) \cup Taken(r),
           Taken(r)' \cap Used(disk') = {}
    PROVE  FreeMoves(r)
<1>1. PICK L, U, T, U1, T1 : /\ L = ToSet(free_block_list) /\ U = Used(disk) /\ T = Taken(r)
                             /\ U1 = Used(disk') /\ T1 = Taken(r)'
  OBVIOUS
<1>2. /\ IsInjective(free_block_list) /\ free_block_list \in Seq(Blocks)
      /\ L \cap U = {} /\ T \cap (L \cup U) = {}
  BY <1>1 DEF FsInv, FreeInv
<1>3. U1 \cup T1 \subseteq U \cup T /\ T1 \cap U1 = {}
  BY <1>1
<1>4. L \cap U1 = {} /\ T1 \cap (L \cup U1) = {} /\ L \cup U1 \cup T1 \subseteq L \cup U \cup T
  BY <1>2, <1>3
<1> QED
  BY <1>1, <1>2, <1>4 DEF FreeMoves

(* The last write of a write or a create *)
LEMMA DoneFs ==
    ASSUME LockInv, FsInv, NEW r \in Requests, NEW w, NEW v, Commits(r, w, v), Goes(r, "unlock"),
           free_block_list' = free_block_list, TreeOK(disk'), InodesOf(disk) \subseteq InodesOf(disk'),
           Used(disk') \subseteq Used(disk) \cup Taken(r)
    PROVE  FsInv'
<1>1. PICK q, n : q = req[r] /\ n = req'[r]
  OBVIOUS
<1>2. OnlyMoves(r) /\ n.pc = "unlock" /\ Onward(q, n) /\ q.pc = "commit"
  BY <1>1, GoesFacts DEF Commits
<1>3. disk' \in Disks /\ ReqOK(disk, q)
  BY <1>1, CommitFacts DEF FsInv
<1>4. At(disk', n) /\ OpAt(n)
  BY <1>2 DEF At, Walking, Owning, Changing, Deleting, Unlinked, OpAt
<1>5. Fresh(n) /\ PathInv(n) /\ ReqType(n)
  <2>1. PathInv(q) /\ Fresh(q) /\ ReqType(q) /\ Active(q)
    BY <1>2, <1>3 DEF ReqOK, Active
  <2>2. n.pc \notin Early /\ n.pc \notin Walking /\ n.pc \notin {"lookup", "check"}
    BY <1>2 DEF Early, Walking
  <2> QED
    BY <1>2, <2>1, <2>2, OnwardReserved
<1>6. ReqOK(disk', n) /\ ~Standing(n) /\ Reserved(n) = {}
  BY <1>2, <1>4, <1>5 DEF ReqOK, Standing, Reserved
<1>7. FreeMoves(r)
  <2>1. Taken(r)' = {}
    BY <1>1, <1>6 DEF Taken
  <2> QED
    BY <2>1, CommitMoves
<1>8. \A s \in Requests \ {r} : Spares(disk, disk', req[s])
  BY CommitSpares
<1>9. MakerKept(r)
  BY <1>1, <1>2 DEF MakerKept
<1>10. \A s \in Requests \ {r} : Stands(s)'
  BY <1>2, <1>9, StandsKept
<1>11. Stands(r)'
  BY <1>1, <1>6 DEF Stands
<1>12. \A s \in Requests : Stands(s)'
  BY <1>10, <1>11
<1> QED
  BY <1>1, <1>2, <1>3, <1>6, <1>7, <1>8, <1>12, FsStep

(* The last write of handle_write: data in place, or the inode that has    *)
(* grown.                                                                  *)
LEMMA CommitWriteFs ==
    ASSUME LockInv, FsInv, NEW r \in Requests, CommitWrite(r)
    PROVE  FsInv'
<1>1. PICK q, p : q = req[r] /\ p = req[r].curr
  OBVIOUS
<1>2. /\ q.pc = "commit" /\ q.command.op = "write" /\ Goes(r, "unlock")
      /\ free_block_list' = free_block_list
      /\ q.grows => disk' = [disk EXCEPT ![p] = q.inode]
      /\ ~q.grows => disk' = [disk EXCEPT ![q.inode.blocks[q.command.block + 1]] = DataBlock(q.command.data)]
  BY <1>1 DEF CommitWrite
<1>3. /\ disk \in Disks /\ TreeOK(disk) /\ ReqOK(disk, q) /\ p \in InodesOf(disk) /\ p \in Blocks
      /\ q.command \in Commands /\ WriteAt(disk, q)
  BY <1>1, <1>2, AtWork DEF Owning, Changing
<1>4. /\ disk[p].type = "f" /\ ~IsDir(disk, p) /\ Owns(disk, p) = ToSet(disk[p].blocks)
      /\ disk[p].blocks \in Seq(Blocks) /\ Owns(disk, p) \subseteq Blocks
  BY <1>1, <1>3, TreeInode DEF WriteAt
<1>5. CASE q.grows
  <2>1. /\ q.inode = Grown(disk[p], q.new) /\ q.new \in Blocks /\ disk[q.new].kind = "data"
        /\ Len(disk[p].blocks) < FS_MAXFILEBLOCKS
    BY <1>1, <1>2, <1>3, <1>5 DEF WriteAt
  <2>2. q.new \in Taken(r) /\ q.new \notin Used(disk)
    <3>1. q.new \in Reserved(q) /\ q.new # UNDEFINED_BLOCK
      BY <1>2, <2>1, BlocksFacts DEF Reserved
    <3>2. q.new \in Taken(r)
      BY <1>1, <3>1 DEF Taken
    <3> QED
      BY <3>2 DEF FsInv, FreeInv
  <2>3. Len(disk[p].blocks) # FS_MAXFILEBLOCKS
    BY <1>4, <2>1, FileSystemAssumption
  <2>4. q.inode \in Contents
    BY <1>3, <2>1, <2>2, <2>3, GrownType
  <2>5. Commits(r, p, q.inode)
    BY <1>1, <1>2, <1>3, <1>5, <2>4 DEF Commits
  <2>6. disk' \in Disks /\ Written(disk, disk', p, q.inode)
    BY <2>5, CommitFacts
  <2>7. Written(disk, disk', p, Grown(disk[p], q.new))
    BY <2>1, <2>6
  <2>8. InodesOf(disk') = InodesOf(disk) /\ TreeOK(disk') /\ Used(disk') \subseteq Used(disk) \cup {q.new}
    BY <1>3, <1>4, <2>1, <2>2, <2>6, <2>7, GrowFile
  <2> QED
    BY <1>2, <2>2, <2>5, <2>8, DoneFs
<1>6. CASE ~q.grows
  <2>1. PICK w, v, b, u : /\ w = q.inode.blocks[q.command.block + 1] /\ v = DataBlock(q.command.data)
                          /\ b = q.command.block /\ u = disk[p].blocks
    OBVIOUS
  <2>2. b <= Len(u) /\ b # Len(u) /\ q.inode = disk[p]
    BY <1>1, <1>3, <1>6, <2>1 DEF WriteAt
  <2>3. b \in Nat /\ q.command.data \in Data
    BY <1>2, <1>3, <2>1, CommandFacts
  <2>4. u \in Seq(Blocks)
    BY <1>4, <2>1
  <2>5. b + 1 \in DOMAIN u
    BY <2>2, <2>3, <2>4
  <2>6. w = u[b + 1]
    BY <2>1, <2>2
  <2>7. w \in Owns(disk, p)
    BY <1>4, <2>1, <2>5, <2>6 DEF ToSet
  <2>8. v \in Contents /\ v.kind = "data"
    BY <2>1, <2>3 DEF Contents, DataBlock
  <2>9. Commits(r, w, v)
    BY <1>1, <1>2, <1>4, <1>6, <2>1, <2>7, <2>8 DEF Commits
  <2>10. disk' \in Disks /\ Written(disk, disk', w, v)
    BY <2>9, CommitFacts
  <2>11. InodesOf(disk') = InodesOf(disk) /\ TreeOK(disk') /\ Used(disk') \subseteq Used(disk)
    BY <1>3, <1>4, <2>7, <2>8, <2>10, WriteInFile
  <2> QED
    BY <1>2, <2>9, <2>11, DoneFs
<1> QED
  BY <1>5, <1>6

(* The last write of handle_create: the direntry of the new inode. *)
LEMMA CommitCreateFs ==
    ASSUME LockInv, FsInv, NEW r \in Requests, CommitCreate(r)
    PROVE  FsInv'
<1>1. PICK q, p : q = req[r] /\ p = req[r].curr
  OBVIOUS
<1>2. /\ q.pc = "commit" /\ q.command.op = "create" /\ Goes(r, "unlock")
      /\ free_block_list' = free_block_list
      /\ q.grows => disk' = [disk EXCEPT ![p] = q.inode]
      /\ ~q.grows => disk' = [disk EXCEPT ![q.dir] = DirBlock(q.entries)]
  BY <1>1 DEF CommitCreate
<1>3. /\ disk \in Disks /\ TreeOK(disk) /\ ReqOK(disk, q) /\ p \in InodesOf(disk) /\ p \in Blocks
      /\ CreateAt(disk, q) /\ p = q.curr
  BY <1>1, <1>2, AtWork DEF Owning, Changing
<1>4. DirBlock(q.entries) \in Contents /\ q.grows \in BOOLEAN
  BY <1>3 DEF ReqOK, ReqType
<1>5. q.new \in Blocks /\ (q.grows => q.dir \in Blocks)
  BY <1>2, <1>3 DEF CreateAt
<1>6. q.new \in Taken(r) /\ (q.grows => q.dir \in Taken(r))
  BY <1>1, <1>2, <1>5, BlocksFacts DEF Taken, Reserved
<1>7. Taken(r) \cap Used(disk) = {}
  BY DEF FsInv, FreeInv
<1>8. q.new \notin Used(disk) /\ (q.grows => q.dir \notin Used(disk))
  BY <1>6, <1>7
<1>9. \E w, v : Commits(r, w, v) /\ (q.grows => w = p /\ v = q.inode) /\ (~q.grows => w = q.dir /\ v = DirBlock(q.entries))
  <2>1. CASE q.grows
    <3>1. q.inode = Grown(disk[p], q.dir) /\ Len(disk[p].blocks) < FS_MAXFILEBLOCKS
      BY <1>2, <1>3, <2>1 DEF CreateAt
    <3>2. disk[p].blocks \in Seq(Blocks)
      BY <1>3, TreeInode
    <3>3. Len(disk[p].blocks) # FS_MAXFILEBLOCKS
      BY <3>1, <3>2, FileSystemAssumption
    <3>4. q.inode \in Contents
      BY <1>3, <1>5, <1>8, <2>1, <3>1, <3>3, GrownType
    <3>5. Commits(r, p, q.inode)
      BY <1>1, <1>2, <1>3, <2>1, <3>4 DEF Commits
    <3> QED
      BY <2>1, <3>5
  <2>2. CASE ~q.grows
    <3>1. q.dir \in ToSet(disk[p].blocks)
      BY <1>3, <2>2 DEF CreateAt
    <3>2. q.dir \in Owns(disk, p) /\ q.dir \in Blocks
      BY <1>3, <3>1, TreeInode
    <3>3. Commits(r, q.dir, DirBlock(q.entries))
      BY <1>1, <1>2, <1>4, <2>2, <3>2 DEF Commits
    <3> QED
      BY <2>2, <3>3
  <2> QED
    BY <2>1, <2>2
<1>10. PICK w, v : /\ Commits(r, w, v) /\ (q.grows => w = p /\ v = q.inode)
                   /\ (~q.grows => w = q.dir /\ v = DirBlock(q.entries))
  BY <1>9
<1>11. disk' \in Disks /\ Written(disk, disk', w, v)
  BY <1>10, CommitFacts
<1>12. CommitCreateTo(disk, disk', q)
  BY <1>3, <1>10, <1>11 DEF CommitCreateTo
<1>13. Links(disk, disk', q.curr, q.dir, q.place[2], q.new, TargetName(q.command))
  BY <1>2, <1>3, <1>4, <1>8, <1>12, CreateLinks
<1>14. /\ InodesOf(disk') = InodesOf(disk) \cup {q.new} /\ TreeOK(disk')
       /\ Used(disk') \subseteq Used(disk) \cup {q.dir, q.new}
  BY <1>3, <1>11, <1>13, LinkNew
<1>15. q.dir \in Used(disk) \cup Taken(r)
  <2>1. ~q.grows => q.dir \in Owns(disk, p)
    BY <1>3, TreeInode DEF CreateAt
  <2> QED
    BY <1>3, <1>6, <2>1, UsedBlocks
<1> QED
  BY <1>2, <1>6, <1>10, <1>14, <1>15, DoneFs

(* handle_delete unlinks the child. *)
LEMMA CommitDeleteFs ==
    ASSUME LockInv, FsInv, NEW r \in Requests, CommitDelete(r)
    PROVE  FsInv'
<1>1. PICK q, n, p, c, d, e : /\ q = req[r] /\ n = req'[r] /\ p = req[r].curr /\ c = req[r].next
                              /\ d = disk /\ e = disk'
  OBVIOUS
<1> DEFINE pc == IF is_block_empty(q.entries) THEN "free_dir" ELSE "upgrade_child"
<1>2. /\ q.pc = "commit" /\ q.command.op = "delete" /\ Goes(r, pc)
      /\ free_block_list' = free_block_list
      /\ is_block_empty(q.entries) => disk' = [disk EXCEPT ![p] = [q.inode EXCEPT !.blocks = RemoveAt(@, q.place[1])]]
      /\ ~is_block_empty(q.entries) => disk' = [disk EXCEPT ![q.dir] = DirBlock(q.entries)]
  BY <1>1 DEF CommitDelete
<1>3. pc \in {"free_dir", "upgrade_child"} /\ (pc = "free_dir" <=> is_block_empty(q.entries))
  OBVIOUS
<1> HIDE DEF pc
<1>4. OnlyMoves(r) /\ n.pc = pc /\ Onward(q, n)
  BY <1>1, <1>2, GoesFacts
<1>5. /\ d \in Disks /\ TreeOK(d) /\ ReqOK(d, q) /\ p \in InodesOf(d) /\ p \in Blocks
      /\ DeleteAt(d, q) /\ p = q.curr
  BY <1>1, <1>2, AtWork DEF Owning, Deleting
<1>6. /\ c \in InodesOf(d) /\ c \in Blocks /\ q.dir \in Owns(d, p) /\ c # p
  BY <1>1, <1>5, VictimInTree
<1>7. /\ q.inode = d[p] /\ q.place[1] \in DOMAIN d[p].blocks
      /\ d[c].type = "d" => d[c].blocks = <<>>
      /\ q.tofree = <<c>> \o Removed(d[c])
  BY Zenon, <1>1, <1>2, <1>5 DEF DeleteAt
<1>8. DirBlock(q.entries) \in Contents /\ Owns(d, p) \subseteq Blocks
  BY <1>5, TreeInode DEF ReqOK, ReqType
<1>9. \E w, v : /\ Commits(r, w, v) /\ (is_block_empty(q.entries) => w = p /\ v = [q.inode EXCEPT !.blocks = RemoveAt(@, q.place[1])])
                /\ (~is_block_empty(q.entries) => w = q.dir /\ v = DirBlock(q.entries))
  <2>1. CASE is_block_empty(q.entries)
    <3>1. PICK v : v = [q.inode EXCEPT !.blocks = RemoveAt(@, q.place[1])]
      OBVIOUS
    <3>2. v = Shrunk(d[p], q.place[1])
      BY <1>7, <3>1 DEF Shrunk
    <3>3. v \in Contents
      BY <1>5, <1>7, <3>2, ShrunkFacts
    <3>4. Commits(r, p, v)
      BY <1>1, <1>2, <1>5, <2>1, <3>1, <3>3 DEF Commits
    <3> QED
      BY <2>1, <3>1, <3>4
  <2>2. CASE ~is_block_empty(q.entries)
    <3>1. Commits(r, q.dir, DirBlock(q.entries))
      BY <1>1, <1>2, <1>6, <1>8, <2>2 DEF Commits
    <3> QED
      BY <2>2, <3>1
  <2> QED
    BY <2>1, <2>2
<1>10. PICK w, v : /\ Commits(r, w, v) /\ (is_block_empty(q.entries) => w = p /\ v = [q.inode EXCEPT !.blocks = RemoveAt(@, q.place[1])])
                   /\ (~is_block_empty(q.entries) => w = q.dir /\ v = DirBlock(q.entries))
  BY <1>9
<1>11. e \in Disks /\ Written(d, e, w, v) /\ \A x \in InodesOf(d) \ {p} : SameAt(d, e, x)
  BY <1>1, <1>10, CommitFacts
<1>12. CommitDeleteTo(d, e, q)
  BY <1>5, <1>10, <1>11 DEF CommitDeleteTo
<1>13. /\ Unlinks(d, e, p, q.dir, q.place[2], c)
       /\ is_block_empty(q.entries) <=> q.dir \notin Owns(e, p)
  BY <1>1, <1>2, <1>5, <1>12, DeleteUnlinks
<1>14. /\ InodesOf(e) = InodesOf(d) \ {c} /\ TreeOK(e) /\ Used(e) \subseteq Used(d)
       /\ c \notin Used(e) /\ Owns(d, c) \cap Used(e) = {}
       /\ is_block_empty(q.entries) => q.dir \notin Used(e)
  BY <1>5, <1>11, <1>13, LoseLink
<1>15. /\ d[c].kind = "inode" /\ IsInjective(d[c].blocks) /\ c \notin Owns(d, c)
       /\ IsDir(d, c) => Owns(d, c) = {}
  <2>1. /\ d[c].kind = "inode" /\ IsInjective(d[c].blocks) /\ Owns(d, c) \cap InodesOf(d) = {}
        /\ IsDir(d, c) <=> d[c].type = "d"
        /\ Owns(d, c) = ToSet(d[c].blocks)
    BY <1>5, <1>6, TreeInode
  <2> QED
    BY <1>6, <1>7, <2>1, EmptyLemma
<1>16. ToSet(q.tofree) = {c} \cup Owns(d, c) /\ IsInjective(q.tofree)
  BY <1>5, <1>6, <1>7, <1>15, FreedBlocks
<1>17. q.dir \in Blocks /\ q.dir \notin ToSet(q.tofree)
  <2>1. Owns(d, p) \cap InodesOf(d) = {} /\ Owns(d, p) \cap Owns(d, c) = {}
    BY <1>5, <1>6 DEF TreeOK, Apart
  <2> QED
    BY <1>6, <1>8, <1>16, <2>1
<1>18. VictimAt(e, n)
  <2>1. /\ e[c] = d[c] /\ (IsDir(e, c) <=> IsDir(d, c)) /\ Owns(e, c) = Owns(d, c)
    <3>1. SameAt(d, e, c)
      BY <1>6, <1>11
    <3>2. e[c] = d[c]
      BY <3>1 DEF SameAt
    <3> QED
      BY <3>1, <3>2, SameInode
  <2>2. n.next = c /\ n.tofree = q.tofree /\ n.dir = q.dir /\ n.curr = p
    BY <1>1, <1>4 DEF Onward
  <2> QED
    BY <1>6, <1>7, <1>15, <1>16, <1>17, <2>1, <2>2 DEF VictimAt
<1>19. At(e, n)
  BY <1>3, <1>4, <1>18 DEF At, Walking, Owning, Changing, Deleting, Unlinked
<1>20. OpAt(n)
  BY <1>2, <1>3, <1>4 DEF OpAt, Onward
<1>21. Fresh(n) /\ PathInv(n) /\ ReqType(n)
  <2>1. PathInv(q) /\ Fresh(q) /\ ReqType(q) /\ Active(q)
    BY <1>2, <1>5 DEF ReqOK, Active
  <2>2. n.pc \notin Early /\ n.pc \notin Walking /\ n.pc \notin {"lookup", "check"}
    BY <1>3, <1>4 DEF Early, Walking
  <2> QED
    BY <1>4, <2>1, <2>2, OnwardReserved
<1>22. ReqOK(e, n) /\ ~Standing(n)
  BY <1>3, <1>4, <1>19, <1>20, <1>21 DEF ReqOK, Standing
<1>23. FreeMoves(r)
  <2>1. /\ ToSet(q.tofree) \subseteq Used(d) /\ q.dir \in Used(d)
        /\ ToSet(q.tofree) \cap Used(e) = {}
    BY <1>5, <1>6, <1>14, <1>16, UsedBlocks
  <2>2. n.pc = "free_dir" => q.dir \notin Used(e)
    BY <1>3, <1>4, <1>14
  <2>3. Reserved(n) = (IF n.pc = "free_dir" THEN {q.dir} ELSE {}) \cup ToSet(q.tofree)
    BY <1>2, <1>3, <1>4 DEF Reserved, Onward
  <2>4. Taken(r)' \subseteq Used(d) /\ Taken(r)' \cap Used(e) = {}
    BY <1>1, <2>1, <2>2, <2>3 DEF Taken
  <2>5. Used(disk') \cup Taken(r)' \subseteq Used(disk) \cup Taken(r) /\ Taken(r)' \cap Used(disk') = {}
    BY <1>1, <1>14, <2>4
  <2> QED
    BY <1>2, <2>5, CommitMoves
<1>24. \A s \in Requests \ {r} : Spares(disk, disk', req[s])
  <2>1. \A x \in InodesOf(disk) : x \in InodesOf(disk') \/ (req[r].command.op = "delete" /\ x = req[r].next)
    BY <1>1, <1>2, <1>14
  <2> QED
    BY <1>10, <2>1, CommitSpares
<1>25. ASSUME NEW s \in Requests PROVE Stands(s)'
  <2>1. CASE s = r
    BY <1>1, <1>22, <2>1 DEF Stands
  <2>2. CASE s # r
    <3>1. req'[s] = req[s] /\ Stands(s)
      BY <1>4, <2>2 DEF OnlyMoves, FsInv
    <3> SUFFICES ASSUME Standing(req[s])
                 PROVE  req[s].curr \in Blocks /\ (req[s].curr \in InodesOf(disk') \/ Orphan(s)')
      BY <3>1 DEF Stands
    <3>2. req[s].curr \in Blocks /\ (req[s].curr \in InodesOf(disk) \/ Orphan(s))
      BY <3>1 DEF Stands
    <3>3. ASSUME Orphan(s) PROVE Orphan(s)'
      <4>1. PICK t \in Requests : req[t].pc \in {"free_dir", "upgrade_child"} /\ req[t].next = req[s].curr
        BY <3>3 DEF Orphan
      <4>2. t # r
        BY <1>1, <1>2, <4>1
      <4> QED
        BY <1>4, <3>1, <4>1, <4>2 DEF Orphan, OnlyMoves
    <3>4. ASSUME req[s].curr = c PROVE Orphan(s)'
      <4>1. req'[r].pc \in {"free_dir", "upgrade_child"} /\ req'[r].next = req'[s].curr
        BY <1>1, <1>3, <1>4, <3>1, <3>4 DEF Onward
      <4> QED
        BY <4>1 DEF Orphan
    <3> QED
      BY <1>1, <1>14, <3>2, <3>3, <3>4
  <2> QED
    BY <2>1, <2>2
<1>26. disk' \in Disks /\ TreeOK(disk') /\ ReqOK(disk', req'[r])
  BY <1>1, <1>11, <1>14, <1>22
<1> QED
  BY <1>4, <1>23, <1>24, <1>25, <1>26, FsStep

-----------------------------------------------------------------------------
(* The soundness of the tree as FileSystem states it.                      *)

(* As many members as places: no member twice. *)
LEMMA DistinctIs ==
    ASSUME NEW S, NEW s \in Seq(S)
    PROVE  Distinct(s) <=> IsInjective(s)
<1>1. IsInjective(s) => Distinct(s)
  BY InjectiveCardinality DEF Distinct
<1>2. ASSUME Distinct(s) PROVE IsInjective(s)
  <2>1. PICK n : n = Len(s)
    OBVIOUS
  <2>2. n \in Nat /\ DOMAIN s = 1 .. n
    BY <2>1
  <2>3. s \in Surjection(1 .. n, ToSet(s))
    BY <2>2 DEF Surjection, ToSet
  <2>4. IsFiniteSet(1 .. n) /\ Cardinality(1 .. n) = n
    BY <2>2, FS_Interval
  <2>5. Cardinality(ToSet(s)) = Cardinality(1 .. n)
    BY <1>2, <2>1, <2>4 DEF Distinct
  <2>6. s \in Injection(1 .. n, ToSet(s))
    BY <2>3, <2>4, <2>5, FS_Surjection
  <2> QED
    BY <2>2, <2>6 DEF Injection, IsInjective
<1> QED
  BY <1>1, <1>2

(* At most one member *)
LEMMA AtMostOne ==
    ASSUME NEW T, IsFiniteSet(T)
    PROVE  Cardinality(T) <= 1 <=> \A x, y \in T : x = y
<1>0. Cardinality(T) \in Nat
  BY FS_CardinalityType
<1>1. ASSUME Cardinality(T) <= 1, NEW x \in T, NEW y \in T PROVE x = y
  <2>1. Cardinality(T) # 0
    BY FS_EmptySet
  <2>2. Cardinality(T) = 1
    BY <1>0, <1>1, <2>1
  <2>3. \E z : T = {z}
    BY <2>2, FS_Singleton
  <2> QED
    BY <1>1, <2>3
<1>2. ASSUME \A x, y \in T : x = y PROVE Cardinality(T) <= 1
  <2>1. CASE T = {}
    BY <2>1, FS_EmptySet
  <2>2. CASE T # {}
    <3>1. PICK x : T = {x}
      BY <1>2, <2>2
    <3> QED
      BY <3>1, FS_Singleton
  <2> QED
    BY <2>1, <2>2
<1> QED
  BY <1>1, <1>2

(* The places of an inode, and what they lead to *)
LEMMA PlacesAre ==
    ASSUME NEW d \in Disks, NEW x \in Blocks
    PROVE  /\ IsFiniteSet(Places(Inode(d, x)))
           /\ Places(Inode(d, x)) = (1 .. Len(Inode(d, x).blocks)) \X Slots
           /\ \A i \in 1 .. Len(Inode(d, x).blocks), j \in Slots :
                /\ <<i, j>> \in Places(Inode(d, x))
                /\ EntryAt(d, Inode(d, x), <<i, j>>) = Entries(d, Inode(d, x).blocks[i])[j]
                /\ Inode(d, x).blocks[i] \in Owns(d, x)
<1>1. PICK s, n : s = Inode(d, x).blocks /\ n = Len(s)
  OBVIOUS
<1>2. n \in Nat /\ DOMAIN s = 1 .. n
  BY <1>1, InodeFacts
<1>3. Places(Inode(d, x)) = (1 .. n) \X Slots
  BY <1>1, <1>2 DEF Places
<1>4. IsFiniteSet(1 .. n) /\ IsFiniteSet(Slots)
  BY <1>2, FS_Interval, FileSystemAssumption DEF Slots
<1>5. IsFiniteSet((1 .. n) \X Slots)
  BY <1>4, FS_Product
<1>6. \A i \in 1 .. n, j \in Slots : EntryAt(d, Inode(d, x), <<i, j>>) = Entries(d, s[i])[j]
  BY <1>1 DEF EntryAt
<1>7. \A i \in 1 .. n : s[i] \in Owns(d, x)
  BY <1>1, <1>2 DEF Owns, ToSet
<1> QED
  BY <1>1, <1>3, <1>5, <1>6, <1>7

(* A name occurs once. *)
LEMMA NamesAre ==
    ASSUME NEW d \in Disks, NEW x \in Blocks, IsInjective(Inode(d, x).blocks)
    PROVE  (\A name \in Names : Cardinality(Named(d, Inode(d, x), name)) <= 1) <=> NamesOK(d, x)
<1>1. PICK s, n, I : s = Inode(d, x).blocks /\ n = Len(s) /\ I = Inode(d, x)
  OBVIOUS
<1>2. /\ n \in Nat /\ DOMAIN s = 1 .. n /\ IsInjective(s)
      /\ IsFiniteSet(Places(I)) /\ Places(I) = (1 .. n) \X Slots
      /\ \A i \in 1 .. n, j \in Slots :
           <<i, j>> \in Places(I) /\ EntryAt(d, I, <<i, j>>) = Entries(d, s[i])[j] /\ s[i] \in Owns(d, x)
      /\ Owns(d, x) = {s[i] : i \in 1 .. n}
  <2>1. n \in Nat /\ DOMAIN s = 1 .. n /\ IsInjective(s)
    BY <1>1, InodeFacts
  <2>2. Owns(d, x) = {s[i] : i \in 1 .. n}
    BY <1>1, <2>1 DEF Owns, ToSet
  <2>3. IsFiniteSet(Places(I)) /\ Places(I) = (1 .. n) \X Slots
    BY <1>1, PlacesAre
  <2>4. \A i \in 1 .. n, j \in Slots :
          <<i, j>> \in Places(I) /\ EntryAt(d, I, <<i, j>>) = Entries(d, s[i])[j] /\ s[i] \in Owns(d, x)
    <3> TAKE i \in 1 .. n, j \in Slots
    <3>1. i \in 1 .. Len(Inode(d, x).blocks)
      BY <1>1
    <3> QED
      BY <1>1, <3>1, PlacesAre
  <2> QED
    BY <2>1, <2>2, <2>3, <2>4
<1>3. ASSUME NEW name PROVE IsFiniteSet(Named(d, I, name))
  <2>1. Named(d, I, name) \in SUBSET Places(I)
    BY DEF Named
  <2> QED
    BY <1>2, <2>1, FS_Subset
<1>4. ASSUME NEW name
      PROVE  Cardinality(Named(d, I, name)) <= 1 <=> \A a, b \in Named(d, I, name) : a = b
  BY <1>3, AtMostOne
<1>5. ASSUME \A name \in Names : Cardinality(Named(d, I, name)) <= 1
      PROVE  NamesOK(d, x)
  <2> SUFFICES ASSUME NEW b \in Owns(d, x), NEW c \in Owns(d, x), NEW j \in Slots, NEW k \in Slots,
                      Leads(d, b, j) # 0, Leads(d, c, k) # 0, Entries(d, b)[j].name \in Names,
                      Entries(d, b)[j].name = Entries(d, c)[k].name
               PROVE  b = c /\ j = k
    BY DEF NamesOK
  <2>1. PICK i \in 1 .. n, h \in 1 .. n : b = s[i] /\ c = s[h]
    BY <1>2
  <2>2. PICK name \in Names : name = Entries(d, b)[j].name
    OBVIOUS
  <2>3. <<i, j>> \in Named(d, I, name) /\ <<h, k>> \in Named(d, I, name)
    BY <1>2, <2>1, <2>2 DEF Named, Leads
  <2>4. <<i, j>> = <<h, k>>
    BY <1>4, <1>5, <2>3
  <2> QED
    BY <2>1, <2>4
<1>6. ASSUME NamesOK(d, x), NEW name \in Names, NEW a \in Named(d, I, name), NEW b \in Named(d, I, name)
      PROVE  a = b
  <2>1. a \in Places(I) /\ b \in Places(I)
    BY DEF Named
  <2>2. PICK i \in 1 .. n, j \in Slots, h \in 1 .. n, k \in Slots : a = <<i, j>> /\ b = <<h, k>>
    BY <1>2, <2>1
  <2>3. /\ Leads(d, s[i], j) # 0 /\ Leads(d, s[h], k) # 0
        /\ Entries(d, s[i])[j].name = name /\ Entries(d, s[h])[k].name = name
    BY <1>2, <2>2 DEF Named, Leads
  <2>4. s[i] = s[h] /\ j = k
    BY <1>2, <1>6, <2>3 DEF NamesOK
  <2>5. i = h
    BY <1>2, <2>4 DEF IsInjective
  <2> QED
    BY <2>2, <2>4, <2>5
<1> QED
  BY <1>1, <1>4, <1>5, <1>6

(* The direntries in use, by directory and place *)
LinkSet(d) ==
    UNION {{<<x, ij>> : ij \in {kl \in Places(Inode(d, x)) :
                EntryAt(d, Inode(d, x), kl).inode_block # 0}} :
           x \in {y \in InodesOf(d) : Inode(d, y).type = "d"}}
LinkTo(d) == [l \in LinkSet(d) |-> EntryAt(d, Inode(d, l[1]), l[2]).inode_block]

(* They are the direntries of HasChild. *)
LEMMA LinkSetIs ==
    ASSUME NEW d \in Disks
    PROVE  /\ \A l \in LinkSet(d) : \E x \in InodesOf(d), i \in Nat, j \in Slots :
                /\ i \in 1 .. Len(Inode(d, x).blocks) /\ l = <<x, <<i, j>> >> /\ IsDir(d, x) /\ Inode(d, x).blocks[i] \in Owns(d, x)
                /\ Leads(d, Inode(d, x).blocks[i], j) # 0
                /\ LinkTo(d)[l] = Leads(d, Inode(d, x).blocks[i], j)
           /\ \A x \in InodesOf(d) : \A i \in 1 .. Len(Inode(d, x).blocks), j \in Slots :
                IsDir(d, x) /\ Leads(d, Inode(d, x).blocks[i], j) # 0
                  => /\ <<x, <<i, j>> >> \in LinkSet(d)
                     /\ LinkTo(d)[<<x, <<i, j>> >>] = Leads(d, Inode(d, x).blocks[i], j)
<1>0. InodesOf(d) \subseteq Blocks
  BY ReachFacts
<1>1. ASSUME NEW x \in InodesOf(d), NEW i \in 1 .. Len(Inode(d, x).blocks), NEW j \in Slots
      PROVE  /\ <<i, j>> \in Places(Inode(d, x)) /\ Inode(d, x).blocks[i] \in Owns(d, x)
             /\ EntryAt(d, Inode(d, x), <<i, j>>).inode_block = Leads(d, Inode(d, x).blocks[i], j)
  BY <1>0, PlacesAre DEF Leads
<1>2. ASSUME NEW l \in LinkSet(d)
      PROVE  \E x \in InodesOf(d), i \in Nat, j \in Slots :
                /\ i \in 1 .. Len(Inode(d, x).blocks) /\ l = <<x, <<i, j>> >> /\ IsDir(d, x) /\ Inode(d, x).blocks[i] \in Owns(d, x)
                /\ Leads(d, Inode(d, x).blocks[i], j) # 0
                /\ LinkTo(d)[l] = Leads(d, Inode(d, x).blocks[i], j)
  <2>1. PICK x, ij : /\ x \in InodesOf(d) /\ ij \in Places(Inode(d, x)) /\ l = <<x, ij>>
                     /\ Inode(d, x).type = "d" /\ EntryAt(d, Inode(d, x), ij).inode_block # 0
    BY DEF LinkSet
  <2>2. Places(Inode(d, x)) = (1 .. Len(Inode(d, x).blocks)) \X Slots
    BY <1>0, <2>1, PlacesAre
  <2>3. PICK i \in 1 .. Len(Inode(d, x).blocks), j \in Slots : ij = <<i, j>>
    BY <2>1, <2>2
  <2>4. LinkTo(d)[l] = EntryAt(d, Inode(d, x), ij).inode_block
    BY <2>1 DEF LinkTo
  <2> QED
    BY <1>1, <2>1, <2>3, <2>4 DEF IsDir
<1>3. ASSUME NEW x \in InodesOf(d), NEW i \in 1 .. Len(Inode(d, x).blocks), NEW j \in Slots,
             IsDir(d, x), Leads(d, Inode(d, x).blocks[i], j) # 0
      PROVE  /\ <<x, <<i, j>> >> \in LinkSet(d)
             /\ LinkTo(d)[<<x, <<i, j>> >>] = Leads(d, Inode(d, x).blocks[i], j)
  <2>1. <<x, <<i, j>> >> \in LinkSet(d)
    <3>1. PICK ij : ij = <<i, j>>
      OBVIOUS
    <3>2. ij \in Places(Inode(d, x)) /\ EntryAt(d, Inode(d, x), ij).inode_block # 0 /\ Inode(d, x).type = "d"
      BY <1>1, <1>3, <3>1 DEF IsDir
    <3>3. <<x, ij>> \in LinkSet(d)
      BY <3>2 DEF LinkSet
    <3> QED
      BY <3>1, <3>3
  <2>2. LinkTo(d)[<<x, <<i, j>> >>] = EntryAt(d, Inode(d, x), <<i, j>>).inode_block
    BY <2>1 DEF LinkTo
  <2> QED
    BY <1>1, <2>1, <2>2
<1> QED
  BY <1>2, <1>3

(* They lead to the inodes but the root. *)
LEMMA LinksOnto ==
    ASSUME NEW d \in Disks
    PROVE  /\ IsFiniteSet(LinkSet(d)) /\ IsFiniteSet(InodesOf(d))
           /\ LinkTo(d) \in Surjection(LinkSet(d), InodesOf(d) \ {0})
<1>0. InodesOf(d) \subseteq Blocks /\ \A x \in InodesOf(d) : \A y : HasChild(d, x, y) => y \in InodesOf(d)
  BY ReachFacts
<1>1. IsFiniteSet(InodesOf(d))
  BY <1>0, BlocksFacts, FS_Subset
<1>2. PICK m : m = FS_MAXFILEBLOCKS
  OBVIOUS
<1>3. LinkSet(d) \in SUBSET (Blocks \X ((1 .. m) \X Slots))
  <2>1. ASSUME NEW l \in LinkSet(d) PROVE l \in Blocks \X ((1 .. m) \X Slots)
    <3>1. PICK x \in InodesOf(d), i \in Nat, j \in Slots : /\ i \in 1 .. Len(Inode(d, x).blocks) /\ l = <<x, <<i, j>> >>
      BY LinkSetIs
    <3>2. PICK k : k = Len(Inode(d, x).blocks)
      OBVIOUS
    <3>3. k \in Nat /\ k <= m /\ m \in Nat /\ i \in 1 .. k
      BY <1>0, <1>2, <3>1, <3>2, InodeFacts, FileSystemAssumption
    <3>4. i \in 1 .. m
      BY <3>3
    <3> QED
      BY <1>0, <3>1, <3>4
  <2> QED
    BY <2>1
<1>4. IsFiniteSet(Blocks \X ((1 .. m) \X Slots))
  <2>1. IsFiniteSet(1 .. m) /\ IsFiniteSet(Slots) /\ IsFiniteSet(Blocks)
    BY <1>2, FS_Interval, FileSystemAssumption, BlocksFacts DEF Slots
  <2>2. IsFiniteSet((1 .. m) \X Slots)
    BY <2>1, FS_Product
  <2> QED
    BY <2>1, <2>2, FS_Product
<1>5. IsFiniteSet(LinkSet(d))
  BY <1>3, <1>4, FS_Subset
<1>6. ASSUME NEW l \in LinkSet(d) PROVE LinkTo(d)[l] \in InodesOf(d) \ {0}
  <2>1. PICK x \in InodesOf(d), i \in Nat, j \in Slots :
                /\ i \in 1 .. Len(Inode(d, x).blocks) /\ l = <<x, <<i, j>> >> /\ IsDir(d, x) /\ Inode(d, x).blocks[i] \in Owns(d, x)
                /\ Leads(d, Inode(d, x).blocks[i], j) # 0
                /\ LinkTo(d)[l] = Leads(d, Inode(d, x).blocks[i], j)
    BY LinkSetIs
  <2>2. HasChild(d, x, LinkTo(d)[l])
    BY <2>1 DEF HasChild
  <2> QED
    BY <1>0, <2>1, <2>2
<1>7. ASSUME NEW c \in InodesOf(d) \ {0} PROVE \E l \in LinkSet(d) : LinkTo(d)[l] = c
  <2>1. PICK x \in InodesOf(d) : HasChild(d, x, c)
    BY HasParent
  <2>2. PICK b \in Owns(d, x), j \in Slots : IsDir(d, x) /\ Leads(d, b, j) = c
    BY <2>1 DEF HasChild
  <2>3. DOMAIN Inode(d, x).blocks = 1 .. Len(Inode(d, x).blocks)
    BY <1>0, InodeFacts
  <2>4. PICK i \in 1 .. Len(Inode(d, x).blocks) : b = Inode(d, x).blocks[i]
    BY <2>3 DEF Owns, ToSet
  <2>5. /\ <<x, <<i, j>> >> \in LinkSet(d)
        /\ LinkTo(d)[<<x, <<i, j>> >>] = Leads(d, Inode(d, x).blocks[i], j)
    BY <2>2, <2>4, LinkSetIs
  <2> QED
    BY <2>2, <2>4, <2>5
<1>8. LinkTo(d) \in [LinkSet(d) -> InodesOf(d) \ {0}]
  BY <1>6 DEF LinkTo
<1>9. LinkTo(d) \in Surjection(LinkSet(d), InodesOf(d) \ {0})
  BY <1>7, <1>8 DEF Surjection
<1> QED
  BY <1>1, <1>5, <1>9

(* There are as many links as inodes but the root exactly if no inode has  *)
(* two.                                                                    *)
LEMMA LinksAre ==
    ASSUME NEW d \in Disks, \A x \in InodesOf(d) : IsInjective(Inode(d, x).blocks),
           \A x, y \in InodesOf(d) : Apart(d, x, y)
    PROVE  Cardinality(LinkSet(d)) = Cardinality(InodesOf(d)) - 1 <=>
             \A x, y \in InodesOf(d) : IsDir(d, x) /\ IsDir(d, y) => LinksOK(d, x, y)
<1>0. InodesOf(d) \subseteq Blocks /\ 0 \in InodesOf(d)
  BY ReachFacts
<1>1. PICK f, L, T : f = LinkTo(d) /\ L = LinkSet(d) /\ T = InodesOf(d) \ {0}
  OBVIOUS
<1>2. IsFiniteSet(L) /\ IsFiniteSet(InodesOf(d)) /\ f \in Surjection(L, T)
  BY <1>1, LinksOnto
<1>3. Cardinality(T) = Cardinality(InodesOf(d)) - 1
  BY <1>0, <1>1, <1>2, FS_RemoveElement
<1>4. Cardinality(T) = Cardinality(L) <=> f \in Injection(L, T)
  BY <1>2, FS_Surjection
<1>5. f \in Injection(L, T) <=> \A a, b \in L : f[a] = f[b] => a = b
  <2>1. f \in [L -> T] /\ DOMAIN f = L
    BY <1>2 DEF Surjection
  <2> QED
    BY <2>1 DEF Injection, IsInjective
<1>6. ASSUME \A a, b \in L : f[a] = f[b] => a = b,
             NEW x \in InodesOf(d), NEW y \in InodesOf(d), IsDir(d, x), IsDir(d, y)
      PROVE  LinksOK(d, x, y)
  <2> SUFFICES ASSUME NEW b \in Owns(d, x), NEW c \in Owns(d, y), NEW j \in Slots, NEW k \in Slots,
                      Leads(d, b, j) # 0, Leads(d, b, j) = Leads(d, c, k)
               PROVE  b = c /\ j = k
    BY DEF LinksOK
  <2>1. /\ DOMAIN Inode(d, x).blocks = 1 .. Len(Inode(d, x).blocks)
        /\ DOMAIN Inode(d, y).blocks = 1 .. Len(Inode(d, y).blocks)
    BY <1>0, InodeFacts
  <2>2. PICK i \in 1 .. Len(Inode(d, x).blocks) : b = Inode(d, x).blocks[i]
    BY <2>1 DEF Owns, ToSet
  <2>3. PICK h \in 1 .. Len(Inode(d, y).blocks) : c = Inode(d, y).blocks[h]
    BY <2>1 DEF Owns, ToSet
  <2>4. /\ <<x, <<i, j>> >> \in L /\ f[<<x, <<i, j>> >>] = Leads(d, b, j)
        /\ <<y, <<h, k>> >> \in L /\ f[<<y, <<h, k>> >>] = Leads(d, c, k)
    BY <1>1, <1>6, <2>2, <2>3, LinkSetIs
  <2>5. <<x, <<i, j>> >> = <<y, <<h, k>> >>
    BY <1>6, <2>4
  <2> QED
    BY <2>2, <2>3, <2>5
<1>7. ASSUME \A x, y \in InodesOf(d) : IsDir(d, x) /\ IsDir(d, y) => LinksOK(d, x, y),
             NEW l \in L, NEW m \in L, f[l] = f[m]
      PROVE  l = m
  <2>1. PICK x \in InodesOf(d), i \in Nat, j \in Slots :
                /\ i \in 1 .. Len(Inode(d, x).blocks) /\ l = <<x, <<i, j>> >> /\ IsDir(d, x) /\ Inode(d, x).blocks[i] \in Owns(d, x)
                /\ Leads(d, Inode(d, x).blocks[i], j) # 0
                /\ f[l] = Leads(d, Inode(d, x).blocks[i], j)
    BY <1>1, LinkSetIs
  <2>2. PICK y \in InodesOf(d), h \in Nat, k \in Slots :
                /\ h \in 1 .. Len(Inode(d, y).blocks) /\ m = <<y, <<h, k>> >> /\ IsDir(d, y) /\ Inode(d, y).blocks[h] \in Owns(d, y)
                /\ Leads(d, Inode(d, y).blocks[h], k) # 0
                /\ f[m] = Leads(d, Inode(d, y).blocks[h], k)
    BY <1>1, LinkSetIs
  <2>3. LinksOK(d, x, y)
    BY <1>7, <2>1, <2>2
  <2>4. Inode(d, x).blocks[i] = Inode(d, y).blocks[h] /\ j = k
    BY <1>7, <2>1, <2>2, <2>3 DEF LinksOK
  <2>5. x = y
    BY <2>1, <2>2, <2>4 DEF Apart
  <2>6. i = h
    <3>1. i \in DOMAIN Inode(d, x).blocks /\ h \in DOMAIN Inode(d, x).blocks
      BY <1>0, <2>1, <2>2, <2>5, InodeFacts
    <3> QED
      BY <2>4, <2>5, <3>1 DEF IsInjective
  <2> QED
    BY <2>1, <2>2, <2>4, <2>5, <2>6
<1>8. (\A a, b \in L : f[a] = f[b] => a = b) <=>
        \A x, y \in InodesOf(d) : IsDir(d, x) /\ IsDir(d, y) => LinksOK(d, x, y)
  BY <1>6, <1>7
<1> QED
  BY <1>1, <1>3, <1>4, <1>5, <1>8

(* The tree is sound, as the invariant says it and as Consistent does. *)
LEMMA SoundTree ==
    ASSUME NEW d \in Disks
    PROVE  Consistent(d) <=> TreeOK(d)
<1> DEFINE R == InodesOf(d)
           s(x) == Inode(d, x).blocks
<1>0. R \subseteq Blocks
  BY ReachFacts
<1>1. \A x \in R : /\ s(x) \in Seq(Blocks) /\ Len(s(x)) <= FS_MAXFILEBLOCKS
                   /\ DOMAIN s(x) = 1 .. Len(s(x)) /\ Owns(d, x) = ToSet(s(x))
                   /\ Owns(d, x) = {s(x)[i] : i \in DOMAIN s(x)}
                   /\ d[x].kind = "inode" => Inode(d, x) = d[x] /\ Inode(d, x).type \in {"f", "d"}
  <2> SUFFICES ASSUME NEW x \in R
               PROVE /\ s(x) \in Seq(Blocks) /\ Len(s(x)) <= FS_MAXFILEBLOCKS
                     /\ DOMAIN s(x) = 1 .. Len(s(x)) /\ Owns(d, x) = ToSet(s(x))
                     /\ Owns(d, x) = {s(x)[i] : i \in DOMAIN s(x)}
                     /\ d[x].kind = "inode" => Inode(d, x) = d[x] /\ Inode(d, x).type \in {"f", "d"}
    OBVIOUS
  <2>1. d[x] \in Contents
    BY <1>0 DEF Disks
  <2>2. d[x].kind = "inode" => Inode(d, x) = d[x] /\ Inode(d, x).type \in {"f", "d"}
    BY <2>1, ContentKinds DEF Inode
  <2>3. Owns(d, x) = ToSet(s(x)) /\ Owns(d, x) = {s(x)[i] : i \in DOMAIN s(x)}
    BY DEF Owns, ToSet
  <2> QED
    BY <1>0, <2>2, <2>3, InodeFacts
<1>2. \A x \in R : Distinct(s(x)) <=> IsInjective(s(x))
  BY <1>1, DistinctIs
<1>3. ASSUME Consistent(d) PROVE TreeOK(d)
  <2>1. /\ IsDir(d, ROOT_INODE)
        /\ \A x \in R : /\ d[x].kind = "inode" /\ Distinct(s(x)) /\ ToSet(s(x)) \cap R = {}
                        /\ \A y \in R \ {x} : ToSet(s(x)) \cap ToSet(s(y)) = {}
                        /\ Inode(d, x).type = "d" =>
                             /\ \A i \in DOMAIN s(x) : d[s(x)[i]].kind = "dir" /\ ~\A j \in Slots :
                                     Entries(d, s(x)[i])[j].inode_block = 0
                             /\ \A n \in Names : Cardinality(Named(d, Inode(d, x), n)) <= 1
                        /\ Inode(d, x).type = "f" => \A i \in DOMAIN s(x) : d[s(x)[i]].kind = "data"
        /\ Cardinality(LinkSet(d)) = Cardinality(R) - 1
    BY <1>3 DEF Consistent, LinkSet, IsDir
  <2> HIDE DEF s
  <2>2. ASSUME NEW x \in R
        PROVE  InodeOK(d, x) /\ Owns(d, x) \cap R = {} /\ (IsDir(d, x) => NamesOK(d, x))
    <3>1. d[x].kind = "inode" /\ Inode(d, x) = d[x] /\ Inode(d, x).type \in {"f", "d"} /\ IsInjective(s(x))
      BY <1>1, <1>2, <2>1
    <3>2. IsInjective(d[x].blocks)
      BY <3>1 DEF s
    <3>3. IsDir(d, x) => \A b \in Owns(d, x) : d[b].kind = "dir" /\ \E j \in Slots : Leads(d, b, j) # 0
      BY <1>1, <2>1 DEF IsDir, Leads
    <3>4. ~IsDir(d, x) => \A b \in Owns(d, x) : d[b].kind = "data"
      BY <1>1, <2>1, <3>1 DEF IsDir
    <3>5. IsDir(d, x) => NamesOK(d, x)
      BY <1>0, <2>1, <3>1, NamesAre DEF IsDir, s
    <3> QED
      BY <1>1, <2>1, <3>1, <3>2, <3>3, <3>4, <3>5 DEF InodeOK
  <2>3. ASSUME NEW x \in R, NEW y \in R PROVE Apart(d, x, y)
    BY <1>1, <2>1 DEF Apart
  <2>4. \A x \in R : IsInjective(Inode(d, x).blocks)
    BY <1>2, <2>1 DEF s
  <2>5. \A x, y \in R : IsDir(d, x) /\ IsDir(d, y) => LinksOK(d, x, y)
    BY <2>1, <2>3, <2>4, LinksAre
  <2> QED
    BY <2>1, <2>2, <2>3, <2>5 DEF TreeOK
<1>4. ASSUME TreeOK(d) PROVE Consistent(d)
  <2>1. /\ IsDir(d, ROOT_INODE)
        /\ \A x \in R : InodeOK(d, x) /\ Owns(d, x) \cap R = {} /\ (IsDir(d, x) => NamesOK(d, x))
        /\ \A x, y \in R : Apart(d, x, y) /\ (IsDir(d, x) /\ IsDir(d, y) => LinksOK(d, x, y))
    BY <1>4 DEF TreeOK
  <2>2. \A x \in R : d[x].kind = "inode" /\ Inode(d, x) = d[x] /\ IsInjective(Inode(d, x).blocks)
    BY <1>1, <2>1 DEF InodeOK
  <2>3. Cardinality(LinkSet(d)) = Cardinality(R) - 1
    BY <2>1, <2>2, LinksAre
  <2>4. \A x \in R : Distinct(s(x))
    BY <1>2, <2>2
  <2> HIDE DEF s
  <2>5. ASSUME NEW x \in R
        PROVE  /\ ToSet(s(x)) \cap R = {}
               /\ \A y \in R \ {x} : ToSet(s(x)) \cap ToSet(s(y)) = {}
    BY <1>1, <2>1 DEF Apart
  <2>6. ASSUME NEW x \in R, Inode(d, x).type = "d"
        PROVE  /\ \A i \in DOMAIN s(x) : d[s(x)[i]].kind = "dir" /\ ~\A j \in Slots :
                        Entries(d, s(x)[i])[j].inode_block = 0
               /\ \A n \in Names : Cardinality(Named(d, Inode(d, x), n)) <= 1
    <3>1. NamesOK(d, x) /\ IsDir(d, x)
      BY <2>1, <2>6 DEF IsDir
    <3>2. \A n \in Names : Cardinality(Named(d, Inode(d, x), n)) <= 1
      BY <1>0, <2>2, <3>1, NamesAre
    <3>3. \A b \in Owns(d, x) : d[b].kind = "dir" /\ \E j \in Slots : Leads(d, b, j) # 0
      BY <2>1, <3>1 DEF InodeOK
    <3> QED
      BY <1>1, <3>2, <3>3 DEF Leads
  <2>7. ASSUME NEW x \in R, Inode(d, x).type = "f"
        PROVE  \A i \in DOMAIN s(x) : d[s(x)[i]].kind = "data"
    <3>1. \A b \in Owns(d, x) : d[b].kind = "data"
      BY <2>1, <2>7 DEF InodeOK, IsDir
    <3> QED
      BY <1>1, <3>1
  <2>8. Inode(d, ROOT_INODE).type = "d"
    BY <2>1 DEF IsDir
  <2>9. \A x \in R : Len(s(x)) <= FS_MAXFILEBLOCKS
    BY <1>1
  <2> USE DEF s
  <2> QED
    BY <2>2, <2>3, <2>4, <2>5, <2>6, <2>7, <2>8, <2>9 DEF Consistent, LinkSet
<1> QED
  BY <1>3, <1>4

-----------------------------------------------------------------------------
(* The invariant, and what follows from it.                                *)

(* The free list a server computes when it starts *)
LEMMA FreeBlocksAre ==
    ASSUME NEW d \in Disks
    PROVE  /\ FreeBlocks(d) \in Seq(Blocks) /\ IsInjective(FreeBlocks(d))
           /\ ToSet(FreeBlocks(d)) \cap Used(d) = {}
<1>1. PICK s, N : N = FS_DISKSIZE /\ s = [i \in 1 .. FS_DISKSIZE |-> i - 1]
  OBVIOUS
<1>2. N \in Nat /\ Blocks = 0 .. N - 1
  BY <1>1, BlocksFacts
<1>3. s \in Seq(Blocks) /\ IsInjective(s)
  <2>1. s \in [1 .. N -> Blocks] /\ \A i \in 1 .. N : s[i] = i - 1
    BY <1>1, <1>2
  <2>2. \A i, j \in 1 .. N : s[i] = s[j] => i = j
    BY <1>2, <2>1
  <2>3. s \in Seq(Blocks)
    BY <1>2, <2>1
  <2>4. DOMAIN s = 1 .. N
    BY <2>1
  <2> QED
    BY <2>2, <2>3, <2>4 DEF IsInjective
<1>4. find_free_blocks(d) = Used(d)
  BY DEF find_free_blocks, Used, Owns
<1>5. FreeBlocks(d) = Filter(s, Blocks \ Used(d))
  BY <1>1, <1>4 DEF FreeBlocks
<1>6. /\ Filter(s, Blocks \ Used(d)) \in Seq(Blocks) /\ IsInjective(Filter(s, Blocks \ Used(d)))
      /\ ToSet(Filter(s, Blocks \ Used(d))) = ToSet(s) \cap (Blocks \ Used(d))
  BY <1>3, FilterLemma
<1> QED
  BY <1>5, <1>6

(* A server that has just been started: nobody works on anything. *)
Rested ==
    /\ disk \in Disks /\ TreeOK(disk) /\ free_block_list = FreeBlocks(disk)
    /\ \A r \in Requests : ReqOK(disk, req[r]) /\ Reserved(req[r]) = {} /\ ~Standing(req[r])

(* Then everything is free that the tree does not use. *)
LEMMA RestedFs == Rested => FsInv
<1> SUFFICES ASSUME Rested PROVE FsInv
  OBVIOUS
<1>1. disk \in Disks /\ TreeOK(disk) /\ free_block_list = FreeBlocks(disk)
  BY DEF Rested
<1>2. /\ free_block_list \in Seq(Blocks) /\ IsInjective(free_block_list)
      /\ ToSet(free_block_list) \cap Used(disk) = {}
  BY <1>1, FreeBlocksAre
<1>3. \A r \in Requests : Taken(r) = {}
  BY DEF Rested, Taken
<1>4. FreeInv
  BY <1>2, <1>3 DEF FreeInv
<1>5. \A r \in Requests : ReqOK(disk, req[r]) /\ Stands(r)
  BY DEF Rested, Stands
<1> QED
  BY <1>1, <1>2, <1>4, <1>5 DEF FsInv, Disks

(* The server starts on the disk of a file system. *)
LEMMA InitFs == Init => FsInv
<1> SUFFICES ASSUME Init PROVE Rested
  BY RestedFs
<1>1. disk \in Disks /\ Consistent(disk) /\ free_block_list = FreeBlocks(disk)
      /\ req = [r \in Requests |-> NewRequest]
  BY ImagesAssumption DEF Init, Disks
<1>2. TreeOK(disk)
  BY <1>1, SoundTree
<1>3. /\ Ended(NewRequest) /\ NewRequest.pc = "new" /\ NewRequest.data = NoData
      /\ NewRequest.curr = UNDEFINED_BLOCK
  BY DEF NewRequest, Ended
<1>4. ReqOK(disk, NewRequest) /\ Reserved(NewRequest) = {} /\ ~Standing(NewRequest)
  BY <1>1, <1>3, EndedOK
<1> QED
  BY <1>1, <1>2, <1>4 DEF Rested

(* A crash between any two steps leaves such a server: what was not linked *)
(* yet, or not freed yet, is free again.                                   *)
LEMMA CrashFs ==
    ASSUME LockInv, FsInv, Crash
    PROVE  FsInv'
<1>1. /\ disk' = disk /\ free_block_list' = FreeBlocks(disk)
      /\ req' = [r \in Requests |-> IF Active(req[r]) THEN [NewRequest EXCEPT !.pc = "lost"]
                                    ELSE [req[r] EXCEPT !.curr = UNDEFINED_BLOCK]]
  BY DEF Crash
<1>2. disk \in Disks /\ TreeOK(disk)
  BY DEF FsInv, Disks
<1>3. ASSUME NEW r \in Requests
      PROVE  ReqOK(disk, req'[r]) /\ Reserved(req'[r]) = {} /\ ~Standing(req'[r])
  <2>1. PICK q, n : q = req[r] /\ n = req'[r]
    OBVIOUS
  <2>2. CASE Active(q)
    <3>1. n = [NewRequest EXCEPT !.pc = "lost"]
      BY <1>1, <2>1, <2>2
    <3>2. Ended(n) /\ n.pc = "lost" /\ n.data = NoData /\ n.curr = UNDEFINED_BLOCK
      BY <3>1 DEF NewRequest, Ended
    <3> QED
      BY <1>2, <2>1, <3>2, EndedOK
  <2>3. CASE ~Active(q)
    <3>1. n = [q EXCEPT !.curr = UNDEFINED_BLOCK] /\ DOMAIN q = DOMAIN NewRequest
      BY <1>1, <2>1, <2>3 DEF LockInv, Shape
    <3>2. /\ n.pc = q.pc /\ n.curr = UNDEFINED_BLOCK
          /\ n.command = q.command /\ n.depth = q.depth /\ n.next = q.next
          /\ n.place = q.place /\ n.new = q.new /\ n.grows = q.grows /\ n.entries = q.entries
          /\ n.dir = q.dir /\ n.inode = q.inode /\ n.data = q.data /\ n.tofree = q.tofree
      BY <3>1 DEF NewRequest
    <3>3. n.pc \in {"new", "done", "failed", "lost"} /\ ReqOK(disk, q)
      BY <2>1, <2>3, <3>2 DEF Active, FsInv
    <3>4. At(disk, n)
      BY <3>2, <3>3 DEF At, Walking, Owning, Changing, Deleting, Unlinked
    <3>5. OpAt(n) /\ PathInv(n) /\ Fresh(n)
      BY <3>2, <3>3 DEF OpAt, PathInv, Active, Fresh, Early, ReqOK
    <3>6. ReqType(n)
      BY <3>2, <3>3 DEF ReqOK, ReqType, Numbers
    <3>7. Reserved(n) = {} /\ ~Standing(n)
      BY <3>3 DEF Reserved, Standing
    <3> QED
      BY <2>1, <3>4, <3>5, <3>6, <3>7 DEF ReqOK
  <2> QED
    BY <2>2, <2>3
<1>4. Rested'
  BY <1>1, <1>2, <1>3 DEF Rested
<1> QED
  BY <1>4, RestedFs, PTL

(* Every step preserves the invariant. *)
LEMMA NextFs == LockInv /\ FsInv /\ [Next]_vars => FsInv'
<1> SUFFICES ASSUME LockInv, FsInv, [Next]_vars PROVE FsInv'
  OBVIOUS
<1>1. CASE UNCHANGED vars
  BY <1>1 DEF vars, FsInv, FreeInv, Taken, Stands, Orphan
<1>2. CASE Crash
  BY <1>2, CrashFs
<1>3. ASSUME NEW r \in Requests, NEW c \in Commands, Receive(r, c) PROVE FsInv'
  BY <1>3, ReceiveFs
<1>4. ASSUME NEW r \in Requests, Walk(r) PROVE FsInv'
  BY <1>4, RegisterFs, AcquireFs, ReleaseFs, LookupFs DEF Walk
<1>5. ASSUME NEW r \in Requests, Check(r) PROVE FsInv'
  BY <1>5, ReadFs, CheckWriteFs, CheckCreateFs, CheckDeleteFs DEF Check
<1>6. ASSUME NEW r \in Requests, Prepare(r) PROVE FsInv'
  BY <1>6, AllocDataFs, AllocInodeFs, AllocDirFs, WriteDataFs, WriteInodeFs, WriteDirFs DEF Prepare
<1>7. ASSUME NEW r \in Requests, Finish(r) PROVE FsInv'
  BY <1>7, UpgradeFs, CommitWriteFs, CommitCreateFs, EndsFs DEF Finish
<1>8. ASSUME NEW r \in Requests, Delete(r) PROVE FsInv'
  BY <1>8, ChildLockFs, InspectChildFs, EndsFs, CommitDeleteFs, FreeDirFs, UpgradeChildFs,
     ReleaseParentFs, FreeBlockFs DEF Delete
<1> QED
  BY <1>1, <1>2, <1>3, <1>4, <1>5, <1>6, <1>7, <1>8 DEF Next, Serve

(* The invariant of the locks and of the disk. *)
LEMMA FsInvariant == Spec => [](LockInv /\ FsInv)
<1>1. Init => LockInv /\ FsInv
  BY InitLockInv, InitFs
<1>2. LockInv /\ FsInv /\ [Next]_vars => (LockInv /\ FsInv)'
  BY NextLockInv, NextFs
<1> QED
  BY <1>1, <1>2, PTL DEF Spec

(* The disk holds a sound tree in every state, for every disk size, every  *)
(* number of requests and every interleaving of read, write, create and    *)
(* delete, and so whenever the server crashes, between any two disk writes:*)
(* handle_write and handle_create write the new blocks before the one write*)
(* that links them, handle_delete unlinks the child before it frees its    *)
(* blocks, and the locks on the parent and the child keep every other      *)
(* request from what that write replaces.                                  *)
THEOREM TreeSound == Spec => []DiskConsistent
<1>1. FsInv => DiskConsistent
  BY SoundTree DEF FsInv, DiskConsistent, Disks
<1> QED
  BY <1>1, FsInvariant, PTL

(* What a request holds a lock on is in the tree, or about to be freed. *)
LEMMA HeldSafe ==
    ASSUME FsInv, NEW r \in Requests, NEW x \in Held(req[r], {"shared", "upgrade"}), x # UNDEFINED_BLOCK
    PROVE  ({x} \cup Owns(disk, x)) \cap ToSet(free_block_list) = {}
<1>1. PICK q : q = req[r]
  OBVIOUS
<1>2. disk \in Disks /\ TreeOK(disk) /\ ReqOK(disk, q) /\ Stands(r) /\ FreeInv
  BY <1>1 DEF FsInv, Disks
<1>3. ASSUME x \in InodesOf(disk) PROVE ({x} \cup Owns(disk, x)) \cap ToSet(free_block_list) = {}
  <2>1. {x} \cup Owns(disk, x) \subseteq Used(disk)
    BY <1>2, <1>3, UsedBlocks
  <2> QED
    BY <1>2, <2>1 DEF FreeInv
<1>4. ASSUME NEW t \in Requests, req[t].pc \in {"free_dir", "upgrade_child"}, req[t].next = x
      PROVE  ({x} \cup Owns(disk, x)) \cap ToSet(free_block_list) = {}
  <2>1. VictimAt(disk, req[t])
    BY <1>4 DEF FsInv, ReqOK, At, Unlinked
  <2>2. ToSet(req[t].tofree) = {x} \cup Owns(disk, x) /\ req[t].tofree \in Seq(Blocks)
    BY <1>2, <1>4, <2>1, VictimBlocks
  <2>3. ToSet(req[t].tofree) \subseteq Blocks
    BY <2>2, ToSetType
  <2>4. ToSet(req[t].tofree) \subseteq Taken(t)
    BY <1>4, <2>3, BlocksFacts DEF Taken, Reserved
  <2> QED
    BY <1>2, <2>2, <2>4 DEF FreeInv
<1>5. CASE CurrMode(q) \in {"shared", "upgrade"} /\ x = q.curr
  <2>1. CASE Standing(q)
    <3>1. x \in InodesOf(disk) \/ Orphan(r)
      BY <1>1, <1>2, <1>5, <2>1 DEF Stands
    <3> QED
      BY <1>1, <1>3, <1>4, <1>5, <3>1 DEF Orphan
  <2>2. CASE ~Standing(q)
    <3>1. \/ q.pc \in Walking \/ q.pc \in Owning \/ (q.pc = "check" /\ q.command.op # "read")
          \/ q.pc = "failed"
      BY <1>5, <2>2 DEF CurrMode, Standing, Walking, Owning
    <3>2. x \in InodesOf(disk)
      BY <1>2, <1>5, <3>1 DEF ReqOK, At
    <3> QED
      BY <1>3, <3>2
  <2> QED
    BY <2>1, <2>2
<1>6. CASE NextMode(q) \in {"shared", "upgrade"} /\ x = q.next
  <2>1. CASE q.pc = "release"
    <3>1. q.curr \in InodesOf(disk) /\ HasChild(disk, q.curr, q.next)
      BY <1>2, <2>1 DEF ReqOK, At, Walking
    <3>2. x \in InodesOf(disk)
      BY <1>2, <1>6, <3>1, ReachFacts
    <3> QED
      BY <1>3, <3>2
  <2>2. CASE q.pc \in {"inspect", "commit"} /\ q.command.op = "delete"
    <3>1. DeleteAt(disk, q) /\ q.curr \in InodesOf(disk)
      BY <1>2, <2>2 DEF ReqOK, At, Deleting, Owning
    <3>2. x \in InodesOf(disk)
      BY <1>2, <1>6, <3>1, VictimInTree
    <3> QED
      BY <1>3, <3>2
  <2>3. CASE q.pc \in {"free_dir", "upgrade_child"}
    BY <1>1, <1>4, <1>6, <2>3
  <2> QED
    BY <1>6, <2>1, <2>2, <2>3 DEF NextMode
<1> QED
  BY <1>1, <1>5, <1>6 DEF Held

(* No block is on free_block_list twice, or while the tree, a request that *)
(* took it, or a reader that still has a lock on a deleted inode uses it;  *)
(* no two requests take the same block.  So a block that handle_delete     *)
(* frees is nobody's, and what handle_write and handle_create pop off the  *)
(* list is theirs alone.                                                   *)
THEOREM BlocksAllocatedOnce == Spec => []FreeSound
<1>1. ASSUME FsInv PROVE FreeSound
  <2>1. FreeInv /\ free_block_list \in Seq(Blocks)
    BY <1>1 DEF FsInv
  <2>2. Distinct(free_block_list)
    BY <2>1, DistinctIs DEF FreeInv
  <2>3. find_free_blocks(disk) = Used(disk)
    BY DEF find_free_blocks, Used, Owns
  <2>4. ASSUME NEW r \in Requests, NEW x \in Held(req[r], {"shared", "upgrade"}) \ {UNDEFINED_BLOCK}
        PROVE  ({x} \cup ToSet(Inode(disk, x).blocks)) \cap ToSet(free_block_list) = {}
    BY <1>1, <2>4, HeldSafe DEF Owns
  <2>5. /\ ToSet(free_block_list) \cap Used(disk) = {}
        /\ \A r \in Requests : Taken(r) \cap (ToSet(free_block_list) \cup Used(disk)) = {}
        /\ \A r, s \in Requests : r # s => Taken(r) \cap Taken(s) = {}
    BY <2>1 DEF FreeInv
  <2>6. \A r \in Requests : Taken(r) = Reserved(req[r]) \ {UNDEFINED_BLOCK}
    BY DEF Taken
  <2> QED
    BY <2>2, <2>3, <2>4, <2>5, <2>6 DEF FreeSound
<1> QED
  BY <1>1, FsInvariant, PTL

(* A copy that is the inode, or has one block more *)
LEMMA CopyIs ==
    ASSUME NEW s \in Seq(Blocks), NEW t, t = s \/ \E b \in Blocks : t = Append(s, b)
    PROVE  IsPrefix(s, t) /\ Len(t) <= Len(s) + 1
<1>1. PICK k : k = Len(s)
  OBVIOUS
<1>2. k \in Nat
  BY <1>1
<1>3. CASE t = s
  BY <1>1, <1>2, <1>3 DEF IsPrefix
<1>4. CASE \E b \in Blocks : t = Append(s, b)
  <2>1. PICK b \in Blocks : t = Append(s, b)
    BY <1>4
  <2>2. t \in Seq(Blocks) /\ Len(t) = k + 1 /\ \A i \in 1 .. k : t[i] = s[i]
    BY <1>1, <2>1
  <2>3. SubSeq(s, 1, k) = [i \in 1 .. k |-> s[i]] /\ SubSeq(t, 1, k) = [i \in 1 .. k |-> t[i]]
    BY <1>1, <1>2, <2>2
  <2>4. SubSeq(s, 1, k) = SubSeq(t, 1, k)
    BY <2>2, <2>3
  <2> QED
    BY <1>1, <1>2, <2>2, <2>4 DEF IsPrefix
<1> QED
  BY <1>3, <1>4

(* What a handler read of its inode and of its direntries is still so, but *)
(* for its own changes.                                                    *)
LEMMA CopyAt ==
    ASSUME FsInv, NEW r \in Requests, req[r].pc \in Changing \cup Deleting
    PROVE  LET q == req[r]
               I == Inode(disk, q.curr)
           IN  /\ I.type = q.inode.type /\ IsPrefix(I.blocks, q.inode.blocks)
               /\ Len(q.inode.blocks) <= Len(I.blocks) + 1
               /\ q.command.op # "write" /\ ~q.grows =>
                    \A j \in Slots \ {q.place[2]} : Entries(disk, q.dir)[j] = q.entries[j]
<1>1. PICK q, I : q = req[r] /\ I = disk[req[r].curr]
  OBVIOUS
<1>2. /\ disk \in Disks /\ TreeOK(disk) /\ ReqOK(disk, q) /\ q.curr \in InodesOf(disk)
      /\ (q.pc \in Changing /\ q.command.op = "write" => WriteAt(disk, q))
      /\ (q.pc \in Changing /\ q.command.op = "create" => CreateAt(disk, q))
      /\ (q.pc \in Deleting /\ q.command.op = "delete" => DeleteAt(disk, q))
  BY <1>1, AtWork DEF Owning, Changing, Deleting
<1>3. /\ Inode(disk, q.curr) = I /\ I.blocks \in Seq(Blocks) /\ I.kind = "inode" /\ I \in Contents
      /\ Owns(disk, q.curr) = ToSet(I.blocks) /\ Owns(disk, q.curr) \subseteq Blocks
  BY <1>1, <1>2, TreeInode
<1>4. \/ q.pc \in Changing /\ q.command.op = "write"
      \/ q.pc \in Changing /\ q.command.op = "create"
      \/ q.pc \in Deleting /\ q.command.op = "delete"
  BY <1>1, <1>2 DEF ReqOK, OpAt, Changing, Deleting
<1>5. q.inode = I \/ \E b \in Blocks : q.inode = Grown(I, b)
  <2>1. CASE q.pc \in Changing /\ q.command.op = "write"
    BY <1>1, <1>2, <2>1 DEF WriteAt
  <2>2. CASE q.pc \in Changing /\ q.command.op = "create"
    BY <1>1, <1>2, <2>2 DEF CreateAt
  <2>3. CASE q.pc \in Deleting /\ q.command.op = "delete"
    BY <1>1, <1>2, <2>3 DEF DeleteAt
  <2> QED
    BY <1>4, <2>1, <2>2, <2>3
<1>6. \A b : Grown(I, b).type = I.type /\ Grown(I, b).blocks = Append(I.blocks, b)
  <2>1. PICK t, o, u : I = InodeBlock(t, o, u)
    BY <1>3, ContentKinds
  <2>2. I = [kind |-> "inode", type |-> t, owner |-> o, blocks |-> u]
    BY <2>1 DEF InodeBlock
  <2> QED
    BY <2>2 DEF Grown
<1>7. q.inode.type = I.type /\ (q.inode.blocks = I.blocks \/ \E b \in Blocks : q.inode.blocks = Append(I.blocks, b))
  BY <1>5, <1>6
<1>8. IsPrefix(I.blocks, q.inode.blocks) /\ Len(q.inode.blocks) <= Len(I.blocks) + 1
  BY <1>3, <1>7, CopyIs
<1>9. ASSUME q.command.op # "write", ~q.grows, NEW j \in Slots \ {q.place[2]}
      PROVE  Entries(disk, q.dir)[j] = q.entries[j]
  <2>1. PICK old, k : old = Entries(disk, q.dir) /\ k = q.place[2]
    OBVIOUS
  <2>2. /\ q.dir \in ToSet(I.blocks)
        /\ q.entries = old \/ (\E v : q.entries = [old EXCEPT ![k] = v])
    <3>1. CASE q.pc \in Changing /\ q.command.op = "create"
      BY <1>1, <1>2, <1>9, <2>1, <3>1 DEF CreateAt
    <3>2. CASE q.pc \in Deleting /\ q.command.op = "delete"
      BY <1>1, <1>2, <1>9, <2>1, <3>2 DEF DeleteAt, ToSet
    <3> QED
      BY <1>4, <1>9, <3>1, <3>2
  <2>3. old \in [Slots -> Entry]
    BY <1>2, <1>3, <2>1, <2>2, InodeFacts
  <2>4. q.entries[j] = old[j]
    BY <1>9, <2>1, <2>2, <2>3
  <2> QED
    BY <2>1, <2>4
<1> QED
  BY <1>1, <1>3, <1>7, <1>8, <1>9

(* What a handler works on is never stale: the copy of the inode that      *)
(* handle_write, handle_create and handle_delete read before their lock was*)
(* upgraded, and the direntries, are still what is on the disk when they   *)
(* write them back, but for the handler's own change.                      *)
THEOREM CopiesFresh == Spec => []CopyFresh
<1>1. ASSUME FsInv PROVE CopyFresh
  <2>1. Changing \cup Deleting = {"alloc", "alloc_dir", "write_new", "write_dir", "upgrade",
                                  "register_child", "acquire_child", "inspect", "commit"}
    BY DEF Changing, Deleting
  <2> QED
    BY <1>1, <2>1, CopyAt DEF CopyFresh
<1> QED
  BY <1>1, FsInvariant, PTL

-----------------------------------------------------------------------------
(* Each request has at most one lock of an inode.                          *)
LEMMA OneHold ==
    ASSUME FsInv, NEW r \in Requests, NEW b \in Blocks, CurrMode(req[r]) \in Modes, req[r].curr = b,
           NextMode(req[r]) \in Modes
    PROVE  req[r].next # b
<1>1. PICK q : q = req[r]
  OBVIOUS
<1>2. disk \in Disks /\ TreeOK(disk) /\ ReqOK(disk, q) /\ q.curr \in Blocks
  BY <1>1 DEF FsInv, Disks
<1>3. CASE q.pc \in {"acquire", "release"}
  <2>1. q.curr \in InodesOf(disk) /\ HasChild(disk, q.curr, q.next)
    BY <1>2, <1>3, BlocksFacts DEF ReqOK, At, Walking
  <2> QED
    BY <1>1, <1>2, <2>1, NotOwnChild
<1>4. CASE q.pc \in Deleting /\ q.command.op = "delete"
  <2>1. q.curr \in InodesOf(disk) /\ DeleteAt(disk, q)
    BY <1>2, <1>4 DEF ReqOK, At, Owning, Deleting
  <2> QED
    BY <1>1, <1>2, <2>1, VictimInTree
<1>5. CASE q.pc \in Unlinked
  BY <1>1, <1>2, <1>5 DEF ReqOK, At, VictimAt
<1>6. \/ q.pc \in {"acquire", "release"} \/ (q.pc \in Deleting /\ q.command.op = "delete")
      \/ q.pc \in Unlinked
  <2>1. q.pc \in {"acquire", "acquire_child", "release", "release_parent"}
        \/ (q.pc \in {"inspect", "commit", "free_dir", "upgrade_child"} /\ q.command.op = "delete")
    BY <1>1 DEF NextMode, Modes
  <2>2. q.pc = "acquire_child" => q.command.op = "delete"
    BY <1>2 DEF ReqOK, OpAt
  <2> QED
    BY <2>1, <2>2 DEF Deleting, Unlinked
<1> QED
  BY <1>3, <1>4, <1>5, <1>6

(* ... so the users of a lock are at most as many as the requests. *)
UsersOf(b, mode) == {r \in Requests : Holds(req[r], b, mode)}

(* The members of two sets that have none in common. *)
LEMMA DisjointCardinality ==
    ASSUME NEW S, NEW T, IsFiniteSet(S), IsFiniteSet(T), S \cap T = {}
    PROVE  IsFiniteSet(S \cup T) /\ Cardinality(S \cup T) = Cardinality(S) + Cardinality(T)
<1>1. /\ IsFiniteSet(S \cup T)
      /\ Cardinality(S \cup T) = Cardinality(S) + Cardinality(T) - Cardinality(S \cap T)
  BY FS_Union
<1>2. Cardinality(S \cap T) = 0 /\ Cardinality(S) \in Nat /\ Cardinality(T) \in Nat
  BY FS_EmptySet, FS_CardinalityType
<1> QED
  BY <1>1, <1>2

(* Count is the number of users in a mode, and each has one mode. *)
LEMMA CountUsers ==
    ASSUME FsInv, NEW b \in Blocks, NEW mode \in Modes
    PROVE  /\ IsFiniteSet(UsersOf(b, mode)) /\ UsersOf(b, mode) \subseteq Requests
           /\ Count(b, mode) = Cardinality(UsersOf(b, mode))
           /\ \A m \in Modes : m # mode => UsersOf(b, mode) \cap UsersOf(b, m) = {}
<1>1. CurrHolders(b, mode) \subseteq Requests /\ NextHolders(b, mode) \subseteq Requests
  BY DEF CurrHolders, NextHolders
<1>2. IsFiniteSet(CurrHolders(b, mode)) /\ IsFiniteSet(NextHolders(b, mode))
  BY <1>1, RequestsAssumption, FS_Subset
<1>3. CurrHolders(b, mode) \cap NextHolders(b, mode) = {}
  <2> SUFFICES ASSUME NEW r \in CurrHolders(b, mode), r \in NextHolders(b, mode) PROVE FALSE
    OBVIOUS
  <2>1. r \in Requests /\ CurrMode(req[r]) = mode /\ req[r].curr = b /\ NextMode(req[r]) = mode /\ req[r].next = b
    BY DEF CurrHolders, NextHolders
  <2> QED
    BY <2>1, OneHold
<1>4. UsersOf(b, mode) = CurrHolders(b, mode) \cup NextHolders(b, mode)
  BY DEF UsersOf, Holds, CurrHolders, NextHolders
<1>5. ASSUME NEW m \in Modes, m # mode, NEW r \in UsersOf(b, mode), r \in UsersOf(b, m) PROVE FALSE
  <2>1. r \in Requests /\ Holds(req[r], b, mode) /\ Holds(req[r], b, m)
    BY <1>5 DEF UsersOf
  <2> QED
    BY <1>5, <2>1, OneHold DEF Holds
<1> QED
  BY <1>1, <1>2, <1>3, <1>4, <1>5, DisjointCardinality DEF Count

(* The counts of a lock are at most the number of requests. *)
LEMMA LockBound ==
    ASSUME LockInv, FsInv, NEW b \in Blocks
    PROVE  lock_map[b] \in [num_readers : 0 .. Cardinality(Requests), shared : 0 .. Cardinality(Requests),
                            upgrade : BOOLEAN, exclusive : BOOLEAN]
<1> DEFINE A == UsersOf(b, "shared")
           B == UsersOf(b, "upgrade")
           C == UsersOf(b, "exclusive")
           D == UsersOf(b, "awaited")
<1>1. /\ IsFiniteSet(A) /\ IsFiniteSet(B) /\ IsFiniteSet(C) /\ IsFiniteSet(D)
      /\ A \subseteq Requests /\ B \subseteq Requests /\ C \subseteq Requests /\ D \subseteq Requests
      /\ A \cap B = {} /\ A \cap C = {} /\ A \cap D = {} /\ B \cap C = {} /\ B \cap D = {} /\ C \cap D = {}
      /\ Count(b, "shared") = Cardinality(A) /\ Count(b, "upgrade") = Cardinality(B)
      /\ Count(b, "exclusive") = Cardinality(C) /\ Count(b, "awaited") = Cardinality(D)
  BY CountUsers DEF Modes
<1> HIDE DEF A, B, C, D
<1>2. IsFiniteSet(A \cup B) /\ Cardinality(A \cup B) = Cardinality(A) + Cardinality(B)
  BY <1>1, DisjointCardinality
<1>3. IsFiniteSet(C \cup D) /\ Cardinality(C \cup D) = Cardinality(C) + Cardinality(D)
  BY <1>1, DisjointCardinality
<1>4. /\ IsFiniteSet((A \cup B) \cup (C \cup D))
      /\ Cardinality((A \cup B) \cup (C \cup D)) = Cardinality(A \cup B) + Cardinality(C \cup D)
  <2>1. (A \cup B) \cap (C \cup D) = {}
    BY <1>1
  <2> QED
    BY <1>2, <1>3, <2>1, DisjointCardinality
<1>5. Cardinality((A \cup B) \cup (C \cup D)) <= Cardinality(Requests)
  <2>1. (A \cup B) \cup (C \cup D) \in SUBSET Requests
    BY <1>1
  <2> QED
    BY <2>1, RequestsAssumption, FS_Subset
<1>6. PICK a, x, y, z, n : /\ a = Cardinality(A) /\ x = Cardinality(B) /\ y = Cardinality(C) /\ z = Cardinality(D)
                           /\ n = Cardinality(Requests)
  OBVIOUS
<1>7. a \in Nat /\ x \in Nat /\ y \in Nat /\ z \in Nat /\ n \in Nat
  BY <1>1, <1>6, RequestsAssumption, FS_CardinalityType
<1>8. (a + x) + (y + z) <= n
  BY <1>2, <1>3, <1>4, <1>5, <1>6
<1>9. PICK l : l = lock_map[b]
  OBVIOUS
<1>10. /\ l \in Lock /\ l.num_readers = a + x + y + z /\ l.shared = a
  <2>1. ExactAt(b)
    BY DEF LockInv
  <2> QED
    BY <1>1, <1>6, <1>9, <2>1 DEF ExactAt, Exact
<1>11. l.num_readers \in 0 .. n /\ l.shared \in 0 .. n
  BY <1>7, <1>8, <1>10
<1>12. l \in [num_readers : 0 .. n, shared : 0 .. n, upgrade : BOOLEAN, exclusive : BOOLEAN]
  BY <1>10, <1>11 DEF Lock
<1> QED
  BY <1>6, <1>9, <1>12

(* A function from the blocks; what an operation on a lock of it leaves.   *)
PerBlock(m) == m = [b \in Blocks |-> m[b]]

(* Every operation on a lock leaves a function from the blocks. *)
LEMMA LockOperation ==
    ASSUME PerBlock(lock_map), NEW b, NEW mode
    PROVE  PerBlock(Registered(b)) /\ PerBlock(Locked(b, mode)) /\ PerBlock(Unlocked(lock_map, b, mode))
           /\ PerBlock(Upgraded(b))
<1>1. ASSUME NEW m, PerBlock(m), NEW c, NEW l, NEW n, n = [m EXCEPT ![c] = l] PROVE PerBlock(n)
  BY <1>1 DEF PerBlock
<1>2. PerBlock(Registered(b))
  <2>1. \E l : Registered(b) = [lock_map EXCEPT ![b] = l]
    BY DEF Registered
  <2> QED
    BY <1>1, <2>1
<1>3. PerBlock(Locked(b, mode))
  <2>1. \E l : Locked(b, mode) = [lock_map EXCEPT ![b] = l]
    BY DEF Locked
  <2> QED
    BY <1>1, <2>1
<1>4. PerBlock(Unlocked(lock_map, b, mode))
  <2>1. \E l : Unlocked(lock_map, b, mode) = [lock_map EXCEPT ![b] = l]
    BY DEF Unlocked
  <2> QED
    BY <1>1, <2>1
<1>5. PerBlock(Upgraded(b))
  <2>1. \E l, k : Upgraded(b) = [[lock_map EXCEPT ![b] = l] EXCEPT ![b] = k]
    BY DEF Upgraded
  <2>2. PICK l, k, n : n = [lock_map EXCEPT ![b] = l] /\ Upgraded(b) = [n EXCEPT ![b] = k]
    BY <2>1
  <2>3. PerBlock(n)
    BY <1>1, <2>2
  <2> QED
    BY <1>1, <2>2, <2>3
<1> QED
  BY <1>2, <1>3, <1>4, <1>5

(* ... and so does every step. *)
LEMMA LocksKept == PerBlock(lock_map) /\ [Next]_vars => PerBlock(lock_map)'
<1> SUFFICES ASSUME PerBlock(lock_map), [Next]_vars PROVE PerBlock(lock_map')
  OBVIOUS
<1>1. ASSUME NEW r \in Requests, Walk(r) PROVE PerBlock(lock_map')
  BY <1>1, LockOperation DEF Walk, Register, Acquire, Release, find_next_inode, Throws
<1>2. ASSUME NEW r \in Requests, Check(r) PROVE PerBlock(lock_map')
  BY Zenon, <1>2, LockOperation DEF Check, ReadBlock, CheckWrite, CheckCreate, CheckDelete, Throws
<1>3. ASSUME NEW r \in Requests, Prepare(r) PROVE PerBlock(lock_map')
  BY <1>3, LockOperation
     DEF Prepare, AllocData, AllocInode, AllocDir, WriteData, WriteInode, WriteDir, Throws
<1>4. ASSUME NEW r \in Requests, Finish(r) PROVE PerBlock(lock_map')
  BY <1>4, LockOperation DEF Finish, Upgrade, CommitWrite, CommitCreate, Unlock
<1>5. ASSUME NEW r \in Requests, Delete(r) PROVE PerBlock(lock_map')
  BY <1>5, LockOperation
     DEF Delete, RegisterChild, AcquireChild, InspectChild, RefuseDelete, CommitDelete, FreeDir,
         UpgradeChild, ReleaseParent, FreeBlock, Throws
<1>6. ASSUME NEW r \in Requests, NEW c \in Commands, Receive(r, c) PROVE PerBlock(lock_map')
  BY <1>6 DEF Receive
<1>7. CASE Crash
  BY <1>7 DEF Crash, PerBlock
<1>8. CASE UNCHANGED vars
  BY <1>8 DEF vars
<1> QED
  BY <1>1, <1>2, <1>3, <1>4, <1>5, <1>6, <1>7, <1>8 DEF Next, Serve

(* Every variable has its type: the disk holds inodes of at most           *)
(* FS_MAXFILEBLOCKS blocks, direntries and data, free_block_list and the   *)
(* handlers' locals hold block numbers of the disk, and the counts of a    *)
(* lock are never negative and never exceed the number of requests.        *)
THEOREM FsTypeCorrect == Spec => []TypeOK
<1>1. Init => PerBlock(lock_map)
  BY DEF Init, PerBlock
<1>2. Spec => []PerBlock(lock_map)
  BY <1>1, LocksKept, PTL DEF Spec
<1>3. ASSUME LockInv, FsInv, PerBlock(lock_map) PROVE TypeOK
  <2>1. DOMAIN req = Requests
    BY <1>3 DEF LockInv, Shape
  <2>2. disk \in [Blocks -> Contents] /\ free_block_list \in Seq(Blocks)
    BY <1>3 DEF FsInv
  <2>3. lock_map \in [Blocks -> [num_readers : 0 .. Cardinality(Requests),
                                 shared : 0 .. Cardinality(Requests),
                                 upgrade : BOOLEAN, exclusive : BOOLEAN]]
    BY <1>3, LockBound DEF PerBlock
  <2>4. \A r \in Requests : ReqType(req[r])
    BY <1>3 DEF FsInv, ReqOK
  <2> QED
    BY <2>1, <2>2, <2>3, <2>4 DEF TypeOK, ReqType
<1> QED
  BY <1>2, <1>3, FsInvariant, PTL

=============================================================================
