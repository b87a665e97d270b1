---------------------------- MODULE MCFileSystem ----------------------------
(* Disks and requests for the file system.                                 *)
EXTENDS FileSystem

CONSTANTS na, nb, nc, nd, ne, owner1, owner2

dirOf(entries) == DirBlock([j \in Slots |-> IF j \in DOMAIN entries THEN entries[j] ELSE Unused])
entry(n, i) == [name |-> n, inode_block |-> i]
disk0(known) == [x \in Blocks |-> IF x \in DOMAIN known THEN known[x] ELSE DataBlock(NoData)]

(* An empty file system. *)
Empty == disk0(0 :> InodeBlock("d", NoUser, <<>>))

(* /a/b, a file of one block in a directory. *)
Nested == disk0(  0 :> InodeBlock("d", NoUser, <<1>>)
               @@ 1 :> dirOf(<<entry(na, 2)>>)
               @@ 2 :> InodeBlock("d", owner1, <<3>>)
               @@ 3 :> dirOf(<<entry(nb, 4)>>)
               @@ 4 :> InodeBlock("f", owner1, <<5>>)
               @@ 5 :> DataBlock(0))

(* The same with a file /a/a, whose direntry is in one block with that of  *)
(* /a/b.                                                                   *)
Siblings == [Nested EXCEPT ![3] = dirOf(<<entry(na, 6), entry(nb, 4)>>),
                           ![6] = InodeBlock("f", owner1, <<>>)]

(* With two direntries to a block and at most two blocks to a directory:   *)
(* the root directory is as large as it may be, the block of /a has no     *)
(* free slot, and a single block of the disk is free.                      *)
Packed == [Nested EXCEPT ![0] = InodeBlock("d", NoUser, <<1, 6>>),
                         ![1] = dirOf(<<entry(na, 2), entry(nd, 7)>>),
                         ![3] = dirOf(<<entry(nd, 8), entry(nb, 4)>>),
                         ![6] = dirOf(<<entry(nb, 9), entry(ne, 10)>>),
                         ![7] = InodeBlock("f", owner1, <<>>),
                         ![8] = InodeBlock("f", owner1, <<>>),
                         ![9] = InodeBlock("f", owner1, <<>>),
                         ![10] = InodeBlock("f", owner1, <<>>)]

(* Fresh and used disks. *)
SparseImages == {Empty, Siblings, Packed}
OnlyNested == {Nested}
OnlyPacked == {Packed}

Both == {<<na>>, <<na, nb>>}
AllOps(users, paths, blocks, data) ==
    {[op |-> "read", username |-> x, pathname |-> p, block |-> k] :
        x \in users, p \in paths, k \in blocks}
    \cup {[op |-> "write", username |-> x, pathname |-> p, block |-> k, data |-> d] :
        x \in users, p \in paths, k \in blocks, d \in data}
    \cup {[op |-> "create", username |-> x, pathname |-> p, type |-> ty] :
        x \in users, p \in paths, ty \in {"f", "d"}}
    \cup {[op |-> "delete", username |-> x, pathname |-> p] : x \in users, p \in paths}

(* One user, and requests that need blocks. *)
Growing ==
    {x \in AllOps({owner1}, {<<nb>>, <<nc>>, <<na, na>>, <<na, nb>>}, {0, 1}, {1}) :
        x.op # "read" /\ (x.op = "create" => x.type = "f")}

(* Those, and what conflicts with them: reads and deletions of /a and      *)
(* /a/b, a new directory /a, and requests of another user.                 *)
Mixed ==
    Growing \cup
    {x \in AllOps({owner1}, Both, {0}, {1}) :
        x.op \in {"read", "delete"} \/ (x.op = "create" /\ x.type = "d")} \cup
    {x \in AllOps({owner2}, Both, {0}, {1}) :
        IF x.op = "create" THEN x.type = "d" /\ x.pathname = <<na>> ELSE x.pathname = <<na, nb>>}

(* One user: requests in /a that wait for one another, and take and give   *)
(* back blocks, so that a create may run out of them.                      *)
Waiting ==
    {x \in AllOps({owner1}, Both \cup {<<na, na>>}, {1}, {1}) :
        \/ x.op = "delete" /\ x.pathname \in Both
        \/ x.op = "write" /\ x.pathname = <<na, nb>>
        \/ x.op = "create" /\ x.pathname = <<na, na>> /\ x.type = "f"}

Symmetry == Permutations(Requests)
=============================================================================
