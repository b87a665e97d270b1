----------------------------- MODULE FileServer -----------------------------
(***************************************************************************)
(* What the file server of filesys/ promises its clients: a tree of files  *)
(* and directories, and requests that take effect at once or not at all.   *)
(* Nothing here knows of blocks, inodes or locks.                          *)
(***************************************************************************)
EXTENDS Naturals, SequencesExt

CONSTANTS
    Requests,          \* the requests
    Commands,          \* what they may ask for
    FS_MAXFILEBLOCKS,  \* blocks of a file
    NoUser,            \* owner of the root directory
    NoData             \* what a request other than a read returns

VARIABLES
    tree,   \* tree[path] = the file or directory there; <<>> is the root
    status  \* status[r] = what became of a request

Directory(owner) == [type |-> "d", owner |-> owner, content |-> <<>>]
File(owner, content) == [type |-> "f", owner |-> owner, content |-> content]

Was(outcome, data) == [st |-> outcome, data |-> data]
Asked(c) == [st |-> "pending", command |-> c]

(* In the tree t the user may pass through the directories above the path. *)
Reaches(t, c) ==
    \A n \in 1 .. Len(c.pathname) - 1 : LET q == SubSeq(c.pathname, 1, n) IN
        q \in DOMAIN t /\ t[q].type = "d" /\ t[q].owner = c.username

OwnFile(t, c) == /\ c.pathname \in DOMAIN t
                 /\ t[c.pathname].type = "f" /\ t[c.pathname].owner = c.username

Size(t, c) == Len(t[c.pathname].content)

Legal(t, c) ==
    /\ Reaches(t, c)
    /\ \/ c.op = "read" /\ OwnFile(t, c) /\ c.block < Size(t, c)
       \/ c.op = "write" /\ OwnFile(t, c) /\ c.block <= Size(t, c) /\ c.block < FS_MAXFILEBLOCKS
       \/ c.op = "create" /\ c.pathname \notin DOMAIN t
       \/ /\ c.op = "delete" /\ c.pathname \in DOMAIN t
          /\ t[c.pathname].owner = c.username
          /\ \A p \in DOMAIN t : p = <<>> \/ Front(p) # c.pathname

(* A create, and a write at the end of a file, may find no space. *)
NeedsSpace(t, c) ==
    c.op = "create" \/ (c.op = "write" /\ OwnFile(t, c) /\ c.block = Size(t, c))

Effect(t, c) ==
    LET p == c.pathname IN
    CASE c.op = "read" -> t
      [] c.op = "write" ->
           [t EXCEPT ![p].content = [i \in (DOMAIN @) \cup {c.block + 1} |->
                                       IF i = c.block + 1 THEN c.data ELSE @[i]]]
      [] c.op = "create" ->
           [q \in (DOMAIN t) \cup {p} |->
              IF q # p THEN t[q]
              ELSE IF c.type = "d" THEN Directory(c.username) ELSE File(c.username, <<>>)]
      [] c.op = "delete" -> [q \in (DOMAIN t) \ {p} |-> t[q]]

Result(t, c) == IF c.op = "read" THEN t[c.pathname].content[c.block + 1] ELSE NoData

-----------------------------------------------------------------------------
Ask(r, c) ==
    /\ status[r] = Was("new", NoData)
    /\ status' = [status EXCEPT ![r] = Asked(c)]
    /\ UNCHANGED tree

(* The request takes effect. *)
Do(r) ==
    /\ status[r].st = "pending"
    /\ LET c == status[r].command
           t == tree
       IN  /\ Legal(t, c)
           /\ status' = [status EXCEPT ![r] = Was("done", Result(t, c))]
           /\ tree' = Effect(t, c)

Refuse(r) ==
    /\ status[r].st = "pending"
    /\ status' = [status EXCEPT ![r] = Was("failed", NoData)]
    /\ LET c == status[r].command
           t == tree
       IN  ~Legal(t, c) \/ NeedsSpace(t, c)
    /\ UNCHANGED tree

(* A crash: requests go unanswered, whether they took effect or not; the   *)
(* tree is what the requests that took effect have made it.                *)
Lose(R) ==
    /\ R # {} /\ \A r \in R : status[r].st \in {"pending", "done"}
    /\ status' = [r \in Requests |-> IF r \in R THEN Was("lost", NoData) ELSE status[r]]
    /\ UNCHANGED tree

(* Any tree: every file and directory is in a directory. *)
Init == /\ <<>> \in DOMAIN tree /\ tree[<<>>] = Directory(NoUser)
        /\ \A p \in (DOMAIN tree) \ {<<>>} :
             Front(p) \in DOMAIN tree /\ tree[Front(p)].type = "d"
        /\ status = [r \in Requests |-> Was("new", NoData)]

Next == \/ \E r \in Requests : Do(r) \/ Refuse(r) \/ \E c \in Commands : Ask(r, c)
        \/ \E R \in SUBSET Requests : Lose(R)

Spec == Init /\ [][Next]_<<tree, status>>
=============================================================================
