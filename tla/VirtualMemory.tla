--------------------------- MODULE VirtualMemory ---------------------------
(***************************************************************************)
(* What the pager of vmpager/ promises its applications (vm_pager.h): each *)
(* process has an arena of pages that grows page by page; a page is        *)
(* private, or shows a block of a file and is shared with every page that  *)
(* shows the same block.  Nothing here knows of frames, swap blocks, page  *)
(* tables or eviction.                                                     *)
(***************************************************************************)
EXTENDS Naturals, Sequences, FiniteSets

CONSTANTS
    Pids,           \* process identifiers
    Data,           \* contents of a page; 0 is a page of zeroes
    FileBlocks,     \* block numbers within a file
    num_virt_addr,  \* pages of an arena
    swap_blocks,    \* private pages that all processes may have together
    Private         \* marks a page that shows no file block

VARIABLES
    alive,    \* the running processes
    arena,    \* arena[p][v] = what page v of p shows: a file block, or Private
    private,  \* private[p][v] = content of page v of p, if it is private
    content   \* content[k] = content of file block k = <<name, block>>

vmVars == <<alive, arena, private, content>>

(* A file name is read from one page of the arena, or from two adjacent    *)
(* ones; what a page holds stands for the part of the name in it.          *)
Names == {<<d>> : d \in Data} \cup (Data \X Data)
FileKeys == Names \X FileBlocks

Value(p, v) == IF arena[p][v] = Private THEN private[p][v] ELSE content[arena[p][v]]

PrivatePages(p) == {v \in DOMAIN arena[p] : arena[p][v] = Private}

Reserved == Cardinality({pg \in Pids \X (1 .. num_virt_addr) : pg[2] \in PrivatePages(pg[1])})

Init ==
    /\ alive = {}
    /\ arena = [p \in Pids |-> <<>>]
    /\ private = [p \in Pids |-> <<>>]
    /\ content = [k \in FileKeys |-> 0]

(* A process whose parent is not managed starts with an empty arena. *)
Start(p) ==
    /\ p \notin alive
    /\ alive' = alive \cup {p}
    /\ UNCHANGED <<arena, private, content>>

(* A child has the mappings and the data of its parent; every private page *)
(* it gets is reserved at once.                                            *)
Fork(p, q) ==
    /\ p \in alive /\ q \notin alive
    /\ Reserved + Cardinality(PrivatePages(p)) <= swap_blocks
    /\ alive' = alive \cup {q}
    /\ arena' = [arena EXCEPT ![q] = arena[p]]
    /\ private' = [private EXCEPT ![q] = private[p]]
    /\ UNCHANGED content

MapPrivate(p) ==
    /\ p \in alive /\ Len(arena[p]) < num_virt_addr
    /\ Reserved < swap_blocks
    /\ arena' = [arena EXCEPT ![p] = Append(@, Private)]
    /\ private' = [private EXCEPT ![p] = Append(@, 0)]
    /\ UNCHANGED <<alive, content>>

(* The name is what the pages v .. w of the arena hold. *)
MapFile(p, v, w, b) ==
    /\ p \in alive /\ Len(arena[p]) < num_virt_addr
    /\ v <= w /\ w <= v + 1 /\ {v, w} \subseteq DOMAIN arena[p]
    /\ v = w \/ Value(p, v) # 0
    /\ LET name == IF v = w THEN <<Value(p, v)>> ELSE <<Value(p, v), Value(p, w)>>
       IN  arena' = [arena EXCEPT ![p] = Append(@, <<name, b>>)]
    /\ private' = [private EXCEPT ![p] = Append(@, 0)]
    /\ UNCHANGED <<alive, content>>

(* A store is seen by the page it is made to, and through a file block by  *)
(* every page that shows the block; by no other page.                      *)
Store(p, v, d) ==
    /\ p \in alive /\ v \in DOMAIN arena[p]
    /\ IF arena[p][v] = Private
       THEN private' = [private EXCEPT ![p][v] = d] /\ UNCHANGED content
       ELSE content' = [content EXCEPT ![arena[p][v]] = d] /\ UNCHANGED private
    /\ UNCHANGED <<alive, arena>>

Exit(p) ==
    /\ p \in alive
    /\ alive' = alive \ {p}
    /\ arena' = [arena EXCEPT ![p] = <<>>]
    /\ private' = [private EXCEPT ![p] = <<>>]
    /\ UNCHANGED content

Next ==
    \E p \in Pids :
        \/ Start(p) \/ MapPrivate(p) \/ Exit(p)
        \/ \E q \in Pids : Fork(p, q)
        \/ \E v, w \in 1 .. num_virt_addr, b \in FileBlocks : MapFile(p, v, w, b)
        \/ \E v \in 1 .. num_virt_addr, d \in Data : Store(p, v, d)

Spec == Init /\ [][Next]_vmVars
=============================================================================
