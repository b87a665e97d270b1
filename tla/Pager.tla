------------------------------- MODULE Pager -------------------------------
(***************************************************************************)
(* The external pager of vmpager/: arenas of virtual pages on a few frames *)
(* of physical memory, with copy-on-write private pages backed by a swap   *)
(* file, shared pages backed by file blocks, and clock eviction.           *)
(*                                                                         *)
(* The pager is single threaded: a handler (vm_create, vm_fault, ...) runs *)
(* to its end, possibly through several evictions, before the next one.    *)
(* So a handler is one action, and the helpers of utils.cpp are functions  *)
(* from a pager state S (a record of the variables, see Pager) to the next *)
(* one; they keep the names they have in the source.                       *)
(***************************************************************************)
EXTENDS FiniteSets, Queues

CONSTANTS
    Pids,           \* process identifiers
    Data,           \* contents of a page, 0 is the page of zeroes
    FileBlocks,     \* block numbers within a file
    Existing,       \* the file blocks <<name, block>> that can ever be read
    num_virt_addr,  \* pages of an arena
    memory_pages,   \* frames of physical memory, frame 0 is pinned
    swap_blocks,    \* blocks of the swap file
    MaxBlocks,      \* identities of mem_blocks, as many as can exist at one time
    UINT_MAX,       \* largest unsigned int
    Leftovers,      \* what an uninitialised num_swap_blocks may hold
    NoPid,          \* no process is running
    NoName,         \* filename of a swap-backed mem_block
    Private         \* what an arena page of VirtualMemory shows

VPages == 1 .. num_virt_addr
Frames == 0 .. memory_pages - 1
SwapBlocks == 0 .. swap_blocks - 1
BlockIds == 0 .. MaxBlocks   \* identities of mem_blocks
zero_page == 0               \* the mem_block of the pinned frame 0
Names == {<<d>> : d \in Data} \cup (Data \X Data)
FileKeys == Names \X FileBlocks

(* One frame besides the pinned one: with none, evict_phys_page would read *)
(* the front of an empty clock_queue.                                      *)
ASSUME PagerAssumption ==
    /\ memory_pages \in Nat /\ memory_pages >= 2
    /\ swap_blocks \in Nat /\ num_virt_addr \in Nat /\ MaxBlocks \in Nat
    /\ UINT_MAX \in Nat /\ Leftovers \subseteq 0 .. UINT_MAX
    /\ FileBlocks \subseteq Nat /\ 0 \in Data /\ NoPid \notin Pids
    /\ Existing \subseteq FileKeys /\ NoName \notin Names /\ Private \notin FileKeys

(* The bound is none: a mem_block is the pinned one, is in a frame or is   *)
(* shown by a page, and one more than there can be is never allocated.     *)
ASSUME MaxBlocksAssumption ==
    IsFiniteSet(Pids) /\ MaxBlocks >= memory_pages + Cardinality(Pids) * num_virt_addr

VARIABLES
    physmem,             \* vm_physmem, one datum per frame
    swap_file,           \* the swap file
    files,               \* the file blocks on disk
    mem_block,           \* the mem_block objects, NoBlock if deallocated
    clock_queue,         \* resident blocks in the order of the clock
    free_mem_blocks,     \* frames in no use
    free_swap_blocks,    \* swap blocks reserved by nobody
    file_mapping_table,  \* the file-backed mem_blocks that vm_map can find
    page_table,          \* the page table entries the MMU looks at
    data_location,       \* the mem_blocks of the valid pages of each process
    num_swap_blocks,     \* kernel_process_info::num_swap_blocks
    managed,             \* keys of process_info_mp
    curr_pid,            \* the process on the CPU
    alive,               \* processes the infrastructure may run
    accessible           \* file blocks file_read succeeds for

pagerVars == <<physmem, swap_file, files, mem_block, clock_queue, free_mem_blocks,
               free_swap_blocks, file_mapping_table, page_table, data_location>>
procVars == <<num_swap_blocks, managed, curr_pid, alive>>
vars == <<pagerVars, procVars, accessible>>

(* The state the helpers work on, and the step that makes S the new state. *)
Pager == [physmem |-> physmem, swap_file |-> swap_file, files |-> files,
          mem_block |-> mem_block, clock_queue |-> clock_queue,
          free_mem_blocks |-> free_mem_blocks, free_swap_blocks |-> free_swap_blocks,
          file_mapping_table |-> file_mapping_table, page_table |-> page_table,
          data_location |-> data_location]

(* A mem_block: its fields, ptes as the set of pages <<pid, page>> whose   *)
(* entry it points to.  block_type is phys exactly when resident is true.  *)
NewBlock(loc, swap, name, blk) ==
    [dirty |-> FALSE, referenced |-> TRUE, resident |-> TRUE, is_swap |-> swap,
     swap_blocks |-> <<>>, ptes |-> {}, location |-> loc, filename |-> name, block_num |-> blk]
NoBlock == NewBlock(0, FALSE, NoName, 0)

(* The mem_blocks some shared_ptr still points to. *)
Referenced(S) == {zero_page} \cup ToSet(S.clock_queue) \cup S.file_mapping_table
                   \cup UNION {ToSet(S.data_location[p]) : p \in Pids}
Unused(S) == CHOOSE b \in BlockIds \ Referenced(S) : TRUE

Becomes(S) ==
    /\ physmem' = S.physmem /\ swap_file' = S.swap_file /\ files' = S.files
    /\ mem_block' = [b \in BlockIds |-> IF b \in Referenced(S) THEN S.mem_block[b] ELSE NoBlock]
    /\ clock_queue' = S.clock_queue
    /\ free_mem_blocks' = S.free_mem_blocks /\ free_swap_blocks' = S.free_swap_blocks
    /\ file_mapping_table' = S.file_mapping_table
    /\ page_table' = S.page_table /\ data_location' = S.data_location

NoEntry == [ppage |-> 0, read_enable |-> FALSE, write_enable |-> FALSE]

(* vm_init *)
Init ==
    /\ physmem = [f \in Frames |-> 0]
    /\ swap_file = [b \in SwapBlocks |-> 0]
    /\ files = [k \in FileKeys |-> 0]
    /\ mem_block = [b \in BlockIds |-> IF b = zero_page THEN NewBlock(0, TRUE, NoName, 0)
                                       ELSE NoBlock]
    /\ clock_queue = <<>>
    /\ free_mem_blocks = [i \in 1 .. memory_pages - 1 |-> i]
    /\ free_swap_blocks = [i \in 1 .. swap_blocks |-> i - 1]
    /\ file_mapping_table = {}
    /\ page_table = [p \in Pids |-> [v \in VPages |-> NoEntry]]
    /\ data_location = [p \in Pids |-> <<>>]
    /\ num_swap_blocks = [p \in Pids |-> 0]
    /\ managed = {} /\ curr_pid = NoPid /\ alive = {}
    /\ accessible = {}

-----------------------------------------------------------------------------
(* Page table entries and eviction.                                        *)

(* Loops over the ptes of mem_blocks. *)
SetEntries(S, ptes, New(_)) ==
    [S EXCEPT !.page_table = [p \in Pids |-> [v \in VPages |->
        IF <<p, v>> \in ptes THEN New(S.page_table[p][v]) ELSE S.page_table[p][v]]]]

(* Mutant: fork leaves the entries of the shared block writable. *)
KeepWriteMutant(e) == e

ReadOnly(e) == [e EXCEPT !.write_enable = FALSE]

(* Mutant: eviction leaves the entries enabled. *)
StillEnabledMutant(e) == e

Disabled(e) == [e EXCEPT !.read_enable = FALSE, !.write_enable = FALSE]
Readable(e) == [e EXCEPT !.read_enable = TRUE]
Writable(e) == [e EXCEPT !.write_enable = TRUE]

FileKey(b) == <<b.filename, b.block_num>>

(* Mutant: the first free swap block is reserved but not popped. *)
KeepFreeSwapMutant(S, b) ==
    [S EXCEPT !.mem_block[b].swap_blocks = Append(@, Head(S.free_swap_blocks))]

(* A mem_block gets a swap block for one more page. *)
ReserveSwap(S, b) ==
    [S EXCEPT !.mem_block[b].swap_blocks = Append(@, Head(S.free_swap_blocks)),
              !.free_swap_blocks = Tail(@)]

(* Mutant: the mem_block keeps the pointer to the entry. *)
KeepPteMutant(S, b, p, v) == S

ErasePte(S, b, p, v) == [S EXCEPT !.mem_block[b].ptes = @ \ {<<p, v>>}]

(* The clock hand passes over referenced blocks, which lose their          *)
(* reference; if all are referenced it comes round to the first one.       *)
ClockHand(S) ==
    LET unreferenced == {i \in DOMAIN S.clock_queue : ~S.mem_block[S.clock_queue[i]].referenced}
    IN  IF unreferenced = {} THEN Len(S.clock_queue) + 1
        ELSE CHOOSE i \in unreferenced : \A j \in unreferenced : i <= j

FromHand(S) == IF ClockHand(S) > Len(S.clock_queue) THEN S.clock_queue
               ELSE Rotated(S.clock_queue, ClockHand(S))

(* Mutant: a file-backed block does not learn where its data went. *)
KeepLocationMutant(b) == IF b.is_swap THEN Head(b.swap_blocks) ELSE b.location

HomeOf(b) == IF b.is_swap THEN Head(b.swap_blocks) ELSE b.block_num

(* Mutant: a dirty block is dropped. *)
NeverWrittenMutant(b) == FALSE

should_write(b) == b.dirty

evict_phys_page(S) ==
    LET q == S.clock_queue
        hand == ClockHand(S)
        passed == {q[i] : i \in 1 .. hand - 1}
        rest == FromHand(S)
        victim == Head(rest)
        b == S.mem_block[victim]
        T == SetEntries(S, UNION {S.mem_block[x].ptes : x \in passed \cup {victim}}, Disabled)
    IN  [T EXCEPT
           !.clock_queue = Tail(rest),
           !.free_mem_blocks = Append(@, b.location),
           !.mem_block = [x \in BlockIds |->
              IF x = victim
              THEN [b EXCEPT !.resident = FALSE, !.dirty = FALSE, !.referenced = FALSE,
                             !.location = HomeOf(b)]
              ELSE [S.mem_block[x] EXCEPT !.referenced = @ /\ x \notin passed]],
           !.file_mapping_table = IF ~b.is_swap /\ b.ptes = {} THEN @ \ {victim} ELSE @,
           !.swap_file = IF should_write(b) /\ b.is_swap
                         THEN [@ EXCEPT ![Head(b.swap_blocks)] = S.physmem[b.location]] ELSE @,
           !.files = IF should_write(b) /\ ~b.is_swap
                     THEN [@ EXCEPT ![FileKey(b)] = S.physmem[b.location]] ELSE @]

WithFreeFrame(S) == IF S.free_mem_blocks = <<>> THEN evict_phys_page(S) ELSE S

(* file_read fails for a file block that is not accessible. *)
CanRead(S, b) == S.mem_block[b].is_swap \/ FileKey(S.mem_block[b]) \in accessible

(* A frame is freed even if file_read then fails. *)
cache_nonresident_page(S, b) ==
    LET E == WithFreeFrame(S)
        frame == Head(E.free_mem_blocks)
        x == E.mem_block[b]
        Cached(e) == [ppage |-> frame, read_enable |-> TRUE, write_enable |-> FALSE]
        T == SetEntries(E, x.ptes, Cached)
    IN  IF ~CanRead(S, b) THEN E
        ELSE [T EXCEPT
                !.free_mem_blocks = Tail(@),
                !.clock_queue = Append(@, b),
                !.mem_block[b] = [x EXCEPT !.referenced = TRUE, !.resident = TRUE,
                                           !.dirty = FALSE, !.location = frame],
                !.physmem[frame] = IF x.is_swap THEN E.swap_file[x.location]
                                   ELSE E.files[<<x.filename, x.location>>]]

MadeResident(S, b) == IF S.mem_block[b].resident THEN S ELSE cache_nonresident_page(S, b)

-----------------------------------------------------------------------------
(* The helpers of vm_fault.                                                *)

(* Is every page that shows this block allowed to write to it directly? *)
Exclusive(b) == ~b.is_swap \/ Cardinality(b.ptes) = 1

read_fault_handler(S, b) ==
    LET x == S.mem_block[b]
        T == IF x.dirty /\ Exclusive(x) THEN SetEntries(S, x.ptes, Writable) ELSE S
        R == SetEntries(T, x.ptes, Readable)
    IN  [R EXCEPT !.mem_block[b].referenced = TRUE, !.mem_block[b].resident = TRUE]

write_fault_handler(S, b) ==
    [SetEntries(S, S.mem_block[b].ptes, Writable) EXCEPT !.mem_block[b].dirty = TRUE]

update_block_permissions(S, b) ==
    LET x == S.mem_block[b]
        Enabled(e) == Readable(Writable(e))
    IN  IF x.dirty /\ Cardinality(x.ptes) = 1 /\ x.referenced
        THEN SetEntries(S, x.ptes, Enabled) ELSE S

is_copy_on_writable(S, b) ==
    LET x == S.mem_block[b]
    IN  (x.location = 0 \/ Cardinality(x.ptes) > 1) /\ x.is_swap

(* The page gets a mem_block of its own, with one of the swap blocks the   *)
(* old one held.                                                           *)
copy_block_handler(S, p, v, datum) ==
    LET old == S.data_location[p][v]
        new == Unused(S)
        frame == Head(S.free_mem_blocks)
    IN  [S EXCEPT
           !.data_location[p][v] = new,
           !.mem_block = [S.mem_block EXCEPT
              ![new] = [NewBlock(frame, TRUE, NoName, 0) EXCEPT
                          !.swap_blocks = <<Last(S.mem_block[old].swap_blocks)>>,
                          !.ptes = {<<p, v>>}, !.dirty = TRUE],
              ![old].swap_blocks = Front(@)],
           !.page_table[p][v].ppage = frame,
           !.free_mem_blocks = Tail(@),
           !.clock_queue = Append(@, new),
           !.physmem[frame] = datum]

(* The page's old block may itself be evicted to make room for the copy;   *)
(* its content was saved in tmp_buffer before.                             *)
CopyOnWrite(S, p, v) ==
    LET b == S.data_location[p][v]
        R == read_fault_handler(S, b)
        U == update_block_permissions(ErasePte(R, b, p, v), b)
    IN  copy_block_handler(WithFreeFrame(U), p, v, S.physmem[S.mem_block[b].location])

(* vm_fault from the point where the page's block is resident. *)
Served(S, p, v, write_flag) ==
    LET C == IF write_flag /\ is_copy_on_writable(S, S.data_location[p][v])
             THEN CopyOnWrite(S, p, v) ELSE S
        b == C.data_location[p][v]
        W == IF write_flag THEN write_fault_handler(C, b) ELSE C
    IN  read_fault_handler(W, b)

-----------------------------------------------------------------------------
(* The handlers the infrastructure calls.                                  *)

(* copy_virtual_page, for page v of parent p and child c. *)
copy_virtual_page(S, p, c, v) ==
    LET b == S.data_location[p][v]
        x == S.mem_block[b]
        T == [S EXCEPT
                !.data_location[c] = Append(@, b),
                !.mem_block[b].ptes = @ \cup {<<c, v>>},
                !.page_table[c][v] = [S.page_table[p][v] EXCEPT
                                        !.write_enable = @ /\ ~x.is_swap]]
        R == ReserveSwap(T, b)
    IN  IF ~x.is_swap THEN T
        ELSE IF b = zero_page THEN R
        ELSE SetEntries(R, R.mem_block[b].ptes, ReadOnly)

(* The state after v pages *)
Copied(p, c) ==
    LET copied[v \in 0 .. Len(data_location[p])] ==
          IF v = 0 THEN Pager ELSE copy_virtual_page(copied[v - 1], p, c, v)
    IN  copied

(* vm_create.  The constructor of kernel_process_info does not initialise  *)
(* num_swap_blocks, and so it has whatever was left in that memory.        *)
(* The process info of a failed vm_create stays in process_info_mp.        *)
Create(p, c) ==
    /\ c \notin alive /\ (p = curr_pid \/ p \notin managed) /\ p # c
    /\ managed' = managed \cup {c}
    /\ \E n \in Leftovers :
         IF p \notin managed
         THEN /\ num_swap_blocks' = [num_swap_blocks EXCEPT ![c] = n]
              /\ alive' = alive \cup {c}
              /\ UNCHANGED pagerVars
         ELSE IF num_swap_blocks[p] > Len(free_swap_blocks)
         THEN /\ num_swap_blocks' = [num_swap_blocks EXCEPT ![c] = n]
              /\ UNCHANGED <<alive, pagerVars>>
         ELSE /\ Becomes(Copied(p, c)[Len(data_location[p])])
              /\ num_swap_blocks' = [num_swap_blocks EXCEPT ![c] = num_swap_blocks[p]]
              /\ alive' = alive \cup {c}
    /\ UNCHANGED <<curr_pid, accessible>>

(* vm_switch *)
Switch(p) ==
    /\ p \in alive
    /\ curr_pid' = p
    /\ UNCHANGED <<pagerVars, num_swap_blocks, managed, alive, accessible>>

(* vm_fault, called by the MMU when the current process may not make the   *)
(* access.  It returns -1, with nothing or only an eviction done, for an   *)
(* invalid page and for a file block that cannot be read.                  *)
Fault(v, write_flag) ==
    LET p == curr_pid
        S == MadeResident(Pager, data_location[p][v])
    IN  /\ p # NoPid /\ v \in DOMAIN data_location[p]
        /\ ~page_table[p][v].read_enable \/ (write_flag /\ ~page_table[p][v].write_enable)
        /\ Becomes(IF S.mem_block[data_location[p][v]].resident
                   THEN Served(S, p, v, write_flag) ELSE S)
        /\ UNCHANGED <<procVars, accessible>>

(* A store of the current process that the MMU lets through. *)
Store(v, d) ==
    /\ curr_pid # NoPid /\ v \in DOMAIN data_location[curr_pid]
    /\ page_table[curr_pid][v].write_enable
    /\ physmem' = [physmem EXCEPT ![page_table[curr_pid][v].ppage] = d]
    /\ UNCHANGED <<swap_file, files, mem_block, clock_queue, free_mem_blocks,
                   free_swap_blocks, file_mapping_table, page_table, data_location,
                   procVars, accessible>>

(* A file block no page shows is forgotten, unless it is still in memory.  *)
Forgotten(x) == x.ptes = {} /\ ~x.resident

(* Mutant: the first swap block is freed, where the data of a block that   *)
(* is not resident are.                                                    *)
FreeFirstSwapMutant(S, b) ==
    [S EXCEPT !.free_swap_blocks = Append(@, Head(S.mem_block[b].swap_blocks)),
              !.mem_block[b].swap_blocks = Tail(@)]

FreeSwap(S, b) ==
    [S EXCEPT !.free_swap_blocks = Append(@, Last(S.mem_block[b].swap_blocks)),
              !.mem_block[b].swap_blocks = Front(@)]

(* The body of the loop of vm_destroy. *)
DestroyPage(S, p, v) ==
    LET b == S.data_location[p][v]
        E == ErasePte(S, b, p, v)
        x == E.mem_block[b]
        F == FreeSwap(E, b)
        U == update_block_permissions(F, b)
    IN  IF ~x.is_swap
        THEN [E EXCEPT !.file_mapping_table = IF Forgotten(x) THEN @ \ {b} ELSE @]
        ELSE IF ~x.resident \/ b = zero_page THEN F
        ELSE [U EXCEPT !.free_mem_blocks = IF x.ptes = {} THEN Append(@, x.location) ELSE @]

(* The state after v pages *)
Destroyed(p) ==
    LET destroyed[v \in 0 .. Len(data_location[p])] ==
          IF v = 0 THEN Pager ELSE DestroyPage(destroyed[v - 1], p, v)
    IN  destroyed

(* Mutant: freed blocks stay in the clock queue. *)
NotInspectedMutant(S, useless) == S

inspect_clock_queue(S, useless) ==
    LET useful == {b \in BlockIds : S.mem_block[b].location \notin useless \cup {0}}
    IN  [S EXCEPT !.clock_queue = Filter(@, useful)]

(* vm_destroy.  The process does not run again; curr_pid is not used until *)
(* the next vm_switch.                                                     *)
Destroy ==
    LET p == curr_pid
        D == Destroyed(p)[Len(data_location[p])]
        useless == ToSet(D.free_mem_blocks) \ ToSet(free_mem_blocks)
    IN  /\ p # NoPid
        /\ Becomes([inspect_clock_queue(D, useless) EXCEPT
                      !.data_location[p] = <<>>,
                      !.page_table[p] = [v \in VPages |-> NoEntry]])
        /\ managed' = managed \ {p} /\ alive' = alive \ {p} /\ curr_pid' = NoPid
        /\ num_swap_blocks' = [num_swap_blocks EXCEPT ![p] = 0]
        /\ UNCHANGED accessible

(* vm_map with a null filename: map_swap_block. *)
MapSwap ==
    LET p == curr_pid
        n == Len(data_location[p]) + 1
    IN  /\ p # NoPid /\ n <= num_virt_addr /\ free_swap_blocks # <<>>
        /\ Becomes([ReserveSwap(Pager, zero_page) EXCEPT
             !.page_table[p][n] = [ppage |-> 0, read_enable |-> TRUE, write_enable |-> FALSE],
             !.data_location[p] = Append(@, zero_page)])
        /\ num_swap_blocks' = [num_swap_blocks EXCEPT ![p] = (@ + 1) % (UINT_MAX + 1)]
        /\ UNCHANGED <<managed, curr_pid, alive, accessible>>

(* map_file_block: the block is not in file_mapping_table. *)
map_file_block(S, p, n, name, blk) ==
    LET new == Unused(S)
    IN  [S EXCEPT
           !.mem_block[new] = [NewBlock(blk, FALSE, name, blk) EXCEPT
                                 !.resident = FALSE, !.referenced = FALSE, !.ptes = {<<p, n>>}],
           !.file_mapping_table = @ \cup {new},
           !.data_location[p] = Append(@, new),
           !.page_table[p][n] = [ppage |-> blk, read_enable |-> FALSE, write_enable |-> FALSE]]

(* update_file_block: it is, and may be resident without any page.  Which  *)
(* of its ptes is taken as the reference is up to the hash table.          *)
update_file_block(S, p, n, b, reference) ==
    LET x == S.mem_block[b]
        on == x.resident /\ x.referenced
    IN  [S EXCEPT
           !.mem_block[b].ptes = @ \cup {<<p, n>>},
           !.data_location[p] = Append(@, b),
           !.page_table[p][n] =
               IF x.ptes # {} THEN S.page_table[reference[1]][reference[2]]
               ELSE [ppage |-> IF x.resident THEN x.location ELSE @.ppage,
                     read_enable |-> on, write_enable |-> on /\ x.dirty]]

(* What a block, and page v of p, hold in state S, wherever it is kept.    *)
DatumOf(S, x) == IF x.resident THEN S.physmem[x.location]
                 ELSE IF x.is_swap THEN S.swap_file[x.location]
                 ELSE S.files[FileKey(x)]
Datum(S, p, v) == DatumOf(S, S.mem_block[S.data_location[p][v]])

(* get_data: the page is made resident, and its byte is then read from the *)
(* frame it is in, unless that failed.                                     *)
Touched(S, p, v) == MadeResident(S, S.data_location[p][v])
WasRead(S, p, v) == S.mem_block[S.data_location[p][v]].resident
ByteOf(S, p, v) == S.physmem[S.mem_block[S.data_location[p][v]].location]

(* read_filename_str, for a name in the valid pages v .. w, w = v or v + 1: *)
(* the pages are read in turn, until one cannot be read.  A page of zeroes *)
(* ends the name.                                                          *)
ReadName(S, p, v, w) ==
    LET A == Touched(S, p, v)
    IN  IF v = w \/ ~WasRead(A, p, v) THEN A ELSE Touched(A, p, w)
NameWasRead(S, p, v, w) == WasRead(Touched(S, p, v), p, v) /\ WasRead(ReadName(S, p, v, w), p, w)

(* Mutant: the name is read from the frames of the page table entries,     *)
(* resident or not.                                                        *)
StaleNameMutant(p, v, w) == [i \in 1 .. w - v + 1 |-> physmem[page_table[p][v + i - 1].ppage]]

(* The second page may take the frame of the first one, which has been     *)
(* read by then.                                                           *)
filename_str(p, v, w) ==
    LET first == ByteOf(Touched(Pager, p, v), p, v)
        second == ByteOf(ReadName(Pager, p, v, w), p, w)
    IN  IF v = w THEN <<first>> ELSE <<first, second>>

(* vm_map with a filename in the pages v .. w, once they have been read:   *)
(* the file block is not in file_mapping_table, or it is.                  *)
MapNamed(S, p, n, name, blk) ==
    LET known == {b \in S.file_mapping_table : FileKey(S.mem_block[b]) = <<name, blk>>}
    IN  \/ /\ known = {}
           /\ Becomes(map_file_block(S, p, n, name, blk))
        \/ \E b \in known : \E reference \in S.mem_block[b].ptes \cup {<<p, n>>} :
             /\ reference = <<p, n>> <=> S.mem_block[b].ptes = {}
             /\ Becomes(update_file_block(S, p, n, b, reference))

(* vm_map with a filename. *)
MapFile(v, w, blk) ==
    LET p == curr_pid
        n == Len(data_location[p]) + 1
        A == Touched(Pager, p, v)
        name == filename_str(p, v, w)
    IN  /\ p # NoPid /\ n <= num_virt_addr
        /\ v <= w /\ w <= v + 1 /\ {v, w} \subseteq DOMAIN data_location[p]
        /\ v = w \/ (WasRead(A, p, v) /\ ByteOf(A, p, v) # 0)
        /\ \E S \in {ReadName(Pager, p, v, w)} :
             IF NameWasRead(Pager, p, v, w) THEN MapNamed(S, p, n, name, blk) ELSE Becomes(S)
        /\ UNCHANGED <<procVars, accessible>>

(* vm_map of a name that runs from the last valid page into an invalid     *)
(* one: that page is made resident, then vm_map fails.                     *)
MapFileInvalid ==
    LET p == curr_pid
        v == Len(data_location[p])
        A == Touched(Pager, p, v)
    IN  /\ p # NoPid /\ v \in 1 .. num_virt_addr - 1
        /\ ~WasRead(Pager, p, v)
        /\ WasRead(A, p, v) => ByteOf(A, p, v) # 0
        /\ Becomes(A)
        /\ UNCHANGED <<procVars, accessible>>

(* A file that could not be read before can be read from now on. *)
FileAppears(k) ==
    /\ k \in Existing \ accessible
    /\ accessible' = accessible \cup {k}
    /\ UNCHANGED <<pagerVars, procVars>>

Next ==
    \/ \E p \in Pids \cup {NoPid}, c \in Pids : Create(p, c)
    \/ \E p \in Pids : Switch(p)
    \/ \E v \in VPages : \E write_flag \in BOOLEAN : Fault(v, write_flag)
    \/ \E v \in VPages, d \in Data : Store(v, d)
    \/ Destroy
    \/ MapSwap
    \/ \E v, w \in VPages, blk \in FileBlocks : MapFile(v, w, blk)
    \/ MapFileInvalid
    \/ \E k \in FileKeys : FileAppears(k)

Spec == Init /\ [][Next]_vars

-----------------------------------------------------------------------------
(* Properties.                                                             *)

Block == [dirty : BOOLEAN, referenced : BOOLEAN, resident : BOOLEAN, is_swap : BOOLEAN,
          swap_blocks : Seq(SwapBlocks), ptes : SUBSET (Pids \X VPages),
          location : Frames \cup SwapBlocks \cup FileBlocks,
          filename : Names \cup {NoName}, block_num : FileBlocks \cup {0}]
Entry == [ppage : Frames \cup FileBlocks, read_enable : BOOLEAN, write_enable : BOOLEAN]
Pages == {pg \in Pids \X VPages : pg[2] \in DOMAIN data_location[pg[1]]}
BlockOf(pg) == data_location[pg[1]][pg[2]]
EntryOf(pg) == page_table[pg[1]][pg[2]]
PagesOf(b) == {pg \in Pages : BlockOf(pg) = b}
InUse == Referenced(Pager)

(* Type invariant, with the values a field can really have: a location is  *)
(* a frame exactly as long as the block is resident, and a swap-backed     *)
(* block that has left memory is always found in a swap block.             *)
TypeOK ==
    /\ physmem \in [Frames -> Data] /\ swap_file \in [SwapBlocks -> Data]
    /\ files \in [FileKeys -> Data]
    /\ clock_queue \in Seq(BlockIds) /\ free_mem_blocks \in Seq(Frames)
    /\ free_swap_blocks \in Seq(SwapBlocks) /\ file_mapping_table \subseteq BlockIds
    /\ page_table \in [Pids -> [VPages -> Entry]]
    /\ data_location \in [Pids -> Seq(BlockIds)]
    /\ \A p \in Pids : Len(data_location[p]) <= num_virt_addr
    /\ num_swap_blocks \in [Pids -> 0 .. UINT_MAX]
    /\ managed \subseteq Pids /\ alive \subseteq managed /\ curr_pid \in alive \cup {NoPid}
    /\ accessible \subseteq Existing
    /\ mem_block \in [BlockIds -> Block]
    /\ \A b \in BlockIds : mem_block[b].location \in
         IF mem_block[b].resident THEN Frames
         ELSE IF mem_block[b].is_swap THEN SwapBlocks ELSE FileBlocks

(* No frame is lost or used twice: every frame but the pinned one is free, *)
(* or belongs to exactly one resident block of the clock queue.  utils.h   *)
(* asks for this of clock_queue when evict_phys_page is called: no frame   *)
(* is free then, so the queue has a block for every frame.                 *)
FramesConserved ==
    /\ ToSet(free_mem_blocks) \cup {mem_block[b].location : b \in ToSet(clock_queue)}
         = Frames \ {0}
    /\ Len(free_mem_blocks) + Len(clock_queue) = memory_pages - 1
    /\ \A b \in InUse \ {zero_page} : mem_block[b].resident <=> b \in ToSet(clock_queue)

(* Eager swap reservation: every swap-backed page of every process owns a  *)
(* swap block, through fork, copy on write and exit, and no swap block is  *)
(* lost or owned twice.  Eviction can rely on it.                          *)
SwapConserved ==
    /\ \A b \in InUse : Len(mem_block[b].swap_blocks) =
         IF mem_block[b].is_swap THEN Cardinality(PagesOf(b)) ELSE 0
    /\ ToSet(free_swap_blocks) \cup UNION {ToSet(mem_block[b].swap_blocks) : b \in InUse}
         = SwapBlocks
    /\ Len(free_swap_blocks) + Cardinality({pg \in Pages : mem_block[BlockOf(pg)].is_swap})
         = swap_blocks

(* A block points to the entries of exactly the pages that show it: none   *)
(* is missed when the block moves, and none belongs to a process that has  *)
(* exited.  The pinned zero page only knows the pages a fork gave it.      *)
PtesExact ==
    /\ \A b \in InUse \ {zero_page} : mem_block[b].ptes = PagesOf(b)
    /\ mem_block[zero_page].ptes \subseteq PagesOf(zero_page)

(* The MMU never lets an access through that the pager has to see: what    *)
(* can be read is resident; what can be written can be read (vm_pager.h:   *)
(* no write-only pages), is dirty already, and is shared with no other     *)
(* page unless it shows a file.  The entry of a resident page has the      *)
(* right frame even while it is disabled, as read_fault_handler only       *)
(* enables it again.                                                       *)
MmuSound ==
    \A pg \in Pages : LET e == EntryOf(pg)
                          x == mem_block[BlockOf(pg)] IN
        /\ e.read_enable => x.resident
        /\ x.resident => e.ppage = x.location
        /\ e.write_enable => /\ e.read_enable /\ x.dirty
                             /\ x.is_swap => PagesOf(BlockOf(pg)) = {pg}

(* Eviction may drop a clean block: its backing store has the same data.   *)
(* A swap-backed block out of memory is in its first swap block, which it  *)
(* therefore may not give away.  The pinned page is all zeroes.            *)
CleanOnDisk ==
    /\ physmem[0] = 0
    /\ \A b \in InUse : LET x == mem_block[b] IN
         x.is_swap /\ ~x.resident => x.location = Head(x.swap_blocks)
    /\ \A b \in ToSet(clock_queue) : LET x == mem_block[b] IN
         ~x.dirty => physmem[x.location] = IF x.is_swap THEN swap_file[Head(x.swap_blocks)]
                                           ELSE files[FileKey(x)]

(* No num_swap_blocks ever wraps, whatever it started from.  It is not so  *)
(* for every leftover: one near UINT_MAX becomes a small count after a few *)
(* map_swap_blocks, vm_create then lets a fork through with too few swap   *)
(* blocks, and copy_virtual_page takes the front of an empty queue, after  *)
(* which nothing is promised.                                              *)
CountsFit == \A n \in Leftovers : n + num_virt_addr <= UINT_MAX

SwapBacked(p) == {v \in DOMAIN data_location[p] : mem_block[data_location[p][v]].is_swap}

(* vm_create is to "Reserve as many swap blocks as the parent has for the  *)
(* child process": a fork is refused exactly when there are too few.       *)
ForkReserves ==
    [][\A p \in managed, c \in Pids : Create(p, c) =>
         (c \in alive' <=> Cardinality(SwapBacked(p)) <= Len(free_swap_blocks))]_vars

(***************************************************************************)
(* The pager implements VirtualMemory: under any faults and evictions, a   *)
(* page of a process holds what that process, or for a file block anybody, *)
(* last stored to it.                                                      *)
(***************************************************************************)
Shows(p, v) == LET x == mem_block[data_location[p][v]] IN
               IF x.is_swap THEN Private ELSE FileKey(x)

VM == INSTANCE VirtualMemory WITH
        arena <- [p \in Pids |-> [v \in DOMAIN data_location[p] |-> Shows(p, v)]],
        private <- [p \in Pids |-> [v \in DOMAIN data_location[p] |->
                      IF Shows(p, v) = Private THEN Datum(Pager, p, v) ELSE 0]],
        content <- [k \in FileKeys |->
                      IF \E b \in file_mapping_table : FileKey(mem_block[b]) = k
                      THEN DatumOf(Pager, mem_block[CHOOSE b \in file_mapping_table :
                                                      FileKey(mem_block[b]) = k])
                      ELSE files[k]]

(* Every handler, store and eviction is a step of VirtualMemory or changes *)
(* nothing an application can see: fork copies all pages, a store changes  *)
(* its own page alone, or the one version there is of a file block.        *)
ImplementsVM == VM!Spec

(* The data of a page survive everything but a store: no fault, eviction,  *)
(* copy, fork, mapping or exit changes what any page holds.  (A page lost  *)
(* by eviction would look like a store to VirtualMemory.)                  *)
OnlyStoresChangePages ==
    [][(\E v \in VPages, d \in Data : Store(v, d)) \/
       \A pg \in Pages : pg \in Pages' => VM!Value(pg[1], pg[2])' = VM!Value(pg[1], pg[2])]_vars

(* A load the MMU lets through returns what VirtualMemory says the page    *)
(* holds, whatever was forked, copied or evicted since it was stored.      *)
LoadsRight == \A pg \in Pages : EntryOf(pg).read_enable =>
                  physmem[EntryOf(pg).ppage] = VM!Value(pg[1], pg[2])
=============================================================================
