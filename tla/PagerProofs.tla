----------------------------- MODULE PagerProofs -----------------------------
(***************************************************************************)
(* Proofs about the pager, for any number of processes, pages, frames and  *)
(* swap blocks: no frame and no swap block is lost or used twice, and a    *)
(* block knows the pages that show it.                                     *)
(*                                                                         *)
(* The helpers of the handlers map a pager state S to the next one, so the *)
(* invariant is stated of such a state, and one lemma for each helper says *)
(* that it keeps it.  In the middle of a handler it holds but for some     *)
(* pages: a page that copy on write or vm_destroy is taking from its block *)
(* is no longer among the ptes, while data_location still has it.          *)
(***************************************************************************)
EXTENDS Pager, QueueProofs

PagerState ==
    [physmem : [Frames -> Data], swap_file : [SwapBlocks -> Data], files : [FileKeys -> Data],
     mem_block : [BlockIds -> Block], clock_queue : Seq(BlockIds),
     free_mem_blocks : Seq(Frames), free_swap_blocks : Seq(SwapBlocks),
     file_mapping_table : SUBSET BlockIds, page_table : [Pids -> [VPages -> Entry]],
     data_location : [Pids -> Seq(BlockIds)]]

PagesIn(S) == {pg \in Pids \X VPages : pg[2] \in DOMAIN S.data_location[pg[1]]}
BlockIn(S, pg) == S.data_location[pg[1]][pg[2]]
Showing(S, gone, b) == {pg \in PagesIn(S) \ gone : BlockIn(S, pg) = b}
SwapPages(S, gone) == {pg \in PagesIn(S) \ gone : S.mem_block[BlockIn(S, pg)].is_swap}

PlaceOK(x) == x.location \in IF x.resident THEN Frames
                             ELSE IF x.is_swap THEN SwapBlocks ELSE FileBlocks

Shape(S) ==
    /\ S \in PagerState
    /\ \A p \in Pids : Len(S.data_location[p]) <= num_virt_addr
    /\ \A b \in BlockIds : PlaceOK(S.mem_block[b])

Pinned(S) ==
    /\ S.mem_block[zero_page].resident /\ S.mem_block[zero_page].is_swap
    /\ S.mem_block[zero_page].location = 0
    /\ zero_page \notin ToSet(S.clock_queue)

(* A file-backed block has a name, and is found under it. *)
NamedOK(x) == ~x.is_swap => /\ x.filename \in Names /\ x.block_num \in FileBlocks
                            /\ ~x.resident => x.location = x.block_num
FilesInv(S) ==
    /\ \A b \in Referenced(S) : NamedOK(S.mem_block[b])
    /\ \A b \in S.file_mapping_table :
         ~S.mem_block[b].is_swap /\ (S.mem_block[b].resident \/ S.mem_block[b].ptes # {})

(* Frames: each is free or of one block of the clock queue. *)
FramesInv(S) ==
    LET q == ToSet(S.clock_queue)
        free == ToSet(S.free_mem_blocks)
        loc(b) == S.mem_block[b].location
    IN  /\ IsInjective(S.clock_queue) /\ IsInjective(S.free_mem_blocks)
        /\ 0 \notin free
        /\ \A b \in q : loc(b) # 0 /\ loc(b) \notin free
        /\ \A b, c \in q : loc(b) = loc(c) => b = c
        /\ \A f \in Frames \ {0} : f \in free \/ \E b \in q : loc(b) = f

(* A block is resident exactly as long as it is in the clock queue. *)
ResidentInv(S) ==
    \A b \in Referenced(S) \ {zero_page} :
        S.mem_block[b].resident <=> b \in ToSet(S.clock_queue)

(* The entries a block points to *)
PtesInv(S, gone) ==
    /\ \A b \in Referenced(S) \ {zero_page} : S.mem_block[b].ptes = Showing(S, gone, b)
    /\ S.mem_block[zero_page].ptes \subseteq Showing(S, gone, zero_page)

(* Swap blocks: one for every page that needs one *)
SwapInv(S, gone) ==
    /\ \A b \in Referenced(S) : Len(S.mem_block[b].swap_blocks) =
         IF S.mem_block[b].is_swap THEN Cardinality(Showing(S, gone, b)) ELSE 0
    /\ \A k \in SwapBlocks : \/ k \in ToSet(S.free_swap_blocks)
                             \/ \E b \in Referenced(S) : k \in ToSet(S.mem_block[b].swap_blocks)
    /\ Len(S.free_swap_blocks) + Cardinality(SwapPages(S, gone)) = swap_blocks

(* A block that may be evicted has somewhere to go. *)
HomeInv(S) ==
    \A b \in ToSet(S.clock_queue) :
        S.mem_block[b].is_swap => S.mem_block[b].swap_blocks # <<>>

Whole(S, unpointed, unswapped) ==
    /\ Shape(S) /\ Pinned(S) /\ FilesInv(S) /\ FramesInv(S) /\ ResidentInv(S)
    /\ PtesInv(S, unpointed) /\ SwapInv(S, unswapped) /\ HomeInv(S)

(* What the processes add: only processes that run have pages, and the     *)
(* count vm_create relies on is never too small.  It is too large by what  *)
(* the memory held at first, so it never wraps if that has room for all    *)
(* the pages that can be mapped.                                           *)
SwapPagesOf(S, p) ==
    {v \in DOMAIN S.data_location[p] : S.mem_block[S.data_location[p][v]].is_swap}
Counts(pages, count) == pages <= count /\ count + num_virt_addr <= UINT_MAX + pages
ProcInv ==
    /\ CountsFit
    /\ managed \subseteq Pids /\ alive \subseteq managed /\ curr_pid \in alive \cup {NoPid}
    /\ num_swap_blocks \in [Pids -> 0 .. UINT_MAX] /\ accessible \subseteq Existing
    /\ \A p \in Pids \ alive : data_location[p] = <<>>
    /\ \A p \in alive : Counts(Cardinality(SwapPagesOf(Pager, p)), num_swap_blocks[p])

PagerInv == Whole(Pager, {}, {}) /\ ProcInv

-----------------------------------------------------------------------------
(* Facts about states.                                                     *)

LEMMA Numbers ==
    /\ zero_page \in BlockIds /\ 0 \in Frames /\ memory_pages \in Nat /\ num_virt_addr \in Nat
    /\ memory_pages >= 2 /\ Frames \subseteq Nat /\ 0 \in Data /\ swap_blocks \in Nat
BY PagerAssumption, MaxBlocksAssumption DEF BlockIds, zero_page, Frames

(* The fields of a state *)
LEMMA Fields ==
    ASSUME NEW S, S \in PagerState
    PROVE  /\ S.physmem \in [Frames -> Data] /\ S.swap_file \in [SwapBlocks -> Data]
           /\ S.files \in [FileKeys -> Data] /\ S.mem_block \in [BlockIds -> Block]
           /\ S.clock_queue \in Seq(BlockIds) /\ S.free_mem_blocks \in Seq(Frames)
           /\ S.free_swap_blocks \in Seq(SwapBlocks) /\ S.file_mapping_table \in SUBSET BlockIds
           /\ S.page_table \in [Pids -> [VPages -> Entry]]
           /\ S.data_location \in [Pids -> Seq(BlockIds)]
BY DEF PagerState

(* The valid pages of a process *)
LEMMA PagesMeaning ==
    ASSUME NEW S, Shape(S), NEW p \in Pids
    PROVE  /\ S.data_location[p] \in Seq(BlockIds) /\ Len(S.data_location[p]) \in Nat
           /\ DOMAIN S.data_location[p] = 1 .. Len(S.data_location[p])
           /\ DOMAIN S.data_location[p] \subseteq VPages
           /\ \A v \in DOMAIN S.data_location[p] :
                <<p, v>> \in PagesIn(S) /\ BlockIn(S, <<p, v>>) = S.data_location[p][v]
<1>1. S.data_location[p] \in Seq(BlockIds) /\ Len(S.data_location[p]) <= num_virt_addr
  BY Fields DEF Shape
<1>2. /\ DOMAIN S.data_location[p] = 1 .. Len(S.data_location[p])
      /\ Len(S.data_location[p]) \in Nat
  BY <1>1
<1>3. DOMAIN S.data_location[p] \subseteq VPages  BY <1>1, <1>2, Numbers DEF VPages
<1>4. QED  BY <1>1, <1>2, <1>3 DEF PagesIn, BlockIn

LEMMA PagesType ==
    ASSUME NEW S, Shape(S), NEW pg \in PagesIn(S)
    PROVE  /\ pg = <<pg[1], pg[2]>> /\ pg[1] \in Pids /\ pg[2] \in DOMAIN S.data_location[pg[1]]
           /\ BlockIn(S, pg) = S.data_location[pg[1]][pg[2]] /\ BlockIn(S, pg) \in BlockIds
<1>1. pg = <<pg[1], pg[2]>> /\ pg[1] \in Pids /\ pg[2] \in DOMAIN S.data_location[pg[1]]
  BY DEF PagesIn
<1>2. S.data_location[pg[1]] \in Seq(BlockIds)  BY <1>1, PagesMeaning
<1>3. S.data_location[pg[1]][pg[2]] \in BlockIds  BY <1>1, <1>2
<1>4. QED  BY <1>1, <1>3 DEF BlockIn

(* The blocks somebody points to *)
LEMMA ReferencedMeaning ==
    ASSUME NEW S, Shape(S)
    PROVE  /\ Referenced(S) \subseteq BlockIds
           /\ \A b : b \in Referenced(S) <=>
                \/ b = zero_page \/ b \in ToSet(S.clock_queue) \/ b \in S.file_mapping_table
                \/ \E pg \in PagesIn(S) : BlockIn(S, pg) = b
<1>1. ASSUME NEW b PROVE (\E p \in Pids : b \in ToSet(S.data_location[p]))
                           <=> \E pg \in PagesIn(S) : BlockIn(S, pg) = b
  <2>1. ASSUME NEW p \in Pids, b \in ToSet(S.data_location[p])
        PROVE  \E pg \in PagesIn(S) : BlockIn(S, pg) = b
    <3>1. PICK v \in DOMAIN S.data_location[p] : b = S.data_location[p][v]  BY <2>1 DEF ToSet
    <3>2. QED  BY <3>1, PagesMeaning
  <2>2. ASSUME NEW pg \in PagesIn(S), BlockIn(S, pg) = b
        PROVE  \E p \in Pids : b \in ToSet(S.data_location[p])
    BY <2>2, PagesType DEF ToSet
  <2>3. QED  BY <2>1, <2>2
<1>2. \A b : b \in Referenced(S) <=>
                \/ b = zero_page \/ b \in ToSet(S.clock_queue) \/ b \in S.file_mapping_table
                \/ \E p \in Pids : b \in ToSet(S.data_location[p])
  BY DEF Referenced
<1>3. Referenced(S) \subseteq BlockIds
  <2>1. ToSet(S.clock_queue) \subseteq BlockIds /\ S.file_mapping_table \subseteq BlockIds
    BY Fields, ToSetType DEF Shape
  <2>2. QED  BY <1>1, <1>2, <2>1, PagesType, Numbers
<1>4. QED  BY <1>1, <1>2, <1>3

(* There are finitely many pages. *)
LEMMA PagesFinite ==
    ASSUME NEW A \in SUBSET (Pids \X VPages)
    PROVE  IsFiniteSet(A) /\ Cardinality(A) \in Nat
<1>1. IsFiniteSet(Pids) /\ IsFiniteSet(VPages)
  BY MaxBlocksAssumption, PagerAssumption, FS_Interval DEF VPages
<1>2. IsFiniteSet(Pids \X VPages)  BY <1>1, FS_Product
<1>3. QED  BY <1>2, FS_Subset, FS_CardinalityType

LEMMA ShowingFinite ==
    ASSUME NEW S, NEW gone
    PROVE  /\ \A b : IsFiniteSet(Showing(S, gone, b)) /\ Cardinality(Showing(S, gone, b)) \in Nat
           /\ IsFiniteSet(SwapPages(S, gone)) /\ Cardinality(SwapPages(S, gone)) \in Nat
<1>1. /\ \A b : Showing(S, gone, b) \in SUBSET (Pids \X VPages)
      /\ SwapPages(S, gone) \in SUBSET (Pids \X VPages)
  BY DEF Showing, SwapPages, PagesIn
<1>2. QED  BY <1>1, PagesFinite

-----------------------------------------------------------------------------
(* Steps that change permissions, data and the dirty and referenced bits:  *)
(* nothing the invariant is about.                                         *)

Alike(x, y) ==
    /\ y.resident = x.resident /\ y.is_swap = x.is_swap /\ y.swap_blocks = x.swap_blocks
    /\ y.ptes = x.ptes /\ y.location = x.location
    /\ y.filename = x.filename /\ y.block_num = x.block_num

Unmoved(S, T) ==
    /\ T.clock_queue = S.clock_queue /\ T.free_mem_blocks = S.free_mem_blocks
    /\ T.free_swap_blocks = S.free_swap_blocks
    /\ T.file_mapping_table = S.file_mapping_table /\ T.data_location = S.data_location
    /\ \A b \in BlockIds : Alike(S.mem_block[b], T.mem_block[b])

LEMMA UnmovedWhole ==
    ASSUME NEW S, NEW T, NEW unpointed, NEW unswapped,
           Whole(S, unpointed, unswapped), T \in PagerState, Unmoved(S, T)
    PROVE  Whole(T, unpointed, unswapped)
<1>0. Shape(S)  BY DEF Whole
<1>1. /\ PagesIn(T) = PagesIn(S) /\ \A pg : BlockIn(T, pg) = BlockIn(S, pg)
      /\ Referenced(T) = Referenced(S)
  BY DEF PagesIn, BlockIn, Referenced, Unmoved
<1>2. \A gone, b : Showing(T, gone, b) = Showing(S, gone, b)  BY <1>1 DEF Showing
<1>3. \A gone : SwapPages(T, gone) = SwapPages(S, gone)
  BY <1>0, <1>1, PagesType DEF SwapPages, Unmoved, Alike
<1>4. /\ Referenced(S) \subseteq BlockIds /\ ToSet(S.clock_queue) \subseteq BlockIds
      /\ S.file_mapping_table \subseteq BlockIds /\ zero_page \in BlockIds
  BY <1>0, ReferencedMeaning, Numbers
<1>5. Shape(T)  BY <1>0 DEF Shape, Unmoved, Alike, PlaceOK
<1>6. Pinned(T)  BY <1>4 DEF Whole, Pinned, Unmoved, Alike
<1>7. FilesInv(T)  BY <1>1, <1>4 DEF Whole, FilesInv, NamedOK, Unmoved, Alike
<1>8. FramesInv(T)  BY <1>4 DEF Whole, FramesInv, Unmoved, Alike
<1>9. ResidentInv(T)  BY <1>1, <1>4 DEF Whole, ResidentInv, Unmoved, Alike
<1>10. PtesInv(T, unpointed)  BY <1>1, <1>2, <1>4 DEF Whole, PtesInv, Unmoved, Alike
<1>11. SwapInv(T, unswapped)  BY <1>1, <1>2, <1>3, <1>4 DEF Whole, SwapInv, Unmoved, Alike
<1>12. HomeInv(T)  BY <1>4 DEF Whole, HomeInv, Unmoved, Alike
<1>13. QED  BY <1>5, <1>6, <1>7, <1>8, <1>9, <1>10, <1>11, <1>12 DEF Whole

(* Only page table entries differ. *)
Repainted(S, T) ==
    /\ T \in PagerState /\ Unmoved(S, T) /\ T.mem_block = S.mem_block
    /\ T.physmem = S.physmem /\ T.swap_file = S.swap_file /\ T.files = S.files

LEMMA Repaint ==
    ASSUME NEW S, S \in PagerState, NEW pt \in [Pids -> [VPages -> Entry]]
    PROVE  Repainted(S, [S EXCEPT !.page_table = pt])
BY Fields DEF PagerState, Repainted, Unmoved, Alike

(* The loops over the ptes of a block *)
LEMMA RepaintLoops ==
    ASSUME NEW S, S \in PagerState, NEW ptes
    PROVE  /\ Repainted(S, SetEntries(S, ptes, Disabled))
           /\ Repainted(S, SetEntries(S, ptes, ReadOnly))
           /\ Repainted(S, SetEntries(S, ptes, Readable))
           /\ Repainted(S, SetEntries(S, ptes, Writable))
<1>1. S.page_table \in [Pids -> [VPages -> Entry]]  BY Fields
<1>2. \A e \in Entry : /\ Disabled(e) \in Entry /\ ReadOnly(e) \in Entry
                       /\ Readable(e) \in Entry /\ Writable(e) \in Entry
  BY DEF Entry, Disabled, ReadOnly, Readable, Writable
<1> DEFINE Loop(New(_)) == [p \in Pids |-> [v \in VPages |->
                              IF <<p, v>> \in ptes THEN New(S.page_table[p][v])
                              ELSE S.page_table[p][v]]]
<1>3. /\ Loop(Disabled) \in [Pids -> [VPages -> Entry]]
      /\ Loop(ReadOnly) \in [Pids -> [VPages -> Entry]]
      /\ Loop(Readable) \in [Pids -> [VPages -> Entry]]
      /\ Loop(Writable) \in [Pids -> [VPages -> Entry]]
  BY <1>1, <1>2
<1>4. Repainted(S, SetEntries(S, ptes, Disabled))  BY <1>3, Repaint DEF SetEntries
<1>5. Repainted(S, SetEntries(S, ptes, ReadOnly))  BY <1>3, Repaint DEF SetEntries
<1>6. Repainted(S, SetEntries(S, ptes, Readable))  BY <1>3, Repaint DEF SetEntries
<1>7. Repainted(S, SetEntries(S, ptes, Writable))  BY <1>3, Repaint DEF SetEntries
<1>8. QED  BY <1>4, <1>5, <1>6, <1>7

-----------------------------------------------------------------------------
(* evict_phys_page.                                                        *)

(* The block victim leaves its frame and the clock queue. *)
Evicted(S, E, victim) ==
    LET x == S.mem_block[victim]
        y == E.mem_block[victim]
    IN  /\ E \in PagerState
        /\ IsInjective(E.clock_queue)
        /\ ToSet(E.clock_queue) = ToSet(S.clock_queue) \ {victim}
        /\ E.free_mem_blocks = Append(S.free_mem_blocks, x.location)
        /\ E.free_swap_blocks = S.free_swap_blocks /\ E.data_location = S.data_location
        /\ E.file_mapping_table = IF ~x.is_swap /\ x.ptes = {}
                                  THEN S.file_mapping_table \ {victim}
                                  ELSE S.file_mapping_table
        /\ \A b \in BlockIds \ {victim} : Alike(S.mem_block[b], E.mem_block[b])
        /\ ~y.resident /\ y.location = HomeOf(x)
        /\ y.is_swap = x.is_swap /\ y.swap_blocks = x.swap_blocks /\ y.ptes = x.ptes
        /\ y.filename = x.filename /\ y.block_num = x.block_num

(* The clock hand stops at a member of the queue, or past its end. *)
LEMMA HandType ==
    ASSUME NEW S, S \in PagerState
    PROVE  ClockHand(S) \in 1 .. Len(S.clock_queue) + 1
<1> DEFINE u == {i \in DOMAIN S.clock_queue : ~S.mem_block[S.clock_queue[i]].referenced}
<1>1. Len(S.clock_queue) \in Nat /\ DOMAIN S.clock_queue = 1 .. Len(S.clock_queue)  BY Fields
<1>2. CASE u = {}  BY <1>1, <1>2 DEF ClockHand
<1>3. CASE u # {}
  <2>1. u \subseteq Nat /\ u \subseteq 1 .. Len(S.clock_queue)  BY <1>1
  <2>2. ClockHand(S) = CHOOSE i \in u : \A j \in u : i <= j  BY <1>3 DEF ClockHand
  <2> HIDE DEF u
  <2>3. \E i \in u : \A j \in u : i <= j  BY <1>3, <2>1, LeastOf
  <2>4. ClockHand(S) \in u  BY <2>2, <2>3
  <2>5. ClockHand(S) \in 1 .. Len(S.clock_queue)  BY <2>1, <2>4
  <2>6. PICK n \in Nat : n = Len(S.clock_queue)  BY <1>1
  <2>7. 1 .. n \subseteq 1 .. n + 1  OBVIOUS
  <2>8. QED  BY <2>5, <2>6, <2>7
<1>4. QED  BY <1>2, <1>3

(* The queue turned so that the block to be evicted is at its front *)
LEMMA FromHandLemma ==
    ASSUME NEW S, S \in PagerState, S.clock_queue # <<>>, IsInjective(S.clock_queue)
    PROVE  LET rest == FromHand(S)
           IN  /\ Head(rest) \in ToSet(S.clock_queue) /\ Head(rest) \in BlockIds
               /\ Tail(rest) \in Seq(BlockIds) /\ IsInjective(Tail(rest))
               /\ ToSet(Tail(rest)) = ToSet(S.clock_queue) \ {Head(rest)}
<1> DEFINE q == S.clock_queue
           hand == ClockHand(S)
           rest == FromHand(S)
<1>1. q \in Seq(BlockIds) /\ Len(q) \in Nat /\ hand \in 1 .. Len(q) + 1  BY Fields, HandType
<1>2. rest \in Seq(BlockIds) /\ ToSet(rest) = ToSet(q) /\ rest # <<>> /\ IsInjective(rest)
  <2>1. CASE hand > Len(q)  BY <1>1, <2>1 DEF FromHand
  <2>2. CASE ~(hand > Len(q))
    <3>1. hand \in 1 .. Len(q)  BY <1>1, <2>2
    <3>2. rest = Rotated(q, hand)  BY <2>2 DEF FromHand
    <3>3. IsInjective(q)  OBVIOUS
    <3> HIDE DEF q, hand, rest
    <3>4. /\ Rotated(q, hand) \in Seq(BlockIds) /\ ToSet(Rotated(q, hand)) = ToSet(q)
          /\ Rotated(q, hand) # <<>> /\ IsInjective(Rotated(q, hand))
      BY <1>1, <3>1, <3>3, RotateLemma
    <3>5. QED  BY <3>2, <3>4
  <2>3. QED  BY <2>1, <2>2
<1> HIDE DEF rest
<1>3. /\ Head(rest) \in BlockIds /\ Tail(rest) \in Seq(BlockIds)
      /\ ToSet(rest) = {Head(rest)} \cup ToSet(Tail(rest))
      /\ Head(rest) \notin ToSet(Tail(rest)) /\ IsInjective(Tail(rest))
  BY <1>2, HeadTailLemma
<1>4. QED  BY <1>2, <1>3 DEF rest

LEMMA EvictEffect ==
    ASSUME NEW S, NEW unpointed, NEW unswapped, Whole(S, unpointed, unswapped),
           S.clock_queue # <<>>
    PROVE  \E victim \in ToSet(S.clock_queue) : Evicted(S, evict_phys_page(S), victim)
<1> DEFINE q == S.clock_queue
           hand == ClockHand(S)
           passed == {q[i] : i \in 1 .. hand - 1}
           rest == FromHand(S)
           victim == Head(rest)
           b == S.mem_block[victim]
           T == SetEntries(S, UNION {S.mem_block[x].ptes : x \in passed \cup {victim}}, Disabled)
           gone == [b EXCEPT !.resident = FALSE, !.dirty = FALSE, !.referenced = FALSE,
                             !.location = HomeOf(b)]
           mb == [x \in BlockIds |->
                    IF x = victim THEN gone
                    ELSE [S.mem_block[x] EXCEPT !.referenced = @ /\ x \notin passed]]
           fmt == IF ~b.is_swap /\ b.ptes = {} THEN S.file_mapping_table \ {victim}
                  ELSE S.file_mapping_table
           sw == IF should_write(b) /\ b.is_swap
                 THEN [S.swap_file EXCEPT ![Head(b.swap_blocks)] = S.physmem[b.location]]
                 ELSE S.swap_file
           fi == IF should_write(b) /\ ~b.is_swap
                 THEN [S.files EXCEPT ![FileKey(b)] = S.physmem[b.location]] ELSE S.files
<1>0. /\ Shape(S) /\ S \in PagerState /\ FramesInv(S) /\ IsInjective(S.clock_queue)
      /\ FilesInv(S) /\ HomeInv(S) /\ ResidentInv(S) /\ Pinned(S)
  BY DEF Whole, Shape, FramesInv
<1>1. /\ victim \in ToSet(q) /\ victim \in BlockIds
      /\ Tail(rest) \in Seq(BlockIds) /\ IsInjective(Tail(rest))
      /\ ToSet(Tail(rest)) = ToSet(q) \ {victim}
  BY <1>0, FromHandLemma
<1>2. Repainted(S, T)  BY <1>0, RepaintLoops
<1>3. /\ T.clock_queue = S.clock_queue /\ T.free_mem_blocks = S.free_mem_blocks
      /\ T.file_mapping_table = S.file_mapping_table
      /\ T.swap_file = S.swap_file /\ T.files = S.files /\ T \in PagerState
      /\ T.free_swap_blocks = S.free_swap_blocks /\ T.data_location = S.data_location
  BY <1>2 DEF Repainted, Unmoved
<1>4. evict_phys_page(S) =
        [T EXCEPT !.clock_queue = Tail(rest),
                  !.free_mem_blocks = Append(@, b.location),
                  !.mem_block = mb,
                  !.file_mapping_table = IF ~b.is_swap /\ b.ptes = {} THEN @ \ {victim} ELSE @,
                  !.swap_file = IF should_write(b) /\ b.is_swap
                                THEN [@ EXCEPT ![Head(b.swap_blocks)] = S.physmem[b.location]]
                                ELSE @,
                  !.files = IF should_write(b) /\ ~b.is_swap
                            THEN [@ EXCEPT ![FileKey(b)] = S.physmem[b.location]] ELSE @]
  BY DEF evict_phys_page
<1> HIDE DEF rest, victim, T, passed
<1>5. /\ b \in Block /\ b.resident /\ b.location \in Frames /\ NamedOK(b)
      /\ b.is_swap => b.swap_blocks # <<>> /\ Head(b.swap_blocks) \in SwapBlocks
  <2>1. b \in Block  BY <1>0, <1>1, Fields
  <2>2. victim \in Referenced(S) /\ victim # zero_page
    BY <1>0, <1>1, ReferencedMeaning DEF Pinned
  <2>3. b.resident /\ NamedOK(b)  BY <1>0, <1>1, <2>2 DEF ResidentInv, FilesInv
  <2>4. b.location \in Frames  BY <1>0, <1>1, <2>3 DEF Shape, PlaceOK
  <2>5. ASSUME b.is_swap PROVE b.swap_blocks # <<>> /\ Head(b.swap_blocks) \in SwapBlocks
    <3>1. b.swap_blocks # <<>>  BY <1>0, <1>1, <2>5 DEF HomeInv
    <3>2. b.swap_blocks \in Seq(SwapBlocks)  BY <2>1 DEF Block
    <3>3. QED  BY <3>1, <3>2
  <2>6. QED  BY <2>1, <2>3, <2>4, <2>5
<1>6. gone \in Block /\ HomeOf(b) \in SwapBlocks \cup FileBlocks
  <2>1. HomeOf(b) \in SwapBlocks \cup FileBlocks  BY <1>5 DEF HomeOf, NamedOK
  <2>2. QED  BY <1>5, <2>1 DEF Block
<1>7. \A x \in BlockIds : [S.mem_block[x] EXCEPT !.referenced = @ /\ x \notin passed] \in Block
  <2>1. ASSUME NEW y \in Block, NEW r \in BOOLEAN PROVE [y EXCEPT !.referenced = r] \in Block
    BY DEF Block
  <2>2. \A x \in BlockIds : S.mem_block[x] \in Block  BY <1>0, Fields
  <2>3. \A x \in BlockIds : (S.mem_block[x].referenced /\ x \notin passed) \in BOOLEAN  OBVIOUS
  <2>4. QED  BY <2>1, <2>2, <2>3
<1> HIDE DEF gone
<1>8. mb \in [BlockIds -> Block]  BY <1>6, <1>7
<1>9. sw \in [SwapBlocks -> Data] /\ fi \in [FileKeys -> Data]
  <2>1. S.physmem[b.location] \in Data  BY <1>0, <1>5, Fields
  <2>2. S.swap_file \in [SwapBlocks -> Data] /\ S.files \in [FileKeys -> Data]  BY <1>0, Fields
  <2>3. QED  BY <2>1, <2>2
<1>10. fmt \in SUBSET BlockIds /\ Append(S.free_mem_blocks, b.location) \in Seq(Frames)
  BY <1>0, <1>5, Fields
<1>11. evict_phys_page(S) =
        [T EXCEPT !.clock_queue = Tail(rest),
                  !.free_mem_blocks = Append(S.free_mem_blocks, b.location),
                  !.mem_block = mb, !.file_mapping_table = fmt,
                  !.swap_file = sw, !.files = fi]
  BY <1>3, <1>4
<1>12. \A x \in BlockIds \ {victim} : Alike(S.mem_block[x], mb[x])
  <2>1. ASSUME NEW y \in Block, NEW r PROVE Alike(y, [y EXCEPT !.referenced = r])
    BY DEF Block, Alike
  <2>2. \A x \in BlockIds : S.mem_block[x] \in Block  BY <1>0, Fields
  <2>3. QED  BY <2>1, <2>2
<1>13. /\ mb[victim] = gone
       /\ ~gone.resident /\ gone.location = HomeOf(b) /\ gone.is_swap = b.is_swap
       /\ gone.swap_blocks = b.swap_blocks /\ gone.ptes = b.ptes
       /\ gone.filename = b.filename /\ gone.block_num = b.block_num
  BY <1>1, <1>5 DEF gone, Block
<1> HIDE DEF mb, fmt, sw, fi
<1>14. Evicted(S, evict_phys_page(S), victim)
  <2> DEFINE E == evict_phys_page(S)
             ff == Append(S.free_mem_blocks, b.location)
             tail == Tail(rest)
  <2>0. /\ E = [T EXCEPT !.clock_queue = tail, !.free_mem_blocks = ff, !.mem_block = mb,
                         !.file_mapping_table = fmt, !.swap_file = sw, !.files = fi]
        /\ ff \in Seq(Frames) /\ tail \in Seq(BlockIds)
    BY <1>1, <1>10, <1>11
  <2> HIDE DEF E, ff, tail
  <2>1. /\ E \in PagerState /\ E.clock_queue = tail /\ E.free_mem_blocks = ff
        /\ E.mem_block = mb /\ E.file_mapping_table = fmt
        /\ E.free_swap_blocks = T.free_swap_blocks /\ E.data_location = T.data_location
    BY <1>3, <1>8, <1>9, <1>10, <2>0 DEF PagerState
  <2>2. /\ E \in PagerState /\ E.clock_queue = Tail(rest) /\ E.mem_block = mb
        /\ E.free_mem_blocks = Append(S.free_mem_blocks, b.location)
        /\ E.file_mapping_table = fmt /\ E.free_swap_blocks = S.free_swap_blocks
        /\ E.data_location = S.data_location
    BY <1>3, <2>1 DEF ff, tail
  <2>3. Evicted(S, E, victim)
    BY <1>1, <1>12, <1>13, <2>2 DEF Evicted, fmt
  <2>4. QED  BY <2>3 DEF E
<1>15. QED  BY <1>1, <1>14

LEMMA EvictWhole ==
    ASSUME NEW S, NEW E, NEW unpointed, NEW unswapped, Whole(S, unpointed, unswapped),
           NEW victim \in ToSet(S.clock_queue), Evicted(S, E, victim)
    PROVE  Whole(E, unpointed, unswapped)
<1> DEFINE x == S.mem_block[victim]
           y == E.mem_block[victim]
<1>0. /\ Shape(S) /\ Pinned(S) /\ FilesInv(S) /\ FramesInv(S) /\ ResidentInv(S)
      /\ PtesInv(S, unpointed) /\ SwapInv(S, unswapped) /\ HomeInv(S) /\ S \in PagerState
  BY DEF Whole, Shape
<1>1. /\ E \in PagerState /\ IsInjective(E.clock_queue)
      /\ ToSet(E.clock_queue) = ToSet(S.clock_queue) \ {victim}
      /\ E.free_mem_blocks = Append(S.free_mem_blocks, x.location)
      /\ E.free_swap_blocks = S.free_swap_blocks /\ E.data_location = S.data_location
      /\ E.file_mapping_table = IF ~x.is_swap /\ x.ptes = {}
                                THEN S.file_mapping_table \ {victim} ELSE S.file_mapping_table
      /\ ~y.resident /\ y.location = HomeOf(x)
  BY DEF Evicted
<1>2. \A b \in BlockIds :
        /\ E.mem_block[b].is_swap = S.mem_block[b].is_swap
        /\ E.mem_block[b].swap_blocks = S.mem_block[b].swap_blocks
        /\ E.mem_block[b].ptes = S.mem_block[b].ptes
        /\ E.mem_block[b].filename = S.mem_block[b].filename
        /\ E.mem_block[b].block_num = S.mem_block[b].block_num
        /\ b # victim => /\ E.mem_block[b].resident = S.mem_block[b].resident
                         /\ E.mem_block[b].location = S.mem_block[b].location
  BY DEF Evicted, Alike
<1>3. /\ victim \in Referenced(S) /\ victim # zero_page /\ victim \in BlockIds
      /\ zero_page \in BlockIds /\ Referenced(S) \subseteq BlockIds
      /\ ToSet(S.clock_queue) \subseteq BlockIds /\ S.file_mapping_table \subseteq BlockIds
  BY <1>0, ReferencedMeaning, Numbers DEF Pinned
<1>4. /\ x \in Block /\ x.resident /\ x.location \in Frames /\ NamedOK(x)
      /\ x.is_swap => x.swap_blocks # <<>> /\ Head(x.swap_blocks) \in SwapBlocks
  <2>1. x \in Block  BY <1>0, <1>3, Fields
  <2>2. x.resident /\ NamedOK(x)  BY <1>0, <1>3 DEF ResidentInv, FilesInv
  <2>3. x.location \in Frames  BY <1>0, <1>3, <2>2 DEF Shape, PlaceOK
  <2>4. ASSUME x.is_swap PROVE x.swap_blocks # <<>> /\ Head(x.swap_blocks) \in SwapBlocks
    <3>1. x.swap_blocks # <<>>  BY <1>0, <2>4 DEF HomeInv
    <3>2. x.swap_blocks \in Seq(SwapBlocks)  BY <2>1 DEF Block
    <3>3. QED  BY <3>1, <3>2
  <2>5. QED  BY <2>1, <2>2, <2>3, <2>4
<1>5. Shape(E)
  <2>1. PlaceOK(y)  BY <1>1, <1>2, <1>3, <1>4 DEF PlaceOK, HomeOf, NamedOK
  <2>2. \A b \in BlockIds \ {victim} : PlaceOK(E.mem_block[b])
    BY <1>0, <1>2 DEF Shape, PlaceOK
  <2>3. QED  BY <1>0, <1>1, <2>1, <2>2 DEF Shape
<1>6. /\ PagesIn(E) = PagesIn(S) /\ \A pg : BlockIn(E, pg) = BlockIn(S, pg)
  BY <1>1 DEF PagesIn, BlockIn
<1>7. /\ \A gone, b : Showing(E, gone, b) = Showing(S, gone, b)
      /\ \A gone : SwapPages(E, gone) = SwapPages(S, gone)
  BY <1>0, <1>2, <1>6, PagesType DEF Showing, SwapPages
<1>8. /\ Referenced(E) \subseteq Referenced(S)
      /\ \A b \in Referenced(S) \ Referenced(E) : b = victim /\ S.mem_block[b].swap_blocks = <<>>
  <2>1. Referenced(E) \subseteq Referenced(S)
    BY <1>0, <1>1, <1>5, <1>6, ReferencedMeaning
  <2>2. \A b \in Referenced(S) \ Referenced(E) : b = victim
    BY <1>0, <1>1, <1>5, <1>6, ReferencedMeaning
  <2>3. ASSUME victim \notin Referenced(E) PROVE x.swap_blocks = <<>>
    <3>1. \A pg \in PagesIn(S) : BlockIn(S, pg) # victim
      BY <1>5, <1>6, <2>3, ReferencedMeaning
    <3>2. Showing(S, unswapped, victim) = {}  BY <3>1 DEF Showing
    <3>3. Len(x.swap_blocks) = 0  BY <1>0, <1>3, <3>2, FS_EmptySet DEF SwapInv
    <3>4. x.swap_blocks \in Seq(SwapBlocks)  BY <1>4 DEF Block
    <3>5. QED  BY <3>3, <3>4
  <2>4. QED  BY <2>1, <2>2, <2>3
<1>9. Pinned(E)  BY <1>0, <1>1, <1>2, <1>3 DEF Pinned
<1>10. FilesInv(E)
  <2>1. \A b \in Referenced(E) : NamedOK(E.mem_block[b])
    BY <1>0, <1>1, <1>2, <1>3, <1>4, <1>8 DEF FilesInv, NamedOK, HomeOf
  <2>2. \A b \in E.file_mapping_table :
          ~E.mem_block[b].is_swap /\ (E.mem_block[b].resident \/ E.mem_block[b].ptes # {})
    BY <1>0, <1>1, <1>2, <1>3 DEF FilesInv
  <2>3. QED  BY <2>1, <2>2 DEF FilesInv
<1>11. FramesInv(E)
  <2>1. /\ ToSet(E.free_mem_blocks) = ToSet(S.free_mem_blocks) \cup {x.location}
        /\ x.location \notin ToSet(S.free_mem_blocks) /\ x.location # 0
        /\ IsInjective(E.free_mem_blocks)
    <3>1. x.location \notin ToSet(S.free_mem_blocks) /\ x.location # 0
          /\ IsInjective(S.free_mem_blocks)
      BY <1>0 DEF FramesInv
    <3>2. QED  BY <1>0, <1>1, <1>4, <3>1, AppendLemma, Fields
  <2>2. \A b \in ToSet(E.clock_queue) :
          E.mem_block[b].location = S.mem_block[b].location /\ b \in ToSet(S.clock_queue)
    BY <1>1, <1>2, <1>3
  <2>3. 0 \notin ToSet(E.free_mem_blocks)  BY <1>0, <2>1 DEF FramesInv
  <2>4. \A b \in ToSet(E.clock_queue) : E.mem_block[b].location # 0
                                       /\ E.mem_block[b].location \notin ToSet(E.free_mem_blocks)
    BY <1>0, <1>1, <2>1, <2>2 DEF FramesInv
  <2>5. \A b, c \in ToSet(E.clock_queue) :
          E.mem_block[b].location = E.mem_block[c].location => b = c
    BY <1>0, <2>2 DEF FramesInv
  <2>6. \A f \in Frames \ {0} : \/ f \in ToSet(E.free_mem_blocks)
                                \/ \E b \in ToSet(E.clock_queue) : E.mem_block[b].location = f
    <3>1. \A f \in Frames \ {0} : \/ f \in ToSet(S.free_mem_blocks)
                                  \/ \E b \in ToSet(S.clock_queue) : S.mem_block[b].location = f
      BY <1>0 DEF FramesInv
    <3>2. QED  BY <1>1, <2>1, <2>2, <3>1
  <2>7. QED  BY <1>1, <2>1, <2>3, <2>4, <2>5, <2>6 DEF FramesInv
<1>12. ResidentInv(E)
  BY <1>0, <1>1, <1>2, <1>3, <1>8 DEF ResidentInv
<1>13. PtesInv(E, unpointed)
  BY <1>0, <1>2, <1>3, <1>7, <1>8 DEF PtesInv
<1>14. SwapInv(E, unswapped)
  <2>1. \A b \in Referenced(E) : Len(E.mem_block[b].swap_blocks) =
          IF E.mem_block[b].is_swap THEN Cardinality(Showing(E, unswapped, b)) ELSE 0
    BY <1>0, <1>2, <1>3, <1>7, <1>8 DEF SwapInv
  <2>2. \A k \in SwapBlocks : \/ k \in ToSet(E.free_swap_blocks)
                              \/ \E b \in Referenced(E) : k \in ToSet(E.mem_block[b].swap_blocks)
    <3>1. \A k \in SwapBlocks : \/ k \in ToSet(S.free_swap_blocks)
                                \/ \E b \in Referenced(S) : k \in ToSet(S.mem_block[b].swap_blocks)
      BY <1>0 DEF SwapInv
    <3>2. \A k : k \notin ToSet(<<>>)  BY EmptyLemma
    <3>3. QED  BY <1>1, <1>2, <1>3, <1>8, <3>1, <3>2
  <2>3. QED  BY <1>0, <1>1, <1>7, <2>1, <2>2 DEF SwapInv
<1>15. HomeInv(E)
  BY <1>0, <1>1, <1>2, <1>3 DEF HomeInv
<1>16. QED
  BY <1>5, <1>9, <1>10, <1>11, <1>12, <1>13, <1>14, <1>15 DEF Whole

(* What may have moved when a frame is needed: E is S, or S after an       *)
(* eviction.                                                               *)
Kin(S, E) ==
    /\ E.free_swap_blocks = S.free_swap_blocks /\ E.data_location = S.data_location
    /\ E.file_mapping_table \subseteq S.file_mapping_table
    /\ ToSet(E.clock_queue) \subseteq ToSet(S.clock_queue)
    /\ \A b \in BlockIds : LET x == S.mem_block[b]
                               y == E.mem_block[b] IN
         /\ y.is_swap = x.is_swap /\ y.swap_blocks = x.swap_blocks /\ y.ptes = x.ptes
         /\ y.filename = x.filename /\ y.block_num = x.block_num
         /\ ~x.resident => ~y.resident /\ y.location = x.location
    /\ \A b \in S.file_mapping_table \ E.file_mapping_table :
         S.mem_block[b].ptes = {} /\ b \in ToSet(S.clock_queue)

LEMMA FreeFrameWhole ==
    ASSUME NEW S, NEW unpointed, NEW unswapped, Whole(S, unpointed, unswapped)
    PROVE  /\ Whole(WithFreeFrame(S), unpointed, unswapped) /\ Kin(S, WithFreeFrame(S))
           /\ WithFreeFrame(S).free_mem_blocks # <<>>
<1>0. Shape(S) /\ FramesInv(S) /\ S \in PagerState /\ Pinned(S) /\ ResidentInv(S)
  BY DEF Whole, Shape
<1>1. CASE S.free_mem_blocks # <<>>
  <2>1. WithFreeFrame(S) = S  BY <1>1 DEF WithFreeFrame
  <2>2. Kin(S, S)  BY DEF Kin
  <2>3. QED  BY <1>1, <2>1, <2>2
<1>2. CASE S.free_mem_blocks = <<>>
  <2>1. S.clock_queue # <<>>
    <3>1. 1 \in Frames \ {0}  BY Numbers DEF Frames
    <3>2. ToSet(S.free_mem_blocks) = {}  BY <1>2, EmptyLemma
    <3>3. ToSet(S.clock_queue) # {}  BY <1>0, <3>1, <3>2 DEF FramesInv
    <3>4. QED  BY <3>3, EmptyLemma
  <2> DEFINE E == evict_phys_page(S)
  <2>2. WithFreeFrame(S) = E  BY <1>2 DEF WithFreeFrame
  <2> HIDE DEF E
  <2>3. PICK victim \in ToSet(S.clock_queue) : Evicted(S, E, victim)
    BY <2>1, EvictEffect DEF E
  <2>4. Whole(E, unpointed, unswapped)  BY <2>3, EvictWhole
  <2>5. victim \in BlockIds /\ S.mem_block[victim].resident
        /\ S.mem_block[victim].location \in Frames
    <3>1. victim \in Referenced(S) /\ victim # zero_page /\ victim \in BlockIds
      BY <1>0, ReferencedMeaning DEF Pinned
    <3>2. S.mem_block[victim].resident  BY <1>0, <3>1 DEF ResidentInv
    <3>3. QED  BY <1>0, <3>1, <3>2 DEF Shape, PlaceOK
  <2>6. Kin(S, E)  BY <2>3, <2>5 DEF Evicted, Kin, Alike
  <2>7. E.free_mem_blocks # <<>>
    <3>1. E.free_mem_blocks = Append(S.free_mem_blocks, S.mem_block[victim].location)
          /\ S.free_mem_blocks \in Seq(Frames)
      BY <1>0, <2>3, Fields DEF Evicted
    <3>2. QED  BY <2>5, <3>1
  <2>8. QED  BY <2>2, <2>4, <2>6, <2>7
<1>3. QED  BY <1>1, <1>2

-----------------------------------------------------------------------------
(* cache_nonresident_page.                                                 *)

(* The block b gets the first free frame. *)
Loaded(S, T, b) ==
    LET x == S.mem_block[b]
        y == T.mem_block[b]
    IN  /\ T \in PagerState
        /\ T.clock_queue = Append(S.clock_queue, b)
        /\ T.free_mem_blocks = Tail(S.free_mem_blocks)
        /\ T.free_swap_blocks = S.free_swap_blocks /\ T.data_location = S.data_location
        /\ T.file_mapping_table = S.file_mapping_table
        /\ \A c \in BlockIds \ {b} : Alike(S.mem_block[c], T.mem_block[c])
        /\ y.resident /\ y.location = Head(S.free_mem_blocks)
        /\ y.is_swap = x.is_swap /\ y.swap_blocks = x.swap_blocks /\ y.ptes = x.ptes
        /\ y.filename = x.filename /\ y.block_num = x.block_num

LEMMA LoadedWhole ==
    ASSUME NEW S, NEW T, NEW b, Whole(S, {}, {}), Loaded(S, T, b), S.free_mem_blocks # <<>>,
           NEW pg \in PagesIn(S), BlockIn(S, pg) = b, ~S.mem_block[b].resident
    PROVE  Whole(T, {}, {})
<1> DEFINE x == S.mem_block[b]
           y == T.mem_block[b]
           frame == Head(S.free_mem_blocks)
<1>0. /\ Shape(S) /\ Pinned(S) /\ FilesInv(S) /\ FramesInv(S) /\ ResidentInv(S)
      /\ PtesInv(S, {}) /\ SwapInv(S, {}) /\ HomeInv(S) /\ S \in PagerState
  BY DEF Whole, Shape
<1>1. /\ T \in PagerState /\ T.clock_queue = Append(S.clock_queue, b)
      /\ T.free_mem_blocks = Tail(S.free_mem_blocks)
      /\ T.free_swap_blocks = S.free_swap_blocks /\ T.data_location = S.data_location
      /\ T.file_mapping_table = S.file_mapping_table
      /\ y.resident /\ y.location = frame
  BY DEF Loaded
<1>2. \A c \in BlockIds :
        /\ T.mem_block[c].is_swap = S.mem_block[c].is_swap
        /\ T.mem_block[c].swap_blocks = S.mem_block[c].swap_blocks
        /\ T.mem_block[c].ptes = S.mem_block[c].ptes
        /\ T.mem_block[c].filename = S.mem_block[c].filename
        /\ T.mem_block[c].block_num = S.mem_block[c].block_num
        /\ c # b => /\ T.mem_block[c].resident = S.mem_block[c].resident
                    /\ T.mem_block[c].location = S.mem_block[c].location
  BY DEF Loaded, Alike
<1>3. /\ b \in Referenced(S) /\ b # zero_page /\ b \in BlockIds /\ zero_page \in BlockIds
      /\ Referenced(S) \subseteq BlockIds /\ ToSet(S.clock_queue) \subseteq BlockIds
      /\ S.file_mapping_table \subseteq BlockIds /\ b \notin ToSet(S.clock_queue)
  <2>1. b \in Referenced(S) /\ b # zero_page  BY <1>0, ReferencedMeaning DEF Pinned
  <2>2. b \notin ToSet(S.clock_queue)  BY <1>0, <2>1 DEF ResidentInv
  <2>3. QED  BY <1>0, <2>1, <2>2, ReferencedMeaning, Numbers
<1>4. /\ frame \in Frames /\ T.free_mem_blocks \in Seq(Frames)
      /\ ToSet(S.free_mem_blocks) = {frame} \cup ToSet(T.free_mem_blocks)
      /\ frame \notin ToSet(T.free_mem_blocks) /\ IsInjective(T.free_mem_blocks) /\ frame # 0
  <2>1. S.free_mem_blocks \in Seq(Frames) /\ IsInjective(S.free_mem_blocks)
        /\ 0 \notin ToSet(S.free_mem_blocks)
    BY <1>0, Fields DEF FramesInv
  <2>2. QED  BY <1>1, <2>1, HeadTailLemma
<1>5. /\ ToSet(T.clock_queue) = ToSet(S.clock_queue) \cup {b} /\ IsInjective(T.clock_queue)
  <2>1. S.clock_queue \in Seq(BlockIds) /\ IsInjective(S.clock_queue)
    BY <1>0, Fields DEF FramesInv
  <2>2. QED  BY <1>1, <1>3, <2>1, AppendLemma
<1>6. Shape(T)
  <2>1. PlaceOK(y)  BY <1>1, <1>4 DEF PlaceOK
  <2>2. \A c \in BlockIds \ {b} : PlaceOK(T.mem_block[c])
    BY <1>0, <1>2 DEF Shape, PlaceOK
  <2>3. QED  BY <1>0, <1>1, <2>1, <2>2 DEF Shape
<1>7. /\ PagesIn(T) = PagesIn(S) /\ \A r : BlockIn(T, r) = BlockIn(S, r)
  BY <1>1 DEF PagesIn, BlockIn
<1>8. /\ \A c : Showing(T, {}, c) = Showing(S, {}, c)
      /\ SwapPages(T, {}) = SwapPages(S, {})
  BY <1>0, <1>2, <1>7, PagesType DEF Showing, SwapPages
<1>9. Referenced(T) = Referenced(S)
  <2>1. \A c : c \in Referenced(S) <=>
          \/ c = zero_page \/ c \in ToSet(S.clock_queue) \/ c \in S.file_mapping_table
          \/ \E r \in PagesIn(S) : BlockIn(S, r) = c
    BY <1>0, ReferencedMeaning
  <2>2. \A c : c \in Referenced(T) <=>
          \/ c = zero_page \/ c \in ToSet(T.clock_queue) \/ c \in T.file_mapping_table
          \/ \E r \in PagesIn(T) : BlockIn(T, r) = c
    BY <1>6, ReferencedMeaning
  <2>3. \A c : (\E r \in PagesIn(T) : BlockIn(T, r) = c)
               <=> \E r \in PagesIn(S) : BlockIn(S, r) = c
    BY <1>7
  <2>4. \A c : c \in Referenced(T) <=> c \in Referenced(S)
    BY <1>1, <1>3, <1>5, <2>1, <2>2, <2>3
  <2>5. QED  BY <2>4
<1>10. Pinned(T)  BY <1>0, <1>2, <1>3, <1>5 DEF Pinned
<1>11. FilesInv(T)
  BY <1>0, <1>1, <1>2, <1>3, <1>9 DEF FilesInv, NamedOK
<1>12. FramesInv(T)
  <2>1. \A c \in ToSet(S.clock_queue) : T.mem_block[c].location = S.mem_block[c].location
    BY <1>2, <1>3
  <2>2. 0 \notin ToSet(T.free_mem_blocks)  BY <1>0, <1>4 DEF FramesInv
  <2>3. \A c \in ToSet(T.clock_queue) : T.mem_block[c].location # 0
                                       /\ T.mem_block[c].location \notin ToSet(T.free_mem_blocks)
    BY <1>0, <1>1, <1>4, <1>5, <2>1 DEF FramesInv
  <2>4. \A c, d \in ToSet(T.clock_queue) :
          T.mem_block[c].location = T.mem_block[d].location => c = d
    <3>1. \A c \in ToSet(S.clock_queue) : T.mem_block[c].location # frame
      BY <1>0, <1>4, <2>1 DEF FramesInv
    <3>2. QED  BY <1>0, <1>1, <1>5, <2>1, <3>1 DEF FramesInv
  <2>5. \A f \in Frames \ {0} : \/ f \in ToSet(T.free_mem_blocks)
                                \/ \E c \in ToSet(T.clock_queue) : T.mem_block[c].location = f
    <3>1. \A f \in Frames \ {0} : \/ f \in ToSet(S.free_mem_blocks)
                                  \/ \E c \in ToSet(S.clock_queue) : S.mem_block[c].location = f
      BY <1>0 DEF FramesInv
    <3>2. QED  BY <1>1, <1>4, <1>5, <2>1, <3>1
  <2>6. QED  BY <1>4, <1>5, <2>2, <2>3, <2>4, <2>5 DEF FramesInv
<1>13. ResidentInv(T)
  BY <1>0, <1>1, <1>2, <1>3, <1>5, <1>9 DEF ResidentInv
<1>14. PtesInv(T, {})
  BY <1>0, <1>2, <1>3, <1>8, <1>9 DEF PtesInv
<1>15. SwapInv(T, {})
  BY <1>0, <1>1, <1>2, <1>3, <1>8, <1>9 DEF SwapInv
<1>16. HomeInv(T)
  <2>1. ASSUME x.is_swap PROVE x.swap_blocks # <<>>
    <3>1. Len(x.swap_blocks) = Cardinality(Showing(S, {}, b))  BY <1>0, <1>3, <2>1 DEF SwapInv
    <3>2. pg \in Showing(S, {}, b)  BY DEF Showing
    <3>3. Cardinality(Showing(S, {}, b)) # 0  BY <3>2, ShowingFinite, FS_EmptySet
    <3>4. QED  BY <3>1, <3>3
  <2>2. QED  BY <1>0, <1>2, <1>3, <1>5, <2>1 DEF HomeInv
<1>17. QED
  BY <1>6, <1>10, <1>11, <1>12, <1>13, <1>14, <1>15, <1>16 DEF Whole

LEMMA LoadEffect ==
    ASSUME NEW S, Whole(S, {}, {}), NEW b \in Referenced(S),
           ~S.mem_block[b].resident, CanRead(S, b)
    PROVE  Loaded(WithFreeFrame(S), cache_nonresident_page(S, b), b)
<1> DEFINE E == WithFreeFrame(S)
           frame == Head(E.free_mem_blocks)
           x == E.mem_block[b]
           Cached(e) == [ppage |-> frame, read_enable |-> TRUE, write_enable |-> FALSE]
           T == SetEntries(E, x.ptes, Cached)
           y == [x EXCEPT !.referenced = TRUE, !.resident = TRUE,
                          !.dirty = FALSE, !.location = frame]
           mb == [E.mem_block EXCEPT ![b] = y]
           datum == IF x.is_swap THEN E.swap_file[x.location]
                    ELSE E.files[<<x.filename, x.location>>]
           pm == [E.physmem EXCEPT ![frame] = datum]
           q == Append(E.clock_queue, b)
           free == Tail(E.free_mem_blocks)
<1>1. cache_nonresident_page(S, b) =
        [T EXCEPT !.free_mem_blocks = Tail(@), !.clock_queue = Append(@, b),
                  !.mem_block[b] = y, !.physmem[frame] = datum]
  BY Zenon DEF cache_nonresident_page
<1>2. Whole(E, {}, {}) /\ Kin(S, E) /\ E.free_mem_blocks # <<>>  BY FreeFrameWhole
<1> HIDE DEF E
<1>3. /\ Shape(S) /\ Shape(E) /\ E \in PagerState /\ FilesInv(S)
      /\ Referenced(S) \subseteq BlockIds /\ b \in BlockIds
  BY <1>2, ReferencedMeaning DEF Whole, Shape
<1>4. /\ frame \in Frames /\ free \in Seq(Frames)
  <2>1. E.free_mem_blocks \in Seq(Frames)  BY <1>3, Fields
  <2>2. QED  BY <1>2, <2>1
<1>5. x \in Block /\ ~x.resident
  BY <1>3, <1>2, Fields DEF Kin
<1>6. datum \in Data
  <2>1. E.swap_file \in [SwapBlocks -> Data] /\ E.files \in [FileKeys -> Data]  BY <1>3, Fields
  <2>2. PlaceOK(x)  BY <1>3 DEF Shape
  <2>3. NamedOK(x)
    <3>1. NamedOK(S.mem_block[b])  BY <1>3 DEF FilesInv
    <3>2. QED  BY <1>3, <1>2, <3>1 DEF Kin, NamedOK
  <2>4. x.is_swap => x.location \in SwapBlocks  BY <1>5, <2>2 DEF PlaceOK
  <2>5. ~x.is_swap => <<x.filename, x.location>> \in FileKeys
    BY <1>5, <2>3 DEF NamedOK, FileKeys
  <2>6. QED  BY <2>1, <2>4, <2>5
<1>7. Repainted(E, T)
  <2>1. Cached(0) \in Entry  BY <1>4 DEF Entry
  <2>2. E.page_table \in [Pids -> [VPages -> Entry]]  BY <1>3, Fields
  <2> DEFINE pt == [p \in Pids |-> [v \in VPages |->
                       IF <<p, v>> \in x.ptes THEN Cached(E.page_table[p][v])
                       ELSE E.page_table[p][v]]]
  <2>3. pt \in [Pids -> [VPages -> Entry]]  BY <2>1, <2>2
  <2>4. T = [E EXCEPT !.page_table = pt]  BY DEF SetEntries
  <2> HIDE DEF pt, T
  <2>5. QED  BY <1>3, <2>3, <2>4, Repaint
<1>8. /\ T.clock_queue = E.clock_queue /\ T.free_mem_blocks = E.free_mem_blocks
      /\ T.mem_block = E.mem_block /\ T.physmem = E.physmem
      /\ T.file_mapping_table = E.file_mapping_table /\ T \in PagerState
      /\ T.free_swap_blocks = E.free_swap_blocks /\ T.data_location = E.data_location
  BY <1>7 DEF Repainted, Unmoved
<1> HIDE DEF T, datum, y, frame
<1>9. cache_nonresident_page(S, b) =
        [T EXCEPT !.free_mem_blocks = free, !.clock_queue = q, !.mem_block = mb, !.physmem = pm]
  BY <1>8, <1>1
<1>10. /\ y \in Block /\ y.resident /\ y.location = frame /\ y.is_swap = x.is_swap
      /\ y.swap_blocks = x.swap_blocks /\ y.ptes = x.ptes
      /\ y.filename = x.filename /\ y.block_num = x.block_num
  BY <1>4, <1>5 DEF Block, y
<1>11. mb \in [BlockIds -> Block] /\ pm \in [Frames -> Data] /\ q \in Seq(BlockIds)
  <2>1. E.mem_block \in [BlockIds -> Block] /\ E.physmem \in [Frames -> Data]
        /\ E.clock_queue \in Seq(BlockIds)
    BY <1>3, Fields
  <2>2. QED  BY <1>3, <1>4, <1>6, <1>10, <2>1
<1>12. mb[b] = y /\ \A c \in BlockIds \ {b} : mb[c] = E.mem_block[c]
  BY <1>3, Fields
<1> DEFINE R == cache_nonresident_page(S, b)
<1> HIDE DEF mb, pm, q, free, R
<1>13. /\ R \in PagerState /\ R.clock_queue = q /\ R.free_mem_blocks = free /\ R.mem_block = mb
       /\ R.file_mapping_table = T.file_mapping_table
       /\ R.free_swap_blocks = T.free_swap_blocks /\ R.data_location = T.data_location
  BY <1>4, <1>8, <1>9, <1>11 DEF PagerState, R
<1>14. Loaded(E, R, b)
  BY <1>8, <1>10, <1>12, <1>13 DEF Loaded, Alike, q, free, frame
<1>15. QED  BY <1>14 DEF R, E

(* A block with pages is brought in, if it can be read. *)
LEMMA ResidentWhole ==
    ASSUME NEW S, Whole(S, {}, {}), NEW pg \in PagesIn(S), NEW b, BlockIn(S, pg) = b
    PROVE  /\ Whole(MadeResident(S, b), {}, {})
           /\ MadeResident(S, b).data_location = S.data_location
           /\ \A c \in BlockIds : MadeResident(S, b).mem_block[c].is_swap = S.mem_block[c].is_swap
<1> DEFINE E == WithFreeFrame(S)
           R == cache_nonresident_page(S, b)
<1>1. Whole(E, {}, {}) /\ Kin(S, E) /\ E.free_mem_blocks # <<>>  BY FreeFrameWhole
<1>2. CASE S.mem_block[b].resident  BY <1>2 DEF MadeResident
<1>3. CASE ~S.mem_block[b].resident /\ ~CanRead(S, b)
  <2>1. MadeResident(S, b) = E  BY <1>3 DEF MadeResident, cache_nonresident_page
  <2> HIDE DEF E
  <2>2. QED  BY <1>1, <2>1 DEF Kin
<1>4. CASE ~S.mem_block[b].resident /\ CanRead(S, b)
  <2>1. MadeResident(S, b) = R  BY <1>4 DEF MadeResident
  <2>2. b \in Referenced(S) /\ b \in BlockIds  BY ReferencedMeaning DEF Whole
  <2>3. Loaded(E, R, b)
    BY <1>4, <2>2, LoadEffect
  <2> HIDE DEF E, R
  <2>4. pg \in PagesIn(E) /\ BlockIn(E, pg) = b /\ ~E.mem_block[b].resident
    BY <1>1, <1>4, <2>2 DEF Kin, PagesIn, BlockIn
  <2>5. Whole(R, {}, {})  BY <1>1, <2>3, <2>4, LoadedWhole
  <2>6. R.data_location = S.data_location  BY <1>1, <2>3 DEF Loaded, Kin
  <2>7. \A c \in BlockIds : R.mem_block[c].is_swap = S.mem_block[c].is_swap
    BY <1>1, <2>3 DEF Loaded, Alike, Kin
  <2>8. QED  BY <2>1, <2>5, <2>6, <2>7
<1>5. QED  BY <1>2, <1>3, <1>4

-----------------------------------------------------------------------------
(* The helpers of vm_fault: permissions and bits.                          *)

LEMMA TouchBlock ==
    ASSUME NEW S, S \in PagerState, NEW b \in BlockIds, NEW x \in Block,
           Alike(S.mem_block[b], x)
    PROVE  LET T == [S EXCEPT !.mem_block[b] = x] IN T \in PagerState /\ Unmoved(S, T)
<1> DEFINE mb == [S.mem_block EXCEPT ![b] = x]
           T == [S EXCEPT !.mem_block = mb]
<1>1. S.mem_block \in [BlockIds -> Block]  BY Fields
<1>2. mb \in [BlockIds -> Block] /\ \A c \in BlockIds : Alike(S.mem_block[c], mb[c])
  BY <1>1 DEF Alike
<1>3. [S EXCEPT !.mem_block[b] = x] = T  OBVIOUS
<1> HIDE DEF mb
<1>4. /\ T \in PagerState /\ T.mem_block = mb /\ T.clock_queue = S.clock_queue
      /\ T.free_mem_blocks = S.free_mem_blocks /\ T.free_swap_blocks = S.free_swap_blocks
      /\ T.file_mapping_table = S.file_mapping_table /\ T.data_location = S.data_location
  BY <1>2 DEF PagerState
<1> HIDE DEF T
<1>5. QED  BY <1>2, <1>3, <1>4 DEF Unmoved

LEMMA UnmovedTrans ==
    ASSUME NEW S, NEW T, NEW U, Unmoved(S, T), Unmoved(T, U)
    PROVE  Unmoved(S, U)
BY DEF Unmoved, Alike

LEMMA ReadFault ==
    ASSUME NEW S, S \in PagerState, NEW b \in BlockIds, S.mem_block[b].resident
    PROVE  read_fault_handler(S, b) \in PagerState /\ Unmoved(S, read_fault_handler(S, b))
<1> DEFINE x == S.mem_block[b]
           T == IF x.dirty /\ Exclusive(x) THEN SetEntries(S, x.ptes, Writable) ELSE S
           R == SetEntries(T, x.ptes, Readable)
           y == [[x EXCEPT !.referenced = TRUE] EXCEPT !.resident = TRUE]
<1>1. T \in PagerState /\ Unmoved(S, T) /\ T.mem_block = S.mem_block
  <2>1. Repainted(S, SetEntries(S, x.ptes, Writable))  BY RepaintLoops
  <2>2. Unmoved(S, S)  BY DEF Unmoved, Alike
  <2>3. QED  BY <2>1, <2>2 DEF Repainted
<1>2. read_fault_handler(S, b) = [R EXCEPT !.mem_block[b].referenced = TRUE,
                                           !.mem_block[b].resident = TRUE]
  BY DEF read_fault_handler
<1> HIDE DEF T
<1>3. R \in PagerState /\ Unmoved(T, R) /\ R.mem_block = S.mem_block
  BY <1>1, RepaintLoops DEF Repainted
<1> HIDE DEF R
<1>4. x \in Block /\ S.mem_block \in [BlockIds -> Block]  BY Fields
<1>5. y \in Block /\ Alike(x, y)  BY <1>4 DEF Block, Alike
<1>6. read_fault_handler(S, b) = [R EXCEPT !.mem_block[b] = y]
  <2>1. R.mem_block \in [BlockIds -> Block] /\ R.mem_block[b] = x  BY <1>3, <1>4
  <2>2. read_fault_handler(S, b) = [R EXCEPT !.mem_block =
           [[@ EXCEPT ![b].referenced = TRUE] EXCEPT ![b].resident = TRUE]]
    BY <1>2, <1>3 DEF PagerState
  <2>3. [[R.mem_block EXCEPT ![b].referenced = TRUE] EXCEPT ![b].resident = TRUE]
          = [R.mem_block EXCEPT ![b] = y]
    BY <2>1
  <2>4. QED  BY <1>3, <2>2, <2>3
<1> HIDE DEF y
<1>7. read_fault_handler(S, b) \in PagerState /\ Unmoved(R, read_fault_handler(S, b))
  BY <1>3, <1>5, <1>6, TouchBlock
<1>8. QED  BY <1>1, <1>3, <1>7, UnmovedTrans

LEMMA WriteFault ==
    ASSUME NEW S, S \in PagerState, NEW b \in BlockIds
    PROVE  write_fault_handler(S, b) \in PagerState /\ Unmoved(S, write_fault_handler(S, b))
<1> DEFINE x == S.mem_block[b]
           R == SetEntries(S, x.ptes, Writable)
           y == [x EXCEPT !.dirty = TRUE]
<1>1. R \in PagerState /\ Unmoved(S, R) /\ R.mem_block = S.mem_block
  BY RepaintLoops DEF Repainted
<1>2. write_fault_handler(S, b) = [R EXCEPT !.mem_block[b].dirty = TRUE]
  BY DEF write_fault_handler
<1> HIDE DEF R
<1>3. x \in Block /\ S.mem_block \in [BlockIds -> Block]  BY Fields
<1>4. y \in Block /\ Alike(x, y)  BY <1>3 DEF Block, Alike
<1>5. write_fault_handler(S, b) = [R EXCEPT !.mem_block[b] = y]  BY <1>1, <1>2, <1>3
<1> HIDE DEF y
<1>6. write_fault_handler(S, b) \in PagerState /\ Unmoved(R, write_fault_handler(S, b))
  BY <1>1, <1>4, <1>5, TouchBlock
<1>7. QED  BY <1>1, <1>6, UnmovedTrans

LEMMA UpdatePermissions ==
    ASSUME NEW S, S \in PagerState, NEW b \in BlockIds
    PROVE  Repainted(S, update_block_permissions(S, b))
<1> DEFINE x == S.mem_block[b]
           On(e) == Readable(Writable(e))
           pt == [p \in Pids |-> [v \in VPages |->
                     IF <<p, v>> \in x.ptes THEN On(S.page_table[p][v]) ELSE S.page_table[p][v]]]
<1>1. S.page_table \in [Pids -> [VPages -> Entry]]  BY Fields
<1>2. \A e \in Entry : On(e) \in Entry  BY DEF Entry, Readable, Writable
<1>3. pt \in [Pids -> [VPages -> Entry]]
  <2> HIDE DEF On
  <2>1. QED  BY <1>1, <1>2
<1>4. \/ update_block_permissions(S, b) = [S EXCEPT !.page_table = pt]
      \/ update_block_permissions(S, b) = S
  BY DEF update_block_permissions, SetEntries
<1> HIDE DEF pt
<1>5. Repainted(S, [S EXCEPT !.page_table = pt])  BY <1>3, Repaint
<1>6. Repainted(S, S)  BY DEF Repainted, Unmoved, Alike
<1>7. QED  BY <1>4, <1>5, <1>6

-----------------------------------------------------------------------------
(* Copy on write.                                                          *)

LEMMA TaggedCardinality ==
    ASSUME NEW tag, NEW A, IsFiniteSet(A)
    PROVE  IsFiniteSet({tag} \X A) /\ Cardinality({tag} \X A) = Cardinality(A)
<1> DEFINE B == {tag}
<1>1. IsFiniteSet(B) /\ Cardinality(B) = 1  BY FS_Singleton
<1> HIDE DEF B
<1>2. IsFiniteSet(B \X A) /\ Cardinality(B \X A) = Cardinality(B) * Cardinality(A)
  BY <1>1, FS_Product
<1>3. Cardinality(A) \in Nat  BY FS_CardinalityType
<1>4. IsFiniteSet(B \X A) /\ Cardinality(B \X A) = Cardinality(A)  BY <1>1, <1>2, <1>3
<1>5. QED  BY <1>4 DEF B

(* There is always a mem_block to allocate: a map of the blocks in use to  *)
(* their frames and pages, which are fewer than the blocks there are.      *)
LEMMA UnusedLemma ==
    ASSUME NEW S, NEW unpointed, NEW unswapped, Whole(S, unpointed, unswapped)
    PROVE  Unused(S) \in BlockIds /\ Unused(S) \notin Referenced(S)
<1> DEFINE Pgs == Pids \X VPages
           A == {0} \X Frames
           B == {1} \X Pgs
           at == [b \in BlockIds |->
                    IF b = zero_page \/ b \in ToSet(S.clock_queue)
                    THEN <<0, S.mem_block[b].location>>
                    ELSE <<1, CHOOSE pg \in PagesIn(S) : BlockIn(S, pg) = b>>]
<1>0. /\ Shape(S) /\ Pinned(S) /\ FilesInv(S) /\ FramesInv(S) /\ ResidentInv(S)
      /\ PtesInv(S, unpointed) /\ S \in PagerState
  BY DEF Whole, Shape
<1>1. SUFFICES ASSUME BlockIds \subseteq Referenced(S) PROVE FALSE  BY DEF Unused
<1>2. ASSUME NEW b \in BlockIds, b # zero_page, b \notin ToSet(S.clock_queue)
      PROVE  \E pg \in PagesIn(S) : BlockIn(S, pg) = b
  <2>1. CASE b \in S.file_mapping_table
    <3>1. b \in Referenced(S) /\ b # zero_page  BY <1>1, <1>2
    <3>2. S.mem_block[b].ptes # {}  BY <1>0, <1>2, <2>1, <3>1 DEF FilesInv, ResidentInv
    <3>3. Showing(S, unpointed, b) # {}  BY <1>0, <3>1, <3>2 DEF PtesInv
    <3>4. QED  BY <3>3 DEF Showing
  <2>2. CASE b \notin S.file_mapping_table
    BY <1>0, <1>1, <1>2, <2>2, ReferencedMeaning
  <2>3. QED  BY <2>1, <2>2
<1>3. \A b \in BlockIds : b = zero_page \/ b \in ToSet(S.clock_queue) =>
         S.mem_block[b].location \in Frames
  <2>1. ASSUME NEW b \in BlockIds, b \in ToSet(S.clock_queue)
        PROVE  S.mem_block[b].location \in Frames
    <3>1. b # zero_page /\ b \in Referenced(S)  BY <1>0, <1>1, <2>1 DEF Pinned
    <3>2. S.mem_block[b].resident  BY <1>0, <2>1, <3>1 DEF ResidentInv
    <3>3. QED  BY <1>0, <3>2 DEF Shape, PlaceOK
  <2>2. QED  BY <1>0, <2>1, Numbers DEF Pinned
<1>4. at \in [BlockIds -> A \cup B]
  <2>1. ASSUME NEW b \in BlockIds PROVE at[b] \in A \cup B
    <3>1. CASE b = zero_page \/ b \in ToSet(S.clock_queue)  BY <1>3, <3>1
    <3>2. CASE ~(b = zero_page \/ b \in ToSet(S.clock_queue))
      <4>1. (CHOOSE pg \in PagesIn(S) : BlockIn(S, pg) = b) \in PagesIn(S)  BY <1>2, <3>2
      <4>2. PagesIn(S) \subseteq Pgs  BY DEF PagesIn
      <4> DEFINE pg == CHOOSE pg \in PagesIn(S) : BlockIn(S, pg) = b
      <4>3. at[b] = <<1, pg>>  BY <3>2
      <4>4. pg \in Pgs  BY <4>1, <4>2
      <4> HIDE DEF pg, Pgs, at
      <4>5. QED  BY <4>3, <4>4
    <3>3. QED  BY <3>1, <3>2
  <2>2. QED  BY <2>1
<1>5. ASSUME NEW b \in BlockIds, NEW c \in BlockIds, at[b] = at[c] PROVE b = c
  <2> DEFINE low(d) == d = zero_page \/ d \in ToSet(S.clock_queue)
             pgof(d) == CHOOSE pg \in PagesIn(S) : BlockIn(S, pg) = d
  <2>1. \A d \in BlockIds : low(d) => at[d] = <<0, S.mem_block[d].location>>  OBVIOUS
  <2>2. \A d \in BlockIds : ~low(d) => at[d] = <<1, pgof(d)>> /\ BlockIn(S, pgof(d)) = d
    BY <1>2
  <2>3. low(b) <=> low(c)  BY <1>5, <2>1, <2>2
  <2>4. CASE low(b)
    <3>1. S.mem_block[b].location = S.mem_block[c].location  BY <1>5, <2>1, <2>3, <2>4
    <3>2. QED  BY <1>0, <2>3, <2>4, <3>1 DEF FramesInv, Pinned
  <2>5. CASE ~low(b)
    <3> HIDE DEF pgof, low
    <3>1. pgof(b) = pgof(c)  BY <1>5, <2>2, <2>3, <2>5
    <3>2. QED  BY <2>2, <2>3, <2>5, <3>1
  <2>6. QED  BY <2>4, <2>5
<1>6. /\ IsFiniteSet(A \cup B) /\ IsFiniteSet(BlockIds)
      /\ Cardinality(A \cup B) < Cardinality(BlockIds)
  <2>1. IsFiniteSet(Frames) /\ Cardinality(Frames) = memory_pages
    BY Numbers, FS_Interval DEF Frames
  <2>2. IsFiniteSet(BlockIds) /\ Cardinality(BlockIds) = MaxBlocks + 1 /\ MaxBlocks \in Nat
    BY PagerAssumption, FS_Interval DEF BlockIds
  <2>3. IsFiniteSet(Pids) /\ IsFiniteSet(VPages) /\ Cardinality(VPages) = num_virt_addr
        /\ Cardinality(Pids) \in Nat
    BY PagerAssumption, MaxBlocksAssumption, FS_Interval, FS_CardinalityType DEF VPages
  <2>4. IsFiniteSet(Pgs) /\ Cardinality(Pgs) = Cardinality(Pids) * num_virt_addr
    BY <2>3, FS_Product
  <2>5. IsFiniteSet(A) /\ Cardinality(A) = memory_pages  BY <2>1, TaggedCardinality
  <2> HIDE DEF Pgs
  <2>6. IsFiniteSet(B) /\ Cardinality(B) = Cardinality(Pgs)
    BY <2>4, TaggedCardinality
  <2> HIDE DEF A, B
  <2>7. /\ IsFiniteSet(A \cup B) /\ Cardinality(A \cap B) \in Nat
        /\ Cardinality(A \cup B) = Cardinality(A) + Cardinality(B) - Cardinality(A \cap B)
    BY <2>5, <2>6, FS_Union, FS_Intersection, FS_CardinalityType
  <2>8. Cardinality(Pgs) \in Nat /\ memory_pages \in Nat  BY <2>4, FS_CardinalityType, Numbers
  <2>9. MaxBlocks >= memory_pages + Cardinality(Pgs)  BY <2>4, MaxBlocksAssumption
  <2>10. QED  BY <2>2, <2>5, <2>6, <2>7, <2>8, <2>9
<1> HIDE DEF at, A, B
<1>7. \E b, c \in BlockIds : b # c /\ at[b] = at[c]  BY <1>4, <1>6, FS_PigeonHole
<1>8. QED  BY <1>5, <1>7

(* The entry of page pg is taken from the block b. *)
Erased(S, T, b, pg) ==
    /\ T \in PagerState
    /\ T.clock_queue = S.clock_queue /\ T.free_mem_blocks = S.free_mem_blocks
    /\ T.free_swap_blocks = S.free_swap_blocks /\ T.data_location = S.data_location
    /\ T.file_mapping_table = S.file_mapping_table
    /\ \A c \in BlockIds : LET x == S.mem_block[c]
                               y == T.mem_block[c] IN
         /\ y.resident = x.resident /\ y.is_swap = x.is_swap /\ y.swap_blocks = x.swap_blocks
         /\ y.location = x.location /\ y.filename = x.filename /\ y.block_num = x.block_num
         /\ y.ptes = IF c = b THEN x.ptes \ {pg} ELSE x.ptes

LEMMA EraseEffect ==
    ASSUME NEW S, S \in PagerState, NEW b \in BlockIds, NEW p, NEW v
    PROVE  Erased(S, ErasePte(S, b, p, v), b, <<p, v>>)
<1> DEFINE x == S.mem_block[b]
           y == [x EXCEPT !.ptes = @ \ {<<p, v>>}]
           mb == [S.mem_block EXCEPT ![b] = y]
           T == [S EXCEPT !.mem_block = mb]
<1>1. S.mem_block \in [BlockIds -> Block] /\ x \in Block  BY Fields
<1>2. ErasePte(S, b, p, v) = T  BY <1>1 DEF ErasePte
<1>3. /\ y \in Block /\ y.ptes = x.ptes \ {<<p, v>>} /\ y.resident = x.resident
      /\ y.is_swap = x.is_swap /\ y.swap_blocks = x.swap_blocks /\ y.location = x.location
      /\ y.filename = x.filename /\ y.block_num = x.block_num
  BY <1>1 DEF Block
<1> HIDE DEF y
<1>4. /\ mb \in [BlockIds -> Block] /\ mb[b] = y
      /\ \A c \in BlockIds \ {b} : mb[c] = S.mem_block[c]
  BY <1>1, <1>3
<1> HIDE DEF mb
<1>5. /\ T \in PagerState /\ T.mem_block = mb /\ T.clock_queue = S.clock_queue
      /\ T.free_mem_blocks = S.free_mem_blocks /\ T.free_swap_blocks = S.free_swap_blocks
      /\ T.file_mapping_table = S.file_mapping_table /\ T.data_location = S.data_location
  BY <1>4 DEF PagerState
<1> HIDE DEF T
<1>6. Erased(S, T, b, <<p, v>>)  BY <1>3, <1>4, <1>5 DEF Erased
<1>7. QED  BY <1>2, <1>6

(* What depends on data_location alone *)
LEMMA SamePages ==
    ASSUME NEW S, NEW T, T.data_location = S.data_location
    PROVE  /\ PagesIn(T) = PagesIn(S) /\ \A r : BlockIn(T, r) = BlockIn(S, r)
           /\ \A gone, c : Showing(T, gone, c) = Showing(S, gone, c)
<1>1. PagesIn(T) = PagesIn(S) /\ \A r : BlockIn(T, r) = BlockIn(S, r)  BY DEF PagesIn, BlockIn
<1>2. QED  BY <1>1 DEF Showing

LEMMA EraseWhole ==
    ASSUME NEW S, NEW T, NEW pg \in PagesIn(S), NEW b, BlockIn(S, pg) = b,
           Whole(S, {}, {}), Erased(S, T, b, pg), S.mem_block[b].is_swap
    PROVE  Whole(T, {pg}, {})
<1>0. /\ Shape(S) /\ Pinned(S) /\ FilesInv(S) /\ FramesInv(S) /\ ResidentInv(S)
      /\ PtesInv(S, {}) /\ SwapInv(S, {}) /\ HomeInv(S) /\ S \in PagerState
  BY DEF Whole, Shape
<1>1. /\ T \in PagerState
      /\ T.clock_queue = S.clock_queue /\ T.free_mem_blocks = S.free_mem_blocks
      /\ T.free_swap_blocks = S.free_swap_blocks /\ T.data_location = S.data_location
      /\ T.file_mapping_table = S.file_mapping_table /\ Referenced(T) = Referenced(S)
  BY DEF Erased, Referenced
<1>2. \A c \in BlockIds :
         /\ T.mem_block[c].resident = S.mem_block[c].resident
         /\ T.mem_block[c].is_swap = S.mem_block[c].is_swap
         /\ T.mem_block[c].swap_blocks = S.mem_block[c].swap_blocks
         /\ T.mem_block[c].location = S.mem_block[c].location
         /\ T.mem_block[c].filename = S.mem_block[c].filename
         /\ T.mem_block[c].block_num = S.mem_block[c].block_num
  BY DEF Erased
<1>3. \A c \in BlockIds : T.mem_block[c].ptes = IF c = b THEN S.mem_block[c].ptes \ {pg}
                                               ELSE S.mem_block[c].ptes
  BY DEF Erased
<1>4. /\ Referenced(S) \subseteq BlockIds /\ ToSet(S.clock_queue) \subseteq BlockIds
      /\ S.file_mapping_table \subseteq BlockIds /\ zero_page \in BlockIds /\ b \in BlockIds
  BY <1>0, ReferencedMeaning, Numbers
<1>5. /\ PagesIn(T) = PagesIn(S) /\ \A r : BlockIn(T, r) = BlockIn(S, r)
      /\ \A gone, c : Showing(T, gone, c) = Showing(S, gone, c)
  BY <1>1, SamePages
<1>6. SwapPages(T, {}) = SwapPages(S, {})  BY <1>0, <1>2, <1>5, PagesType DEF SwapPages
<1>7. \A c : Showing(S, {pg}, c) = IF c = b THEN Showing(S, {}, c) \ {pg} ELSE Showing(S, {}, c)
  BY DEF Showing
<1>8. Shape(T)  BY <1>0, <1>1, <1>2 DEF Shape, PlaceOK
<1>9. Pinned(T)  BY <1>0, <1>1, <1>2, <1>4 DEF Pinned
<1>10. FilesInv(T)
  <2>1. b \notin S.file_mapping_table  BY <1>0 DEF FilesInv
  <2>2. \A c \in Referenced(T) : NamedOK(T.mem_block[c])
    BY <1>0, <1>1, <1>2, <1>4 DEF FilesInv, NamedOK
  <2>3. \A c \in S.file_mapping_table : T.mem_block[c].ptes = S.mem_block[c].ptes
    BY <1>3, <1>4, <2>1
  <2>4. \A c \in T.file_mapping_table :
          ~T.mem_block[c].is_swap /\ (T.mem_block[c].resident \/ T.mem_block[c].ptes # {})
    BY <1>0, <1>1, <1>2, <1>4, <2>3 DEF FilesInv
  <2>5. QED  BY <2>2, <2>4 DEF FilesInv
<1>11. FramesInv(T)  BY <1>0, <1>1, <1>2, <1>4 DEF FramesInv
<1>12. ResidentInv(T)  BY <1>0, <1>1, <1>2, <1>4 DEF ResidentInv
<1>13. PtesInv(T, {pg})
  BY <1>0, <1>1, <1>3, <1>4, <1>5, <1>7 DEF PtesInv
<1>14. SwapInv(T, {})  BY <1>0, <1>1, <1>2, <1>4, <1>5, <1>6 DEF SwapInv
<1>15. HomeInv(T)  BY <1>0, <1>1, <1>2, <1>4 DEF HomeInv
<1>16. QED
  BY <1>8, <1>9, <1>10, <1>11, <1>12, <1>13, <1>14, <1>15 DEF Whole

(* Page v of p gets the block new, with one of the swap blocks of the old. *)
Split(S, T, p, v, new) ==
    LET old == S.data_location[p][v]
        y == T.mem_block[new]
    IN  /\ T \in PagerState
        /\ T.clock_queue = Append(S.clock_queue, new)
        /\ T.free_mem_blocks = Tail(S.free_mem_blocks)
        /\ T.free_swap_blocks = S.free_swap_blocks
        /\ T.file_mapping_table = S.file_mapping_table
        /\ T.data_location = [S.data_location EXCEPT ![p][v] = new]
        /\ y.resident /\ y.is_swap /\ y.swap_blocks = <<Last(S.mem_block[old].swap_blocks)>>
        /\ y.ptes = {<<p, v>>} /\ y.location = Head(S.free_mem_blocks)
        /\ \A c \in BlockIds \ {new} :
             LET x == S.mem_block[c]
                 z == T.mem_block[c] IN
             /\ z.resident = x.resident /\ z.is_swap = x.is_swap
             /\ z.swap_blocks = IF c = old THEN Front(x.swap_blocks) ELSE x.swap_blocks
             /\ z.ptes = x.ptes /\ z.location = x.location
             /\ z.filename = x.filename /\ z.block_num = x.block_num

LEMMA SplitEffect ==
    ASSUME NEW S, NEW unpointed, Whole(S, unpointed, {}), NEW p \in Pids,
           NEW v \in DOMAIN S.data_location[p], NEW datum \in Data,
           S.free_mem_blocks # <<>>, Unused(S) \in BlockIds, Unused(S) \notin Referenced(S),
           S.mem_block[S.data_location[p][v]].swap_blocks # <<>>
    PROVE  Split(S, copy_block_handler(S, p, v, datum), p, v, Unused(S))
<1> DEFINE old == S.data_location[p][v]
           new == Unused(S)
           frame == Head(S.free_mem_blocks)
           y == [NewBlock(frame, TRUE, NoName, 0) EXCEPT
                   !.swap_blocks = <<Last(S.mem_block[old].swap_blocks)>>,
                   !.ptes = {<<p, v>>}, !.dirty = TRUE]
           z == [S.mem_block[old] EXCEPT !.swap_blocks = Front(@)]
           mb == [[S.mem_block EXCEPT ![new] = y] EXCEPT ![old] = z]
           dl == [S.data_location EXCEPT ![p][v] = new]
           pt == [S.page_table EXCEPT ![p][v].ppage = frame]
           q == Append(S.clock_queue, new)
           free == Tail(S.free_mem_blocks)
           pm == [S.physmem EXCEPT ![frame] = datum]
           T == copy_block_handler(S, p, v, datum)
<1>0. Shape(S) /\ S \in PagerState  BY DEF Whole, Shape
<1>1. /\ S.mem_block \in [BlockIds -> Block] /\ S.clock_queue \in Seq(BlockIds)
      /\ S.free_mem_blocks \in Seq(Frames) /\ S.page_table \in [Pids -> [VPages -> Entry]]
      /\ S.data_location \in [Pids -> Seq(BlockIds)] /\ S.physmem \in [Frames -> Data]
  BY <1>0, Fields
<1>2. /\ v \in VPages /\ S.data_location[p] \in Seq(BlockIds) /\ old \in BlockIds
      /\ old \in Referenced(S) /\ old # new
  <2>1. <<p, v>> \in PagesIn(S) /\ BlockIn(S, <<p, v>>) = old  BY <1>0, PagesMeaning
  <2>2. QED  BY <1>0, <2>1, PagesMeaning, PagesType, ReferencedMeaning
<1>3. frame \in Frames /\ free \in Seq(Frames)  BY <1>1
<1>4. /\ S.mem_block[old] \in Block /\ Last(S.mem_block[old].swap_blocks) \in SwapBlocks
      /\ Front(S.mem_block[old].swap_blocks) \in Seq(SwapBlocks)
  <2>1. S.mem_block[old] \in Block  BY <1>1, <1>2
  <2>2. S.mem_block[old].swap_blocks \in Seq(SwapBlocks)  BY <2>1 DEF Block
  <2>3. QED  BY <2>1, <2>2, FrontLastLemma
<1>5. T = [S EXCEPT
           !.data_location[p][v] = new,
           !.mem_block = [S.mem_block EXCEPT ![new] = y, ![old].swap_blocks = Front(@)],
           !.page_table[p][v].ppage = frame,
           !.free_mem_blocks = Tail(@),
           !.clock_queue = Append(@, new),
           !.physmem[frame] = datum]
  BY DEF copy_block_handler
<1> HIDE DEF T
<1>6. [S.mem_block EXCEPT ![new] = y, ![old].swap_blocks = Front(@)] = mb
  <2> HIDE DEF y, new, old
  <2>1. QED  BY <1>1, <1>2
<1>7. /\ y \in Block /\ y.resident /\ y.is_swap /\ y.ptes = {<<p, v>>} /\ y.location = frame
      /\ y.swap_blocks = <<Last(S.mem_block[old].swap_blocks)>>
  <2> HIDE DEF old
  <2>1. {<<p, v>>} \in SUBSET (Pids \X VPages)  BY <1>2
  <2>2. <<Last(S.mem_block[old].swap_blocks)>> \in Seq(SwapBlocks)  BY <1>4
  <2> DEFINE sb == <<Last(S.mem_block[old].swap_blocks)>>
             one == {<<p, v>>}
  <2>3. y = [NewBlock(frame, TRUE, NoName, 0) EXCEPT !.swap_blocks = sb, !.ptes = one,
                                                     !.dirty = TRUE]
    OBVIOUS
  <2> HIDE DEF sb, one, y, frame
  <2>4. y \in Block /\ y.resident /\ y.is_swap /\ y.ptes = one /\ y.location = frame
        /\ y.swap_blocks = sb
    BY <1>3, <2>1, <2>2, <2>3 DEF Block, NewBlock, sb, one
  <2>5. QED  BY <2>4 DEF sb, one
<1>8. /\ z \in Block /\ z.swap_blocks = Front(S.mem_block[old].swap_blocks)
      /\ z.resident = S.mem_block[old].resident /\ z.is_swap = S.mem_block[old].is_swap
      /\ z.ptes = S.mem_block[old].ptes /\ z.location = S.mem_block[old].location
      /\ z.filename = S.mem_block[old].filename /\ z.block_num = S.mem_block[old].block_num
  BY <1>4 DEF Block
<1> HIDE DEF y, z, new, frame, old
<1>9. /\ mb \in [BlockIds -> Block] /\ mb[new] = y /\ mb[old] = z
      /\ \A c \in BlockIds : c # new /\ c # old => mb[c] = S.mem_block[c]
  BY <1>1, <1>2, <1>7, <1>8 DEF new
<1>10. dl \in [Pids -> Seq(BlockIds)]
  <2>1. [S.data_location[p] EXCEPT ![v] = new] \in Seq(BlockIds)  BY <1>1, <1>2 DEF new
  <2>2. QED  BY <1>1, <2>1
<1>11. pt \in [Pids -> [VPages -> Entry]]
  <2>1. S.page_table[p][v] \in Entry  BY <1>1, <1>2
  <2>2. [S.page_table[p][v] EXCEPT !.ppage = frame] \in Entry  BY <1>3, <2>1 DEF Entry
  <2>3. QED  BY <1>1, <1>2, <2>2
<1>12. pm \in [Frames -> Data] /\ q \in Seq(BlockIds)  BY <1>1, <1>2, <1>3 DEF new
<1>13. T = [S EXCEPT !.data_location = dl, !.mem_block = mb, !.page_table = pt,
                     !.free_mem_blocks = free, !.clock_queue = q, !.physmem = pm]
  <2> DEFINE mbx == [S.mem_block EXCEPT ![new] = y, ![old].swap_blocks = Front(@)]
  <2>1. T = [S EXCEPT !.data_location[p][v] = new, !.mem_block = mbx,
                      !.page_table[p][v].ppage = frame, !.free_mem_blocks = Tail(@),
                      !.clock_queue = Append(@, new), !.physmem[frame] = datum]
    BY <1>5
  <2>2. mbx = mb  BY <1>6
  <2> HIDE DEF mbx, mb
  <2>3. QED  BY <1>0, <2>1, <2>2 DEF PagerState
<1> HIDE DEF dl, mb, pt, free, q, pm
<1>14. /\ T \in PagerState /\ T.clock_queue = q /\ T.free_mem_blocks = free
       /\ T.free_swap_blocks = S.free_swap_blocks
       /\ T.file_mapping_table = S.file_mapping_table
       /\ T.data_location = dl /\ T.mem_block = mb
  BY <1>0, <1>3, <1>9, <1>10, <1>11, <1>12, <1>13 DEF PagerState
<1>15. Split(S, T, p, v, new)
  BY <1>7, <1>8, <1>9, <1>14 DEF Split, q, free, dl, old, frame
<1>16. QED  BY <1>15 DEF T, new

(* No process gets or loses a page, or a page that needs a swap block. *)
Steady(S, T) == PagesIn(T) = PagesIn(S) /\ SwapPages(T, {}) = SwapPages(S, {})

LEMMA SteadyIf ==
    ASSUME NEW S, NEW T, Shape(S), T.data_location = S.data_location,
           \A c \in BlockIds : T.mem_block[c].is_swap = S.mem_block[c].is_swap
    PROVE  Steady(S, T)
<1>1. PagesIn(T) = PagesIn(S) /\ \A r : BlockIn(T, r) = BlockIn(S, r)  BY SamePages
<1>2. SwapPages(T, {}) = SwapPages(S, {})  BY <1>1, PagesType DEF SwapPages
<1>3. QED  BY <1>1, <1>2 DEF Steady

LEMMA SplitWhole ==
    ASSUME NEW S, NEW T, NEW p \in Pids, NEW v \in DOMAIN S.data_location[p],
           Whole(S, {<<p, v>>}, {}), NEW new \in BlockIds, new \notin Referenced(S),
           NEW old, old = S.data_location[p][v], S.mem_block[old].is_swap,
           old # zero_page => Cardinality(Showing(S, {}, old)) > 1,
           S.free_mem_blocks # <<>>, Split(S, T, p, v, new)
    PROVE  Whole(T, {}, {}) /\ Steady(S, T)
<1> DEFINE pg == <<p, v>>
           frame == Head(S.free_mem_blocks)
           sb == S.mem_block[old].swap_blocks
<1>0. /\ Shape(S) /\ Pinned(S) /\ FilesInv(S) /\ FramesInv(S) /\ ResidentInv(S)
      /\ PtesInv(S, {pg}) /\ SwapInv(S, {}) /\ HomeInv(S) /\ S \in PagerState
  BY DEF Whole, Shape
<1>1. /\ T \in PagerState /\ T.clock_queue = Append(S.clock_queue, new)
      /\ T.free_mem_blocks = Tail(S.free_mem_blocks)
      /\ T.free_swap_blocks = S.free_swap_blocks
      /\ T.file_mapping_table = S.file_mapping_table
      /\ T.data_location = [S.data_location EXCEPT ![p][v] = new]
  BY DEF Split
<1>2. /\ T.mem_block[new].resident /\ T.mem_block[new].is_swap
      /\ T.mem_block[new].swap_blocks = <<Last(sb)>>
      /\ T.mem_block[new].ptes = {pg} /\ T.mem_block[new].location = frame
  BY DEF Split
<1>3. \A c \in BlockIds \ {new} :
         /\ T.mem_block[c].resident = S.mem_block[c].resident
         /\ T.mem_block[c].is_swap = S.mem_block[c].is_swap
         /\ T.mem_block[c].ptes = S.mem_block[c].ptes
         /\ T.mem_block[c].location = S.mem_block[c].location
         /\ T.mem_block[c].filename = S.mem_block[c].filename
         /\ T.mem_block[c].block_num = S.mem_block[c].block_num
  BY DEF Split
<1>4. \A c \in BlockIds \ {new} :
         T.mem_block[c].swap_blocks = IF c = old THEN Front(sb) ELSE S.mem_block[c].swap_blocks
  BY DEF Split
<1>5. /\ pg \in PagesIn(S) /\ BlockIn(S, pg) = old /\ old \in BlockIds /\ old \in Referenced(S)
      /\ old # new /\ zero_page \in BlockIds /\ zero_page # new /\ v \in VPages
  <2>1. pg \in PagesIn(S) /\ BlockIn(S, pg) = old  BY <1>0, PagesMeaning
  <2>2. QED  BY <1>0, <2>1, PagesMeaning, PagesType, ReferencedMeaning, Numbers
<1>6. /\ Referenced(S) \subseteq BlockIds /\ ToSet(S.clock_queue) \subseteq Referenced(S)
      /\ S.file_mapping_table \subseteq Referenced(S)
      /\ \A r \in PagesIn(S) : BlockIn(S, r) \in Referenced(S)
  BY <1>0, ReferencedMeaning
<1>7. /\ PagesIn(T) = PagesIn(S)
      /\ \A r \in PagesIn(S) : BlockIn(T, r) = IF r = pg THEN new ELSE BlockIn(S, r)
  <2>1. S.data_location \in [Pids -> Seq(BlockIds)] /\ S.data_location[p] \in Seq(BlockIds)
    BY <1>0, Fields
  <2>2. \A r \in Pids : /\ DOMAIN T.data_location[r] = DOMAIN S.data_location[r]
                        /\ \A w \in DOMAIN S.data_location[r] : T.data_location[r][w] =
                             IF r = p /\ w = v THEN new ELSE S.data_location[r][w]
    BY <1>1, <2>1
  <2>3. PagesIn(T) = PagesIn(S)  BY <2>2 DEF PagesIn
  <2>4. ASSUME NEW r \in PagesIn(S)
        PROVE  BlockIn(T, r) = IF r = pg THEN new ELSE BlockIn(S, r)
    <3>1. /\ r = <<r[1], r[2]>> /\ r[1] \in Pids /\ r[2] \in DOMAIN S.data_location[r[1]]
      BY <1>0, PagesType
    <3>2. r = pg <=> r[1] = p /\ r[2] = v  BY <3>1
    <3> HIDE DEF pg
    <3>3. QED  BY <2>2, <3>1, <3>2 DEF BlockIn
  <2>5. QED  BY <2>3, <2>4
<1> HIDE DEF pg
<1>8. /\ \A c : c # new => Showing(T, {}, c) = Showing(S, {pg}, c)
      /\ \A c : c # old => Showing(S, {pg}, c) = Showing(S, {}, c)
      /\ Showing(S, {pg}, old) = Showing(S, {}, old) \ {pg} /\ pg \in Showing(S, {}, old)
      /\ Showing(T, {}, new) = {pg}
  <2>1. \A c : c # new => Showing(T, {}, c) = Showing(S, {pg}, c)  BY <1>7 DEF Showing
  <2>2. \A c : c # old => Showing(S, {pg}, c) = Showing(S, {}, c)  BY <1>5 DEF Showing
  <2>3. Showing(S, {pg}, old) = Showing(S, {}, old) \ {pg} /\ pg \in Showing(S, {}, old)
    BY <1>5 DEF Showing
  <2>4. Showing(T, {}, new) = {pg}  BY <1>5, <1>6, <1>7 DEF Showing
  <2>5. QED  BY <2>1, <2>2, <2>3, <2>4
<1>9. /\ frame \in Frames /\ T.free_mem_blocks \in Seq(Frames)
      /\ ToSet(S.free_mem_blocks) = {frame} \cup ToSet(T.free_mem_blocks)
      /\ frame \notin ToSet(T.free_mem_blocks) /\ IsInjective(T.free_mem_blocks) /\ frame # 0
  <2>1. S.free_mem_blocks \in Seq(Frames) /\ IsInjective(S.free_mem_blocks)
        /\ 0 \notin ToSet(S.free_mem_blocks)
    BY <1>0, Fields DEF FramesInv
  <2>2. QED  BY <1>1, <2>1, HeadTailLemma
<1>10. /\ ToSet(T.clock_queue) = ToSet(S.clock_queue) \cup {new} /\ IsInjective(T.clock_queue)
       /\ new \notin ToSet(S.clock_queue)
  <2>1. S.clock_queue \in Seq(BlockIds) /\ IsInjective(S.clock_queue)
    BY <1>0, Fields DEF FramesInv
  <2>2. QED  BY <1>1, <1>6, <2>1, AppendLemma
<1>11. Shape(T)
  <2>1. PlaceOK(T.mem_block[new])  BY <1>2, <1>9 DEF PlaceOK
  <2>2. \A c \in BlockIds \ {new} : PlaceOK(T.mem_block[c])
    BY <1>0, <1>3 DEF Shape, PlaceOK
  <2>3. ASSUME NEW r \in Pids PROVE Len(T.data_location[r]) <= num_virt_addr
    <3>1. S.data_location \in [Pids -> Seq(BlockIds)] /\ S.data_location[p] \in Seq(BlockIds)
      BY <1>0, Fields
    <3>2. Len(T.data_location[r]) = Len(S.data_location[r])  BY <1>1, <3>1
    <3>3. QED  BY <1>0, <3>2 DEF Shape
  <2>4. QED  BY <1>0, <1>1, <2>1, <2>2, <2>3 DEF Shape
<1>12. Referenced(T) = Referenced(S) \cup {new}
  <2>1. \A c : c \in Referenced(S) <=>
          \/ c = zero_page \/ c \in ToSet(S.clock_queue) \/ c \in S.file_mapping_table
          \/ \E r \in PagesIn(S) : BlockIn(S, r) = c
    BY <1>0, ReferencedMeaning
  <2>2. \A c : c \in Referenced(T) <=>
          \/ c = zero_page \/ c \in ToSet(T.clock_queue) \/ c \in T.file_mapping_table
          \/ \E r \in PagesIn(T) : BlockIn(T, r) = c
    BY <1>11, ReferencedMeaning
  <2>3. old \in Referenced(T)
    <3>1. CASE old = zero_page  BY <2>2, <3>1
    <3>2. CASE old # zero_page
      <4>1. /\ IsFiniteSet(Showing(S, {}, old)) /\ Cardinality(Showing(S, {}, old)) \in Nat
            /\ Cardinality(Showing(S, {}, old)) > 1
        BY <3>2, ShowingFinite
      <4> DEFINE A == Showing(S, {}, old)
      <4> HIDE DEF A
      <4>2. /\ IsFiniteSet(A) /\ Cardinality(A) \in Nat /\ Cardinality(A) > 1 /\ pg \in A
            /\ Showing(T, {}, old) = A \ {pg}
        BY <1>5, <1>8, <4>1 DEF A
      <4>3. Cardinality(A \ {pg}) = Cardinality(A) - 1  BY <4>2, FS_RemoveElement
      <4>4. Cardinality(A \ {pg}) # 0  BY <4>2, <4>3
      <4>5. Showing(T, {}, old) # {}  BY <4>2, <4>4, FS_EmptySet
      <4>6. \E r \in PagesIn(T) : BlockIn(T, r) = old  BY <4>5 DEF Showing
      <4>7. QED  BY <2>2, <4>6
    <3>3. QED  BY <3>1, <3>2
  <2>4. \A c : (\E r \in PagesIn(T) : BlockIn(T, r) = c)
               => c = new \/ \E r \in PagesIn(S) : BlockIn(S, r) = c
    BY <1>7
  <2>5. \A c : (\E r \in PagesIn(S) : BlockIn(S, r) = c)
               => c = old \/ \E r \in PagesIn(T) : BlockIn(T, r) = c
    BY <1>5, <1>7
  <2>6. \A c : c \in Referenced(T) => c \in Referenced(S) \cup {new}
    BY <1>1, <1>10, <2>1, <2>2, <2>4
  <2>7. \A c : c \in Referenced(S) \cup {new} => c \in Referenced(T)
    BY <1>1, <1>10, <2>1, <2>2, <2>3, <2>5
  <2>8. QED  BY <2>6, <2>7
<1>13. Pinned(T)  BY <1>0, <1>3, <1>5, <1>10 DEF Pinned
<1>14. FilesInv(T)
  <2>1. \A c \in Referenced(T) : NamedOK(T.mem_block[c])
    BY <1>0, <1>2, <1>3, <1>6, <1>12 DEF FilesInv, NamedOK
  <2>2. \A c \in T.file_mapping_table :
          ~T.mem_block[c].is_swap /\ (T.mem_block[c].resident \/ T.mem_block[c].ptes # {})
    BY <1>0, <1>1, <1>3, <1>6 DEF FilesInv
  <2>3. QED  BY <2>1, <2>2 DEF FilesInv
<1>15. FramesInv(T)
  <2>1. \A c \in ToSet(S.clock_queue) : T.mem_block[c].location = S.mem_block[c].location
    BY <1>3, <1>6
  <2>2. 0 \notin ToSet(T.free_mem_blocks)  BY <1>0, <1>9 DEF FramesInv
  <2>3. \A c \in ToSet(T.clock_queue) : T.mem_block[c].location # 0
                                       /\ T.mem_block[c].location \notin ToSet(T.free_mem_blocks)
    BY <1>0, <1>2, <1>9, <1>10, <2>1 DEF FramesInv
  <2>4. \A c, d \in ToSet(T.clock_queue) :
          T.mem_block[c].location = T.mem_block[d].location => c = d
    <3>1. \A c \in ToSet(S.clock_queue) : T.mem_block[c].location # frame
      BY <1>0, <1>9, <2>1 DEF FramesInv
    <3>2. QED  BY <1>0, <1>2, <1>10, <2>1, <3>1 DEF FramesInv
  <2>5. \A f \in Frames \ {0} : \/ f \in ToSet(T.free_mem_blocks)
                                \/ \E c \in ToSet(T.clock_queue) : T.mem_block[c].location = f
    <3>1. \A f \in Frames \ {0} : \/ f \in ToSet(S.free_mem_blocks)
                                  \/ \E c \in ToSet(S.clock_queue) : S.mem_block[c].location = f
      BY <1>0 DEF FramesInv
    <3>2. QED  BY <1>2, <1>9, <1>10, <2>1, <3>1
  <2>6. QED  BY <1>9, <1>10, <2>2, <2>3, <2>4, <2>5 DEF FramesInv
<1>16. ResidentInv(T)
  BY <1>0, <1>2, <1>3, <1>6, <1>10, <1>12 DEF ResidentInv
<1>17. PtesInv(T, {})
  <2>1. ASSUME NEW c \in Referenced(T) \ {zero_page}
        PROVE  T.mem_block[c].ptes = Showing(T, {}, c)
    <3>1. CASE c = new  BY <1>2, <1>8, <3>1
    <3>2. CASE c # new
      <4>1. c \in Referenced(S) \ {zero_page} /\ c \in BlockIds \ {new}  BY <1>6, <1>12, <3>2
      <4>2. S.mem_block[c].ptes = Showing(S, {pg}, c)  BY <1>0, <4>1 DEF PtesInv
      <4>3. QED  BY <1>3, <1>8, <4>1, <4>2
    <3>3. QED  BY <3>1, <3>2
  <2>2. T.mem_block[zero_page].ptes \subseteq Showing(T, {}, zero_page)
    BY <1>0, <1>3, <1>5, <1>8 DEF PtesInv
  <2>3. QED  BY <2>1, <2>2 DEF PtesInv
<1>18. sb \in Seq(SwapBlocks) /\ Len(sb) = Cardinality(Showing(S, {}, old)) /\ sb # <<>>
  <2>1. S.mem_block[old] \in Block  BY <1>0, <1>5, Fields
  <2>2. sb \in Seq(SwapBlocks)  BY <2>1 DEF Block
  <2>3. Len(sb) = Cardinality(Showing(S, {}, old))  BY <1>0, <1>5 DEF SwapInv
  <2>4. Cardinality(Showing(S, {}, old)) # 0  BY <1>8, ShowingFinite, FS_EmptySet
  <2>5. QED  BY <2>2, <2>3, <2>4
<1>19. /\ Front(sb) \in Seq(SwapBlocks) /\ Len(Front(sb)) = Len(sb) - 1
       /\ ToSet(sb) = ToSet(Front(sb)) \cup {Last(sb)} /\ Last(sb) \in SwapBlocks
       /\ ToSet(<<Last(sb)>>) = {Last(sb)}
  <2>1. Last(sb) \in SwapBlocks  BY <1>18, FrontLastLemma
  <2>2. ToSet(<<Last(sb)>>) = {Last(sb)}  BY DEF ToSet
  <2>3. QED  BY <1>18, <2>1, <2>2, FrontLastLemma
<1>20. Len(Front(sb)) = Cardinality(Showing(T, {}, old))
  <2>1. /\ IsFiniteSet(Showing(S, {}, old)) /\ Cardinality(Showing(S, {}, old)) \in Nat
    BY ShowingFinite
  <2>2. Cardinality(Showing(S, {}, old) \ {pg}) = Cardinality(Showing(S, {}, old)) - 1
    BY <1>8, <2>1, FS_RemoveElement
  <2>3. QED  BY <1>5, <1>8, <1>18, <1>19, <2>1, <2>2
<1>21. SwapPages(T, {}) = SwapPages(S, {})
  <2>1. ASSUME NEW r \in PagesIn(S)
        PROVE  T.mem_block[BlockIn(T, r)].is_swap = S.mem_block[BlockIn(S, r)].is_swap
    <3>1. CASE r = pg
      <4>1. T.mem_block[new].is_swap \in BOOLEAN /\ S.mem_block[old].is_swap \in BOOLEAN
        <5>1. T.mem_block[new] \in Block /\ S.mem_block[old] \in Block
          BY <1>0, <1>1, <1>5, Fields
        <5>2. QED  BY <5>1 DEF Block
      <4>2. QED  BY <1>2, <1>5, <1>7, <3>1, <4>1
    <3>2. CASE r # pg  BY <1>3, <1>6, <1>7, <3>2
    <3>3. QED  BY <3>1, <3>2
  <2>2. QED  BY <1>7, <2>1 DEF SwapPages
<1>22. SwapInv(T, {})
  <2>1. ASSUME NEW c \in Referenced(T)
        PROVE  Len(T.mem_block[c].swap_blocks) =
                 IF T.mem_block[c].is_swap THEN Cardinality(Showing(T, {}, c)) ELSE 0
    <3>1. CASE c = new
      <4>1. Cardinality(Showing(T, {}, new)) = 1  BY <1>8, FS_Singleton
      <4>2. Len(<<Last(sb)>>) = 1  OBVIOUS
      <4>3. QED  BY <1>2, <3>1, <4>1, <4>2
    <3>2. CASE c = old  BY <1>3, <1>4, <1>5, <1>20, <3>2
    <3>3. CASE c # new /\ c # old
      <4>1. c \in Referenced(S) /\ c \in BlockIds \ {new}  BY <1>6, <1>12, <3>3
      <4>2. /\ T.mem_block[c].swap_blocks = S.mem_block[c].swap_blocks
            /\ T.mem_block[c].is_swap = S.mem_block[c].is_swap
            /\ Showing(T, {}, c) = Showing(S, {}, c)
        BY <1>3, <1>4, <1>8, <3>3, <4>1
      <4>3. QED  BY <1>0, <4>1, <4>2 DEF SwapInv
    <3>4. QED  BY <3>1, <3>2, <3>3
  <2>2. ASSUME NEW k \in SwapBlocks, k \notin ToSet(T.free_swap_blocks)
        PROVE  \E c \in Referenced(T) : k \in ToSet(T.mem_block[c].swap_blocks)
    <3>1. PICK c \in Referenced(S) : k \in ToSet(S.mem_block[c].swap_blocks)
      BY <1>0, <1>1, <2>2 DEF SwapInv
    <3>2. c \in BlockIds \ {new}  BY <1>6
    <3>3. CASE c # old
      <4>1. k \in ToSet(T.mem_block[c].swap_blocks)  BY <1>4, <3>1, <3>2, <3>3
      <4>2. QED  BY <1>12, <4>1
    <3>4. CASE c = old
      <4>1. k \in ToSet(T.mem_block[old].swap_blocks) \/ k \in ToSet(T.mem_block[new].swap_blocks)
        BY <1>2, <1>4, <1>5, <1>19, <3>1, <3>4
      <4>2. QED  BY <1>5, <1>12, <4>1
    <3>5. QED  BY <3>3, <3>4
  <2>3. QED  BY <1>0, <1>1, <1>21, <2>1, <2>2 DEF SwapInv
<1>23. HomeInv(T)
  <2>1. ASSUME NEW c \in ToSet(T.clock_queue), T.mem_block[c].is_swap
        PROVE  T.mem_block[c].swap_blocks # <<>>
    <3>1. CASE c = new
      <4> DEFINE last == Last(sb)
      <4>1. T.mem_block[c].swap_blocks = <<last>>  BY <1>2, <3>1
      <4> HIDE DEF last
      <4>2. <<last>> # <<>>  OBVIOUS
      <4>3. QED  BY <4>1, <4>2
    <3>2. CASE c = old
      <4>1. c # zero_page  BY <1>5, <1>10, <2>1, <3>2, <1>0 DEF Pinned
      <4>2. Len(sb) > 1  BY <1>18, <3>2, <4>1
      <4>3. PICK n \in Nat : n = Len(sb)  BY <1>18
      <4>4. Len(Front(sb)) = n - 1 /\ n > 1  BY <1>19, <4>2, <4>3
      <4>5. Len(Front(sb)) # 0  BY <4>4
      <4>6. QED  BY <1>4, <1>5, <3>2, <4>5
    <3>3. CASE c # new /\ c # old
      <4>1. c \in ToSet(S.clock_queue) /\ c \in BlockIds \ {new}  BY <1>6, <1>10, <3>3
      <4>2. QED  BY <1>0, <1>3, <1>4, <2>1, <3>3, <4>1 DEF HomeInv
    <3>4. QED  BY <3>1, <3>2, <3>3
  <2>2. QED  BY <2>1 DEF HomeInv
<1>24. QED
  BY <1>7, <1>11, <1>13, <1>14, <1>15, <1>16, <1>17, <1>22, <1>23, <1>21 DEF Whole, Steady

(* The page of a write fault to a shared block gets a block of its own,    *)
(* which is resident.                                                      *)
LEMMA CopyWhole ==
    ASSUME NEW S, Whole(S, {}, {}), NEW p \in Pids, NEW v \in DOMAIN S.data_location[p],
           S.mem_block[S.data_location[p][v]].resident,
           is_copy_on_writable(S, S.data_location[p][v])
    PROVE  LET T == CopyOnWrite(S, p, v)
           IN  /\ Whole(T, {}, {}) /\ Steady(S, T)
               /\ T.data_location[p][v] \in BlockIds
               /\ T.mem_block[T.data_location[p][v]].resident
<1> DEFINE b == S.data_location[p][v]
           pg == <<p, v>>
           R == read_fault_handler(S, b)
           E == ErasePte(R, b, p, v)
           U == update_block_permissions(E, b)
           F == WithFreeFrame(U)
           datum == S.physmem[S.mem_block[b].location]
           T == copy_block_handler(F, p, v, datum)
<1>0. Shape(S) /\ S \in PagerState /\ PtesInv(S, {}) /\ ResidentInv(S) /\ FramesInv(S)
  BY DEF Whole, Shape
<1>1. pg \in PagesIn(S) /\ BlockIn(S, pg) = b /\ b \in BlockIds /\ b \in Referenced(S)
  <2>1. pg \in PagesIn(S) /\ BlockIn(S, pg) = b  BY <1>0, PagesMeaning
  <2>2. QED  BY <1>0, <2>1, PagesType, ReferencedMeaning
<1>2. CopyOnWrite(S, p, v) = T  BY DEF CopyOnWrite
<1>3. S.mem_block[b].is_swap /\ (b # zero_page => Cardinality(Showing(S, {}, b)) > 1)
  <2>1. S.mem_block[b].is_swap  BY DEF is_copy_on_writable
  <2>2. ASSUME b # zero_page PROVE Cardinality(Showing(S, {}, b)) > 1
    <3>1. b \in ToSet(S.clock_queue)  BY <1>0, <1>1, <2>2 DEF ResidentInv
    <3>2. S.mem_block[b].location # 0  BY <1>0, <3>1 DEF FramesInv
    <3>3. Cardinality(S.mem_block[b].ptes) > 1  BY <3>2 DEF is_copy_on_writable
    <3>4. S.mem_block[b].ptes = Showing(S, {}, b)  BY <1>0, <1>1, <2>2 DEF PtesInv
    <3>5. QED  BY <3>3, <3>4
  <2>3. QED  BY <2>1, <2>2
<1>4. datum \in Data
  <2>1. S.mem_block[b].location \in Frames  BY <1>0, <1>1 DEF Shape, PlaceOK
  <2>2. QED  BY <1>0, <2>1, Fields
<1> HIDE DEF b, R, datum
<1>5. R \in PagerState /\ Unmoved(S, R)  BY <1>0, <1>1, ReadFault DEF R, b
<1>6. Whole(R, {}, {})  BY <1>5, UnmovedWhole
<1> HIDE DEF E
<1>7. Erased(R, E, b, pg)  BY <1>1, <1>5, EraseEffect DEF E
<1>8. /\ R.data_location = S.data_location
      /\ \A c \in BlockIds : R.mem_block[c].is_swap = S.mem_block[c].is_swap
  BY <1>5 DEF Unmoved, Alike
<1>9. pg \in PagesIn(R) /\ BlockIn(R, pg) = b /\ R.mem_block[b].is_swap
  BY <1>1, <1>3, <1>8, SamePages
<1>10. Whole(E, {pg}, {})  BY <1>6, <1>7, <1>9, EraseWhole
<1> HIDE DEF U
<1>11. U \in PagerState /\ Unmoved(E, U)
  <2>1. E \in PagerState  BY <1>7 DEF Erased
  <2>2. QED  BY <1>1, <2>1, UpdatePermissions DEF U, Repainted
<1>12. Whole(U, {pg}, {})  BY <1>10, <1>11, UnmovedWhole
<1> HIDE DEF F
<1>13. Whole(F, {pg}, {}) /\ Kin(U, F) /\ F.free_mem_blocks # <<>>
  BY <1>12, FreeFrameWhole DEF F
<1>14. /\ F.data_location = S.data_location
       /\ \A c \in BlockIds : F.mem_block[c].is_swap = S.mem_block[c].is_swap
  <2>1. /\ E.data_location = R.data_location
        /\ \A c \in BlockIds : E.mem_block[c].is_swap = R.mem_block[c].is_swap
    BY <1>7 DEF Erased
  <2>2. /\ U.data_location = E.data_location
        /\ \A c \in BlockIds : U.mem_block[c].is_swap = E.mem_block[c].is_swap
    BY <1>11 DEF Unmoved, Alike
  <2>3. /\ F.data_location = U.data_location
        /\ \A c \in BlockIds : F.mem_block[c].is_swap = U.mem_block[c].is_swap
    BY <1>13 DEF Kin
  <2>4. QED  BY <1>8, <2>1, <2>2, <2>3
<1>15. /\ F.data_location[p][v] = b /\ v \in DOMAIN F.data_location[p]
       /\ Showing(F, {}, b) = Showing(S, {}, b) /\ pg \in PagesIn(F) /\ BlockIn(F, pg) = b
       /\ b \in Referenced(F)
  <2>1. pg \in PagesIn(F) /\ BlockIn(F, pg) = b /\ Showing(F, {}, b) = Showing(S, {}, b)
    BY <1>1, <1>14, SamePages
  <2>2. b \in Referenced(F)  BY <1>13, <2>1, ReferencedMeaning DEF Whole
  <2>3. QED  BY <1>14, <2>1, <2>2 DEF b
<1>16. F.mem_block[b].is_swap /\ F.mem_block[b].swap_blocks # <<>>
  <2>1. F.mem_block[b].is_swap  BY <1>1, <1>3, <1>14
  <2>2. Len(F.mem_block[b].swap_blocks) = Cardinality(Showing(F, {}, b))
    BY <1>13, <1>15, <2>1 DEF Whole, SwapInv
  <2>3. Showing(F, {}, b) # {}  BY <1>15 DEF Showing
  <2>4. Cardinality(Showing(F, {}, b)) # 0  BY <2>3, ShowingFinite, FS_EmptySet
  <2>5. QED  BY <2>1, <2>2, <2>4
<1>17. Unused(F) \in BlockIds /\ Unused(F) \notin Referenced(F)  BY <1>13, UnusedLemma
<1> HIDE DEF T, pg
<1>18. Split(F, T, p, v, Unused(F))
  BY <1>4, <1>13, <1>15, <1>16, <1>17, SplitEffect DEF T
<1>19. Whole(T, {}, {}) /\ Steady(F, T)
  <2>1. b # zero_page => Cardinality(Showing(F, {}, b)) > 1  BY <1>3, <1>15
  <2>2. Whole(F, {<<p, v>>}, {})  BY <1>13 DEF pg
  <2>3. QED  BY <1>13, <1>15, <1>16, <1>17, <1>18, <2>1, <2>2, SplitWhole
<1>20. Steady(S, T)
  <2>1. Steady(S, F)  BY <1>0, <1>14, SteadyIf
  <2>2. QED  BY <1>19, <2>1 DEF Steady
<1>21. T.data_location[p][v] = Unused(F) /\ T.mem_block[Unused(F)].resident
  <2>1. T.data_location = [F.data_location EXCEPT ![p][v] = Unused(F)]
        /\ T.mem_block[Unused(F)].resident
    BY <1>18 DEF Split
  <2>2. F.data_location \in [Pids -> Seq(BlockIds)]
    BY <1>13, Fields DEF Whole, Shape
  <2>3. QED  BY <1>15, <2>1, <2>2
<1>22. QED  BY <1>2, <1>17, <1>19, <1>20, <1>21

(* vm_fault once the page is resident *)
LEMMA ServedWhole ==
    ASSUME NEW S, Whole(S, {}, {}), NEW p \in Pids, NEW v \in DOMAIN S.data_location[p],
           S.mem_block[S.data_location[p][v]].resident, NEW write_flag
    PROVE  Whole(Served(S, p, v, write_flag), {}, {}) /\ Steady(S, Served(S, p, v, write_flag))
<1> DEFINE copy == write_flag /\ is_copy_on_writable(S, S.data_location[p][v])
           C == IF copy THEN CopyOnWrite(S, p, v) ELSE S
           b == C.data_location[p][v]
           W == IF write_flag THEN write_fault_handler(C, b) ELSE C
           R == read_fault_handler(W, b)
<1>0. Served(S, p, v, write_flag) = R  BY DEF Served
<1>1. Whole(C, {}, {}) /\ Steady(S, C) /\ b \in BlockIds /\ C.mem_block[b].resident
  <2>1. CASE copy
    <3>1. C = CopyOnWrite(S, p, v)  BY <2>1
    <3>2. QED  BY <2>1, <3>1, CopyWhole
  <2>2. CASE ~copy
    <3>1. C = S /\ Shape(S)  BY <2>2 DEF Whole
    <3>2. S.data_location[p][v] \in BlockIds  BY <3>1, PagesMeaning, PagesType
    <3> HIDE DEF C
    <3>3. QED  BY <3>1, <3>2 DEF Steady
  <2>3. QED  BY <2>1, <2>2
<1> HIDE DEF C, b
<1>2. C \in PagerState /\ Shape(C)  BY <1>1 DEF Whole, Shape
<1>3. W \in PagerState /\ Unmoved(C, W)
  <2>1. Unmoved(C, C)  BY DEF Unmoved, Alike
  <2>2. QED  BY <1>1, <1>2, <2>1, WriteFault
<1> HIDE DEF W
<1>4. W.mem_block[b].resident  BY <1>1, <1>3 DEF Unmoved, Alike
<1>5. R \in PagerState /\ Unmoved(W, R)  BY <1>1, <1>3, <1>4, ReadFault
<1> HIDE DEF R
<1>6. Unmoved(C, R)  BY <1>3, <1>5, UnmovedTrans
<1>7. Whole(R, {}, {})  BY <1>1, <1>5, <1>6, UnmovedWhole
<1>8. Steady(C, R)  BY <1>2, <1>6, SteadyIf DEF Unmoved, Alike
<1>9. QED  BY <1>0, <1>1, <1>7, <1>8 DEF Steady

-----------------------------------------------------------------------------
(* A handler ends: blocks nobody points to are deallocated.                *)
Masked(S) == [S EXCEPT !.mem_block =
                [b \in BlockIds |-> IF b \in Referenced(S) THEN S.mem_block[b] ELSE NoBlock]]

LEMMA MaskedWhole ==
    ASSUME NEW S, Whole(S, {}, {})
    PROVE  /\ Whole(Masked(S), {}, {}) /\ Steady(S, Masked(S))
           /\ Masked(S) \in PagerState /\ Masked(S).data_location = S.data_location
<1> DEFINE mb == [b \in BlockIds |-> IF b \in Referenced(S) THEN S.mem_block[b] ELSE NoBlock]
           T == Masked(S)
<1>0. /\ Shape(S) /\ Pinned(S) /\ FilesInv(S) /\ FramesInv(S) /\ ResidentInv(S)
      /\ PtesInv(S, {}) /\ SwapInv(S, {}) /\ HomeInv(S) /\ S \in PagerState
  BY DEF Whole, Shape
<1>1. T = [S EXCEPT !.mem_block = mb]  BY DEF Masked
<1>2. NoBlock \in Block
  BY Numbers DEF NoBlock, NewBlock, Block
<1>3. mb \in [BlockIds -> Block]
  <2>1. S.mem_block \in [BlockIds -> Block]  BY <1>0, Fields
  <2>2. QED  BY <1>2, <2>1
<1>4. /\ Referenced(S) \subseteq BlockIds /\ ToSet(S.clock_queue) \subseteq Referenced(S)
      /\ S.file_mapping_table \subseteq Referenced(S) /\ zero_page \in Referenced(S)
      /\ \A r \in PagesIn(S) : BlockIn(S, r) \in Referenced(S)
  BY <1>0, ReferencedMeaning
<1>5. /\ \A b \in Referenced(S) : mb[b] = S.mem_block[b]
      /\ \A b \in BlockIds \ Referenced(S) : mb[b] = NoBlock
  BY <1>4
<1> HIDE DEF mb, T
<1>6. /\ T \in PagerState /\ T.mem_block = mb /\ T.clock_queue = S.clock_queue
      /\ T.free_mem_blocks = S.free_mem_blocks /\ T.free_swap_blocks = S.free_swap_blocks
      /\ T.file_mapping_table = S.file_mapping_table /\ T.data_location = S.data_location
  BY <1>0, <1>1, <1>3 DEF PagerState
<1>7. /\ PagesIn(T) = PagesIn(S) /\ \A r : BlockIn(T, r) = BlockIn(S, r)
      /\ \A gone, c : Showing(T, gone, c) = Showing(S, gone, c)
  BY <1>6, SamePages
<1>8. SwapPages(T, {}) = SwapPages(S, {})  BY <1>4, <1>5, <1>6, <1>7 DEF SwapPages
<1>9. Referenced(T) = Referenced(S)  BY <1>6 DEF Referenced
<1>10. Shape(T)
  <2>1. PlaceOK(NoBlock)  BY Numbers DEF PlaceOK, NoBlock, NewBlock
  <2>2. QED  BY <1>0, <1>4, <1>5, <1>6, <2>1 DEF Shape
<1>11. Pinned(T)  BY <1>0, <1>4, <1>5, <1>6 DEF Pinned
<1>12. FilesInv(T)  BY <1>0, <1>4, <1>5, <1>6, <1>9 DEF FilesInv
<1>13. FramesInv(T)  BY <1>0, <1>4, <1>5, <1>6 DEF FramesInv
<1>14. ResidentInv(T)  BY <1>0, <1>4, <1>5, <1>6, <1>9 DEF ResidentInv
<1>15. PtesInv(T, {})  BY <1>0, <1>4, <1>5, <1>6, <1>7, <1>9 DEF PtesInv
<1>16. SwapInv(T, {})
  <2>1. \A b \in Referenced(T) : T.mem_block[b] = S.mem_block[b]  BY <1>5, <1>6, <1>9
  <2>2. QED  BY <1>0, <1>6, <1>7, <1>8, <1>9, <2>1 DEF SwapInv
<1>17. HomeInv(T)  BY <1>0, <1>4, <1>5, <1>6 DEF HomeInv
<1>18. Whole(T, {}, {})
  BY <1>10, <1>11, <1>12, <1>13, <1>14, <1>15, <1>16, <1>17 DEF Whole
<1>19. QED  BY <1>6, <1>7, <1>8, <1>18 DEF Steady, T

LEMMA BecomesWhole ==
    ASSUME NEW S, Whole(S, {}, {}), Becomes(S)
    PROVE  /\ Whole(Pager, {}, {})' /\ Steady(S, Pager')
           /\ data_location' = S.data_location
           /\ \A pg \in PagesIn(S) : mem_block'[BlockIn(S, pg)] = S.mem_block[BlockIn(S, pg)]
<1> DEFINE mb == [b \in BlockIds |-> IF b \in Referenced(S) THEN S.mem_block[b] ELSE NoBlock]
           M == Masked(S)
           N == Pager'
<1>0. Shape(S) /\ S \in PagerState  BY DEF Whole, Shape
<1>1. /\ physmem' = S.physmem /\ swap_file' = S.swap_file /\ files' = S.files
      /\ mem_block' = mb /\ clock_queue' = S.clock_queue
      /\ free_mem_blocks' = S.free_mem_blocks /\ free_swap_blocks' = S.free_swap_blocks
      /\ file_mapping_table' = S.file_mapping_table
      /\ page_table' = S.page_table /\ data_location' = S.data_location
  BY DEF Becomes
<1>2. /\ Whole(M, {}, {}) /\ Steady(S, M) /\ M \in PagerState /\ Shape(M)
      /\ M.data_location = S.data_location
  BY MaskedWhole DEF Whole
<1>3. M = [S EXCEPT !.mem_block = mb]  BY DEF Masked
<1>4. \A pg \in PagesIn(S) : mb[BlockIn(S, pg)] = S.mem_block[BlockIn(S, pg)]
  <2>1. \A pg \in PagesIn(S) : BlockIn(S, pg) \in Referenced(S) /\ BlockIn(S, pg) \in BlockIds
    BY <1>0, ReferencedMeaning
  <2>2. QED  BY <2>1
<1> HIDE DEF mb, M
<1>5. /\ M.mem_block = mb /\ M.clock_queue = S.clock_queue
      /\ M.free_mem_blocks = S.free_mem_blocks /\ M.free_swap_blocks = S.free_swap_blocks
      /\ M.file_mapping_table = S.file_mapping_table /\ M.physmem = S.physmem
      /\ M.swap_file = S.swap_file /\ M.files = S.files /\ M.page_table = S.page_table
  BY <1>0, <1>3 DEF PagerState
<1>6. /\ N.mem_block = mb /\ N.clock_queue = S.clock_queue
      /\ N.free_mem_blocks = S.free_mem_blocks /\ N.free_swap_blocks = S.free_swap_blocks
      /\ N.file_mapping_table = S.file_mapping_table /\ N.physmem = S.physmem
      /\ N.swap_file = S.swap_file /\ N.files = S.files /\ N.page_table = S.page_table
      /\ N.data_location = S.data_location
  BY <1>1 DEF Pager
<1>7. N \in PagerState
  <2>1. /\ mb \in [BlockIds -> Block] /\ S.clock_queue \in Seq(BlockIds)
        /\ S.free_mem_blocks \in Seq(Frames) /\ S.free_swap_blocks \in Seq(SwapBlocks)
        /\ S.file_mapping_table \in SUBSET BlockIds /\ S.physmem \in [Frames -> Data]
        /\ S.swap_file \in [SwapBlocks -> Data] /\ S.files \in [FileKeys -> Data]
        /\ S.page_table \in [Pids -> [VPages -> Entry]]
        /\ S.data_location \in [Pids -> Seq(BlockIds)]
    BY <1>0, <1>2, <1>5, Fields
  <2>2. N = [physmem |-> S.physmem, swap_file |-> S.swap_file, files |-> S.files,
             mem_block |-> mb, clock_queue |-> S.clock_queue,
             free_mem_blocks |-> S.free_mem_blocks, free_swap_blocks |-> S.free_swap_blocks,
             file_mapping_table |-> S.file_mapping_table, page_table |-> S.page_table,
             data_location |-> S.data_location]
    BY <1>1 DEF Pager
  <2> HIDE DEF N
  <2>3. QED  BY <2>1, <2>2 DEF PagerState
<1>8. Unmoved(M, N)  BY <1>2, <1>5, <1>6 DEF Unmoved, Alike
<1>9. mem_block' = mb /\ data_location' = S.data_location  BY <1>1
<1>10. Whole(N, {}, {})
  <2> HIDE DEF N
  <2>1. QED  BY <1>2, <1>7, <1>8, UnmovedWhole
<1>11. Steady(S, N)
  <2> HIDE DEF N
  <2>1. Steady(M, N)  BY <1>2, <1>8, SteadyIf DEF Unmoved, Alike
  <2>2. QED  BY <1>2, <2>1 DEF Steady
<1>12. QED  BY <1>4, <1>9, <1>10, <1>11

-----------------------------------------------------------------------------
(* vm_map and fork: a process gets one more page.                          *)

(* The next page of process p *)
NextPage(S, p) == <<p, Len(S.data_location[p]) + 1>>

OnePageMore(S, T, p, b) == T.data_location = [S.data_location EXCEPT ![p] = Append(@, b)]

LEMMA GrownPages ==
    ASSUME NEW S, Shape(S), NEW p \in Pids, Len(S.data_location[p]) < num_virt_addr,
           NEW b \in BlockIds, NEW T, OnePageMore(S, T, p, b)
    PROVE  /\ NextPage(S, p) \in Pids \X VPages /\ NextPage(S, p) \notin PagesIn(S)
           /\ PagesIn(T) = PagesIn(S) \cup {NextPage(S, p)}
           /\ \A r \in PagesIn(S) : BlockIn(T, r) = BlockIn(S, r)
           /\ BlockIn(T, NextPage(S, p)) = b
           /\ Showing(T, {}, b) = Showing(S, {}, b) \cup {NextPage(S, p)}
           /\ \A c : c # b => Showing(T, {}, c) = Showing(S, {}, c)
           /\ T.data_location \in [Pids -> Seq(BlockIds)]
           /\ \A r \in Pids : Len(T.data_location[r]) <= num_virt_addr
<1> DEFINE pg == NextPage(S, p)
           s == S.data_location[p]
           a == Append(s, b)
<1>1. S.data_location \in [Pids -> Seq(BlockIds)] /\ s \in Seq(BlockIds)
  BY Fields DEF Shape
<1>2. PICK n \in Nat : n = Len(s) /\ n < num_virt_addr  BY <1>1
<1>3. /\ DOMAIN s = 1 .. n /\ DOMAIN a = 1 .. n + 1
      /\ a \in Seq(BlockIds) /\ Len(a) = n + 1
      /\ a[n + 1] = b /\ \A i \in 1 .. n : a[i] = s[i]
  BY <1>1, <1>2
<1>4. /\ \A r \in Pids : T.data_location[r] = IF r = p THEN a ELSE S.data_location[r]
      /\ T.data_location \in [Pids -> Seq(BlockIds)]
  BY <1>1, <1>3 DEF OnePageMore
<1> HIDE DEF a
<1>5. pg = <<p, n + 1>> /\ n + 1 \in VPages /\ n + 1 \notin 1 .. n
  BY <1>2, Numbers DEF NextPage, VPages
<1>6. pg \in Pids \X VPages /\ pg \notin PagesIn(S)  BY <1>3, <1>5 DEF PagesIn
<1>7. PagesIn(T) = PagesIn(S) \cup {pg}
  <2>1. \A i : i \in 1 .. n + 1 <=> i \in 1 .. n \/ i = n + 1  BY <1>2
  <2>2. ASSUME NEW r \in Pids, NEW w \in VPages
        PROVE  w \in DOMAIN T.data_location[r] <=>
                 w \in DOMAIN S.data_location[r] \/ (r = p /\ w = n + 1)
    <3>1. CASE r # p  BY <1>4, <3>1
    <3>2. CASE r = p  BY <1>3, <1>4, <2>1, <3>2
    <3>3. QED  BY <3>1, <3>2
  <2>3. \A r \in Pids \X VPages : r \in PagesIn(T) <=> r \in PagesIn(S) \/ r = pg
    BY <1>5, <2>2 DEF PagesIn
  <2>4. PagesIn(T) \subseteq Pids \X VPages /\ PagesIn(S) \subseteq Pids \X VPages
    BY DEF PagesIn
  <2>5. QED  BY <1>6, <2>3, <2>4
<1>8. \A r \in PagesIn(S) : BlockIn(T, r) = BlockIn(S, r)
  <2>1. ASSUME NEW r \in PagesIn(S) PROVE BlockIn(T, r) = BlockIn(S, r)
    <3>1. r[1] \in Pids /\ r[2] \in DOMAIN S.data_location[r[1]]  BY DEF PagesIn
    <3>2. CASE r[1] = p  BY <1>3, <1>4, <3>1, <3>2 DEF BlockIn
    <3>3. CASE r[1] # p  BY <1>4, <3>1, <3>3 DEF BlockIn
    <3>4. QED  BY <3>2, <3>3
  <2>2. QED  BY <2>1
<1>9. BlockIn(T, pg) = b  BY <1>3, <1>4, <1>5 DEF BlockIn
<1> HIDE DEF pg
<1>10. /\ Showing(T, {}, b) = Showing(S, {}, b) \cup {pg}
       /\ \A c : c # b => Showing(T, {}, c) = Showing(S, {}, c)
  BY <1>6, <1>7, <1>8, <1>9 DEF Showing
<1>11. \A r \in Pids : Len(T.data_location[r]) <= num_virt_addr
  <2>1. n + 1 <= num_virt_addr  BY <1>2, Numbers
  <2>2. QED  BY <1>3, <1>4, <2>1 DEF Shape
<1>12. QED  BY <1>4, <1>6, <1>7, <1>8, <1>9, <1>10, <1>11 DEF pg

(* Process p gets a page that shows the block b, with a swap block if it   *)
(* needs one.  The zero page need not know the page.                       *)
Grown(S, T, p, b) ==
    LET x == S.mem_block[b]
        y == T.mem_block[b]
        pg == NextPage(S, p)
    IN  /\ T \in PagerState
        /\ T.clock_queue = S.clock_queue /\ T.free_mem_blocks = S.free_mem_blocks
        /\ T.file_mapping_table = S.file_mapping_table
        /\ OnePageMore(S, T, p, b)
        /\ \A c \in BlockIds \ {b} : Alike(S.mem_block[c], T.mem_block[c])
        /\ y.resident = x.resident /\ y.is_swap = x.is_swap /\ y.location = x.location
        /\ y.filename = x.filename /\ y.block_num = x.block_num
        /\ y.ptes = x.ptes \cup {pg} \/ (b = zero_page /\ y.ptes = x.ptes)
        /\ x.is_swap => /\ S.free_swap_blocks # <<>>
                        /\ T.free_swap_blocks = Tail(S.free_swap_blocks)
                        /\ y.swap_blocks = Append(x.swap_blocks, Head(S.free_swap_blocks))
        /\ ~x.is_swap => /\ T.free_swap_blocks = S.free_swap_blocks
                         /\ y.swap_blocks = x.swap_blocks

LEMMA GrownWhole ==
    ASSUME NEW S, NEW T, NEW p \in Pids, NEW b \in Referenced(S), Whole(S, {}, {}),
           Len(S.data_location[p]) < num_virt_addr, Grown(S, T, p, b)
    PROVE  /\ Whole(T, {}, {})
           /\ SwapPages(T, {}) = IF S.mem_block[b].is_swap
                                 THEN SwapPages(S, {}) \cup {NextPage(S, p)}
                                 ELSE SwapPages(S, {})
<1> DEFINE pg == NextPage(S, p)
           x == S.mem_block[b]
           y == T.mem_block[b]
<1>0. /\ Shape(S) /\ Pinned(S) /\ FilesInv(S) /\ FramesInv(S) /\ ResidentInv(S)
      /\ PtesInv(S, {}) /\ SwapInv(S, {}) /\ HomeInv(S) /\ S \in PagerState
  BY DEF Whole, Shape
<1>1. /\ T \in PagerState
      /\ T.clock_queue = S.clock_queue /\ T.free_mem_blocks = S.free_mem_blocks
      /\ T.file_mapping_table = S.file_mapping_table
      /\ OnePageMore(S, T, p, b)
  BY DEF Grown
<1>2. \A c \in BlockIds :
         /\ T.mem_block[c].resident = S.mem_block[c].resident
         /\ T.mem_block[c].is_swap = S.mem_block[c].is_swap
         /\ T.mem_block[c].location = S.mem_block[c].location
         /\ T.mem_block[c].filename = S.mem_block[c].filename
         /\ T.mem_block[c].block_num = S.mem_block[c].block_num
  BY DEF Grown, Alike
<1>3. \A c \in BlockIds \ {b} : /\ T.mem_block[c].swap_blocks = S.mem_block[c].swap_blocks
                                /\ T.mem_block[c].ptes = S.mem_block[c].ptes
  BY DEF Grown, Alike
<1>4. y.ptes = x.ptes \cup {pg} \/ (b = zero_page /\ y.ptes = x.ptes)  BY DEF Grown
<1>5. /\ Referenced(S) \subseteq BlockIds /\ ToSet(S.clock_queue) \subseteq Referenced(S)
      /\ S.file_mapping_table \subseteq Referenced(S) /\ zero_page \in Referenced(S)
      /\ \A r \in PagesIn(S) : BlockIn(S, r) \in Referenced(S)
  BY <1>0, ReferencedMeaning
<1>6. /\ pg \in Pids \X VPages /\ pg \notin PagesIn(S)
      /\ PagesIn(T) = PagesIn(S) \cup {pg}
      /\ \A r \in PagesIn(S) : BlockIn(T, r) = BlockIn(S, r)
      /\ BlockIn(T, pg) = b
      /\ Showing(T, {}, b) = Showing(S, {}, b) \cup {pg}
      /\ \A c : c # b => Showing(T, {}, c) = Showing(S, {}, c)
      /\ T.data_location \in [Pids -> Seq(BlockIds)]
      /\ \A r \in Pids : Len(T.data_location[r]) <= num_virt_addr
  <2>1. b \in BlockIds  BY <1>5
  <2>2. QED  BY <1>0, <1>1, <2>1, GrownPages
<1> HIDE DEF pg
<1>7. Shape(T)  BY <1>0, <1>1, <1>2, <1>6 DEF Shape, PlaceOK
<1>8. Referenced(T) = Referenced(S)
  <2>1. \A c : c \in Referenced(S) <=>
          \/ c = zero_page \/ c \in ToSet(S.clock_queue) \/ c \in S.file_mapping_table
          \/ \E r \in PagesIn(S) : BlockIn(S, r) = c
    BY <1>0, ReferencedMeaning
  <2>2. \A c : c \in Referenced(T) <=>
          \/ c = zero_page \/ c \in ToSet(T.clock_queue) \/ c \in T.file_mapping_table
          \/ \E r \in PagesIn(T) : BlockIn(T, r) = c
    BY <1>7, ReferencedMeaning
  <2>3. \A c : (\E r \in PagesIn(T) : BlockIn(T, r) = c)
               <=> c = b \/ \E r \in PagesIn(S) : BlockIn(S, r) = c
    BY <1>6
  <2>4. \A c : c \in Referenced(T) <=> c \in Referenced(S)  BY <1>1, <2>1, <2>2, <2>3
  <2>5. QED  BY <2>4
<1>9. Pinned(T)  BY <1>0, <1>1, <1>2, <1>5 DEF Pinned
<1>10. FilesInv(T)
  <2>1. \A c \in Referenced(T) : NamedOK(T.mem_block[c])
    BY <1>0, <1>2, <1>5, <1>8 DEF FilesInv, NamedOK
  <2>2. \A c \in BlockIds : S.mem_block[c].ptes \subseteq T.mem_block[c].ptes  BY <1>3, <1>4
  <2>3. \A c \in T.file_mapping_table :
          ~T.mem_block[c].is_swap /\ (T.mem_block[c].resident \/ T.mem_block[c].ptes # {})
    BY <1>0, <1>1, <1>2, <1>5, <2>2 DEF FilesInv
  <2>4. QED  BY <2>1, <2>3 DEF FilesInv
<1>11. FramesInv(T)  BY <1>0, <1>1, <1>2, <1>5 DEF FramesInv
<1>12. ResidentInv(T)  BY <1>0, <1>1, <1>2, <1>5, <1>8 DEF ResidentInv
<1>13. PtesInv(T, {})
  BY <1>0, <1>3, <1>4, <1>5, <1>6, <1>8 DEF PtesInv
<1>14. SwapPages(T, {}) = IF x.is_swap THEN SwapPages(S, {}) \cup {pg} ELSE SwapPages(S, {})
  <2>1. \A r \in PagesIn(S) : T.mem_block[BlockIn(T, r)].is_swap
                                <=> S.mem_block[BlockIn(S, r)].is_swap
    BY <1>2, <1>5, <1>6
  <2>2. T.mem_block[BlockIn(T, pg)].is_swap <=> x.is_swap  BY <1>2, <1>5, <1>6
  <2>3. QED  BY <1>6, <2>1, <2>2 DEF SwapPages
<1>15. \A c \in Referenced(S) \ {b} :
         /\ Len(T.mem_block[c].swap_blocks) =
              IF T.mem_block[c].is_swap THEN Cardinality(Showing(T, {}, c)) ELSE 0
         /\ T.mem_block[c].swap_blocks = S.mem_block[c].swap_blocks
  <2>1. ASSUME NEW c \in Referenced(S) \ {b}
        PROVE  /\ T.mem_block[c].swap_blocks = S.mem_block[c].swap_blocks
               /\ T.mem_block[c].is_swap = S.mem_block[c].is_swap
               /\ Showing(T, {}, c) = Showing(S, {}, c)
    BY <1>2, <1>3, <1>5, <1>6
  <2>2. QED  BY <1>0, <2>1 DEF SwapInv
<1>16. SwapInv(T, {}) /\ (x.is_swap => y.swap_blocks # <<>>)
  <2>1. CASE ~x.is_swap
    <3>1. /\ T.free_swap_blocks = S.free_swap_blocks /\ y.swap_blocks = x.swap_blocks
          /\ ~y.is_swap
      BY <1>2, <1>5, <2>1 DEF Grown
    <3>2. \A c \in Referenced(T) : Len(T.mem_block[c].swap_blocks) =
            IF T.mem_block[c].is_swap THEN Cardinality(Showing(T, {}, c)) ELSE 0
      BY <1>0, <1>8, <1>15, <2>1, <3>1 DEF SwapInv
    <3>3. \A c \in Referenced(T) : T.mem_block[c].swap_blocks = S.mem_block[c].swap_blocks
      BY <1>8, <1>15, <3>1
    <3>4. QED  BY <1>0, <1>8, <1>14, <2>1, <3>1, <3>2, <3>3 DEF SwapInv
  <2>2. CASE x.is_swap
    <3> DEFINE fs == S.free_swap_blocks
               h == Head(fs)
    <3>1. /\ fs # <<>> /\ T.free_swap_blocks = Tail(fs)
          /\ y.swap_blocks = Append(x.swap_blocks, h) /\ y.is_swap
      BY <1>2, <1>5, <2>2 DEF Grown
    <3>2. fs \in Seq(SwapBlocks) /\ x \in Block  BY <1>0, <1>5, Fields
    <3>3. x.swap_blocks \in Seq(SwapBlocks)  BY <3>2 DEF Block
    <3>4. h \in SwapBlocks /\ ToSet(fs) = {h} \cup ToSet(Tail(fs)) /\ Len(Tail(fs)) = Len(fs) - 1
      BY <3>1, <3>2, HeadTailLemma
    <3> HIDE DEF h
    <3>5. /\ Len(y.swap_blocks) = Len(x.swap_blocks) + 1 /\ y.swap_blocks # <<>>
          /\ ToSet(y.swap_blocks) = ToSet(x.swap_blocks) \cup {h}
      BY <3>1, <3>3, <3>4, AppendLemma
    <3>6. Len(y.swap_blocks) = Cardinality(Showing(T, {}, b))
      <4>1. Len(x.swap_blocks) = Cardinality(Showing(S, {}, b))  BY <1>0, <2>2 DEF SwapInv
      <4>2. IsFiniteSet(Showing(S, {}, b)) /\ pg \notin Showing(S, {}, b)
        <5>1. pg \notin Showing(S, {}, b)  BY <1>6 DEF Showing
        <5>2. QED  BY <5>1, ShowingFinite
      <4>3. Cardinality(Showing(T, {}, b)) = Cardinality(Showing(S, {}, b)) + 1
        BY <1>6, <4>2, FS_AddElement
      <4>4. QED  BY <3>5, <4>1, <4>3
    <3>7. \A c \in Referenced(T) : Len(T.mem_block[c].swap_blocks) =
            IF T.mem_block[c].is_swap THEN Cardinality(Showing(T, {}, c)) ELSE 0
      BY <1>8, <1>15, <3>1, <3>6
    <3>8. ASSUME NEW k \in SwapBlocks, k \notin ToSet(T.free_swap_blocks)
          PROVE  \E c \in Referenced(T) : k \in ToSet(T.mem_block[c].swap_blocks)
      <4>1. CASE k = h  BY <1>8, <3>5, <4>1
      <4>2. CASE k # h
        <5>1. k \notin ToSet(fs)  BY <3>1, <3>4, <3>8, <4>2
        <5>2. PICK c \in Referenced(S) : k \in ToSet(S.mem_block[c].swap_blocks)
          BY <1>0, <5>1 DEF SwapInv
        <5>3. k \in ToSet(T.mem_block[c].swap_blocks)  BY <1>15, <3>5, <5>2
        <5>4. QED  BY <1>8, <5>3
      <4>3. QED  BY <4>1, <4>2
    <3>9. Len(T.free_swap_blocks) + Cardinality(SwapPages(T, {})) = swap_blocks
      <4>1. /\ IsFiniteSet(SwapPages(S, {})) /\ Cardinality(SwapPages(S, {})) \in Nat
            /\ pg \notin SwapPages(S, {})
        BY <1>6, ShowingFinite DEF SwapPages
      <4>2. Cardinality(SwapPages(T, {})) = Cardinality(SwapPages(S, {})) + 1
        BY <1>14, <2>2, <4>1, FS_AddElement
      <4>3. Len(fs) + Cardinality(SwapPages(S, {})) = swap_blocks  BY <1>0 DEF SwapInv
      <4>4. PICK n \in Nat : n = Len(fs)  BY <3>2
      <4>5. QED  BY <3>1, <3>4, <4>1, <4>2, <4>3, <4>4
    <3>10. QED  BY <3>5, <3>7, <3>8, <3>9 DEF SwapInv
  <2>3. QED  BY <2>1, <2>2
<1>17. HomeInv(T)
  <2>1. ASSUME NEW c \in ToSet(T.clock_queue), T.mem_block[c].is_swap
        PROVE  T.mem_block[c].swap_blocks # <<>>
    <3>1. c \in ToSet(S.clock_queue) /\ c \in BlockIds /\ S.mem_block[c].is_swap
      BY <1>1, <1>2, <1>5, <2>1
    <3>2. CASE c = b  BY <1>16, <3>1, <3>2
    <3>3. CASE c # b  BY <1>0, <1>3, <3>1, <3>3 DEF HomeInv
    <3>4. QED  BY <3>2, <3>3
  <2>2. QED  BY <2>1 DEF HomeInv
<1>18. Whole(T, {}, {})
  BY <1>7, <1>9, <1>10, <1>11, <1>12, <1>13, <1>16, <1>17 DEF Whole
<1>19. QED  BY <1>14, <1>18 DEF pg

(* The same, before a swap block is reserved *)
PageAdded(S, T, p, b) ==
    LET x == S.mem_block[b]
        y == T.mem_block[b]
        pg == NextPage(S, p)
    IN  /\ T \in PagerState
        /\ T.clock_queue = S.clock_queue /\ T.free_mem_blocks = S.free_mem_blocks
        /\ T.free_swap_blocks = S.free_swap_blocks
        /\ T.file_mapping_table = S.file_mapping_table
        /\ OnePageMore(S, T, p, b)
        /\ \A c \in BlockIds \ {b} : Alike(S.mem_block[c], T.mem_block[c])
        /\ y.resident = x.resident /\ y.is_swap = x.is_swap /\ y.location = x.location
        /\ y.filename = x.filename /\ y.block_num = x.block_num
        /\ y.swap_blocks = x.swap_blocks
        /\ y.ptes = x.ptes \cup {pg} \/ (b = zero_page /\ y.ptes = x.ptes)

(* The state with new page table and locations, and another block b *)
LEMMA AddPage ==
    ASSUME NEW S, Shape(S), NEW p \in Pids, NEW b \in BlockIds, NEW x \in Block,
           Len(S.data_location[p]) < num_virt_addr, NEW e \in Entry, NEW T,
           T = [S EXCEPT !.data_location[p] = Append(@, b), !.mem_block[b] = x,
                         !.page_table[p][NextPage(S, p)[2]] = e],
           x.resident = S.mem_block[b].resident, x.is_swap = S.mem_block[b].is_swap,
           x.location = S.mem_block[b].location, x.filename = S.mem_block[b].filename,
           x.block_num = S.mem_block[b].block_num,
           x.swap_blocks = S.mem_block[b].swap_blocks,
           \/ x.ptes = S.mem_block[b].ptes \cup {NextPage(S, p)}
           \/ b = zero_page /\ x.ptes = S.mem_block[b].ptes
    PROVE  PageAdded(S, T, p, b)
<1> DEFINE n == NextPage(S, p)[2]
           dl == [S.data_location EXCEPT ![p] = Append(@, b)]
           mb == [S.mem_block EXCEPT ![b] = x]
           pt == [S.page_table EXCEPT ![p][n] = e]
<1>0. S \in PagerState  BY DEF Shape
<1>1. n \in VPages
  <2>1. Len(S.data_location[p]) \in Nat  BY PagesMeaning
  <2>2. QED  BY <2>1, Numbers DEF NextPage, VPages
<1>2. dl \in [Pids -> Seq(BlockIds)]
  <2>1. S.data_location \in [Pids -> Seq(BlockIds)] /\ S.data_location[p] \in Seq(BlockIds)
    BY <1>0, Fields
  <2>2. Append(S.data_location[p], b) \in Seq(BlockIds)  BY <2>1
  <2>3. QED  BY <2>1, <2>2
<1>3. /\ mb \in [BlockIds -> Block] /\ mb[b] = x
      /\ \A c \in BlockIds \ {b} : mb[c] = S.mem_block[c]
  BY <1>0, Fields
<1> HIDE DEF n
<1>4. pt \in [Pids -> [VPages -> Entry]]
  <2>1. S.page_table \in [Pids -> [VPages -> Entry]]  BY <1>0, Fields
  <2>2. QED  BY <1>1, <2>1
<1>5. T = [S EXCEPT !.data_location = dl, !.mem_block = mb, !.page_table = pt]  BY DEF n
<1>6. \A U : U.data_location = dl => OnePageMore(S, U, p, b)  BY DEF OnePageMore
<1> HIDE DEF dl, mb, pt
<1>7. /\ T \in PagerState /\ T.mem_block = mb /\ T.clock_queue = S.clock_queue
      /\ T.free_mem_blocks = S.free_mem_blocks /\ T.free_swap_blocks = S.free_swap_blocks
      /\ T.file_mapping_table = S.file_mapping_table /\ T.data_location = dl
  BY <1>0, <1>2, <1>3, <1>4, <1>5 DEF PagerState
<1>8. QED  BY <1>3, <1>6, <1>7 DEF PageAdded, Alike

(* The block b gets a swap block. *)
GivenSwap(S, T, b) ==
    /\ T \in PagerState
    /\ T.clock_queue = S.clock_queue /\ T.free_mem_blocks = S.free_mem_blocks
    /\ T.free_swap_blocks = Tail(S.free_swap_blocks)
    /\ T.file_mapping_table = S.file_mapping_table /\ T.data_location = S.data_location
    /\ T.page_table = S.page_table
    /\ \A c \in BlockIds \ {b} : Alike(S.mem_block[c], T.mem_block[c])
    /\ LET x == S.mem_block[b]
           y == T.mem_block[b]
       IN  /\ y.resident = x.resident /\ y.is_swap = x.is_swap /\ y.location = x.location
           /\ y.filename = x.filename /\ y.block_num = x.block_num /\ y.ptes = x.ptes
           /\ y.swap_blocks = Append(x.swap_blocks, Head(S.free_swap_blocks))

LEMMA ReserveEffect ==
    ASSUME NEW S, S \in PagerState, NEW b \in BlockIds, S.free_swap_blocks # <<>>
    PROVE  GivenSwap(S, ReserveSwap(S, b), b)
<1> DEFINE x == S.mem_block[b]
           sb == Append(x.swap_blocks, Head(S.free_swap_blocks))
           y == [x EXCEPT !.swap_blocks = sb]
           mb == [S.mem_block EXCEPT ![b] = y]
           fs == Tail(S.free_swap_blocks)
           T == ReserveSwap(S, b)
<1>1. S.mem_block \in [BlockIds -> Block] /\ x \in Block
      /\ S.free_swap_blocks \in Seq(SwapBlocks)
  BY Fields
<1>2. sb \in Seq(SwapBlocks) /\ fs \in Seq(SwapBlocks)
  <2>1. x.swap_blocks \in Seq(SwapBlocks)  BY <1>1 DEF Block
  <2>2. Head(S.free_swap_blocks) \in SwapBlocks  BY <1>1
  <2>3. QED  BY <1>1, <2>1, <2>2
<1>3. T = [S EXCEPT !.mem_block = mb, !.free_swap_blocks = fs]  BY <1>1 DEF ReserveSwap
<1>4. sb = Append(x.swap_blocks, Head(S.free_swap_blocks)) /\ fs = Tail(S.free_swap_blocks)
  OBVIOUS
<1> HIDE DEF sb, fs, T
<1>5. /\ y \in Block /\ y.swap_blocks = sb /\ y.resident = x.resident
      /\ y.is_swap = x.is_swap /\ y.location = x.location /\ y.ptes = x.ptes
      /\ y.filename = x.filename /\ y.block_num = x.block_num
  BY <1>1, <1>2 DEF Block
<1> HIDE DEF y
<1>6. /\ mb \in [BlockIds -> Block] /\ mb[b] = y
      /\ \A c \in BlockIds \ {b} : mb[c] = S.mem_block[c]
  BY <1>1, <1>5
<1> HIDE DEF mb
<1>7. /\ T \in PagerState /\ T.mem_block = mb /\ T.clock_queue = S.clock_queue
      /\ T.free_mem_blocks = S.free_mem_blocks /\ T.free_swap_blocks = fs
      /\ T.file_mapping_table = S.file_mapping_table /\ T.data_location = S.data_location
      /\ T.page_table = S.page_table
  BY <1>2, <1>3, <1>6 DEF PagerState
<1>8. GivenSwap(S, T, b)  BY <1>4, <1>5, <1>6, <1>7 DEF GivenSwap, Alike
<1>9. QED  BY <1>8 DEF T

LEMMA GrownFile ==
    ASSUME NEW S, NEW T, NEW p, NEW b, PageAdded(S, T, p, b), ~S.mem_block[b].is_swap
    PROVE  Grown(S, T, p, b)
BY DEF PageAdded, Grown

LEMMA GrownSwap ==
    ASSUME NEW S, NEW T, NEW U, NEW p, NEW b \in BlockIds, PageAdded(S, T, p, b),
           GivenSwap(T, U, b), S.mem_block[b].is_swap, S.free_swap_blocks # <<>>
    PROVE  Grown(S, U, p, b)
<1>1. OnePageMore(S, U, p, b)  BY DEF PageAdded, GivenSwap, OnePageMore
<1>2. /\ \A c \in BlockIds \ {b} : Alike(S.mem_block[c], U.mem_block[c])
  BY DEF PageAdded, GivenSwap, Alike
<1>3. QED  BY <1>1, <1>2 DEF PageAdded, GivenSwap, Grown

LEMMA SwapGrown ==
    ASSUME NEW S, NEW T, NEW U, NEW p, NEW b \in BlockIds, GivenSwap(S, T, b),
           PageAdded(T, U, p, b), S.mem_block[b].is_swap, S.free_swap_blocks # <<>>
    PROVE  Grown(S, U, p, b)
<1>1. OnePageMore(S, U, p, b) /\ NextPage(T, p) = NextPage(S, p)
  BY DEF PageAdded, GivenSwap, OnePageMore, NextPage
<1>2. /\ \A c \in BlockIds \ {b} : Alike(S.mem_block[c], U.mem_block[c])
  BY ZenonT(40) DEF PageAdded, GivenSwap, Alike
<1>3. QED  BY <1>1, <1>2 DEF PageAdded, GivenSwap, Grown

LEMMA GrownRepainted ==
    ASSUME NEW S, NEW T, NEW U, NEW p, NEW b \in BlockIds, Grown(S, T, p, b), Repainted(T, U)
    PROVE  Grown(S, U, p, b)
<1>1. OnePageMore(S, U, p, b)  BY DEF Grown, Repainted, Unmoved, OnePageMore
<1>2. QED  BY <1>1 DEF Grown, Repainted, Unmoved

-----------------------------------------------------------------------------
(* vm_create.                                                              *)

(* The recursive function of Copied exists. *)
LEMMA CopiedExists ==
    ASSUME NEW N \in Nat, NEW p, NEW c
    PROVE  \E f : f = [i \in 0 .. N |-> IF i = 0 THEN Pager ELSE copy_virtual_page(f[i - 1], p, c, i)]
<1> DEFINE D(f, n) == f = [i \in 0 .. n |-> IF i = 0 THEN Pager
                                            ELSE copy_virtual_page(f[i - 1], p, c, i)]
           T == {n \in 0 .. N : \E f : D(f, n)}
<1> HIDE DEF Pager
<1>1. 0 \in T
  <2>1. D([i \in 0 .. 0 |-> Pager], 0)  OBVIOUS
  <2> HIDE DEF D
  <2>2. QED  BY <2>1
<1>2. ASSUME NEW n \in 0 .. N - 1, n \in T PROVE n + 1 \in T
  <2>1. PICK f : D(f, n)  BY <1>2
  <2> DEFINE g == [i \in 0 .. n + 1 |-> IF i = 0 THEN Pager ELSE IF i <= n THEN f[i]
                                        ELSE copy_virtual_page(f[n], p, c, n + 1)]
  <2>2. \A i \in 0 .. n : g[i] = f[i]  BY <2>1
  <2>3. D(g, n + 1)
    <3>1. ASSUME NEW i \in 0 .. n + 1
          PROVE  g[i] = IF i = 0 THEN Pager ELSE copy_virtual_page(g[i - 1], p, c, i)
      <4>1. CASE i = 0  BY <4>1
      <4>2. CASE i \in 1 .. n
        <5>1. i - 1 \in 0 .. n /\ i \in 0 .. n /\ i # 0  BY <4>2
        <5>2. f[i] = copy_virtual_page(f[i - 1], p, c, i)  BY <2>1, <5>1
        <5>3. QED  BY <2>2, <5>1, <5>2
      <4>3. CASE i = n + 1
        <5>1. g[i] = copy_virtual_page(f[n], p, c, n + 1) /\ i - 1 = n  BY <4>3
        <5>2. QED  BY <2>2, <4>3, <5>1
      <4>4. QED  BY <4>1, <4>2, <4>3
    <3> HIDE DEF g
    <3>2. g = [i \in 0 .. n + 1 |-> g[i]]  BY DEF g
    <3>3. QED  BY <3>1, <3>2
  <2> HIDE DEF D, g
  <2>4. QED  BY <2>3
<1> HIDE DEF D, T
<1>3. 0 .. N \subseteq T  BY <1>1, <1>2, UpToInduction
<1>4. QED  BY <1>3 DEF T, D

(* Copied as its definition reads *)
LEMMA CopiedDef ==
    ASSUME NEW p, NEW c, Len(data_location[p]) \in Nat
    PROVE  /\ Copied(p, c)[0] = Pager
           /\ \A i \in 1 .. Len(data_location[p]) :
                Copied(p, c)[i] = copy_virtual_page(Copied(p, c)[i - 1], p, c, i)
<1> DEFINE f == Copied(p, c)
           N == Len(data_location[p])
<1>1. f = [i \in 0 .. N |-> IF i = 0 THEN Pager ELSE copy_virtual_page(f[i - 1], p, c, i)]
  <2> HIDE DEF Pager
  <2>1. QED  BY CopiedExists DEF Copied
<1> HIDE DEF f
<1>2. f[0] = Pager  BY <1>1
<1>3. ASSUME NEW i \in 1 .. N PROVE f[i] = copy_virtual_page(f[i - 1], p, c, i)
  <2>1. i \in 0 .. N /\ i # 0  OBVIOUS
  <2>2. QED  BY <1>1, <2>1
<1>4. QED  BY <1>2, <1>3 DEF f

(* One page of the parent *)
LEMMA CopyPageWhole ==
    ASSUME NEW S, Whole(S, {}, {}), NEW p \in Pids, NEW c \in Pids,
           NEW v \in DOMAIN S.data_location[p], Len(S.data_location[c]) + 1 = v,
           S.mem_block[S.data_location[p][v]].is_swap => S.free_swap_blocks # <<>>
    PROVE  /\ S.data_location[p][v] \in Referenced(S)
           /\ Len(S.data_location[c]) < num_virt_addr
           /\ Grown(S, copy_virtual_page(S, p, c, v), c, S.data_location[p][v])
<1> DEFINE b == S.data_location[p][v]
           x == S.mem_block[b]
           y == [x EXCEPT !.ptes = @ \cup {<<c, v>>}]
           e == [S.page_table[p][v] EXCEPT !.write_enable = @ /\ ~x.is_swap]
           T == [S EXCEPT !.data_location[c] = Append(@, b),
                          !.mem_block[b].ptes = @ \cup {<<c, v>>},
                          !.page_table[c][v] = e]
           R == ReserveSwap(T, b)
<1>0. Shape(S) /\ S \in PagerState  BY DEF Whole, Shape
<1>1. /\ <<p, v>> \in PagesIn(S) /\ BlockIn(S, <<p, v>>) = b /\ v \in VPages
      /\ b \in BlockIds /\ b \in Referenced(S)
  <2>1. <<p, v>> \in PagesIn(S) /\ BlockIn(S, <<p, v>>) = b /\ v \in VPages
    BY <1>0, PagesMeaning
  <2>2. QED  BY <1>0, <2>1, PagesType, ReferencedMeaning
<1>2. Len(S.data_location[c]) < num_virt_addr /\ NextPage(S, c) = <<c, v>>
  <2>1. PICK n \in Nat : n = Len(S.data_location[c])  BY <1>0, PagesMeaning
  <2>2. n + 1 = v /\ v \in 1 .. num_virt_addr  BY <1>1, <2>1 DEF VPages
  <2>3. n < num_virt_addr  BY <2>2, Numbers
  <2>4. QED  BY <2>1, <2>3 DEF NextPage
<1>3. x \in Block /\ e \in Entry /\ S.mem_block \in [BlockIds -> Block]
  <2>1. S.page_table \in [Pids -> [VPages -> Entry]] /\ S.mem_block \in [BlockIds -> Block]
    BY <1>0, Fields
  <2>2. S.page_table[p][v] \in Entry  BY <1>1, <2>1
  <2>3. e \in Entry  BY <2>2 DEF Entry
  <2>4. QED  BY <1>1, <2>1, <2>3
<1>4. copy_virtual_page(S, p, c, v) =
        IF ~x.is_swap THEN T ELSE IF b = zero_page THEN R
        ELSE SetEntries(R, R.mem_block[b].ptes, ReadOnly)
  BY DEF copy_virtual_page
<1>5. T = [S EXCEPT !.data_location[c] = Append(@, b), !.mem_block[b] = y,
                    !.page_table[c][NextPage(S, c)[2]] = e]
  <2>1. NextPage(S, c)[2] = v  BY <1>2
  <2> HIDE DEF e
  <2>2. QED  BY <1>1, <1>3, <2>1
<1> HIDE DEF T, e, b
<1>6. /\ y \in Block /\ y.resident = x.resident /\ y.is_swap = x.is_swap
      /\ y.location = x.location /\ y.filename = x.filename /\ y.block_num = x.block_num
      /\ y.swap_blocks = x.swap_blocks /\ y.ptes = x.ptes \cup {NextPage(S, c)}
  <2>1. <<c, v>> \in Pids \X VPages  BY <1>1
  <2>2. QED  BY <1>2, <1>3, <2>1 DEF Block
<1> HIDE DEF y
<1>7. PageAdded(S, T, c, b)
  BY <1>0, <1>1, <1>2, <1>3, <1>5, <1>6, AddPage
<1>8. CASE ~x.is_swap
  <2>1. Grown(S, T, c, b)  BY <1>7, <1>8, GrownFile
  <2>2. QED  BY <1>1, <1>2, <1>4, <1>8, <2>1 DEF b
<1>9. CASE x.is_swap
  <2>1. T \in PagerState /\ T.free_swap_blocks # <<>> /\ S.free_swap_blocks # <<>>
    BY <1>7, <1>9 DEF PageAdded, b
  <2>2. GivenSwap(T, R, b)  BY <1>1, <2>1, ReserveEffect
  <2> HIDE DEF R
  <2>3. Grown(S, R, c, b)  BY <1>1, <1>7, <1>9, <2>1, <2>2, GrownSwap
  <2>4. Repainted(R, SetEntries(R, R.mem_block[b].ptes, ReadOnly))
    BY <2>2, RepaintLoops DEF GivenSwap
  <2>5. Grown(S, SetEntries(R, R.mem_block[b].ptes, ReadOnly), c, b)
    BY <1>1, <2>3, <2>4, GrownRepainted
  <2>6. QED  BY <1>1, <1>2, <1>4, <1>9, <2>3, <2>5 DEF b
<1>10. QED  BY <1>8, <1>9

(* The copied pages, for a parent whose count of swap blocks there are *)
CopiedSoFar(S, p, c, v) ==
    /\ Whole(S, {}, {})
    /\ \A r \in Pids \ {c} : S.data_location[r] = data_location[r]
    /\ Len(S.data_location[c]) = v
    /\ \A i \in 1 .. v : S.data_location[c][i] = data_location[p][i]
    /\ \A b \in BlockIds : S.mem_block[b].is_swap = mem_block[b].is_swap
    /\ Len(S.free_swap_blocks) >= Cardinality({w \in SwapPagesOf(Pager, p) : w > v})

LEMMA CopyLoop ==
    ASSUME PagerInv, NEW p \in alive, NEW c \in Pids \ alive,
           ~(num_swap_blocks[p] > Len(free_swap_blocks))
    PROVE  /\ Len(data_location[p]) \in 0 .. Len(data_location[p])
           /\ \A v \in 0 .. Len(data_location[p]) : CopiedSoFar(Copied(p, c)[v], p, c, v)
<1> DEFINE N == Len(data_location[p])
           f == Copied(p, c)
           Left(v) == {w \in SwapPagesOf(Pager, p) : w > v}
           T == {v \in 0 .. N : CopiedSoFar(f[v], p, c, v)}
<1>0. /\ Whole(Pager, {}, {}) /\ Shape(Pager) /\ ProcInv /\ p \in Pids /\ p # c /\ c \in Pids
      /\ Pager.data_location = data_location /\ Pager.mem_block = mem_block
      /\ Pager.free_swap_blocks = free_swap_blocks
  BY DEF PagerInv, ProcInv, Whole, Pager
<1>1. N \in Nat /\ DOMAIN data_location[p] = 1 .. N /\ data_location[p] \in Seq(BlockIds)
  BY <1>0, PagesMeaning
<1>2. f[0] = Pager /\ \A i \in 1 .. N : f[i] = copy_virtual_page(f[i - 1], p, c, i)
  BY <1>1, CopiedDef
<1>3. SwapPagesOf(Pager, p) \subseteq 1 .. N /\ \A v : IsFiniteSet(Left(v))
  <2>1. SwapPagesOf(Pager, p) \subseteq 1 .. N  BY <1>0, <1>1 DEF SwapPagesOf
  <2>2. IsFiniteSet(1 .. N)  BY <1>1, FS_Interval
  <2>3. \A v : Left(v) \in SUBSET (1 .. N)  BY <2>1
  <2>4. QED  BY <2>1, <2>2, <2>3, FS_Subset
<1> HIDE DEF f
<1>4. 0 \in T
  <2>1. data_location[c] = <<>>  BY <1>0 DEF ProcInv
  <2>2. Left(0) = SwapPagesOf(Pager, p)  BY <1>1, <1>3
  <2>3. Cardinality(SwapPagesOf(Pager, p)) <= num_swap_blocks[p]  BY <1>0 DEF ProcInv, Counts
  <2>4. /\ num_swap_blocks[p] \in Nat /\ Len(free_swap_blocks) \in Nat
        /\ Cardinality(SwapPagesOf(Pager, p)) \in Nat
    <3>1. num_swap_blocks[p] \in Nat  BY <1>0 DEF ProcInv
    <3>2. free_swap_blocks \in Seq(SwapBlocks)  BY <1>0, Fields DEF Shape
    <3>3. Cardinality(SwapPagesOf(Pager, p)) \in Nat  BY <1>3, <2>2, FS_CardinalityType
    <3>4. QED  BY <3>1, <3>2, <3>3
  <2>5. Len(Pager.free_swap_blocks) >= Cardinality(Left(0))
    <3> DEFINE k == Cardinality(SwapPagesOf(Pager, p))
               n == Len(free_swap_blocks)
               m == num_swap_blocks[p]
    <3>1. k \in Nat /\ m \in Nat /\ n \in Nat /\ k <= m /\ ~(m > n)  BY <2>3, <2>4
    <3> HIDE DEF k, n, m
    <3>2. n >= k  BY <3>1
    <3> HIDE DEF Left
    <3>3. Len(Pager.free_swap_blocks) = n /\ Cardinality(Left(0)) = k  BY <1>0, <2>2 DEF n, k
    <3>4. QED  BY <3>2, <3>3
  <2>6. CopiedSoFar(Pager, p, c, 0)
    <3> HIDE DEF Left
    <3>1. Len(Pager.data_location[c]) = 0 /\ \A i : i \notin 1 .. 0  BY <1>0, <2>1
    <3>2. QED  BY <1>0, <2>5, <3>1 DEF CopiedSoFar, Left
  <2>7. QED  BY <1>1, <1>2, <2>6
<1>5. ASSUME NEW v \in 0 .. N - 1, v \in T PROVE v + 1 \in T
  <2> DEFINE S == f[v]
             b == S.data_location[p][v + 1]
             R == copy_virtual_page(S, p, c, v + 1)
  <2>1. v \in Nat /\ v + 1 \in 1 .. N /\ v + 1 \in 0 .. N /\ (v + 1) - 1 = v  BY <1>1
  <2>2. f[v + 1] = R  BY <1>2, <2>1
  <2> HIDE DEF S
  <2>3. CopiedSoFar(S, p, c, v)  BY <1>5 DEF S
  <2>4. /\ Whole(S, {}, {}) /\ Shape(S) /\ S.data_location[p] = data_location[p]
        /\ Len(S.data_location[c]) = v
        /\ \A r \in Pids \ {c} : S.data_location[r] = data_location[r]
        /\ \A i \in 1 .. v : S.data_location[c][i] = data_location[p][i]
        /\ \A d \in BlockIds : S.mem_block[d].is_swap = mem_block[d].is_swap
        /\ Len(S.free_swap_blocks) >= Cardinality(Left(v))
    BY <1>0, <2>3 DEF CopiedSoFar, Whole
  <2>5. b = data_location[p][v + 1] /\ b \in BlockIds /\ v + 1 \in DOMAIN S.data_location[p]
        /\ S.mem_block[b].is_swap = mem_block[b].is_swap
    BY <1>1, <2>1, <2>4
  <2>6. v + 1 \in SwapPagesOf(Pager, p) <=> S.mem_block[b].is_swap
    BY <1>0, <1>1, <2>1, <2>5 DEF SwapPagesOf
  <2>7. /\ IsFiniteSet(Left(v)) /\ Cardinality(Left(v)) \in Nat
        /\ Left(v + 1) = Left(v) \ {v + 1}
        /\ v + 1 \in Left(v) <=> S.mem_block[b].is_swap
    <3>1. Cardinality(Left(v)) \in Nat  BY <1>3, FS_CardinalityType
    <3>2. Left(v + 1) = Left(v) \ {v + 1}
      <4>1. \A w \in 1 .. N : w > v + 1 <=> w > v /\ w # v + 1  BY <1>1, <2>1
      <4>2. QED  BY <1>3, <4>1
    <3>3. v + 1 > v  BY <2>1
    <3>4. QED  BY <1>3, <2>6, <3>1, <3>2, <3>3
  <2> HIDE DEF Left
  <2>8. PICK n \in Nat : n = Len(S.free_swap_blocks)
    <3>1. S.free_swap_blocks \in Seq(SwapBlocks)  BY <2>4, Fields DEF Shape
    <3>2. QED  BY <3>1
  <2>9. S.mem_block[b].is_swap => S.free_swap_blocks # <<>>
    <3>1. ASSUME S.mem_block[b].is_swap PROVE S.free_swap_blocks # <<>>
      <4>1. Left(v) # {}  BY <2>7, <3>1
      <4>2. Cardinality(Left(v)) # 0  BY <2>7, <4>1, FS_EmptySet
      <4>3. n # 0  BY <2>4, <2>7, <2>8, <4>2
      <4>4. QED  BY <2>8, <4>3
    <3>2. QED  BY <3>1
  <2>10. /\ b \in Referenced(S) /\ Len(S.data_location[c]) < num_virt_addr /\ Grown(S, R, c, b)
    <3>1. Len(S.data_location[c]) + 1 = v + 1  BY <2>4
    <3>2. QED  BY <1>0, <2>4, <2>5, <2>9, <3>1, CopyPageWhole
  <2> HIDE DEF R, b
  <2>11. Whole(R, {}, {})  BY <1>0, <2>4, <2>10, GrownWhole
  <2>12. /\ \A r \in Pids \ {c} : R.data_location[r] = data_location[r]
         /\ Len(R.data_location[c]) = v + 1
         /\ \A i \in 1 .. v + 1 : R.data_location[c][i] = data_location[p][i]
    <3>1. R.data_location = [S.data_location EXCEPT ![c] = Append(@, b)]
      BY <2>10 DEF Grown, OnePageMore
    <3>2. S.data_location \in [Pids -> Seq(BlockIds)] /\ S.data_location[c] \in Seq(BlockIds)
      BY <1>0, <2>4, Fields DEF Shape
    <3>3. R.data_location[c] = Append(S.data_location[c], b)  BY <1>0, <3>1, <3>2
    <3> DEFINE s == S.data_location[c]
    <3> HIDE DEF s
    <3>4. /\ Len(Append(s, b)) = v + 1 /\ Append(s, b)[v + 1] = b
          /\ \A i \in 1 .. v : Append(s, b)[i] = s[i]
      <4>1. s \in Seq(BlockIds) /\ Len(s) = v  BY <2>4, <3>2 DEF s
      <4>2. QED  BY <2>1, <2>5, <4>1
    <3>5. \A i \in 1 .. v + 1 : i \in 1 .. v \/ i = v + 1  BY <2>1
    <3>6. \A i \in 1 .. v + 1 : R.data_location[c][i] = data_location[p][i]
      BY <2>4, <2>5, <3>3, <3>4, <3>5 DEF s
    <3>7. \A r \in Pids \ {c} : R.data_location[r] = data_location[r]  BY <2>4, <3>1, <3>2
    <3>8. QED  BY <3>3, <3>4, <3>6, <3>7 DEF s
  <2>13. \A d \in BlockIds : R.mem_block[d].is_swap = mem_block[d].is_swap
    BY <2>4, <2>10 DEF Grown, Alike
  <2>14. Len(R.free_swap_blocks) >= Cardinality(Left(v + 1))
    <3>1. CASE S.mem_block[b].is_swap
      <4>1. R.free_swap_blocks = Tail(S.free_swap_blocks) /\ S.free_swap_blocks # <<>>
        BY <2>10, <3>1 DEF Grown
      <4>2. S.free_swap_blocks \in Seq(SwapBlocks)  BY <2>4, Fields DEF Shape
      <4>3. Len(R.free_swap_blocks) = n - 1  BY <2>8, <4>1, <4>2
      <4>4. Cardinality(Left(v + 1)) = Cardinality(Left(v)) - 1
        BY <2>7, <3>1, FS_RemoveElement
      <4>5. QED  BY <2>4, <2>7, <2>8, <4>3, <4>4
    <3>2. CASE ~S.mem_block[b].is_swap
      <4>1. R.free_swap_blocks = S.free_swap_blocks  BY <2>10, <3>2 DEF Grown
      <4>2. Left(v + 1) = Left(v)  BY <2>7, <3>2
      <4>3. QED  BY <2>4, <4>1, <4>2
    <3>3. QED  BY <3>1, <3>2
  <2>15. CopiedSoFar(R, p, c, v + 1)
    BY <2>11, <2>12, <2>13, <2>14 DEF CopiedSoFar, Left
  <2>16. QED  BY <2>1, <2>2, <2>15
<1> HIDE DEF T
<1>6. 0 .. N \subseteq T  BY <1>1, <1>4, <1>5, UpToInduction
<1>7. N \in 0 .. N  BY <1>1
<1>8. QED  BY <1>6, <1>7 DEF T, f

-----------------------------------------------------------------------------
(* vm_destroy.                                                             *)

(* The recursive function of Destroyed exists. *)
LEMMA DestroyedExists ==
    ASSUME NEW N \in Nat, NEW p
    PROVE  \E f : f = [i \in 0 .. N |-> IF i = 0 THEN Pager ELSE DestroyPage(f[i - 1], p, i)]
<1> DEFINE D(f, n) == f = [i \in 0 .. n |-> IF i = 0 THEN Pager
                                            ELSE DestroyPage(f[i - 1], p, i)]
           T == {n \in 0 .. N : \E f : D(f, n)}
<1> HIDE DEF Pager
<1>1. 0 \in T
  <2>1. D([i \in 0 .. 0 |-> Pager], 0)  OBVIOUS
  <2> HIDE DEF D
  <2>2. QED  BY <2>1
<1>2. ASSUME NEW n \in 0 .. N - 1, n \in T PROVE n + 1 \in T
  <2>1. PICK f : D(f, n)  BY <1>2
  <2> DEFINE g == [i \in 0 .. n + 1 |-> IF i = 0 THEN Pager ELSE IF i <= n THEN f[i]
                                        ELSE DestroyPage(f[n], p, n + 1)]
  <2>2. \A i \in 0 .. n : g[i] = f[i]  BY <2>1
  <2>3. D(g, n + 1)
    <3>1. ASSUME NEW i \in 0 .. n + 1
          PROVE  g[i] = IF i = 0 THEN Pager ELSE DestroyPage(g[i - 1], p, i)
      <4>1. CASE i = 0  BY <4>1
      <4>2. CASE i \in 1 .. n
        <5>1. i - 1 \in 0 .. n /\ i \in 0 .. n /\ i # 0  BY <4>2
        <5>2. f[i] = DestroyPage(f[i - 1], p, i)  BY <2>1, <5>1
        <5>3. QED  BY <2>2, <5>1, <5>2
      <4>3. CASE i = n + 1
        <5>1. g[i] = DestroyPage(f[n], p, n + 1) /\ i - 1 = n  BY <4>3
        <5>2. QED  BY <2>2, <4>3, <5>1
      <4>4. QED  BY <4>1, <4>2, <4>3
    <3> HIDE DEF g
    <3>2. g = [i \in 0 .. n + 1 |-> g[i]]  BY DEF g
    <3>3. QED  BY <3>1, <3>2
  <2> HIDE DEF D, g
  <2>4. QED  BY <2>3
<1> HIDE DEF D, T
<1>3. 0 .. N \subseteq T  BY <1>1, <1>2, UpToInduction
<1>4. QED  BY <1>3 DEF T, D

(* Destroyed as its definition reads *)
LEMMA DestroyedDef ==
    ASSUME NEW p, Len(data_location[p]) \in Nat
    PROVE  /\ Destroyed(p)[0] = Pager
           /\ \A i \in 1 .. Len(data_location[p]) :
                Destroyed(p)[i] = DestroyPage(Destroyed(p)[i - 1], p, i)
<1> DEFINE f == Destroyed(p)
           N == Len(data_location[p])
<1>1. f = [i \in 0 .. N |-> IF i = 0 THEN Pager ELSE DestroyPage(f[i - 1], p, i)]
  <2> HIDE DEF Pager
  <2>1. QED  BY DestroyedExists DEF Destroyed
<1> HIDE DEF f
<1>2. f[0] = Pager  BY <1>1
<1>3. ASSUME NEW i \in 1 .. N PROVE f[i] = DestroyPage(f[i - 1], p, i)
  <2>1. i \in 0 .. N /\ i # 0  OBVIOUS
  <2>2. QED  BY <1>1, <2>1
<1>4. QED  BY <1>2, <1>3 DEF f

(* The block b of page pg gives the page up. *)
PageGone(S, T, b, pg) ==
    LET x == S.mem_block[b]
        y == T.mem_block[b]
    IN  /\ T \in PagerState
        /\ T.clock_queue = S.clock_queue /\ T.data_location = S.data_location
        /\ \A c \in BlockIds \ {b} : Alike(S.mem_block[c], T.mem_block[c])
        /\ y.resident = x.resident /\ y.is_swap = x.is_swap /\ y.location = x.location
        /\ y.filename = x.filename /\ y.block_num = x.block_num
        /\ y.ptes = x.ptes \ {pg}
        /\ T.file_mapping_table = IF ~x.is_swap /\ ~x.resident /\ y.ptes = {}
                                  THEN S.file_mapping_table \ {b} ELSE S.file_mapping_table
        /\ T.free_mem_blocks = IF x.is_swap /\ x.resident /\ b # zero_page /\ y.ptes = {}
                               THEN Append(S.free_mem_blocks, x.location)
                               ELSE S.free_mem_blocks
        /\ x.is_swap => /\ T.free_swap_blocks = Append(S.free_swap_blocks, Last(x.swap_blocks))
                        /\ y.swap_blocks = Front(x.swap_blocks)
        /\ ~x.is_swap => /\ T.free_swap_blocks = S.free_swap_blocks
                         /\ y.swap_blocks = x.swap_blocks

LEMMA PageGoneEffect ==
    ASSUME NEW S, Shape(S), NEW p \in Pids, NEW v \in DOMAIN S.data_location[p],
           NEW b, b = S.data_location[p][v],
           S.mem_block[b].is_swap => S.mem_block[b].swap_blocks # <<>>
    PROVE  PageGone(S, DestroyPage(S, p, v), b, <<p, v>>)
<1> DEFINE E == ErasePte(S, b, p, v)
           x == E.mem_block[b]
           F == FreeSwap(E, b)
           U == update_block_permissions(F, b)
           fmt == IF Forgotten(x) THEN E.file_mapping_table \ {b} ELSE E.file_mapping_table
           free == IF x.ptes = {} THEN Append(U.free_mem_blocks, x.location)
                   ELSE U.free_mem_blocks
           T == DestroyPage(S, p, v)
<1>0. S \in PagerState /\ b \in BlockIds  BY PagesMeaning, PagesType DEF Shape
<1>1. T = IF ~x.is_swap THEN [E EXCEPT !.file_mapping_table = fmt]
          ELSE IF ~x.resident \/ b = zero_page THEN F
          ELSE [U EXCEPT !.free_mem_blocks = free]
  BY DEF DestroyPage
<1> HIDE DEF E, T
<1>2. Erased(S, E, b, <<p, v>>)  BY <1>0, EraseEffect DEF E
<1>3. /\ E \in PagerState /\ E.clock_queue = S.clock_queue /\ E.data_location = S.data_location
      /\ E.free_mem_blocks = S.free_mem_blocks /\ E.free_swap_blocks = S.free_swap_blocks
      /\ E.file_mapping_table = S.file_mapping_table
      /\ \A c \in BlockIds \ {b} : Alike(S.mem_block[c], E.mem_block[c])
      /\ x.resident = S.mem_block[b].resident /\ x.is_swap = S.mem_block[b].is_swap
      /\ x.location = S.mem_block[b].location /\ x.filename = S.mem_block[b].filename
      /\ x.block_num = S.mem_block[b].block_num /\ x.swap_blocks = S.mem_block[b].swap_blocks
      /\ x.ptes = S.mem_block[b].ptes \ {<<p, v>>}
  BY <1>0, <1>2 DEF Erased, Alike
<1>4. x \in Block /\ PlaceOK(x)
  <2>1. x \in Block  BY <1>0, <1>3, Fields
  <2>2. PlaceOK(S.mem_block[b])  BY <1>0 DEF Shape
  <2>3. QED  BY <1>3, <2>1, <2>2 DEF PlaceOK
<1>5. CASE ~x.is_swap
  <2>1. T = [E EXCEPT !.file_mapping_table = fmt]  BY <1>1, <1>5
  <2>2. fmt \in SUBSET BlockIds  BY <1>3, Fields
  <2>3. fmt = IF ~x.is_swap /\ ~x.resident /\ x.ptes = {}
              THEN S.file_mapping_table \ {b} ELSE S.file_mapping_table
    BY <1>3, <1>5 DEF Forgotten
  <2> HIDE DEF fmt
  <2>4. /\ T \in PagerState /\ T.clock_queue = E.clock_queue
        /\ T.data_location = E.data_location /\ T.mem_block = E.mem_block
        /\ T.free_mem_blocks = E.free_mem_blocks /\ T.free_swap_blocks = E.free_swap_blocks
        /\ T.file_mapping_table = fmt
    BY <1>3, <2>1, <2>2 DEF PagerState
  <2>5. QED  BY <1>3, <1>5, <2>3, <2>4 DEF PageGone, T
<1>6. CASE x.is_swap
  <2> DEFINE fs == Append(E.free_swap_blocks, Last(x.swap_blocks))
             sb == Front(x.swap_blocks)
             y == [x EXCEPT !.swap_blocks = sb]
             mb == [E.mem_block EXCEPT ![b] = y]
  <2>1. E.mem_block \in [BlockIds -> Block] /\ E.free_swap_blocks \in Seq(SwapBlocks)
    BY <1>3, Fields
  <2>2. F = [E EXCEPT !.free_swap_blocks = fs, !.mem_block = mb]
    BY <1>0, <2>1 DEF FreeSwap
  <2>3. fs \in Seq(SwapBlocks) /\ sb \in Seq(SwapBlocks)
    <3>1. x.swap_blocks \in Seq(SwapBlocks) /\ x.swap_blocks # <<>>
      BY <1>3, <1>4, <1>6 DEF Block
    <3>2. Last(x.swap_blocks) \in SwapBlocks /\ sb \in Seq(SwapBlocks)
      BY <3>1, FrontLastLemma
    <3>3. QED  BY <2>1, <3>2
  <2>4. fs = Append(S.free_swap_blocks, Last(S.mem_block[b].swap_blocks))
        /\ sb = Front(S.mem_block[b].swap_blocks)
    BY <1>3
  <2> HIDE DEF fs, sb
  <2>5. /\ y \in Block /\ y.swap_blocks = sb /\ y.resident = x.resident
        /\ y.is_swap = x.is_swap /\ y.location = x.location /\ y.ptes = x.ptes
        /\ y.filename = x.filename /\ y.block_num = x.block_num
    BY <1>4, <2>3 DEF Block
  <2> HIDE DEF y
  <2>6. /\ mb \in [BlockIds -> Block] /\ mb[b] = y
        /\ \A c \in BlockIds \ {b} : mb[c] = E.mem_block[c]
    BY <1>0, <2>1, <2>5
  <2> HIDE DEF mb, F
  <2>7. /\ F \in PagerState /\ F.mem_block = mb /\ F.clock_queue = E.clock_queue
        /\ F.free_mem_blocks = E.free_mem_blocks /\ F.free_swap_blocks = fs
        /\ F.file_mapping_table = E.file_mapping_table /\ F.data_location = E.data_location
    BY <1>3, <2>2, <2>3, <2>6 DEF PagerState
  <2>8. Repainted(F, U)  BY <1>0, <2>7, UpdatePermissions
  <2> HIDE DEF U
  <2>9. /\ U \in PagerState /\ U.mem_block = mb /\ U.clock_queue = E.clock_queue
        /\ U.free_mem_blocks = E.free_mem_blocks /\ U.free_swap_blocks = fs
        /\ U.file_mapping_table = E.file_mapping_table /\ U.data_location = E.data_location
    BY <2>7, <2>8 DEF Repainted, Unmoved
  <2>10. \A c \in BlockIds \ {b} : Alike(S.mem_block[c], mb[c])
    <3>1. \A c \in BlockIds \ {b} : Alike(S.mem_block[c], E.mem_block[c])  BY <1>3
    <3>2. QED  BY <2>6, <3>1
  <2>11. CASE ~x.resident \/ b = zero_page
    <3>1. T = F  BY <1>1, <1>6, <2>11
    <3>2. QED  BY <1>3, <1>6, <2>4, <2>5, <2>6, <2>7, <2>10, <2>11, <3>1, ZenonT(40) DEF PageGone, T
  <2>12. CASE ~(~x.resident \/ b = zero_page)
    <3>1. T = [U EXCEPT !.free_mem_blocks = free]  BY <1>1, <1>6, <2>12
    <3>2. free = IF x.ptes = {} THEN Append(S.free_mem_blocks, x.location)
                 ELSE S.free_mem_blocks
      BY <1>3, <2>9
    <3>3. free \in Seq(Frames)
      <4>1. x.location \in Frames  BY <1>4, <2>12 DEF PlaceOK
      <4>2. S.free_mem_blocks \in Seq(Frames)  BY <1>0, Fields
      <4>3. Append(S.free_mem_blocks, x.location) \in Seq(Frames)  BY <4>1, <4>2
      <4> HIDE DEF free
      <4>4. QED  BY <3>2, <4>2, <4>3
    <3> HIDE DEF free
    <3>4. /\ T \in PagerState /\ T.mem_block = mb /\ T.clock_queue = E.clock_queue
          /\ T.free_mem_blocks = free /\ T.free_swap_blocks = fs
          /\ T.file_mapping_table = E.file_mapping_table /\ T.data_location = E.data_location
      BY <2>9, <3>1, <3>3 DEF PagerState
    <3>5. QED
      BY <1>3, <1>6, <2>4, <2>5, <2>6, <2>10, <2>12, <3>2, <3>4, ZenonT(40) DEF PageGone, T
  <2>13. QED  BY <2>11, <2>12
<1>7. QED  BY <1>5, <1>6

(* While vm_destroy goes through the pages: the pages that are gone have   *)
(* given up their swap blocks, and the blocks that were only theirs are    *)
(* dead, their frames free, but still in the clock queue.                  *)
Dead(S, gone) ==
    {b \in ToSet(S.clock_queue) : S.mem_block[b].is_swap /\ Showing(S, gone, b) = {}}

Half(S0, S, gone) ==
    /\ Shape(S) /\ Pinned(S) /\ FilesInv(S) /\ PtesInv(S, gone) /\ SwapInv(S, gone)
    /\ S.clock_queue = S0.clock_queue /\ S.data_location = S0.data_location
    /\ Referenced(S) = Referenced(S0)
    /\ \A b \in BlockIds : /\ S.mem_block[b].resident = S0.mem_block[b].resident
                           /\ S.mem_block[b].location = S0.mem_block[b].location
                           /\ S.mem_block[b].is_swap = S0.mem_block[b].is_swap
    /\ IsInjective(S.free_mem_blocks)
    /\ ToSet(S.free_mem_blocks) =
         ToSet(S0.free_mem_blocks) \cup {S0.mem_block[b].location : b \in Dead(S, gone)}

LEMMA HalfStart ==
    ASSUME NEW S, Whole(S, {}, {})
    PROVE  Half(S, S, {})
<1>1. Dead(S, {}) = {}
  <2>1. ASSUME NEW b \in Dead(S, {}) PROVE FALSE
    <3>1. b \in ToSet(S.clock_queue) /\ S.mem_block[b].is_swap /\ Showing(S, {}, b) = {}
      BY <2>1 DEF Dead
    <3>2. b \in Referenced(S) /\ b \in BlockIds  BY <3>1, ReferencedMeaning DEF Whole
    <3>3. Len(S.mem_block[b].swap_blocks) = 0
      BY <3>1, <3>2, FS_EmptySet DEF Whole, SwapInv
    <3>4. S.mem_block[b].swap_blocks # <<>>  BY <3>1 DEF Whole, HomeInv
    <3>5. S.mem_block[b] \in Block  BY <3>2, Fields DEF Whole, Shape
    <3>6. S.mem_block[b].swap_blocks \in Seq(SwapBlocks)  BY <3>5 DEF Block
    <3>7. QED  BY <3>3, <3>4, <3>6
  <2>2. QED  BY <2>1
<1>2. IsInjective(S.free_mem_blocks)  BY DEF Whole, FramesInv
<1>3. QED  BY <1>1, <1>2 DEF Whole, Half

LEMMA HalfStep ==
    ASSUME NEW S0, NEW S, NEW T, NEW gone, NEW pg \in PagesIn(S), pg \notin gone,
           Whole(S0, {}, {}), Half(S0, S, gone), NEW b, BlockIn(S, pg) = b,
           PageGone(S, T, b, pg)
    PROVE  Half(S0, T, gone \cup {pg})
<1> DEFINE x == S.mem_block[b]
           y == T.mem_block[b]
           more == gone \cup {pg}
<1>0. /\ Shape(S) /\ Pinned(S) /\ FilesInv(S) /\ PtesInv(S, gone) /\ SwapInv(S, gone)
      /\ S.clock_queue = S0.clock_queue /\ S.data_location = S0.data_location
      /\ Referenced(S) = Referenced(S0) /\ S \in PagerState
      /\ \A c \in BlockIds : /\ S.mem_block[c].resident = S0.mem_block[c].resident
                             /\ S.mem_block[c].location = S0.mem_block[c].location
                             /\ S.mem_block[c].is_swap = S0.mem_block[c].is_swap
      /\ IsInjective(S.free_mem_blocks)
      /\ ToSet(S.free_mem_blocks) =
           ToSet(S0.free_mem_blocks) \cup {S0.mem_block[c].location : c \in Dead(S, gone)}
  BY DEF Half, Shape
<1>1. /\ T \in PagerState
      /\ T.clock_queue = S.clock_queue /\ T.data_location = S.data_location
      /\ y.ptes = x.ptes \ {pg}
      /\ T.file_mapping_table = IF ~x.is_swap /\ ~x.resident /\ y.ptes = {}
                                THEN S.file_mapping_table \ {b} ELSE S.file_mapping_table
  BY DEF PageGone
<1>2. \A c \in BlockIds :
         /\ T.mem_block[c].resident = S.mem_block[c].resident
         /\ T.mem_block[c].is_swap = S.mem_block[c].is_swap
         /\ T.mem_block[c].location = S.mem_block[c].location
         /\ T.mem_block[c].filename = S.mem_block[c].filename
         /\ T.mem_block[c].block_num = S.mem_block[c].block_num
  BY DEF PageGone, Alike
<1>3. \A c \in BlockIds \ {b} : /\ T.mem_block[c].swap_blocks = S.mem_block[c].swap_blocks
                                /\ T.mem_block[c].ptes = S.mem_block[c].ptes
  BY DEF PageGone, Alike
<1>4. /\ Referenced(S) \subseteq BlockIds /\ ToSet(S.clock_queue) \subseteq Referenced(S)
      /\ S.file_mapping_table \subseteq Referenced(S) /\ zero_page \in Referenced(S)
      /\ b \in Referenced(S) /\ b \in BlockIds
  BY <1>0, ReferencedMeaning
<1>5. /\ PagesIn(T) = PagesIn(S) /\ \A r : BlockIn(T, r) = BlockIn(S, r)
      /\ \A g, c : Showing(T, g, c) = Showing(S, g, c)
  BY <1>1, SamePages
<1>6. /\ \A c : c # b => Showing(S, more, c) = Showing(S, gone, c)
      /\ Showing(S, more, b) = Showing(S, gone, b) \ {pg} /\ pg \in Showing(S, gone, b)
  BY DEF Showing
<1> HIDE DEF more
<1>7. Shape(T)  BY <1>0, <1>1, <1>2 DEF Shape, PlaceOK
<1>8. Referenced(T) = Referenced(S)
  <2>1. \A c : c \in Referenced(S) <=>
          \/ c = zero_page \/ c \in ToSet(S.clock_queue) \/ c \in S.file_mapping_table
          \/ \E r \in PagesIn(S) : BlockIn(S, r) = c
    BY <1>0, ReferencedMeaning
  <2>2. \A c : c \in Referenced(T) <=>
          \/ c = zero_page \/ c \in ToSet(T.clock_queue) \/ c \in T.file_mapping_table
          \/ \E r \in PagesIn(T) : BlockIn(T, r) = c
    BY <1>7, ReferencedMeaning
  <2>3. \A c : (\E r \in PagesIn(T) : BlockIn(T, r) = c)
               <=> \E r \in PagesIn(S) : BlockIn(S, r) = c
    BY <1>5
  <2>4. \A c : c # b => (c \in T.file_mapping_table <=> c \in S.file_mapping_table)  BY <1>1
  <2>5. \A c : c # b => (c \in Referenced(T) <=> c \in Referenced(S))
    BY <1>1, <2>1, <2>2, <2>3, <2>4
  <2>6. b \in Referenced(T)  BY <1>5, <2>2
  <2>7. QED  BY <1>4, <2>5, <2>6
<1>9. Pinned(T)  BY <1>0, <1>1, <1>2, <1>4 DEF Pinned
<1>10. FilesInv(T)
  <2>1. \A c \in Referenced(T) : NamedOK(T.mem_block[c])
    BY <1>0, <1>2, <1>4, <1>8 DEF FilesInv, NamedOK
  <2>2. ASSUME NEW c \in T.file_mapping_table
        PROVE  ~T.mem_block[c].is_swap /\ (T.mem_block[c].resident \/ T.mem_block[c].ptes # {})
    <3>1. c \in S.file_mapping_table /\ c \in BlockIds  BY <1>1, <1>4
    <3>2. ~S.mem_block[c].is_swap /\ (S.mem_block[c].resident \/ S.mem_block[c].ptes # {})
      BY <1>0, <3>1 DEF FilesInv
    <3>3. CASE c # b  BY <1>2, <1>3, <3>1, <3>2, <3>3
    <3>4. CASE c = b  BY <1>1, <1>2, <3>1, <3>2, <3>4
    <3>5. QED  BY <3>3, <3>4
  <2>3. QED  BY <2>1, <2>2 DEF FilesInv
<1>11. PtesInv(T, more)
  <2>1. ASSUME NEW c \in Referenced(T) \ {zero_page}
        PROVE  T.mem_block[c].ptes = Showing(T, more, c)
    <3>1. c \in Referenced(S) \ {zero_page} /\ c \in BlockIds  BY <1>4, <1>8
    <3>2. S.mem_block[c].ptes = Showing(S, gone, c)  BY <1>0, <3>1 DEF PtesInv
    <3>3. CASE c # b  BY <1>3, <1>5, <1>6, <3>1, <3>2, <3>3
    <3>4. CASE c = b  BY <1>1, <1>5, <1>6, <3>2, <3>4
    <3>5. QED  BY <3>3, <3>4
  <2>2. T.mem_block[zero_page].ptes \subseteq Showing(T, more, zero_page)
    <3>1. S.mem_block[zero_page].ptes \subseteq Showing(S, gone, zero_page)
      BY <1>0 DEF PtesInv
    <3>2. CASE zero_page # b  BY <1>3, <1>4, <1>5, <1>6, <3>1, <3>2
    <3>3. CASE zero_page = b  BY <1>1, <1>5, <1>6, <3>1, <3>3
    <3>4. QED  BY <3>2, <3>3
  <2>3. QED  BY <2>1, <2>2 DEF PtesInv
<1>12. SwapPages(T, more) = IF x.is_swap THEN SwapPages(S, gone) \ {pg} ELSE SwapPages(S, gone)
  <2>1. \A r \in PagesIn(S) : T.mem_block[BlockIn(T, r)].is_swap
                                <=> S.mem_block[BlockIn(S, r)].is_swap
    BY <1>0, <1>2, <1>5, PagesType
  <2>2. QED  BY <1>5, <2>1 DEF SwapPages, more
<1>13. \A c \in Referenced(S) \ {b} :
         /\ Len(T.mem_block[c].swap_blocks) =
              IF T.mem_block[c].is_swap THEN Cardinality(Showing(T, more, c)) ELSE 0
         /\ T.mem_block[c].swap_blocks = S.mem_block[c].swap_blocks
  <2>1. ASSUME NEW c \in Referenced(S) \ {b}
        PROVE  /\ T.mem_block[c].swap_blocks = S.mem_block[c].swap_blocks
               /\ T.mem_block[c].is_swap = S.mem_block[c].is_swap
               /\ Showing(T, more, c) = Showing(S, gone, c)
    BY <1>2, <1>3, <1>4, <1>5, <1>6
  <2>2. QED  BY <1>0, <2>1 DEF SwapInv
<1>14. SwapInv(T, more)
  <2>1. CASE ~x.is_swap
    <3>1. /\ T.free_swap_blocks = S.free_swap_blocks /\ y.swap_blocks = x.swap_blocks
          /\ ~y.is_swap
      BY <1>2, <1>4, <2>1 DEF PageGone
    <3>2. \A c \in Referenced(T) : Len(T.mem_block[c].swap_blocks) =
            IF T.mem_block[c].is_swap THEN Cardinality(Showing(T, more, c)) ELSE 0
      BY <1>0, <1>4, <1>8, <1>13, <2>1, <3>1 DEF SwapInv
    <3>3. \A c \in Referenced(T) : T.mem_block[c].swap_blocks = S.mem_block[c].swap_blocks
      BY <1>8, <1>13, <3>1
    <3>4. QED  BY <1>0, <1>8, <1>12, <2>1, <3>1, <3>2, <3>3 DEF SwapInv
  <2>2. CASE x.is_swap
    <3> DEFINE fs == S.free_swap_blocks
               sb == x.swap_blocks
    <3>1. /\ T.free_swap_blocks = Append(fs, Last(sb)) /\ y.swap_blocks = Front(sb) /\ y.is_swap
      BY <1>2, <1>4, <2>2 DEF PageGone
    <3>2. fs \in Seq(SwapBlocks) /\ x \in Block  BY <1>0, <1>4, Fields
    <3>3. sb \in Seq(SwapBlocks)  BY <3>2 DEF Block
    <3>4. Len(sb) = Cardinality(Showing(S, gone, b))  BY <1>0, <1>4, <2>2 DEF SwapInv
    <3>5. /\ IsFiniteSet(Showing(S, gone, b)) /\ Cardinality(Showing(S, gone, b)) \in Nat
          /\ Cardinality(Showing(S, gone, b)) # 0
      BY <1>6, ShowingFinite, FS_EmptySet
    <3>6. sb # <<>>  BY <3>4, <3>5
    <3>7. /\ Last(sb) \in SwapBlocks /\ Len(Front(sb)) = Len(sb) - 1
          /\ ToSet(sb) = ToSet(Front(sb)) \cup {Last(sb)}
      BY <3>3, <3>6, FrontLastLemma
    <3> DEFINE last == Last(sb)
    <3> HIDE DEF last
    <3>8. /\ ToSet(T.free_swap_blocks) = ToSet(fs) \cup {last}
          /\ Len(T.free_swap_blocks) = Len(fs) + 1
      <4>1. last \in SwapBlocks /\ T.free_swap_blocks = Append(fs, last)  BY <3>1, <3>7 DEF last
      <4>2. QED  BY <3>2, <4>1, AppendLemma
    <3>9. Len(y.swap_blocks) = Cardinality(Showing(T, more, b))
      <4>1. Cardinality(Showing(S, gone, b) \ {pg}) = Cardinality(Showing(S, gone, b)) - 1
        BY <1>6, <3>5, FS_RemoveElement
      <4>2. QED  BY <1>5, <1>6, <3>1, <3>4, <3>7, <4>1
    <3>10. \A c \in Referenced(T) : Len(T.mem_block[c].swap_blocks) =
             IF T.mem_block[c].is_swap THEN Cardinality(Showing(T, more, c)) ELSE 0
      BY <1>8, <1>13, <3>1, <3>9
    <3>11. ASSUME NEW k \in SwapBlocks, k \notin ToSet(T.free_swap_blocks)
           PROVE  \E c \in Referenced(T) : k \in ToSet(T.mem_block[c].swap_blocks)
      <4>1. k # last /\ k \notin ToSet(fs)  BY <3>8, <3>11
      <4>2. PICK c \in Referenced(S) : k \in ToSet(S.mem_block[c].swap_blocks)
        BY <1>0, <4>1 DEF SwapInv
      <4>3. CASE c # b  BY <1>8, <1>13, <4>2, <4>3
      <4>4. CASE c = b
        <5>1. k \in ToSet(y.swap_blocks)  BY <3>1, <3>7, <4>1, <4>2, <4>4 DEF last
        <5>2. QED  BY <1>4, <1>8, <5>1
      <4>5. QED  BY <4>3, <4>4
    <3>12. Len(T.free_swap_blocks) + Cardinality(SwapPages(T, more)) = swap_blocks
      <4>1. pg \in SwapPages(S, gone)  BY <2>2 DEF SwapPages
      <4>2. /\ IsFiniteSet(SwapPages(S, gone)) /\ Cardinality(SwapPages(S, gone)) \in Nat
        BY ShowingFinite
      <4>3. Cardinality(SwapPages(T, more)) = Cardinality(SwapPages(S, gone)) - 1
        BY <1>12, <2>2, <4>1, <4>2, FS_RemoveElement
      <4>4. Len(fs) + Cardinality(SwapPages(S, gone)) = swap_blocks  BY <1>0 DEF SwapInv
      <4>5. PICK n \in Nat : n = Len(fs)  BY <3>2
      <4>6. QED  BY <3>8, <4>2, <4>3, <4>4, <4>5
    <3>13. QED  BY <3>10, <3>11, <3>12 DEF SwapInv
  <2>3. QED  BY <2>1, <2>2
<1>15. \A c \in BlockIds : /\ T.mem_block[c].resident = S0.mem_block[c].resident
                           /\ T.mem_block[c].location = S0.mem_block[c].location
                           /\ T.mem_block[c].is_swap = S0.mem_block[c].is_swap
  BY <1>0, <1>2
<1>16. /\ IsInjective(T.free_mem_blocks)
       /\ ToSet(T.free_mem_blocks) =
            ToSet(S0.free_mem_blocks) \cup {S0.mem_block[c].location : c \in Dead(T, more)}
  <2>1. \A c : c # b => (c \in Dead(T, more) <=> c \in Dead(S, gone))
    BY <1>1, <1>2, <1>4, <1>5, <1>6 DEF Dead
  <2>2. b \notin Dead(S, gone)  BY <1>6 DEF Dead
  <2> DEFINE dies == x.is_swap /\ x.resident /\ b # zero_page /\ y.ptes = {}
  <2>3. b \in Dead(T, more) <=> dies
    <3>1. FramesInv(S0) /\ ResidentInv(S0)  BY DEF Whole
    <3>2. CASE b = zero_page  BY <1>0, <1>1, <3>2 DEF Pinned, Dead
    <3>3. CASE b # zero_page
      <4>1. b \in ToSet(T.clock_queue) <=> x.resident
        BY <1>0, <1>1, <1>4, <3>1, <3>3 DEF ResidentInv
      <4>2. y.ptes = Showing(T, more, b)  BY <1>4, <1>8, <1>11, <3>3 DEF PtesInv
      <4>3. QED  BY <1>2, <1>4, <3>3, <4>1, <4>2 DEF Dead
    <3>4. QED  BY <3>2, <3>3
  <2>4. CASE dies
    <3>1. T.free_mem_blocks = Append(S.free_mem_blocks, x.location)  BY <2>4 DEF PageGone
    <3>2. b \in ToSet(S0.clock_queue)  BY <1>0, <1>1, <2>3, <2>4 DEF Dead
    <3>3. Dead(S, gone) \subseteq ToSet(S0.clock_queue)  BY <1>0 DEF Dead
    <3>4. x.location = S0.mem_block[b].location /\ x.location \in Frames
      <4>1. x.location \in Frames  BY <1>0, <1>4, <2>4 DEF Shape, PlaceOK
      <4>2. QED  BY <1>0, <1>4, <4>1
    <3>5. x.location \notin ToSet(S.free_mem_blocks)
      <4>1. FramesInv(S0)  BY DEF Whole
      <4>2. x.location \notin ToSet(S0.free_mem_blocks)  BY <3>2, <3>4, <4>1 DEF FramesInv
      <4>3. \A c \in Dead(S, gone) : S0.mem_block[c].location # x.location
        BY <2>2, <3>2, <3>3, <3>4, <4>1 DEF FramesInv
      <4>4. QED  BY <1>0, <4>2, <4>3
    <3>6. S.free_mem_blocks \in Seq(Frames)  BY <1>0, Fields
    <3>7. /\ IsInjective(T.free_mem_blocks)
          /\ ToSet(T.free_mem_blocks) = ToSet(S.free_mem_blocks) \cup {x.location}
      BY <1>0, <3>1, <3>4, <3>5, <3>6, AppendLemma
    <3>8. Dead(T, more) = Dead(S, gone) \cup {b}  BY <2>1, <2>3, <2>4
    <3>9. QED  BY <1>0, <3>4, <3>7, <3>8
  <2>5. CASE ~dies
    <3>1. T.free_mem_blocks = S.free_mem_blocks  BY <2>5 DEF PageGone
    <3>2. Dead(T, more) = Dead(S, gone)  BY <2>1, <2>2, <2>3, <2>5
    <3>3. QED  BY <1>0, <3>1, <3>2
  <2>6. QED  BY <2>4, <2>5
<1>17. /\ T.clock_queue = S0.clock_queue /\ T.data_location = S0.data_location
       /\ Referenced(T) = Referenced(S0)
  BY <1>0, <1>1, <1>8
<1>18. Half(S0, T, more)
  BY <1>7, <1>9, <1>10, <1>11, <1>14, <1>15, <1>16, <1>17 DEF Half
<1>19. QED  BY <1>18 DEF more


(* The first v pages of a process *)
FirstPages(p, v) == {<<p, i>> : i \in 1 .. v}

LEMMA DestroyLoop ==
    ASSUME Whole(Pager, {}, {}), NEW p \in Pids
    PROVE  /\ Len(data_location[p]) \in 0 .. Len(data_location[p])
           /\ \A v \in 0 .. Len(data_location[p]) : Half(Pager, Destroyed(p)[v], FirstPages(p, v))
<1> DEFINE N == Len(data_location[p])
           f == Destroyed(p)
           T == {v \in 0 .. N : Half(Pager, f[v], FirstPages(p, v))}
<1>0. Shape(Pager) /\ Pager.data_location = data_location
  BY DEF Whole, Pager
<1>1. N \in Nat /\ DOMAIN data_location[p] = 1 .. N
  BY <1>0, PagesMeaning
<1>2. f[0] = Pager /\ \A i \in 1 .. N : f[i] = DestroyPage(f[i - 1], p, i)
  BY <1>1, DestroyedDef
<1> HIDE DEF f
<1>3. 0 \in T
  <2>1. FirstPages(p, 0) = {}  BY DEF FirstPages
  <2>2. Half(Pager, Pager, {})  BY HalfStart
  <2>3. QED  BY <1>1, <1>2, <2>1, <2>2
<1>4. ASSUME NEW v \in 0 .. N - 1, v \in T PROVE v + 1 \in T
  <2> DEFINE S == f[v]
             pg == <<p, v + 1>>
             gone == FirstPages(p, v)
             b == S.data_location[p][v + 1]
  <2>1. v + 1 \in 1 .. N /\ (v + 1) - 1 = v /\ v + 1 \in 0 .. N /\ v \in Nat  BY <1>1
  <2>2. f[v + 1] = DestroyPage(S, p, v + 1)  BY <1>2, <2>1
  <2>3. Half(Pager, S, gone)  BY <1>4
  <2> HIDE DEF S
  <2>4. /\ Shape(S) /\ S.data_location = data_location /\ SwapInv(S, gone)
    BY <1>0, <2>3 DEF Half
  <2>5. v + 1 \in DOMAIN S.data_location[p]  BY <1>1, <2>1, <2>4
  <2>6. pg \in PagesIn(S) /\ BlockIn(S, pg) = b  BY <2>4, <2>5, PagesMeaning
  <2>7. pg \notin gone  BY <2>1 DEF FirstPages
  <2>8. b \in Referenced(S) /\ b \in BlockIds  BY <2>4, <2>6, ReferencedMeaning
  <2>9. S.mem_block[b].is_swap => S.mem_block[b].swap_blocks # <<>>
    <3>1. pg \in Showing(S, gone, b)  BY <2>6, <2>7 DEF Showing
    <3>2. Cardinality(Showing(S, gone, b)) # 0  BY <3>1, ShowingFinite, FS_EmptySet
    <3>3. S.mem_block[b].is_swap =>
            Len(S.mem_block[b].swap_blocks) = Cardinality(Showing(S, gone, b))
      BY <2>4, <2>8 DEF SwapInv
    <3>4. Len(<<>>) = 0  OBVIOUS
    <3>5. QED  BY <3>2, <3>3, <3>4
  <2>10. PageGone(S, DestroyPage(S, p, v + 1), b, pg)  BY <2>4, <2>5, <2>9, PageGoneEffect
  <2>11. Half(Pager, DestroyPage(S, p, v + 1), gone \cup {pg})
    <3> DEFINE R == DestroyPage(S, p, v + 1)
    <3> HIDE DEF R, b, pg, gone
    <3>1. PageGone(S, R, b, pg)  BY <2>10 DEF R
    <3>2. Half(Pager, R, gone \cup {pg})  BY <2>3, <2>6, <2>7, <3>1, HalfStep
    <3>3. QED  BY <3>2 DEF R
  <2>12. gone \cup {pg} = FirstPages(p, v + 1)
    <3>1. 1 .. v + 1 = (1 .. v) \cup {v + 1}  BY <2>1
    <3>2. QED  BY <3>1 DEF FirstPages
  <2>13. QED  BY <2>1, <2>2, <2>11, <2>12
<1> HIDE DEF T
<1>5. 0 .. N \subseteq T  BY <1>1, <1>3, <1>4, UpToInduction
<1>6. N \in 0 .. N  BY <1>1
<1>7. QED  BY <1>5, <1>6 DEF T, f


(* Then the dead blocks leave the clock queue, and the process its arena. *)
ArenaGone(D, T, p, gone) ==
    /\ T \in PagerState /\ T.mem_block = D.mem_block
    /\ T.free_mem_blocks = D.free_mem_blocks /\ T.free_swap_blocks = D.free_swap_blocks
    /\ T.file_mapping_table = D.file_mapping_table
    /\ IsInjective(T.clock_queue)
    /\ ToSet(T.clock_queue) = ToSet(D.clock_queue) \ Dead(D, gone)
    /\ T.data_location = [D.data_location EXCEPT ![p] = <<>>]

LEMMA ArenaGoneWhole ==
    ASSUME NEW S0, NEW D, NEW T, NEW p \in Pids, NEW gone,
           gone = {pg \in PagesIn(D) : pg[1] = p},
           Whole(S0, {}, {}), Half(S0, D, gone), ArenaGone(D, T, p, gone)
    PROVE  /\ Whole(T, {}, {})
           /\ \A q \in Pids \ {p} : SwapPagesOf(T, q) = SwapPagesOf(S0, q)
<1>0. /\ Shape(D) /\ Pinned(D) /\ FilesInv(D) /\ PtesInv(D, gone) /\ SwapInv(D, gone)
      /\ D.clock_queue = S0.clock_queue /\ D.data_location = S0.data_location
      /\ Referenced(D) = Referenced(S0) /\ D \in PagerState
      /\ IsInjective(D.free_mem_blocks)
      /\ FramesInv(S0) /\ ResidentInv(S0) /\ Shape(S0)
  BY DEF Half, Shape, Whole
<1>1. /\ \A c \in BlockIds : /\ D.mem_block[c].resident = S0.mem_block[c].resident
                             /\ D.mem_block[c].location = S0.mem_block[c].location
                             /\ D.mem_block[c].is_swap = S0.mem_block[c].is_swap
      /\ ToSet(D.free_mem_blocks) =
           ToSet(S0.free_mem_blocks) \cup {S0.mem_block[c].location : c \in Dead(D, gone)}
  BY DEF Half
<1>2. /\ T \in PagerState /\ T.mem_block = D.mem_block
      /\ T.free_mem_blocks = D.free_mem_blocks /\ T.free_swap_blocks = D.free_swap_blocks
      /\ T.file_mapping_table = D.file_mapping_table
      /\ IsInjective(T.clock_queue)
      /\ ToSet(T.clock_queue) = ToSet(D.clock_queue) \ Dead(D, gone)
  BY DEF ArenaGone
<1>3. /\ Referenced(D) \subseteq BlockIds /\ ToSet(D.clock_queue) \subseteq Referenced(D)
      /\ D.file_mapping_table \subseteq Referenced(D) /\ zero_page \in Referenced(D)
      /\ \A r \in PagesIn(D) : BlockIn(D, r) \in Referenced(D)
  BY <1>0, ReferencedMeaning
<1>4. /\ T.data_location[p] = <<>>
      /\ \A q \in Pids \ {p} : T.data_location[q] = D.data_location[q]
  <2>1. D.data_location \in [Pids -> Seq(BlockIds)]  BY <1>0, Fields
  <2>2. T.data_location = [D.data_location EXCEPT ![p] = <<>>]  BY DEF ArenaGone
  <2>3. QED  BY <2>1, <2>2
<1>5. Shape(T)
  <2>1. Len(<<>>) = 0 /\ 0 <= num_virt_addr  BY Numbers
  <2>2. \A q \in Pids : Len(T.data_location[q]) <= num_virt_addr  BY <1>0, <1>4, <2>1 DEF Shape
  <2>3. QED  BY <1>0, <1>2, <2>2 DEF Shape
<1>6. /\ PagesIn(T) = PagesIn(D) \ gone
      /\ \A pg \in PagesIn(T) : BlockIn(T, pg) = BlockIn(D, pg)
  <2>1. DOMAIN <<>> = {}  OBVIOUS
  <2>2. \A pg \in Pids \X VPages : pg \in PagesIn(T) <=> pg \in PagesIn(D) /\ pg[1] # p
    BY <1>4, <2>1 DEF PagesIn
  <2>3. PagesIn(T) \subseteq Pids \X VPages /\ PagesIn(D) \subseteq Pids \X VPages
    BY DEF PagesIn
  <2>4. \A pg \in PagesIn(T) : pg[1] \in Pids \ {p}  BY <2>2, <2>3
  <2>5. QED  BY <1>4, <2>2, <2>3, <2>4 DEF BlockIn
<1>7. /\ \A b : Showing(T, {}, b) = Showing(D, gone, b)
      /\ SwapPages(T, {}) = SwapPages(D, gone)
  BY <1>2, <1>6 DEF Showing, SwapPages
<1>8. Referenced(T) \subseteq Referenced(D)
  <2>1. \A b \in Referenced(T) :
          \/ b = zero_page \/ b \in ToSet(T.clock_queue) \/ b \in T.file_mapping_table
          \/ \E pg \in PagesIn(T) : BlockIn(T, pg) = b
    BY <1>5, ReferencedMeaning
  <2>2. QED  BY <1>2, <1>3, <1>6, <2>1
<1>9. \A b \in Referenced(T) : b \notin Dead(D, gone)
  <2>1. ASSUME NEW b \in Referenced(T), b \in Dead(D, gone) PROVE FALSE
    <3>1. b \in ToSet(D.clock_queue) /\ D.mem_block[b].is_swap /\ Showing(D, gone, b) = {}
      BY <2>1 DEF Dead
    <3>2. b # zero_page /\ b \notin D.file_mapping_table  BY <1>0, <3>1 DEF Pinned, FilesInv
    <3>3. PICK pg \in PagesIn(T) : BlockIn(T, pg) = b
      BY <1>2, <1>5, <2>1, <3>2, ReferencedMeaning
    <3>4. pg \in Showing(T, {}, b)  BY <3>3 DEF Showing
    <3>5. QED  BY <1>7, <3>1, <3>4
  <2>2. QED  BY <2>1
<1>10. Pinned(T)  BY <1>0, <1>2 DEF Pinned
<1>11. FilesInv(T)  BY <1>0, <1>2, <1>8 DEF FilesInv
<1>12. FramesInv(T)
  <2> DEFINE loc(b) == S0.mem_block[b].location
  <2>1. Dead(D, gone) \subseteq ToSet(S0.clock_queue) /\ ToSet(S0.clock_queue) \subseteq BlockIds
    BY <1>0, <1>3 DEF Dead
  <2>2. \A b \in BlockIds : T.mem_block[b].location = loc(b)  BY <1>1, <1>2
  <2>3. /\ 0 \notin ToSet(S0.free_mem_blocks)
        /\ \A b \in ToSet(S0.clock_queue) : loc(b) # 0 /\ loc(b) \notin ToSet(S0.free_mem_blocks)
        /\ \A b, c \in ToSet(S0.clock_queue) : loc(b) = loc(c) => b = c
        /\ \A k \in Frames \ {0} : \/ k \in ToSet(S0.free_mem_blocks)
                                   \/ \E b \in ToSet(S0.clock_queue) : loc(b) = k
    BY <1>0 DEF FramesInv
  <2>4. \A k : k \in ToSet(T.free_mem_blocks) <=>
               k \in ToSet(S0.free_mem_blocks) \/ \E c \in Dead(D, gone) : k = loc(c)
    BY <1>1, <1>2
  <2>5. \A b : b \in ToSet(T.clock_queue) <=> b \in ToSet(S0.clock_queue) /\ b \notin Dead(D, gone)
    BY <1>0, <1>2
  <2> HIDE DEF loc
  <2>6. 0 \notin ToSet(T.free_mem_blocks)  BY <2>1, <2>3, <2>4
  <2>7. \A b \in ToSet(T.clock_queue) : loc(b) # 0 /\ loc(b) \notin ToSet(T.free_mem_blocks)
    BY <2>1, <2>3, <2>4, <2>5
  <2>8. \A k \in Frames \ {0} : \/ k \in ToSet(T.free_mem_blocks)
                                \/ \E b \in ToSet(T.clock_queue) : loc(b) = k
    BY <2>3, <2>4, <2>5
  <2>9. QED  BY <1>0, <1>2, <2>1, <2>2, <2>3, <2>5, <2>6, <2>7, <2>8 DEF FramesInv
<1>13. ResidentInv(T)
  <2>1. \A b \in Referenced(T) \ {zero_page} :
          /\ b \in Referenced(S0) \ {zero_page} /\ b \in BlockIds /\ b \notin Dead(D, gone)
    BY <1>0, <1>3, <1>8, <1>9
  <2>2. QED  BY <1>0, <1>1, <1>2, <2>1 DEF ResidentInv
<1>14. PtesInv(T, {})  BY <1>0, <1>2, <1>7, <1>8 DEF PtesInv
<1>15. SwapInv(T, {})
  <2>1. \A b \in Referenced(T) : Len(T.mem_block[b].swap_blocks) =
          IF T.mem_block[b].is_swap THEN Cardinality(Showing(T, {}, b)) ELSE 0
    BY <1>0, <1>2, <1>7, <1>8 DEF SwapInv
  <2>2. ASSUME NEW k \in SwapBlocks, k \notin ToSet(T.free_swap_blocks)
        PROVE  \E b \in Referenced(T) : k \in ToSet(T.mem_block[b].swap_blocks)
    <3>1. PICK b \in Referenced(D) : k \in ToSet(D.mem_block[b].swap_blocks)
      BY <1>0, <1>2, <2>2 DEF SwapInv
    <3>2. CASE b \in Referenced(T)  BY <1>2, <3>1, <3>2
    <3>3. CASE b \notin Referenced(T)
      <4>1. Showing(T, {}, b) = {}  BY <1>5, <3>3, ReferencedMeaning DEF Showing
      <4>2. Len(D.mem_block[b].swap_blocks) = 0  BY <1>0, <1>7, <3>1, <4>1, FS_EmptySet DEF SwapInv
      <4>3. D.mem_block[b] \in Block  BY <1>0, <1>3, Fields
      <4>4. D.mem_block[b].swap_blocks \in Seq(SwapBlocks)  BY <4>3 DEF Block
      <4>5. DOMAIN D.mem_block[b].swap_blocks = {}  BY <4>2, <4>4
      <4>6. QED  BY <3>1, <4>5 DEF ToSet
    <3>4. QED  BY <3>2, <3>3
  <2>3. Len(T.free_swap_blocks) + Cardinality(SwapPages(T, {})) = swap_blocks
    BY <1>0, <1>2, <1>7 DEF SwapInv
  <2>4. QED  BY <2>1, <2>2, <2>3 DEF SwapInv
<1>16. HomeInv(T)
  <2>1. ASSUME NEW b \in ToSet(T.clock_queue), T.mem_block[b].is_swap
        PROVE  T.mem_block[b].swap_blocks # <<>>
    <3>1. b \in ToSet(D.clock_queue) /\ b \notin Dead(D, gone) /\ b \in Referenced(D)
      BY <1>2, <1>3
    <3>2. Showing(D, gone, b) # {}  BY <1>2, <2>1, <3>1 DEF Dead
    <3>3. Len(D.mem_block[b].swap_blocks) = Cardinality(Showing(D, gone, b))
      BY <1>0, <1>2, <2>1, <3>1 DEF SwapInv
    <3>4. Cardinality(Showing(D, gone, b)) # 0  BY <3>2, ShowingFinite, FS_EmptySet
    <3>5. Len(<<>>) = 0  OBVIOUS
    <3>6. QED  BY <1>2, <3>3, <3>4, <3>5
  <2>2. QED  BY <2>1 DEF HomeInv
<1>17. \A q \in Pids \ {p} : SwapPagesOf(T, q) = SwapPagesOf(S0, q)
  <2>1. ASSUME NEW q \in Pids \ {p} PROVE SwapPagesOf(T, q) = SwapPagesOf(S0, q)
    <3>1. T.data_location[q] = S0.data_location[q]  BY <1>0, <1>4
    <3>2. S0.data_location[q] \in Seq(BlockIds)  BY <1>0, PagesMeaning
    <3>3. \A v \in DOMAIN S0.data_location[q] : S0.data_location[q][v] \in BlockIds  BY <3>2
    <3>4. QED  BY <1>1, <1>2, <3>1, <3>3 DEF SwapPagesOf
  <2>2. QED  BY <2>1
<1>18. QED
  BY <1>5, <1>10, <1>11, <1>12, <1>13, <1>14, <1>15, <1>16, <1>17 DEF Whole


LEMMA InspectEffect ==
    ASSUME NEW S0, NEW D, NEW p \in Pids, NEW gone, NEW useless, NEW T,
           Whole(S0, {}, {}), Half(S0, D, gone),
           useless = ToSet(D.free_mem_blocks) \ ToSet(S0.free_mem_blocks),
           T = [inspect_clock_queue(D, useless) EXCEPT
                  !.data_location[p] = <<>>, !.page_table[p] = [v \in VPages |-> NoEntry]]
    PROVE  ArenaGone(D, T, p, gone)
<1> DEFINE useful == {b \in BlockIds : D.mem_block[b].location \notin useless \cup {0}}
           q == Filter(D.clock_queue, useful)
           pt == [D.page_table EXCEPT ![p] = [v \in VPages |-> NoEntry]]
           dl == [D.data_location EXCEPT ![p] = <<>>]
<1>0. /\ D \in PagerState /\ D.clock_queue = S0.clock_queue /\ FramesInv(S0)
      /\ \A c \in BlockIds : D.mem_block[c].location = S0.mem_block[c].location
      /\ ToSet(D.free_mem_blocks) =
           ToSet(S0.free_mem_blocks) \cup {S0.mem_block[c].location : c \in Dead(D, gone)}
  BY DEF Half, Shape, Whole
<1>1. /\ D.clock_queue \in Seq(BlockIds) /\ D.page_table \in [Pids -> [VPages -> Entry]]
      /\ D.data_location \in [Pids -> Seq(BlockIds)]
  BY <1>0, Fields
<1>2. /\ q \in Seq(BlockIds) /\ ToSet(q) = ToSet(D.clock_queue) \cap useful
      /\ IsInjective(q)
  <2>1. IsInjective(D.clock_queue)  BY <1>0 DEF FramesInv
  <2> HIDE DEF useful
  <2>2. QED  BY <1>1, <2>1, FilterLemma
<1>3. ToSet(q) = ToSet(D.clock_queue) \ Dead(D, gone)
  <2> DEFINE loc(b) == S0.mem_block[b].location
             Q == ToSet(S0.clock_queue)
             dead == Dead(D, gone)
  <2>1. Q \subseteq BlockIds /\ dead \subseteq Q
    BY <1>0, <1>1, ToSetType DEF Dead
  <2>2. \A b \in Q : loc(b) # 0 /\ loc(b) \notin ToSet(S0.free_mem_blocks)
    BY <1>0 DEF FramesInv
  <2>3. \A b, c \in Q : loc(b) = loc(c) => b = c  BY <1>0 DEF FramesInv
  <2>4. \A k : k \in useless <=> k \notin ToSet(S0.free_mem_blocks) /\ \E c \in dead : k = loc(c)
    BY <1>0
  <2>5. \A b \in Q : b \in useful <=> loc(b) \notin useless \cup {0}  BY <1>0, <2>1
  <2> HIDE DEF loc, Q, dead, useful, q
  <2>6. \A b \in Q : b \in useful <=> b \notin dead  BY <2>1, <2>2, <2>3, <2>4, <2>5
  <2>7. QED  BY <1>0, <1>2, <2>6 DEF Q, dead
<1>4. NoEntry \in Entry
  BY Numbers DEF NoEntry, Entry
<1>5. pt \in [Pids -> [VPages -> Entry]]  BY <1>1, <1>4
<1>6. dl \in [Pids -> Seq(BlockIds)]
  <2>1. <<>> \in Seq(BlockIds)  OBVIOUS
  <2>2. QED  BY <1>1, <2>1
<1>7. T = [D EXCEPT !.clock_queue = q, !.data_location = dl, !.page_table = pt]
  <2>1. inspect_clock_queue(D, useless) = [D EXCEPT !.clock_queue = q]
    BY DEF inspect_clock_queue
  <2> HIDE DEF q
  <2> DEFINE C == [D EXCEPT !.clock_queue = q]
  <2>2. C.data_location = D.data_location /\ C.page_table = D.page_table
    BY <1>0 DEF PagerState
  <2>3. T = [C EXCEPT !.data_location = [C.data_location EXCEPT ![p] = <<>>],
                      !.page_table = [C.page_table EXCEPT ![p] = [v \in VPages |-> NoEntry]]]
    BY <2>1
  <2>4. T = [C EXCEPT !.data_location = dl, !.page_table = pt]  BY <2>2, <2>3
  <2> HIDE DEF dl, pt
  <2>5. QED  BY <1>0, <2>4 DEF PagerState
<1> HIDE DEF q, dl, pt
<1>8. /\ T \in PagerState /\ T.mem_block = D.mem_block
      /\ T.free_mem_blocks = D.free_mem_blocks /\ T.free_swap_blocks = D.free_swap_blocks
      /\ T.file_mapping_table = D.file_mapping_table
      /\ T.clock_queue = q /\ T.data_location = dl
  BY <1>0, <1>2, <1>5, <1>6, <1>7 DEF PagerState
<1>9. QED  BY <1>2, <1>3, <1>8 DEF ArenaGone, dl

(* A process's swap pages, from those of all processes *)
LEMMA SwapPagesOfOne ==
    ASSUME NEW S, NEW T, Shape(S), Shape(T),
           SwapPages(T, {}) = SwapPages(S, {}), NEW q \in Pids
    PROVE  /\ SwapPagesOf(T, q) = SwapPagesOf(S, q)
           /\ SwapPagesOf(S, q) = {v \in VPages : <<q, v>> \in SwapPages(S, {})}
<1>1. ASSUME NEW R, Shape(R) PROVE SwapPagesOf(R, q) = {v \in VPages : <<q, v>> \in SwapPages(R, {})}
  <2>1. DOMAIN R.data_location[q] \subseteq VPages  BY <1>1, PagesMeaning
  <2>2. \A v \in VPages : <<q, v>> \in PagesIn(R) <=> v \in DOMAIN R.data_location[q]
    BY DEF PagesIn
  <2>3. QED  BY <2>1, <2>2 DEF SwapPagesOf, SwapPages, BlockIn
<1>2. SwapPagesOf(S, q) = {v \in VPages : <<q, v>> \in SwapPages(S, {})}  BY <1>1
<1>3. SwapPagesOf(T, q) = {v \in VPages : <<q, v>> \in SwapPages(T, {})}  BY <1>1
<1>4. QED  BY <1>2, <1>3

LEMMA DestroyKeeps ==
    ASSUME PagerInv, Destroy
    PROVE  PagerInv'
<1> DEFINE p == curr_pid
           N == Len(data_location[p])
           D == Destroyed(p)[N]
           useless == ToSet(D.free_mem_blocks) \ ToSet(free_mem_blocks)
           gone == FirstPages(p, N)
           T == [inspect_clock_queue(D, useless) EXCEPT
                  !.data_location[p] = <<>>, !.page_table[p] = [v \in VPages |-> NoEntry]]
<1>0. /\ Whole(Pager, {}, {}) /\ ProcInv /\ Shape(Pager) /\ Pager.data_location = data_location
      /\ Pager.free_mem_blocks = free_mem_blocks
  BY DEF PagerInv, Whole, Pager
<1>1. p # NoPid /\ Becomes(T)  BY DEF Destroy
<1>2. /\ managed' = managed \ {p} /\ alive' = alive \ {p} /\ curr_pid' = NoPid
      /\ num_swap_blocks' = [num_swap_blocks EXCEPT ![p] = 0]
      /\ accessible' = accessible
  BY DEF Destroy
<1>3. p \in alive /\ p \in Pids  BY <1>0, <1>1 DEF ProcInv
<1>4. Half(Pager, D, gone)  BY <1>0, <1>3, DestroyLoop
<1> HIDE DEF D
<1>5. gone = {pg \in PagesIn(D) : pg[1] = p}
  <2>1. D.data_location = data_location /\ Shape(D)  BY <1>0, <1>4 DEF Half
  <2>2. DOMAIN data_location[p] = 1 .. N /\ DOMAIN data_location[p] \subseteq VPages
    BY <1>0, <1>3, PagesMeaning
  <2>3. QED  BY <1>3, <2>1, <2>2 DEF FirstPages, PagesIn
<1>6. ArenaGone(D, T, p, gone)
  <2> HIDE DEF gone, T
  <2>1. useless = ToSet(D.free_mem_blocks) \ ToSet(Pager.free_mem_blocks)  BY <1>0
  <2>2. QED  BY <1>0, <1>3, <1>4, <2>1, InspectEffect DEF T
<1> HIDE DEF gone, T
<1>7. Whole(T, {}, {}) /\ \A q \in Pids \ {p} : SwapPagesOf(T, q) = SwapPagesOf(Pager, q)
  BY <1>0, <1>3, <1>4, <1>5, <1>6, ArenaGoneWhole
<1>8. Whole(Pager, {}, {})' /\ Steady(T, Pager') /\ data_location' = T.data_location
  BY <1>1, <1>7, BecomesWhole
<1>9. ASSUME NEW q \in Pids \ {p} PROVE SwapPagesOf(Pager', q) = SwapPagesOf(Pager, q)
  <2>1. Shape(T) /\ Shape(Pager')  BY <1>7, <1>8 DEF Whole
  <2> DEFINE M == Pager'
  <2> HIDE DEF M
  <2>2. SwapPagesOf(M, q) = SwapPagesOf(T, q)  BY <1>8, <2>1, SwapPagesOfOne DEF M, Steady
  <2>3. QED  BY <1>7, <2>2 DEF M
<1>10. ProcInv'
  <2>1. /\ managed' \subseteq Pids /\ alive' \subseteq managed'
        /\ curr_pid' \in alive' \cup {NoPid} /\ accessible' \subseteq Existing
    BY <1>0, <1>2 DEF ProcInv
  <2>2. num_swap_blocks' \in [Pids -> 0 .. UINT_MAX] /\ CountsFit'
    BY <1>0, <1>2, <1>3, PagerAssumption DEF ProcInv, CountsFit
  <2>3. \A q \in Pids \ alive' : data_location'[q] = <<>>
    <3>1. data_location \in [Pids -> Seq(BlockIds)]  BY <1>0, Fields DEF Shape
    <3>2. data_location' = [data_location EXCEPT ![p] = <<>>]
      BY <1>0, <1>4, <1>6, <1>8 DEF Half, ArenaGone
    <3>3. QED  BY <1>0, <1>2, <1>3, <3>1, <3>2 DEF ProcInv
  <2>4. ASSUME NEW q \in alive'
        PROVE  Counts(Cardinality(SwapPagesOf(Pager', q)), num_swap_blocks'[q])
    <3>1. q \in alive /\ q \in Pids \ {p}  BY <1>0, <1>2 DEF ProcInv
    <3>2. num_swap_blocks'[q] = num_swap_blocks[q]  BY <1>0, <1>2, <3>1 DEF ProcInv
    <3>3. QED  BY <1>0, <1>9, <3>1, <3>2 DEF ProcInv
  <2>5. QED  BY <2>1, <2>2, <2>3, <2>4 DEF ProcInv
<1>11. QED  BY <1>8, <1>10 DEF PagerInv


-----------------------------------------------------------------------------
(* The other handlers.                                                     *)

(* A handler that changes neither the processes nor who has how many swap  *)
(* blocks, and gives pages only to processes that run                      *)
LEMMA ProcKept ==
    ASSUME PagerInv, Whole(Pager, {}, {})', SwapPages(Pager', {}) = SwapPages(Pager, {}),
           \A pg \in PagesIn(Pager') : pg \in PagesIn(Pager) \/ pg[1] \in alive,
           UNCHANGED <<procVars, accessible>>
    PROVE  PagerInv'
<1> DEFINE M == Pager'
<1>0. /\ Whole(Pager, {}, {}) /\ ProcInv /\ Shape(Pager) /\ Pager.data_location = data_location
      /\ Shape(M) /\ M.data_location = data_location'
  BY DEF PagerInv, Whole, Pager
<1>1. /\ num_swap_blocks' = num_swap_blocks /\ managed' = managed /\ curr_pid' = curr_pid
      /\ alive' = alive /\ accessible' = accessible
  BY DEF procVars
<1> HIDE DEF M
<1>2. ASSUME NEW q \in Pids \ alive PROVE data_location'[q] = <<>>
  <2>1. data_location[q] = <<>>  BY <1>0 DEF ProcInv
  <2>2. DOMAIN data_location[q] = {}  BY <2>1
  <2>3. \A v \in VPages : <<q, v>> \notin PagesIn(Pager)  BY <1>0, <2>2 DEF PagesIn
  <2>4. \A v \in VPages : <<q, v>> \notin PagesIn(M)  BY <2>3 DEF M
  <2>5. /\ M.data_location[q] \in Seq(BlockIds)
        /\ \A v \in DOMAIN M.data_location[q] : v \in VPages /\ <<q, v>> \in PagesIn(M)
    BY <1>0, PagesMeaning
  <2>6. DOMAIN M.data_location[q] = {}  BY <2>4, <2>5
  <2>7. M.data_location[q] = <<>>
    <3> DEFINE s == M.data_location[q]
    <3> HIDE DEF s
    <3>1. s \in Seq(BlockIds) /\ DOMAIN s = {}  BY <2>5, <2>6 DEF s
    <3>2. Len(s) \in Nat /\ DOMAIN s = 1 .. Len(s)  BY <3>1
    <3>3. Len(s) = 0  BY <3>1, <3>2
    <3>4. s = <<>>  BY <3>1, <3>3
    <3>5. QED  BY <3>4 DEF s
  <2>8. QED  BY <1>0, <2>7
<1>3. \A q \in Pids : SwapPagesOf(M, q) = SwapPagesOf(Pager, q)
  <2>1. SwapPages(M, {}) = SwapPages(Pager, {})  BY DEF M
  <2>2. QED  BY <1>0, <2>1, SwapPagesOfOne
<1>4. \A q \in alive : Counts(Cardinality(SwapPagesOf(M, q)), num_swap_blocks[q])
  BY <1>0, <1>3 DEF ProcInv
<1>5. ProcInv'  BY <1>0, <1>1, <1>2, <1>4 DEF ProcInv, CountsFit, M
<1>6. QED  BY <1>5 DEF PagerInv

LEMMA ModSmall ==
    ASSUME NEW a \in Nat, NEW b \in Nat, a < b
    PROVE  a % b = a
OBVIOUS

LEMMA ModRange ==
    ASSUME NEW m \in Nat
    PROVE  \A k \in 0 .. m : (k + 1) % (m + 1) \in 0 .. m
OBVIOUS

LEMMA MapSwapKeeps ==
    ASSUME PagerInv, MapSwap
    PROVE  PagerInv'
<1> DEFINE p == curr_pid
           n == Len(data_location[p]) + 1
           R == ReserveSwap(Pager, zero_page)
           e == [ppage |-> 0, read_enable |-> TRUE, write_enable |-> FALSE]
           T == [R EXCEPT !.page_table[p][n] = e, !.data_location[p] = Append(@, zero_page)]
           x == R.mem_block[zero_page]
<1>0. /\ Whole(Pager, {}, {}) /\ ProcInv /\ Shape(Pager) /\ Pager.data_location = data_location
      /\ Pager.free_swap_blocks = free_swap_blocks /\ Pager \in PagerState /\ Pinned(Pager)
  BY DEF PagerInv, Whole, Shape, Pager
<1>1. p # NoPid /\ n <= num_virt_addr /\ free_swap_blocks # <<>> /\ Becomes(T)
  BY DEF MapSwap
<1>2. /\ num_swap_blocks' = [num_swap_blocks EXCEPT ![p] = (@ + 1) % (UINT_MAX + 1)]
      /\ managed' = managed /\ curr_pid' = curr_pid /\ alive' = alive
      /\ accessible' = accessible
  BY DEF MapSwap
<1>3. p \in alive /\ p \in Pids  BY <1>0, <1>1 DEF ProcInv
<1>4. Len(Pager.data_location[p]) < num_virt_addr /\ NextPage(Pager, p) = <<p, n>>
  <2>1. PICK k \in Nat : k = Len(data_location[p])  BY <1>0, <1>3, PagesMeaning
  <2>2. k < num_virt_addr  BY <1>1, <2>1, Numbers
  <2>3. QED  BY <1>0, <2>1, <2>2 DEF NextPage
<1>5. GivenSwap(Pager, R, zero_page)  BY <1>0, <1>1, Numbers, ReserveEffect
<1> HIDE DEF R
<1>6. /\ R \in PagerState /\ R.data_location = data_location
      /\ NextPage(R, p) = <<p, n>> /\ Len(R.data_location[p]) < num_virt_addr
  BY <1>0, <1>4, <1>5 DEF GivenSwap, NextPage
<1>7. Shape(R)
  <2>1. \A b \in BlockIds : PlaceOK(R.mem_block[b])
    BY <1>0, <1>5 DEF GivenSwap, Shape, PlaceOK, Alike
  <2>2. QED  BY <1>0, <1>6, <2>1 DEF Shape
<1>8. R.mem_block \in [BlockIds -> Block] /\ x \in Block /\ zero_page \in BlockIds
  BY <1>6, Fields, Numbers
<1>9. e \in Entry  BY Numbers DEF Entry
<1>10. T = [R EXCEPT !.data_location[p] = Append(@, zero_page), !.mem_block[zero_page] = x,
                     !.page_table[p][NextPage(R, p)[2]] = e]
  <2>1. NextPage(R, p)[2] = n  BY <1>6
  <2>2. [R.mem_block EXCEPT ![zero_page] = x] = R.mem_block  BY <1>8
  <2> HIDE DEF e, n, x
  <2> DEFINE dl == [R.data_location EXCEPT ![p] = Append(@, zero_page)]
             pt == [R.page_table EXCEPT ![p][n] = e]
             mb == R.mem_block
  <2>3. T = [R EXCEPT !.page_table = pt, !.data_location = dl]  BY <1>6 DEF PagerState
  <2>4. [R EXCEPT !.data_location[p] = Append(@, zero_page), !.mem_block[zero_page] = x,
                  !.page_table[p][NextPage(R, p)[2]] = e]
          = [R EXCEPT !.data_location = dl, !.mem_block = mb, !.page_table = pt]
    BY <1>6, <2>1, <2>2 DEF PagerState
  <2> HIDE DEF dl, pt
  <2>5. [R EXCEPT !.data_location = dl, !.mem_block = mb, !.page_table = pt]
          = [R EXCEPT !.page_table = pt, !.data_location = dl]
    BY <1>6 DEF PagerState
  <2>6. QED  BY <2>3, <2>4, <2>5
<1> HIDE DEF T, e, n
<1>11. PageAdded(R, T, p, zero_page)
  <2> HIDE DEF x
  <2>1. QED  BY <1>3, <1>6, <1>7, <1>8, <1>9, <1>10, AddPage DEF x
<1>12. Pager.mem_block[zero_page].is_swap  BY <1>0 DEF Pinned
<1>13. Grown(Pager, T, p, zero_page)
  BY <1>0, <1>1, <1>5, <1>8, <1>11, <1>12, SwapGrown
<1>14. zero_page \in Referenced(Pager)  BY <1>0, ReferencedMeaning
<1>15. Whole(T, {}, {}) /\ SwapPages(T, {}) = SwapPages(Pager, {}) \cup {<<p, n>>}
  <2> DEFINE S == Pager
  <2> HIDE DEF S
  <2>1. Whole(S, {}, {}) /\ zero_page \in Referenced(S) /\ S.mem_block[zero_page].is_swap
        /\ Len(S.data_location[p]) < num_virt_addr /\ Grown(S, T, p, zero_page)
    BY <1>0, <1>4, <1>12, <1>13, <1>14 DEF S
  <2>2. Whole(T, {}, {}) /\ SwapPages(T, {}) = SwapPages(S, {}) \cup {NextPage(S, p)}
    BY <1>3, <2>1, GrownWhole
  <2>3. QED  BY <1>4, <2>2 DEF S
<1> DEFINE M == Pager'
<1>16. /\ Whole(M, {}, {}) /\ SwapPages(M, {}) = SwapPages(T, {}) /\ Shape(M) /\ Shape(T)
       /\ data_location' = T.data_location
  BY <1>1, <1>15, BecomesWhole DEF Whole, Steady
<1>17. /\ \A q \in Pids \ {p} : data_location'[q] = data_location[q]
  <2>1. T.data_location = [data_location EXCEPT ![p] = Append(@, zero_page)]
    BY <1>0, <1>13 DEF Grown, OnePageMore
  <2>2. data_location \in [Pids -> Seq(BlockIds)]  BY <1>0, Fields
  <2>3. QED  BY <1>16, <2>1, <2>2
<1> HIDE DEF M
<1>18. \A q \in Pids : /\ SwapPagesOf(M, q) = {v \in VPages : <<q, v>> \in SwapPages(M, {})}
                       /\ SwapPagesOf(Pager, q) = {v \in VPages : <<q, v>> \in SwapPages(Pager, {})}
  BY <1>0, <1>16, SwapPagesOfOne
<1>19. ASSUME NEW q \in alive PROVE Counts(Cardinality(SwapPagesOf(M, q)), num_swap_blocks'[q])
  <2>1. q \in Pids /\ num_swap_blocks \in [Pids -> 0 .. UINT_MAX]  BY <1>0 DEF ProcInv
  <2>2. Counts(Cardinality(SwapPagesOf(Pager, q)), num_swap_blocks[q])  BY <1>0 DEF ProcInv
  <2>3. CASE q # p
    <3>1. \A v \in VPages : <<q, v>> \in SwapPages(M, {}) <=> <<q, v>> \in SwapPages(Pager, {})
      BY <1>15, <1>16, <2>3
    <3>2. SwapPagesOf(M, q) = SwapPagesOf(Pager, q)  BY <1>18, <2>1, <3>1
    <3>3. QED  BY <1>2, <2>1, <2>2, <2>3, <3>2
  <2>4. CASE q = p
    <3> DEFINE A == SwapPagesOf(Pager, q)
               B == SwapPagesOf(M, q)
    <3>1. B = A \cup {n} /\ n \notin A /\ A \subseteq 1 .. n - 1 /\ n - 1 \in Nat
      <4>1. \A v \in VPages : <<q, v>> \in SwapPages(M, {}) <=>
                              <<q, v>> \in SwapPages(Pager, {}) \/ v = n
        BY <1>15, <1>16, <2>4
      <4>2. n \in VPages /\ n - 1 \in Nat /\ DOMAIN data_location[p] = 1 .. n - 1
        <5>1. /\ Len(data_location[p]) \in Nat
              /\ DOMAIN data_location[p] = 1 .. Len(data_location[p])
          BY <1>0, <1>3, PagesMeaning
        <5>2. n = Len(data_location[p]) + 1  BY DEF n
        <5>3. QED  BY <1>1, <5>1, <5>2, Numbers DEF VPages
      <4>3. A \subseteq 1 .. n - 1  BY <1>0, <2>4, <4>2 DEF SwapPagesOf
      <4>4. n \notin 1 .. n - 1  BY <4>2
      <4>5. B = A \cup {n}  BY <1>18, <2>1, <4>1, <4>2
      <4>6. QED  BY <4>2, <4>3, <4>4, <4>5
    <3> HIDE DEF A, B
    <3>2. IsFiniteSet(A) /\ Cardinality(A) \in Nat /\ Cardinality(A) <= n - 1
      <4>1. IsFiniteSet(1 .. n - 1) /\ Cardinality(1 .. n - 1) = n - 1
        BY <3>1, FS_Interval
      <4>2. QED  BY <3>1, <4>1, FS_Subset, FS_CardinalityType
    <3>3. Cardinality(B) = Cardinality(A) + 1  BY <3>1, <3>2, FS_AddElement
    <3>4. Counts(Cardinality(A), num_swap_blocks[q])  BY <2>2 DEF A
    <3>5. num_swap_blocks'[q] = num_swap_blocks[q] + 1
      <4>1. num_swap_blocks'[q] = (num_swap_blocks[q] + 1) % (UINT_MAX + 1)
        BY <1>2, <2>1, <2>4
      <4>2. PICK k \in 0 .. UINT_MAX : k = num_swap_blocks[q]  BY <2>1
      <4>3. PICK a \in Nat : a = Cardinality(A)  BY <3>2
      <4>4. k + num_virt_addr <= UINT_MAX + a /\ a <= n - 1  BY <3>2, <3>4, <4>2, <4>3 DEF Counts
      <4>5. k + 1 \in Nat /\ UINT_MAX + 1 \in Nat /\ k + 1 < UINT_MAX + 1
        <5>1. PICK m \in Nat : m = n - 1  BY <3>1
        <5>2. /\ m < num_virt_addr /\ num_virt_addr \in Nat /\ UINT_MAX \in Nat
              /\ a \in Nat /\ a <= m /\ k \in Nat
          <6>1. n = m + 1  BY <3>1, <5>1, <1>4 DEF n
          <6>2. QED  BY <1>1, <4>4, <5>1, <6>1, Numbers, PagerAssumption
        <5>3. QED  BY <4>4, <5>2
      <4>6. (k + 1) % (UINT_MAX + 1) = k + 1  BY <4>5, ModSmall
      <4>7. QED  BY <4>1, <4>2, <4>6
    <3>6. Counts(Cardinality(B), num_swap_blocks'[q])
      BY <2>1, <3>2, <3>3, <3>4, <3>5, Numbers, PagerAssumption DEF Counts
    <3>7. QED  BY <3>6 DEF B
  <2>5. QED  BY <2>3, <2>4
<1>20. ProcInv'
  <2>1. num_swap_blocks' \in [Pids -> 0 .. UINT_MAX]
    <3>1. \A k \in 0 .. UINT_MAX : (k + 1) % (UINT_MAX + 1) \in 0 .. UINT_MAX
      BY PagerAssumption, ModRange
    <3>2. QED  BY <1>0, <1>2, <1>3, <3>1 DEF ProcInv
  <2>2. \A q \in Pids \ alive : data_location'[q] = <<>>  BY <1>0, <1>3, <1>17 DEF ProcInv
  <2>3. QED  BY <1>0, <1>2, <1>19, <2>1, <2>2 DEF ProcInv, CountsFit, M
<1>21. QED  BY <1>16, <1>20 DEF PagerInv, M


(* Process p gets a page that shows a new file-backed block. *)
NewFile(S, T, p, new) ==
    LET y == T.mem_block[new]
    IN  /\ T \in PagerState
        /\ T.clock_queue = S.clock_queue /\ T.free_mem_blocks = S.free_mem_blocks
        /\ T.free_swap_blocks = S.free_swap_blocks
        /\ T.file_mapping_table = S.file_mapping_table \cup {new}
        /\ OnePageMore(S, T, p, new)
        /\ \A c \in BlockIds \ {new} : T.mem_block[c] = S.mem_block[c]
        /\ ~y.resident /\ ~y.is_swap /\ y.filename \in Names /\ y.block_num \in FileBlocks
        /\ y.location = y.block_num /\ y.swap_blocks = <<>> /\ y.ptes = {NextPage(S, p)}

LEMMA NewFileWhole ==
    ASSUME NEW S, NEW T, NEW p \in Pids, NEW new \in BlockIds \ Referenced(S), Whole(S, {}, {}),
           Len(S.data_location[p]) < num_virt_addr, NewFile(S, T, p, new)
    PROVE  /\ Whole(T, {}, {}) /\ SwapPages(T, {}) = SwapPages(S, {})
           /\ PagesIn(T) = PagesIn(S) \cup {NextPage(S, p)}
<1> DEFINE pg == NextPage(S, p)
           y == T.mem_block[new]
<1>0. /\ Shape(S) /\ Pinned(S) /\ FilesInv(S) /\ FramesInv(S) /\ ResidentInv(S)
      /\ PtesInv(S, {}) /\ SwapInv(S, {}) /\ HomeInv(S) /\ S \in PagerState
  BY DEF Whole, Shape
<1>1. /\ T \in PagerState
      /\ T.clock_queue = S.clock_queue /\ T.free_mem_blocks = S.free_mem_blocks
      /\ T.free_swap_blocks = S.free_swap_blocks
      /\ T.file_mapping_table = S.file_mapping_table \cup {new}
      /\ OnePageMore(S, T, p, new)
      /\ \A c \in BlockIds \ {new} : T.mem_block[c] = S.mem_block[c]
  BY DEF NewFile
<1>2. /\ ~y.resident /\ ~y.is_swap /\ y.filename \in Names /\ y.block_num \in FileBlocks
      /\ y.location = y.block_num /\ y.swap_blocks = <<>> /\ y.ptes = {pg}
  BY DEF NewFile
<1>3. /\ Referenced(S) \subseteq BlockIds \ {new} /\ ToSet(S.clock_queue) \subseteq Referenced(S)
      /\ S.file_mapping_table \subseteq Referenced(S) /\ zero_page \in Referenced(S)
      /\ \A r \in PagesIn(S) : BlockIn(S, r) \in Referenced(S)
  BY <1>0, ReferencedMeaning
<1>4. \A c \in Referenced(S) : T.mem_block[c] = S.mem_block[c]  BY <1>1, <1>3
<1>5. /\ pg \in Pids \X VPages /\ pg \notin PagesIn(S)
      /\ PagesIn(T) = PagesIn(S) \cup {pg}
      /\ \A r \in PagesIn(S) : BlockIn(T, r) = BlockIn(S, r)
      /\ BlockIn(T, pg) = new
      /\ Showing(T, {}, new) = Showing(S, {}, new) \cup {pg}
      /\ \A c : c # new => Showing(T, {}, c) = Showing(S, {}, c)
      /\ T.data_location \in [Pids -> Seq(BlockIds)]
      /\ \A r \in Pids : Len(T.data_location[r]) <= num_virt_addr
  BY <1>0, <1>1, GrownPages
<1> HIDE DEF pg, y
<1>6. Showing(T, {}, new) = {pg}
  <2>1. Showing(S, {}, new) = {}  BY <1>3 DEF Showing
  <2>2. QED  BY <1>5, <2>1
<1>7. Shape(T)
  <2>1. PlaceOK(y)  BY <1>2 DEF PlaceOK
  <2>2. \A c \in BlockIds : PlaceOK(T.mem_block[c])  BY <1>0, <1>1, <2>1 DEF Shape, y
  <2>3. QED  BY <1>1, <1>5, <2>2 DEF Shape
<1>8. \A c : c \in Referenced(T) <=> c \in Referenced(S) \/ c = new
  <2>1. \A c : c \in Referenced(S) <=>
          \/ c = zero_page \/ c \in ToSet(S.clock_queue) \/ c \in S.file_mapping_table
          \/ \E r \in PagesIn(S) : BlockIn(S, r) = c
    BY <1>0, ReferencedMeaning
  <2>2. \A c : c \in Referenced(T) <=>
          \/ c = zero_page \/ c \in ToSet(T.clock_queue) \/ c \in T.file_mapping_table
          \/ \E r \in PagesIn(T) : BlockIn(T, r) = c
    BY <1>7, ReferencedMeaning
  <2>3. \A c : (\E r \in PagesIn(T) : BlockIn(T, r) = c)
               <=> c = new \/ \E r \in PagesIn(S) : BlockIn(S, r) = c
    BY <1>5
  <2>4. QED  BY <1>1, <2>1, <2>2, <2>3
<1>9. Pinned(T)  BY <1>0, <1>1, <1>3, <1>4 DEF Pinned
<1>10. FilesInv(T)
  <2>1. NamedOK(y)  BY <1>2 DEF NamedOK
  <2>2. \A c \in Referenced(T) : NamedOK(T.mem_block[c])
    BY <1>0, <1>4, <1>8, <2>1 DEF FilesInv, y
  <2>3. \A c \in T.file_mapping_table :
          ~T.mem_block[c].is_swap /\ (T.mem_block[c].resident \/ T.mem_block[c].ptes # {})
    BY <1>0, <1>1, <1>2, <1>3, <1>4 DEF FilesInv, y
  <2>4. QED  BY <2>2, <2>3 DEF FilesInv
<1>11. FramesInv(T)
  <2>1. \A c \in ToSet(S.clock_queue) : T.mem_block[c] = S.mem_block[c]  BY <1>3, <1>4
  <2>2. QED  BY <1>0, <1>1, <2>1 DEF FramesInv
<1>12. ResidentInv(T)
  <2>1. new \notin ToSet(T.clock_queue)  BY <1>1, <1>3
  <2>2. QED  BY <1>0, <1>1, <1>2, <1>4, <1>8, <2>1 DEF ResidentInv, y
<1>13. PtesInv(T, {})
  <2>1. \A c \in Referenced(S) : Showing(T, {}, c) = Showing(S, {}, c)  BY <1>3, <1>5
  <2>2. QED  BY <1>0, <1>2, <1>3, <1>4, <1>6, <1>8, <2>1 DEF PtesInv, y
<1>14. SwapPages(T, {}) = SwapPages(S, {})
  <2>1. \A r \in PagesIn(S) : T.mem_block[BlockIn(T, r)].is_swap
                                <=> S.mem_block[BlockIn(S, r)].is_swap
    BY <1>3, <1>4, <1>5
  <2>2. ~T.mem_block[BlockIn(T, pg)].is_swap  BY <1>2, <1>5 DEF y
  <2>3. QED  BY <1>5, <2>1, <2>2 DEF SwapPages
<1>15. SwapInv(T, {})
  <2>1. \A c \in Referenced(S) : Len(T.mem_block[c].swap_blocks) =
          IF T.mem_block[c].is_swap THEN Cardinality(Showing(T, {}, c)) ELSE 0
    <3>1. ASSUME NEW c \in Referenced(S)
          PROVE  T.mem_block[c] = S.mem_block[c] /\ Showing(T, {}, c) = Showing(S, {}, c)
      BY <1>3, <1>4, <1>5
    <3>2. QED  BY <1>0, <3>1 DEF SwapInv
  <2>2. Len(y.swap_blocks) = 0 /\ ~y.is_swap  BY <1>2
  <2>3. \A c \in Referenced(T) : Len(T.mem_block[c].swap_blocks) =
          IF T.mem_block[c].is_swap THEN Cardinality(Showing(T, {}, c)) ELSE 0
    BY <1>8, <2>1, <2>2 DEF y
  <2>4. \A k \in SwapBlocks : \/ k \in ToSet(T.free_swap_blocks)
                              \/ \E c \in Referenced(T) : k \in ToSet(T.mem_block[c].swap_blocks)
    BY <1>0, <1>1, <1>4, <1>8 DEF SwapInv
  <2>5. QED  BY <1>0, <1>1, <1>14, <2>3, <2>4 DEF SwapInv
<1>16. HomeInv(T)
  <2>1. \A c \in ToSet(S.clock_queue) : T.mem_block[c] = S.mem_block[c]  BY <1>3, <1>4
  <2>2. QED  BY <1>0, <1>1, <2>1 DEF HomeInv
<1>17. QED
  BY <1>5, <1>7, <1>9, <1>10, <1>11, <1>12, <1>13, <1>14, <1>15, <1>16 DEF Whole, pg

LEMMA MapFileBlock ==
    ASSUME NEW S, Whole(S, {}, {}), NEW p \in Pids, Len(S.data_location[p]) < num_virt_addr,
           NEW name \in Names, NEW blk \in FileBlocks, NEW n, n = Len(S.data_location[p]) + 1,
           NEW T, T = map_file_block(S, p, n, name, blk)
    PROVE  /\ Whole(T, {}, {}) /\ SwapPages(T, {}) = SwapPages(S, {})
           /\ PagesIn(T) = PagesIn(S) \cup {<<p, n>>}
           /\ NewFile(S, T, p, Unused(S)) /\ FileKey(T.mem_block[Unused(S)]) = <<name, blk>>
           /\ Unused(S) \in BlockIds \ Referenced(S)
<1> DEFINE new == Unused(S)
           y == [NewBlock(blk, FALSE, name, blk) EXCEPT
                   !.resident = FALSE, !.referenced = FALSE, !.ptes = {<<p, n>>}]
           e == [ppage |-> blk, read_enable |-> FALSE, write_enable |-> FALSE]
           mb == [S.mem_block EXCEPT ![new] = y]
           fmt == S.file_mapping_table \cup {new}
           dl == [S.data_location EXCEPT ![p] = Append(@, new)]
           pt == [S.page_table EXCEPT ![p][n] = e]
<1>0. Shape(S) /\ S \in PagerState  BY DEF Whole, Shape
<1>1. new \in BlockIds /\ new \notin Referenced(S)  BY UnusedLemma
<1>2. T = [S EXCEPT !.mem_block = mb, !.file_mapping_table = fmt,
                    !.data_location = dl, !.page_table = pt]
  BY DEF map_file_block
<1> HIDE DEF new
<1>3. n \in VPages /\ NextPage(S, p) = <<p, n>>
  <2>1. Len(S.data_location[p]) \in Nat  BY <1>0, PagesMeaning
  <2>2. QED  BY <2>1, Numbers DEF NextPage, VPages
<1>4. /\ y \in Block /\ ~y.resident /\ ~y.is_swap /\ y.filename = name /\ y.block_num = blk
      /\ y.location = blk /\ y.swap_blocks = <<>> /\ y.ptes = {<<p, n>>}
  <2>1. <<p, n>> \in Pids \X VPages /\ <<>> \in Seq(SwapBlocks)  BY <1>3
  <2>2. QED  BY <2>1 DEF NewBlock, Block
<1> HIDE DEF y
<1>5. /\ mb \in [BlockIds -> Block] /\ mb[new] = y
      /\ \A c \in BlockIds \ {new} : mb[c] = S.mem_block[c]
  <2>1. S.mem_block \in [BlockIds -> Block]  BY <1>0, Fields
  <2>2. QED  BY <1>1, <1>4, <2>1
<1>6. fmt \in SUBSET BlockIds  BY <1>0, <1>1, Fields
<1>7. dl \in [Pids -> Seq(BlockIds)]
  <2>1. S.data_location \in [Pids -> Seq(BlockIds)] /\ S.data_location[p] \in Seq(BlockIds)
    BY <1>0, Fields
  <2>2. Append(S.data_location[p], new) \in Seq(BlockIds)  BY <1>1, <2>1
  <2>3. QED  BY <2>1, <2>2
<1>8. pt \in [Pids -> [VPages -> Entry]]
  <2>1. S.page_table \in [Pids -> [VPages -> Entry]]  BY <1>0, Fields
  <2>2. e \in Entry  BY DEF Entry
  <2> HIDE DEF e
  <2>3. QED  BY <1>3, <2>1, <2>2
<1>9. \A U : U.data_location = dl => OnePageMore(S, U, p, new)  BY DEF OnePageMore
<1> HIDE DEF mb, dl, pt, fmt
<1>10. /\ T \in PagerState /\ T.mem_block = mb /\ T.clock_queue = S.clock_queue
       /\ T.free_mem_blocks = S.free_mem_blocks /\ T.free_swap_blocks = S.free_swap_blocks
       /\ T.file_mapping_table = fmt /\ T.data_location = dl
  BY <1>0, <1>2, <1>5, <1>6, <1>7, <1>8 DEF PagerState
<1>11. NewFile(S, T, p, new)  BY <1>3, <1>4, <1>5, <1>9, <1>10 DEF NewFile, fmt
<1>12. FileKey(T.mem_block[new]) = <<name, blk>>  BY <1>4, <1>5, <1>10 DEF FileKey
<1>13. QED  BY <1>1, <1>3, <1>11, <1>12, NewFileWhole DEF new

LEMMA UpdateFileBlock ==
    ASSUME NEW S, Whole(S, {}, {}), NEW p \in Pids, Len(S.data_location[p]) < num_virt_addr,
           NEW n, n = Len(S.data_location[p]) + 1, NEW b \in S.file_mapping_table,
           NEW reference \in S.mem_block[b].ptes \cup {<<p, n>>},
           NEW T, T = update_file_block(S, p, n, b, reference)
    PROVE  /\ Whole(T, {}, {}) /\ SwapPages(T, {}) = SwapPages(S, {})
           /\ PagesIn(T) = PagesIn(S) \cup {<<p, n>>}
           /\ Grown(S, T, p, b)
<1> DEFINE x == S.mem_block[b]
           on == x.resident /\ x.referenced
           y == [x EXCEPT !.ptes = @ \cup {<<p, n>>}]
           old == S.page_table[p][n]
           e == IF x.ptes # {} THEN S.page_table[reference[1]][reference[2]]
                ELSE [ppage |-> IF x.resident THEN x.location ELSE old.ppage,
                      read_enable |-> on, write_enable |-> on /\ x.dirty]
<1>0. Shape(S) /\ S \in PagerState /\ FilesInv(S)  BY DEF Whole, Shape
<1>1. b \in Referenced(S) /\ b \in BlockIds /\ ~x.is_swap
  BY <1>0, ReferencedMeaning DEF FilesInv
<1>2. n \in VPages /\ NextPage(S, p) = <<p, n>>
  <2>1. Len(S.data_location[p]) \in Nat  BY <1>0, PagesMeaning
  <2>2. QED  BY <2>1, Numbers DEF NextPage, VPages
<1>3. /\ S.mem_block \in [BlockIds -> Block] /\ x \in Block
      /\ S.page_table \in [Pids -> [VPages -> Entry]] /\ old \in Entry
  BY <1>0, <1>1, <1>2, Fields
<1>4. e \in Entry
  <2>1. reference \in Pids \X VPages  BY <1>2, <1>3 DEF Block
  <2>2. S.page_table[reference[1]][reference[2]] \in Entry  BY <1>3, <2>1
  <2>3. x.resident => x.location \in Frames  BY <1>0, <1>1 DEF Shape, PlaceOK
  <2>4. x.resident \in BOOLEAN /\ x.referenced \in BOOLEAN /\ x.dirty \in BOOLEAN
    BY <1>3 DEF Block
  <2>5. old.ppage \in Frames \cup FileBlocks  BY <1>3 DEF Entry
  <2> DEFINE f == IF x.resident THEN x.location ELSE old.ppage
             g == on /\ x.dirty
  <2>6. f \in Frames \cup FileBlocks /\ on \in BOOLEAN /\ g \in BOOLEAN  BY <2>3, <2>4, <2>5
  <2> HIDE DEF f, g, on
  <2>7. [ppage |-> f, read_enable |-> on, write_enable |-> g] \in Entry  BY <2>6 DEF Entry
  <2>8. QED  BY <2>2, <2>7 DEF f, g, on
<1>5. T = [S EXCEPT !.data_location[p] = Append(@, b), !.mem_block[b] = y,
                    !.page_table[p][NextPage(S, p)[2]] = e]
  <2>1. NextPage(S, p)[2] = n  BY <1>2
  <2> DEFINE dl == [S.data_location EXCEPT ![p] = Append(@, b)]
             mb == [S.mem_block EXCEPT ![b] = y]
             pt == [S.page_table EXCEPT ![p][n] = e]
  <2>2. T = [S EXCEPT !.mem_block = mb, !.data_location = dl, !.page_table = pt]
    BY <1>1, <1>2, <1>3 DEF update_file_block
  <2> HIDE DEF e, y
  <2>3. [S EXCEPT !.data_location[p] = Append(@, b), !.mem_block[b] = y,
                    !.page_table[p][NextPage(S, p)[2]] = e]
        = [S EXCEPT !.data_location = dl, !.mem_block = mb, !.page_table = pt]
    BY <1>0, <2>1 DEF PagerState
  <2> HIDE DEF dl, mb, pt
  <2>4. [S EXCEPT !.mem_block = mb, !.data_location = dl, !.page_table = pt]
        = [S EXCEPT !.data_location = dl, !.mem_block = mb, !.page_table = pt]
    BY <1>0 DEF PagerState
  <2>5. QED  BY <2>2, <2>3, <2>4
<1> HIDE DEF e
<1>6. /\ y \in Block /\ y.resident = x.resident /\ y.is_swap = x.is_swap
      /\ y.location = x.location /\ y.filename = x.filename /\ y.block_num = x.block_num
      /\ y.swap_blocks = x.swap_blocks /\ y.ptes = x.ptes \cup {NextPage(S, p)}
  <2>1. <<p, n>> \in Pids \X VPages  BY <1>2
  <2>2. QED  BY <1>2, <1>3, <2>1 DEF Block
<1> HIDE DEF y
<1>7. PageAdded(S, T, p, b)  BY <1>0, <1>1, <1>4, <1>5, <1>6, AddPage
<1>8. Grown(S, T, p, b)  BY <1>1, <1>7, GrownFile
<1>9. Whole(T, {}, {}) /\ SwapPages(T, {}) = SwapPages(S, {})
  BY <1>1, <1>8, GrownWhole
<1>10. PagesIn(T) = PagesIn(S) \cup {<<p, n>>}
  <2>1. OnePageMore(S, T, p, b)  BY <1>8 DEF Grown
  <2>2. QED  BY <1>0, <1>1, <1>2, <2>1, GrownPages
<1>11. QED  BY <1>8, <1>9, <1>10


(* The handlers that end with Becomes(S) for a state S as PagerInv wants it *)
LEMMA BecomesKeeps ==
    ASSUME PagerInv, NEW S, Whole(S, {}, {}), Becomes(S),
           SwapPages(S, {}) = SwapPages(Pager, {}),
           \A pg \in PagesIn(S) : pg \in PagesIn(Pager) \/ pg[1] \in alive,
           UNCHANGED <<procVars, accessible>>
    PROVE  PagerInv'
<1>1. Whole(Pager, {}, {})' /\ Steady(S, Pager')  BY BecomesWhole
<1>2. SwapPages(Pager', {}) = SwapPages(Pager, {}) /\ PagesIn(Pager') = PagesIn(S)
  BY <1>1 DEF Steady
<1>3. \A pg \in PagesIn(Pager') : pg \in PagesIn(Pager) \/ pg[1] \in alive  BY <1>2
<1>4. QED  BY <1>1, <1>2, <1>3, ProcKept

(* The current process and its pages *)
LEMMA CurrentProcess ==
    ASSUME PagerInv, curr_pid # NoPid
    PROVE  /\ Whole(Pager, {}, {}) /\ Shape(Pager) /\ Pager \in PagerState
           /\ Pager.data_location = data_location /\ Pager.mem_block = mem_block
           /\ curr_pid \in alive /\ curr_pid \in Pids
           /\ data_location[curr_pid] \in Seq(BlockIds) /\ Len(data_location[curr_pid]) \in Nat
           /\ \A v \in DOMAIN data_location[curr_pid] :
                /\ v \in VPages /\ <<curr_pid, v>> \in PagesIn(Pager)
                /\ BlockIn(Pager, <<curr_pid, v>>) = data_location[curr_pid][v]
                /\ data_location[curr_pid][v] \in BlockIds
                /\ data_location[curr_pid][v] \in Referenced(Pager)
<1>1. /\ Whole(Pager, {}, {}) /\ Shape(Pager) /\ Pager \in PagerState
      /\ Pager.data_location = data_location /\ Pager.mem_block = mem_block
  BY DEF PagerInv, Whole, Shape, Pager
<1>2. curr_pid \in alive /\ curr_pid \in Pids  BY DEF PagerInv, ProcInv
<1>3. /\ data_location[curr_pid] \in Seq(BlockIds) /\ Len(data_location[curr_pid]) \in Nat
      /\ \A v \in DOMAIN data_location[curr_pid] :
           /\ v \in VPages /\ <<curr_pid, v>> \in PagesIn(Pager)
           /\ BlockIn(Pager, <<curr_pid, v>>) = data_location[curr_pid][v]
  BY <1>1, <1>2, PagesMeaning
<1>4. \A v \in DOMAIN data_location[curr_pid] : data_location[curr_pid][v] \in Referenced(Pager)
  BY <1>1, <1>3, ReferencedMeaning
<1>5. Referenced(Pager) \subseteq BlockIds  BY <1>1, ReferencedMeaning
<1>6. QED  BY <1>1, <1>2, <1>3, <1>4, <1>5

LEMMA FaultKeeps ==
    ASSUME PagerInv, NEW v, NEW write_flag, Fault(v, write_flag)
    PROVE  PagerInv'
<1> DEFINE p == curr_pid
           b == data_location[p][v]
           S == MadeResident(Pager, b)
           T == IF S.mem_block[b].resident THEN Served(S, p, v, write_flag) ELSE S
<1>1. p # NoPid /\ v \in DOMAIN data_location[p] /\ Becomes(T)  BY DEF Fault
<1>2. UNCHANGED <<procVars, accessible>>  BY DEF Fault
<1>3. /\ Whole(Pager, {}, {}) /\ Shape(Pager) /\ p \in Pids
      /\ Pager.data_location = data_location
      /\ <<p, v>> \in PagesIn(Pager) /\ BlockIn(Pager, <<p, v>>) = b
  BY <1>1, CurrentProcess
<1>4. /\ Whole(S, {}, {}) /\ S.data_location = Pager.data_location
      /\ \A c \in BlockIds : S.mem_block[c].is_swap = Pager.mem_block[c].is_swap
  <2> DEFINE P == Pager
  <2> HIDE DEF P, b
  <2>1. /\ Whole(P, {}, {}) /\ <<p, v>> \in PagesIn(P) /\ BlockIn(P, <<p, v>>) = b
    BY <1>3 DEF P
  <2>2. /\ Whole(MadeResident(P, b), {}, {}) /\ MadeResident(P, b).data_location = P.data_location
        /\ \A c \in BlockIds : MadeResident(P, b).mem_block[c].is_swap = P.mem_block[c].is_swap
    BY <2>1, ResidentWhole
  <2>3. QED  BY <2>2 DEF P
<1> HIDE DEF S
<1>5. Steady(Pager, S)  BY <1>3, <1>4, SteadyIf
<1>6. Whole(T, {}, {}) /\ Steady(S, T)
  <2>1. CASE S.mem_block[b].resident
    <3>1. v \in DOMAIN S.data_location[p] /\ S.mem_block[S.data_location[p][v]].resident
      BY <1>1, <1>3, <1>4, <2>1
    <3>2. Whole(Served(S, p, v, write_flag), {}, {}) /\ Steady(S, Served(S, p, v, write_flag))
      BY <1>3, <1>4, <3>1, ServedWhole
    <3>3. QED  BY <2>1, <3>2
  <2>2. CASE ~S.mem_block[b].resident
    <3>1. T = S  BY <2>2
    <3>2. QED  BY <1>4, <3>1 DEF Steady
  <2>3. QED  BY <2>1, <2>2
<1> HIDE DEF T
<1>7. SwapPages(T, {}) = SwapPages(Pager, {}) /\ PagesIn(T) = PagesIn(Pager)
  BY <1>5, <1>6 DEF Steady
<1>8. QED  BY <1>1, <1>2, <1>6, <1>7, BecomesKeeps

(* Nobody gets or loses a page while blocks are brought in. *)
Settled(S, T) ==
    /\ Whole(T, {}, {}) /\ T.data_location = S.data_location
    /\ \A c \in BlockIds : T.mem_block[c].is_swap = S.mem_block[c].is_swap

LEMMA SettledResident ==
    ASSUME NEW S, NEW T, Whole(S, {}, {}), Settled(S, T), NEW p \in Pids,
           NEW v \in DOMAIN S.data_location[p], NEW b, b = S.data_location[p][v]
    PROVE  Settled(S, MadeResident(T, b))
<1>1. Whole(T, {}, {}) /\ Shape(T) /\ T.data_location = S.data_location
  BY DEF Settled, Whole
<1>2. <<p, v>> \in PagesIn(T) /\ BlockIn(T, <<p, v>>) = b  BY <1>1, PagesMeaning
<1>3. /\ Whole(MadeResident(T, b), {}, {}) /\ MadeResident(T, b).data_location = T.data_location
      /\ \A c \in BlockIds : MadeResident(T, b).mem_block[c].is_swap = T.mem_block[c].is_swap
  BY <1>1, <1>2, ResidentWhole
<1>4. QED  BY <1>1, <1>3 DEF Settled

LEMMA TouchedSettles ==
    ASSUME NEW S, NEW T, Whole(S, {}, {}), Settled(S, T), NEW p \in Pids,
           NEW v \in DOMAIN S.data_location[p]
    PROVE  Settled(S, Touched(T, p, v)) /\ Touched(T, p, v) = MadeResident(T, S.data_location[p][v])
<1>1. Touched(T, p, v) = MadeResident(T, S.data_location[p][v])  BY DEF Touched, Settled
<1>2. QED  BY <1>1, SettledResident

(* A name has been read after one or two pages. *)
LEMMA ReadNameIs ==
    ASSUME NEW S, Whole(S, {}, {}), NEW p \in Pids, NEW v \in DOMAIN S.data_location[p],
           NEW w \in DOMAIN S.data_location[p], NEW A, A = MadeResident(S, S.data_location[p][v])
    PROVE  /\ Settled(S, A) /\ Touched(S, p, v) = A
           /\ \/ ReadName(S, p, v, w) = A
              \/ ReadName(S, p, v, w) = MadeResident(A, S.data_location[p][w])
<1>1. Settled(S, S)  BY DEF Settled
<1>2. Settled(S, A) /\ Touched(S, p, v) = A  BY <1>1, TouchedSettles
<1>3. Touched(A, p, w) = MadeResident(A, S.data_location[p][w])  BY <1>2, TouchedSettles
<1>4. ReadName(S, p, v, w) = A \/ ReadName(S, p, v, w) = Touched(A, p, w)  BY <1>2 DEF ReadName
<1>5. QED  BY <1>2, <1>3, <1>4

LEMMA ReadNameSettles ==
    ASSUME NEW S, Whole(S, {}, {}), NEW p \in Pids,
           NEW v \in DOMAIN S.data_location[p], NEW w \in DOMAIN S.data_location[p]
    PROVE  Settled(S, ReadName(S, p, v, w))
<1> DEFINE A == MadeResident(S, S.data_location[p][v])
<1> HIDE DEF A
<1>1. Settled(S, A) /\ (\/ ReadName(S, p, v, w) = A
                        \/ ReadName(S, p, v, w) = MadeResident(A, S.data_location[p][w]))
  BY ReadNameIs DEF A
<1>2. Settled(S, MadeResident(A, S.data_location[p][w]))  BY <1>1, SettledResident
<1>3. QED  BY <1>1, <1>2

LEMMA ByteType ==
    ASSUME NEW S, NEW T, Whole(S, {}, {}), Settled(S, T), NEW p \in Pids,
           NEW v \in DOMAIN S.data_location[p], WasRead(T, p, v)
    PROVE  ByteOf(T, p, v) \in Data
<1> DEFINE x == T.mem_block[T.data_location[p][v]]
<1>1. Shape(T) /\ T \in PagerState /\ v \in DOMAIN T.data_location[p]
  BY DEF Settled, Whole, Shape
<1>2. T.data_location[p][v] \in BlockIds  BY <1>1, PagesMeaning
<1>3. PlaceOK(x) /\ x.resident  BY <1>1, <1>2 DEF Shape, WasRead
<1>4. x.location \in Frames /\ T.physmem \in [Frames -> Data]  BY <1>1, <1>3, Fields DEF PlaceOK
<1>5. QED  BY <1>4 DEF ByteOf

LEMMA NameType ==
    ASSUME PagerInv, curr_pid # NoPid, NEW v, NEW w, {v, w} \subseteq DOMAIN data_location[curr_pid],
           NameWasRead(Pager, curr_pid, v, w)
    PROVE  filename_str(curr_pid, v, w) \in Names
<1> DEFINE p == curr_pid
           A == Touched(Pager, p, v)
           B == ReadName(Pager, p, v, w)
<1>1. Whole(Pager, {}, {}) /\ Pager.data_location = data_location /\ p \in Pids
  BY CurrentProcess
<1>2. Settled(Pager, Pager) /\ Settled(Pager, B)  BY <1>1, ReadNameSettles DEF Settled
<1>3. Settled(Pager, A)  BY <1>1, <1>2, TouchedSettles
<1>4. WasRead(A, p, v) /\ WasRead(B, p, w)  BY DEF NameWasRead
<1> DEFINE a == ByteOf(A, p, v)
           b == ByteOf(B, p, w)
<1>5. filename_str(p, v, w) = IF v = w THEN <<a>> ELSE <<a, b>>  BY DEF filename_str
<1> HIDE DEF A, B
<1>6. a \in Data /\ b \in Data  BY <1>1, <1>2, <1>3, <1>4, ByteType
<1> HIDE DEF a, b
<1>7. QED  BY <1>5, <1>6 DEF Names

LEMMA MapFileKeeps ==
    ASSUME PagerInv, NEW v \in VPages, NEW w \in VPages, NEW blk \in FileBlocks, MapFile(v, w, blk)
    PROVE  PagerInv'
<1> DEFINE p == curr_pid
           n == Len(data_location[p]) + 1
           name == filename_str(p, v, w)
           S == ReadName(Pager, p, v, w)
<1>1. /\ p # NoPid /\ n <= num_virt_addr /\ v <= w /\ w <= v + 1
      /\ {v, w} \subseteq DOMAIN data_location[p]
      /\ IF NameWasRead(Pager, p, v, w) THEN MapNamed(S, p, n, name, blk) ELSE Becomes(S)
  BY DEF MapFile
<1>2. UNCHANGED <<procVars, accessible>>  BY DEF MapFile
<1>3. /\ Whole(Pager, {}, {}) /\ Shape(Pager) /\ p \in Pids /\ p \in alive
      /\ Pager.data_location = data_location /\ Len(data_location[p]) \in Nat
  BY <1>1, CurrentProcess
<1>4. NameWasRead(Pager, p, v, w) => name \in Names  BY <1>1, NameType
<1>5. Settled(Pager, S)  BY <1>1, <1>3, ReadNameSettles
<1> HIDE DEF S, name
<1>6. Whole(S, {}, {}) /\ S.data_location = data_location /\ Shape(S)
  BY <1>3, <1>5 DEF Settled, Whole
<1>7. SwapPages(S, {}) = SwapPages(Pager, {}) /\ PagesIn(S) = PagesIn(Pager)
  BY <1>3, <1>5, SteadyIf DEF Settled, Steady
<1>8. Len(S.data_location[p]) < num_virt_addr /\ n = Len(S.data_location[p]) + 1
  <2>1. PICK k \in Nat : k = Len(data_location[p])  BY <1>3
  <2>2. k < num_virt_addr  BY <1>1, <2>1, Numbers
  <2>3. QED  BY <1>6, <2>1, <2>2
<1> HIDE DEF n
<1>9. ASSUME NEW T, Becomes(T), Whole(T, {}, {}), SwapPages(T, {}) = SwapPages(S, {}),
             PagesIn(T) = PagesIn(S) \cup {<<p, n>>}
      PROVE  PagerInv'
  <2>1. \A pg \in PagesIn(T) : pg \in PagesIn(Pager) \/ pg[1] \in alive  BY <1>3, <1>7, <1>9
  <2>2. SwapPages(T, {}) = SwapPages(Pager, {})  BY <1>7, <1>9
  <2>3. QED  BY <1>2, <1>9, <2>1, <2>2, BecomesKeeps
<1>10. CASE ~NameWasRead(Pager, p, v, w)
  <2>1. Becomes(S)  BY <1>1, <1>10
  <2>2. QED  BY <1>2, <1>6, <1>7, <2>1, BecomesKeeps
<1>11. CASE NameWasRead(Pager, p, v, w)
  <2>1. MapNamed(S, p, n, name, blk)  BY <1>1, <1>11
  <2>2. CASE Becomes(map_file_block(S, p, n, name, blk))
    <3> DEFINE T == map_file_block(S, p, n, name, blk)
    <3>1. /\ Whole(T, {}, {}) /\ SwapPages(T, {}) = SwapPages(S, {})
          /\ PagesIn(T) = PagesIn(S) \cup {<<p, n>>}
      BY <1>3, <1>4, <1>6, <1>8, <1>11, MapFileBlock
    <3> HIDE DEF T
    <3>2. QED  BY <1>9, <2>2, <3>1 DEF T
  <2>3. ASSUME NEW b \in S.file_mapping_table, NEW reference \in S.mem_block[b].ptes \cup {<<p, n>>},
               Becomes(update_file_block(S, p, n, b, reference))
        PROVE  PagerInv'
    <3> DEFINE T == update_file_block(S, p, n, b, reference)
    <3>1. /\ Whole(T, {}, {}) /\ SwapPages(T, {}) = SwapPages(S, {})
          /\ PagesIn(T) = PagesIn(S) \cup {<<p, n>>}
      BY <1>3, <1>6, <1>8, UpdateFileBlock
    <3> HIDE DEF T
    <3>2. QED  BY <1>9, <2>3, <3>1 DEF T
  <2>4. QED  BY <2>1, <2>2, <2>3 DEF MapNamed
<1>12. QED  BY <1>10, <1>11

LEMMA MapFileInvalidKeeps ==
    ASSUME PagerInv, MapFileInvalid
    PROVE  PagerInv'
<1> DEFINE p == curr_pid
           s == data_location[p]
           S == Touched(Pager, p, Len(s))
<1>1. p # NoPid /\ Len(s) \in 1 .. num_virt_addr - 1 /\ Becomes(S)  BY DEF MapFileInvalid
<1>2. UNCHANGED <<procVars, accessible>>  BY DEF MapFileInvalid
<1>3. /\ Whole(Pager, {}, {}) /\ Shape(Pager) /\ p \in Pids
      /\ Pager.data_location = data_location /\ s \in Seq(BlockIds)
  BY <1>1, CurrentProcess
<1>4. Len(s) \in DOMAIN s
  <2>1. Len(s) \in Nat /\ DOMAIN s = 1 .. Len(s)  BY <1>3
  <2>2. QED  BY <1>1, <2>1
<1>5. Settled(Pager, Pager)  BY <1>3 DEF Settled
<1>6. Settled(Pager, S)  BY <1>3, <1>4, <1>5, TouchedSettles
<1> HIDE DEF S
<1>7. Whole(S, {}, {}) /\ SwapPages(S, {}) = SwapPages(Pager, {}) /\ PagesIn(S) = PagesIn(Pager)
  BY <1>3, <1>6, SteadyIf DEF Settled, Steady
<1>8. QED  BY <1>1, <1>2, <1>7, BecomesKeeps

LEMMA StoreKeeps ==
    ASSUME PagerInv, NEW v \in VPages, NEW d \in Data, Store(v, d)
    PROVE  PagerInv'
<1> DEFINE M == Pager'
           pm == [physmem EXCEPT ![page_table[curr_pid][v].ppage] = d]
<1>1. /\ swap_file' = swap_file /\ files' = files /\ mem_block' = mem_block
      /\ clock_queue' = clock_queue /\ free_mem_blocks' = free_mem_blocks
      /\ free_swap_blocks' = free_swap_blocks /\ file_mapping_table' = file_mapping_table
      /\ page_table' = page_table /\ data_location' = data_location /\ physmem' = pm
  BY DEF Store
<1>2. UNCHANGED <<procVars, accessible>>  BY DEF Store
<1>3. Whole(Pager, {}, {}) /\ Shape(Pager) /\ Pager \in PagerState  BY DEF PagerInv, Whole, Shape
<1>4. pm \in [Frames -> Data]
  <2>1. physmem \in [Frames -> Data]  BY <1>3, Fields DEF Pager
  <2>2. QED  BY <2>1
<1> HIDE DEF pm
<1>5. M = [Pager EXCEPT !.physmem = pm]  BY <1>1 DEF Pager
<1> HIDE DEF M
<1>6. M \in PagerState /\ Unmoved(Pager, M)
  <2> DEFINE S == Pager
  <2> HIDE DEF S
  <2>1. S \in PagerState /\ M = [S EXCEPT !.physmem = pm]  BY <1>3, <1>5 DEF S
  <2>2. /\ M \in PagerState /\ M.mem_block = S.mem_block /\ M.clock_queue = S.clock_queue
        /\ M.free_mem_blocks = S.free_mem_blocks /\ M.free_swap_blocks = S.free_swap_blocks
        /\ M.file_mapping_table = S.file_mapping_table /\ M.data_location = S.data_location
    BY <1>4, <2>1 DEF PagerState
  <2>3. Unmoved(S, M)  BY <2>2 DEF Unmoved, Alike
  <2>4. QED  BY <2>2, <2>3 DEF S
<1>7. Whole(M, {}, {})  BY <1>3, <1>6, UnmovedWhole
<1>8. Steady(Pager, M)  BY <1>3, <1>6, SteadyIf DEF Unmoved, Alike
<1>9. SwapPages(Pager', {}) = SwapPages(Pager, {}) /\ PagesIn(Pager') = PagesIn(Pager)
  BY <1>8 DEF Steady, M
<1>10. Whole(Pager, {}, {})'  BY <1>7 DEF M
<1>11. \A pg \in PagesIn(Pager') : pg \in PagesIn(Pager) \/ pg[1] \in alive  BY <1>9
<1>12. QED  BY <1>2, <1>9, <1>10, <1>11, ProcKept

(* Steps that leave the pager's own state alone *)
LEMMA PagerSame ==
    ASSUME Whole(Pager, {}, {}), UNCHANGED pagerVars
    PROVE  Whole(Pager, {}, {})' /\ Pager' = Pager
<1>1. Pager' = Pager  BY DEF pagerVars, Pager
<1>2. QED  BY <1>1

LEMMA SwitchKeeps ==
    ASSUME PagerInv, NEW p \in Pids, Switch(p)
    PROVE  PagerInv'
<1>1. Whole(Pager, {}, {})' /\ Pager' = Pager  BY PagerSame DEF PagerInv, Switch
<1>2. data_location' = data_location  BY DEF Switch, pagerVars
<1>3. ProcInv'  BY <1>1, <1>2 DEF PagerInv, ProcInv, CountsFit, Switch
<1>4. QED  BY <1>1, <1>3 DEF PagerInv

LEMMA FileAppearsKeeps ==
    ASSUME PagerInv, NEW k, FileAppears(k)
    PROVE  PagerInv'
<1>1. Whole(Pager, {}, {})' /\ Pager' = Pager  BY PagerSame DEF PagerInv, FileAppears
<1>2. /\ data_location' = data_location /\ num_swap_blocks' = num_swap_blocks
      /\ managed' = managed /\ curr_pid' = curr_pid /\ alive' = alive
      /\ accessible' = accessible \cup {k} /\ k \in Existing
  BY DEF FileAppears, pagerVars, procVars
<1>3. ProcInv'  BY <1>1, <1>2 DEF PagerInv, ProcInv, CountsFit
<1>4. QED  BY <1>1, <1>3 DEF PagerInv


LEMMA CreateKeeps ==
    ASSUME PagerInv, NEW p \in Pids \cup {NoPid}, NEW c \in Pids, Create(p, c)
    PROVE  PagerInv'
<1>0. Whole(Pager, {}, {}) /\ ProcInv /\ Shape(Pager) /\ Pager.data_location = data_location
  BY DEF PagerInv, Whole, Pager
<1>1. /\ c \notin alive /\ (p = curr_pid \/ p \notin managed) /\ managed' = managed \cup {c}
      /\ curr_pid' = curr_pid /\ accessible' = accessible
  BY DEF Create
<1>2. PICK n \in Leftovers :
         IF p \notin managed
         THEN /\ num_swap_blocks' = [num_swap_blocks EXCEPT ![c] = n]
              /\ alive' = alive \cup {c}
              /\ UNCHANGED pagerVars
         ELSE IF num_swap_blocks[p] > Len(free_swap_blocks)
         THEN /\ num_swap_blocks' = [num_swap_blocks EXCEPT ![c] = n]
              /\ UNCHANGED <<alive, pagerVars>>
         ELSE /\ Becomes(Copied(p, c)[Len(data_location[p])])
              /\ num_swap_blocks' = [num_swap_blocks EXCEPT ![c] = num_swap_blocks[p]]
              /\ alive' = alive \cup {c}
  BY DEF Create
<1>3. /\ n \in 0 .. UINT_MAX /\ data_location[c] = <<>>
      /\ num_swap_blocks \in [Pids -> 0 .. UINT_MAX]
      /\ alive \subseteq Pids /\ managed' \subseteq Pids /\ Counts(0, n)
  <2>1. n \in 0 .. UINT_MAX /\ UINT_MAX \in Nat  BY PagerAssumption
  <2>2. n + num_virt_addr <= UINT_MAX  BY <1>0 DEF ProcInv, CountsFit
  <2>3. Counts(0, n)  BY <2>1, <2>2, Numbers DEF Counts
  <2>4. QED  BY <1>0, <1>1, <2>1, <2>3 DEF ProcInv
<1>4. CASE UNCHANGED pagerVars /\ num_swap_blocks' = [num_swap_blocks EXCEPT ![c] = n]
           /\ (alive' = alive \/ alive' = alive \cup {c})
  <2>1. Whole(Pager, {}, {})' /\ Pager' = Pager  BY <1>0, <1>4, PagerSame
  <2>2. data_location' = data_location  BY <1>4 DEF pagerVars
  <2>3. num_swap_blocks' \in [Pids -> 0 .. UINT_MAX] /\ num_swap_blocks'[c] = n
        /\ \A q \in alive : num_swap_blocks'[q] = num_swap_blocks[q]
    BY <1>1, <1>3, <1>4
  <2>4. Cardinality(SwapPagesOf(Pager, c)) = 0
    <3>1. DOMAIN data_location[c] = {}  BY <1>3
    <3>2. SwapPagesOf(Pager, c) = {}  BY <1>0, <3>1 DEF SwapPagesOf
    <3>3. QED  BY <3>2, FS_EmptySet
  <2>5. \A q \in alive' : Counts(Cardinality(SwapPagesOf(Pager, q)), num_swap_blocks'[q])
    BY <1>0, <1>3, <1>4, <2>3, <2>4 DEF ProcInv
  <2>6. \A q \in Pids \ alive' : data_location'[q] = <<>>  BY <1>0, <1>4, <2>2 DEF ProcInv
  <2>7. alive' \subseteq managed' /\ curr_pid' \in alive' \cup {NoPid}
    BY <1>0, <1>1, <1>4 DEF ProcInv
  <2>8. ProcInv'
    BY <1>0, <1>1, <1>3, <2>1, <2>3, <2>5, <2>6, <2>7 DEF ProcInv, CountsFit
  <2>9. QED  BY <2>1, <2>8 DEF PagerInv
<1>5. CASE p \in managed /\ ~(num_swap_blocks[p] > Len(free_swap_blocks))
  <2> DEFINE N == Len(data_location[p])
             S == Copied(p, c)[N]
  <2>1. /\ Becomes(S) /\ num_swap_blocks' = [num_swap_blocks EXCEPT ![c] = num_swap_blocks[p]]
        /\ alive' = alive \cup {c}
    BY <1>2, <1>5
  <2>2. p \in alive /\ p \in Pids  BY <1>0, <1>1, <1>5, PagerAssumption DEF ProcInv
  <2>3. CopiedSoFar(S, p, c, N)  BY <1>1, <1>5, <2>2, CopyLoop
  <2> HIDE DEF S
  <2>4. /\ Whole(S, {}, {}) /\ Shape(S)
        /\ \A r \in Pids \ {c} : S.data_location[r] = data_location[r]
        /\ Len(S.data_location[c]) = N
        /\ \A i \in 1 .. N : S.data_location[c][i] = data_location[p][i]
        /\ \A b \in BlockIds : S.mem_block[b].is_swap = mem_block[b].is_swap
    BY <2>3 DEF CopiedSoFar, Whole
  <2> DEFINE M == Pager'
  <2>5. /\ Whole(M, {}, {}) /\ SwapPages(M, {}) = SwapPages(S, {}) /\ Shape(M)
        /\ data_location' = S.data_location
    BY <2>1, <2>4, BecomesWhole DEF Whole, Steady
  <2> HIDE DEF M
  <2>6. \A q \in Pids : SwapPagesOf(M, q) = SwapPagesOf(S, q)
    BY <2>4, <2>5, SwapPagesOfOne
  <2>7. Pager.mem_block = mem_block  BY DEF Pager
  <2>8. ASSUME NEW q \in Pids \ {c} PROVE SwapPagesOf(S, q) = SwapPagesOf(Pager, q)
    <3>1. S.data_location[q] = data_location[q]  BY <2>4
    <3>2. data_location[q] \in Seq(BlockIds)  BY <1>0, PagesMeaning
    <3>3. \A v \in DOMAIN data_location[q] : data_location[q][v] \in BlockIds  BY <3>2
    <3>4. QED  BY <1>0, <2>4, <2>7, <3>1, <3>3 DEF SwapPagesOf
  <2>9. SwapPagesOf(S, c) = SwapPagesOf(Pager, p)
    <3>1. DOMAIN data_location[p] = 1 .. N /\ data_location[p] \in Seq(BlockIds)
      BY <1>0, <2>2, PagesMeaning
    <3>2. DOMAIN S.data_location[c] = 1 .. N  BY <2>4, PagesMeaning
    <3>3. \A v \in 1 .. N : data_location[p][v] \in BlockIds  BY <3>1
    <3> HIDE DEF N
    <3>4. QED  BY <1>0, <2>4, <2>7, <3>1, <3>2, <3>3 DEF SwapPagesOf
  <2>10. /\ num_swap_blocks' \in [Pids -> 0 .. UINT_MAX] /\ num_swap_blocks'[c] = num_swap_blocks[p]
         /\ \A q \in alive : num_swap_blocks'[q] = num_swap_blocks[q]
    BY <1>1, <1>3, <2>1, <2>2
  <2>11. \A q \in alive' : Counts(Cardinality(SwapPagesOf(M, q)), num_swap_blocks'[q])
    <3>1. \A q \in alive : Counts(Cardinality(SwapPagesOf(Pager, q)), num_swap_blocks[q])
      BY <1>0 DEF ProcInv
    <3>2. \A q \in alive : q \in Pids \ {c}  BY <1>1, <1>3
    <3>3. QED  BY <2>1, <2>2, <2>6, <2>8, <2>9, <2>10, <3>1, <3>2
  <2>12. \A q \in Pids \ alive' : data_location'[q] = <<>>
    BY <1>0, <2>1, <2>4, <2>5 DEF ProcInv
  <2>13. alive' \subseteq managed' /\ curr_pid' \in alive' \cup {NoPid}
    BY <1>0, <1>1, <2>1 DEF ProcInv
  <2>14. ProcInv'
    BY <1>0, <1>1, <1>3, <2>10, <2>11, <2>12, <2>13 DEF ProcInv, CountsFit, M
  <2>15. QED  BY <2>5, <2>14 DEF PagerInv, M
<1>6. QED
  <2>1. CASE p \notin managed  BY <1>2, <1>4, <2>1
  <2>2. CASE p \in managed /\ num_swap_blocks[p] > Len(free_swap_blocks)
    BY <1>2, <1>4, <2>2
  <2>3. QED  BY <1>5, <2>1, <2>2

-----------------------------------------------------------------------------
(* The invariant.                                                          *)

LEMMA InitWhole ==
    ASSUME CountsFit, Init
    PROVE  PagerInv
<1> DEFINE zero == NewBlock(0, TRUE, NoName, 0)
           free == [i \in 1 .. memory_pages - 1 |-> i]
           swap == [i \in 1 .. swap_blocks |-> i - 1]
           S == Pager
<1>0. /\ S.clock_queue = <<>> /\ S.free_mem_blocks = free /\ S.free_swap_blocks = swap
      /\ S.file_mapping_table = {} /\ S.data_location = [p \in Pids |-> <<>>]
      /\ S.mem_block = [b \in BlockIds |-> IF b = zero_page THEN zero ELSE NoBlock]
      /\ S.physmem = [f \in Frames |-> 0] /\ S.swap_file = [b \in SwapBlocks |-> 0]
      /\ S.files = [k \in FileKeys |-> 0]
      /\ S.page_table = [p \in Pids |-> [v \in VPages |-> NoEntry]]
  BY DEF Init, Pager
<1>1. zero \in Block /\ NoBlock \in Block /\ NoEntry \in Entry
  BY Numbers DEF NewBlock, NoBlock, Block, NoEntry, Entry
<1>2. /\ free \in Seq(Frames) /\ swap \in Seq(SwapBlocks) /\ Len(swap) = swap_blocks
      /\ DOMAIN free = 1 .. memory_pages - 1 /\ DOMAIN swap = 1 .. swap_blocks
  <2>1. memory_pages - 1 \in Nat /\ \A i \in 1 .. memory_pages - 1 : i \in Frames
    BY Numbers DEF Frames
  <2>2. \A i \in 1 .. swap_blocks : i - 1 \in SwapBlocks  BY Numbers DEF SwapBlocks
  <2>3. QED  BY <2>1, <2>2, Numbers
<1>3. S \in PagerState
  <2>1. <<>> \in Seq(BlockIds)  OBVIOUS
  <2>2. S = [physmem |-> S.physmem, swap_file |-> S.swap_file, files |-> S.files,
             mem_block |-> S.mem_block, clock_queue |-> S.clock_queue,
             free_mem_blocks |-> S.free_mem_blocks, free_swap_blocks |-> S.free_swap_blocks,
             file_mapping_table |-> S.file_mapping_table, page_table |-> S.page_table,
             data_location |-> S.data_location]
    BY DEF Pager
  <2>3. S.free_mem_blocks \in Seq(Frames) /\ S.free_swap_blocks \in Seq(SwapBlocks)
    BY <1>0, <1>2
  <2> HIDE DEF S, zero
  <2>4. /\ S.mem_block \in [BlockIds -> Block] /\ S.data_location \in [Pids -> Seq(BlockIds)]
        /\ S.physmem \in [Frames -> Data] /\ S.swap_file \in [SwapBlocks -> Data]
        /\ S.files \in [FileKeys -> Data] /\ S.page_table \in [Pids -> [VPages -> Entry]]
        /\ S.clock_queue \in Seq(BlockIds) /\ S.file_mapping_table \in SUBSET BlockIds
    BY <1>0, <1>1, <2>1, Numbers
  <2>5. QED  BY <2>2, <2>3, <2>4 DEF PagerState
<1> HIDE DEF S
<1>4. /\ zero.resident /\ zero.is_swap /\ zero.location = 0 /\ zero.ptes = {}
      /\ zero.swap_blocks = <<>> /\ PlaceOK(zero) /\ PlaceOK(NoBlock)
  BY Numbers DEF NewBlock, NoBlock, PlaceOK
<1>5. /\ S.mem_block[zero_page] = zero
      /\ \A b \in BlockIds \ {zero_page} : S.mem_block[b] = NoBlock
  BY <1>0, Numbers
<1> HIDE DEF zero
<1>6. Shape(S)
  <2>1. \A p \in Pids : Len(S.data_location[p]) <= num_virt_addr  BY <1>0, Numbers
  <2>2. \A b \in BlockIds : PlaceOK(S.mem_block[b])  BY <1>4, <1>5
  <2>3. QED  BY <1>3, <2>1, <2>2 DEF Shape
<1>7. PagesIn(S) = {}
  <2>1. \A p \in Pids : DOMAIN S.data_location[p] = {}  BY <1>0
  <2>2. QED  BY <2>1 DEF PagesIn
<1>8. Referenced(S) = {zero_page}
  <2>1. ToSet(<<>>) = {}  BY EmptyLemma
  <2>2. \A c : c \in Referenced(S) <=> c = zero_page  BY <1>0, <1>6, <1>7, <2>1, ReferencedMeaning
  <2>3. QED  BY <2>2
<1>9. /\ \A b : Showing(S, {}, b) = {} /\ SwapPages(S, {}) = {}
  BY <1>7 DEF Showing, SwapPages
<1>10. ToSet(S.clock_queue) = {} /\ IsInjective(S.clock_queue)  BY <1>0, EmptyLemma
<1>11. Pinned(S)  BY <1>4, <1>5, <1>10 DEF Pinned
<1>12. FilesInv(S)  BY <1>0, <1>4, <1>5, <1>8 DEF FilesInv, NamedOK
<1>13. FramesInv(S)
  <2>1. IsInjective(free)  BY <1>2 DEF IsInjective
  <2>2. \A f : f \in ToSet(free) <=> f \in 1 .. memory_pages - 1  BY <1>2 DEF ToSet
  <2>3. \A f \in Frames \ {0} : f \in 1 .. memory_pages - 1  BY Numbers DEF Frames
  <2>4. 0 \notin 1 .. memory_pages - 1  OBVIOUS
  <2> HIDE DEF free
  <2>5. QED  BY <1>0, <1>10, <2>1, <2>2, <2>3, <2>4 DEF FramesInv
<1>14. ResidentInv(S)  BY <1>8 DEF ResidentInv
<1>15. PtesInv(S, {})  BY <1>4, <1>5, <1>8 DEF PtesInv
<1>16. SwapInv(S, {})
  <2>1. \A k \in SwapBlocks : k \in ToSet(swap)
    <3>1. \A k \in SwapBlocks : k + 1 \in 1 .. swap_blocks /\ (k + 1) - 1 = k
      BY Numbers DEF SwapBlocks
    <3>2. \A k \in SwapBlocks : swap[k + 1] = k  BY <3>1
    <3>3. QED  BY <1>2, <3>1, <3>2 DEF ToSet
  <2>2. Cardinality({}) = 0 /\ Len(<<>>) = 0  BY FS_EmptySet
  <2> HIDE DEF swap
  <2>3. Len(S.free_swap_blocks) + Cardinality(SwapPages(S, {})) = swap_blocks
    <3>1. Len(S.free_swap_blocks) = swap_blocks  BY <1>0, <1>2
    <3>2. Cardinality(SwapPages(S, {})) = 0  BY <1>9, <2>2
    <3>3. QED  BY <3>1, <3>2, Numbers
  <2>4. \A b \in Referenced(S) : Len(S.mem_block[b].swap_blocks) =
          IF S.mem_block[b].is_swap THEN Cardinality(Showing(S, {}, b)) ELSE 0
    BY <1>4, <1>5, <1>8, <1>9, <2>2
  <2>5. QED  BY <1>0, <2>1, <2>3, <2>4 DEF SwapInv
<1>17. HomeInv(S)  BY <1>10 DEF HomeInv
<1>18. Whole(S, {}, {})
  BY <1>6, <1>11, <1>12, <1>13, <1>14, <1>15, <1>16, <1>17 DEF Whole
<1>19. ProcInv  BY PagerAssumption DEF Init, ProcInv
<1>20. QED  BY <1>18, <1>19 DEF PagerInv, S

LEMMA NextKeeps ==
    ASSUME PagerInv, [Next]_vars
    PROVE  PagerInv'
<1>1. CASE \E p \in Pids \cup {NoPid}, c \in Pids : Create(p, c)  BY <1>1, CreateKeeps
<1>2. CASE \E p \in Pids : Switch(p)  BY <1>2, SwitchKeeps
<1>3. CASE \E v \in VPages : \E write_flag \in BOOLEAN : Fault(v, write_flag)
  BY <1>3, FaultKeeps
<1>4. CASE \E v \in VPages, d \in Data : Store(v, d)  BY <1>4, StoreKeeps
<1>5. CASE Destroy  BY <1>5, DestroyKeeps
<1>6. CASE MapSwap  BY <1>6, MapSwapKeeps
<1>7. CASE \E v, w \in VPages, blk \in FileBlocks : MapFile(v, w, blk)  BY <1>7, MapFileKeeps
<1>8. CASE MapFileInvalid  BY <1>8, MapFileInvalidKeeps
<1>9. CASE \E k \in FileKeys : FileAppears(k)  BY <1>9, FileAppearsKeeps
<1>10. CASE UNCHANGED vars
  <2>1. UNCHANGED pagerVars /\ UNCHANGED <<procVars, accessible>>  BY <1>10 DEF vars
  <2>2. Whole(Pager, {}, {})' /\ Pager' = Pager  BY <2>1, PagerSame DEF PagerInv
  <2>3. SwapPages(Pager', {}) = SwapPages(Pager, {}) /\ PagesIn(Pager') = PagesIn(Pager)
    BY <2>2
  <2>4. \A pg \in PagesIn(Pager') : pg \in PagesIn(Pager) \/ pg[1] \in alive  BY <2>3
  <2>5. QED  BY <2>1, <2>2, <2>3, <2>4, ProcKept
<1>11. QED
  BY <1>1, <1>2, <1>3, <1>4, <1>5, <1>6, <1>7, <1>8, <1>9, <1>10 DEF Next

(* The invariant holds of every state of the pager, for any number of      *)
(* processes, pages, frames and swap blocks, and any sequence of handlers, *)
(* if no uninitialised num_swap_blocks is so large that it wraps.          *)
THEOREM PagerCorrect == CountsFit /\ Spec => []PagerInv
<1>1. CountsFit /\ Init => PagerInv  BY InitWhole
<1>2. PagerInv /\ [Next]_vars => PagerInv'  BY NextKeeps
<1>3. QED  BY <1>1, <1>2, PTL DEF Spec


-----------------------------------------------------------------------------
(* What the invariant says of the properties the runs check.               *)

LEMMA TypeFollows ==
    ASSUME PagerInv
    PROVE  TypeOK
<1>1. Shape(Pager) /\ Pager \in PagerState /\ ProcInv  BY DEF PagerInv, Whole, Shape
<1>2. /\ physmem \in [Frames -> Data] /\ swap_file \in [SwapBlocks -> Data]
      /\ files \in [FileKeys -> Data] /\ mem_block \in [BlockIds -> Block]
      /\ clock_queue \in Seq(BlockIds) /\ free_mem_blocks \in Seq(Frames)
      /\ free_swap_blocks \in Seq(SwapBlocks) /\ file_mapping_table \in SUBSET BlockIds
      /\ page_table \in [Pids -> [VPages -> Entry]]
      /\ data_location \in [Pids -> Seq(BlockIds)]
  BY <1>1, Fields DEF Pager
<1>3. /\ \A p \in Pids : Len(data_location[p]) <= num_virt_addr
      /\ \A b \in BlockIds : PlaceOK(mem_block[b])
  BY <1>1 DEF Shape, Pager
<1>4. \A b \in BlockIds : mem_block[b].location \in
         IF mem_block[b].resident THEN Frames
         ELSE IF mem_block[b].is_swap THEN SwapBlocks ELSE FileBlocks
  BY <1>3 DEF PlaceOK
<1>5. /\ num_swap_blocks \in [Pids -> 0 .. UINT_MAX]
      /\ managed \subseteq Pids /\ alive \subseteq managed /\ curr_pid \in alive \cup {NoPid}
      /\ accessible \subseteq Existing
  BY <1>1 DEF ProcInv
<1>6. QED  BY <1>2, <1>3, <1>4, <1>5 DEF TypeOK

(* As many frames are free or in the queue as there are *)
LEMMA FramesFollow ==
    ASSUME PagerInv
    PROVE  FramesConserved
<1> DEFINE q == clock_queue
           free == free_mem_blocks
           loc == [b \in ToSet(q) |-> mem_block[b].location]
           A == ToSet(free)
           B == {mem_block[b].location : b \in ToSet(q)}
<1>0. /\ Shape(Pager) /\ FramesInv(Pager) /\ ResidentInv(Pager) /\ Pinned(Pager)
      /\ Pager \in PagerState
      /\ Pager.clock_queue = q /\ Pager.free_mem_blocks = free /\ Pager.mem_block = mem_block
  BY DEF PagerInv, Whole, Shape, Pager
<1>1. /\ IsInjective(q) /\ IsInjective(free) /\ 0 \notin A
      /\ \A b \in ToSet(q) : mem_block[b].location # 0 /\ mem_block[b].location \notin A
      /\ \A b, c \in ToSet(q) : mem_block[b].location = mem_block[c].location => b = c
      /\ \A f \in Frames \ {0} : f \in A \/ \E b \in ToSet(q) : mem_block[b].location = f
  BY <1>0 DEF FramesInv
<1>2. q \in Seq(BlockIds) /\ free \in Seq(Frames)  BY <1>0, Fields
<1>3. ToSet(q) \subseteq BlockIds /\ A \subseteq Frames  BY <1>2, ToSetType
<1>4. \A b \in ToSet(q) : mem_block[b].location \in Frames
  <2>1. \A b \in ToSet(q) : b \in Referenced(Pager) \ {zero_page}
    BY <1>0, ReferencedMeaning DEF Pinned
  <2>2. \A b \in ToSet(q) : mem_block[b].resident  BY <1>0, <2>1 DEF ResidentInv
  <2>3. QED  BY <1>0, <1>3, <2>2 DEF Shape, PlaceOK
<1>5. A \cup B = Frames \ {0}  BY <1>1, <1>3, <1>4
<1>6. /\ IsFiniteSet(ToSet(q)) /\ Cardinality(ToSet(q)) = Len(q)
      /\ IsFiniteSet(A) /\ Cardinality(A) = Len(free)
  BY <1>1, <1>2, InjectiveCardinality
<1>7. IsFiniteSet(B) /\ Cardinality(B) = Len(q)
  <2>1. loc \in Bijection(ToSet(q), B)
    BY <1>1 DEF Bijection, Injection, Surjection, IsInjective
  <2>2. ExistsBijection(ToSet(q), B)  BY <2>1 DEF ExistsBijection
  <2> HIDE DEF B
  <2>3. QED  BY <1>6, <2>2, FS_Bijection
<1>8. A \cap B = {}  BY <1>1
<1> HIDE DEF A, B
<1>9. Cardinality(A \cup B) = Cardinality(A) + Cardinality(B)
  <2>1. Cardinality(A \cup B) = Cardinality(A) + Cardinality(B) - Cardinality(A \cap B)
    BY <1>6, <1>7, FS_Union
  <2>2. Cardinality(A \cap B) = 0  BY <1>8, FS_EmptySet
  <2>3. Cardinality(A) \in Nat /\ Cardinality(B) \in Nat  BY <1>6, <1>7, FS_CardinalityType
  <2>4. QED  BY <2>1, <2>2, <2>3
<1>10. Cardinality(Frames \ {0}) = memory_pages - 1
  <2>1. Frames \ {0} = 1 .. memory_pages - 1  BY Numbers DEF Frames
  <2>2. Cardinality(1 .. memory_pages - 1) = memory_pages - 1  BY Numbers, FS_Interval
  <2>3. QED  BY <2>1, <2>2
<1>11. Len(free) + Len(q) = memory_pages - 1  BY <1>5, <1>6, <1>7, <1>9, <1>10
<1>12. \A b \in InUse \ {zero_page} : mem_block[b].resident <=> b \in ToSet(clock_queue)
  BY <1>0 DEF ResidentInv, InUse
<1>13. QED  BY <1>5, <1>11, <1>12 DEF FramesConserved, A, B

(* The pages of a state and those of the properties *)
LEMMA PagesFollow ==
    /\ Pages = PagesIn(Pager) /\ InUse = Referenced(Pager)
    /\ \A pg : BlockOf(pg) = BlockIn(Pager, pg)
    /\ \A b : PagesOf(b) = Showing(Pager, {}, b)
    /\ {pg \in Pages : mem_block[BlockOf(pg)].is_swap} = SwapPages(Pager, {})
<1>1. Pager.data_location = data_location /\ Pager.mem_block = mem_block  BY DEF Pager
<1>2. /\ Pages = PagesIn(Pager) /\ InUse = Referenced(Pager)
      /\ \A pg : BlockOf(pg) = BlockIn(Pager, pg)
  BY <1>1 DEF Pages, PagesIn, InUse, BlockOf, BlockIn
<1>3. \A b : PagesOf(b) = Showing(Pager, {}, b)  BY <1>2 DEF PagesOf, Showing
<1>4. {pg \in Pages : mem_block[BlockOf(pg)].is_swap} = SwapPages(Pager, {})
  BY <1>1, <1>2 DEF SwapPages
<1>5. QED  BY <1>2, <1>3, <1>4

LEMMA SwapFollows ==
    ASSUME PagerInv
    PROVE  SwapConserved
<1>0. /\ Shape(Pager) /\ SwapInv(Pager, {}) /\ Pager \in PagerState
      /\ Pager.mem_block = mem_block /\ Pager.free_swap_blocks = free_swap_blocks
  BY DEF PagerInv, Whole, Shape, Pager
<1>1. \A b \in InUse : Len(mem_block[b].swap_blocks) =
        IF mem_block[b].is_swap THEN Cardinality(PagesOf(b)) ELSE 0
  BY <1>0, PagesFollow DEF SwapInv
<1>2. Len(free_swap_blocks) + Cardinality({pg \in Pages : mem_block[BlockOf(pg)].is_swap})
        = swap_blocks
  BY <1>0, PagesFollow DEF SwapInv
<1>3. ToSet(free_swap_blocks) \cup UNION {ToSet(mem_block[b].swap_blocks) : b \in InUse}
        = SwapBlocks
  <2>1. \A k \in SwapBlocks : \/ k \in ToSet(free_swap_blocks)
                              \/ \E b \in InUse : k \in ToSet(mem_block[b].swap_blocks)
    BY <1>0, PagesFollow DEF SwapInv
  <2>2. ToSet(free_swap_blocks) \subseteq SwapBlocks
    BY <1>0, Fields, ToSetType
  <2>3. ASSUME NEW b \in InUse PROVE ToSet(mem_block[b].swap_blocks) \subseteq SwapBlocks
    <3>1. b \in BlockIds  BY <1>0, PagesFollow, ReferencedMeaning
    <3>2. mem_block[b] \in Block  BY <1>0, <3>1, Fields
    <3>3. mem_block[b].swap_blocks \in Seq(SwapBlocks)  BY <3>2 DEF Block
    <3>4. QED  BY <3>3, ToSetType
  <2>4. QED  BY <2>1, <2>2, <2>3
<1>4. QED  BY <1>1, <1>2, <1>3 DEF SwapConserved

LEMMA PtesFollow ==
    ASSUME PagerInv
    PROVE  PtesExact
<1>1. PtesInv(Pager, {}) /\ Pager.mem_block = mem_block  BY DEF PagerInv, Whole, Pager
<1>2. QED  BY <1>1, PagesFollow DEF PtesInv, PtesExact

(* Type correctness: in particular a block that has left memory is always  *)
(* found in its swap block or its file, never in a frame (evict_phys_page, *)
(* cache_nonresident_page).                                                *)
THEOREM PagerTypeCorrect == CountsFit /\ Spec => []TypeOK
<1>1. PagerInv => TypeOK  BY TypeFollows
<1>2. QED  BY <1>1, PagerCorrect, PTL

(* No frame of physical memory is lost or used twice by any sequence of    *)
(* faults, evictions, copies on write and exits, however many frames,      *)
(* processes and pages there are.                                          *)
THEOREM FramesAreConserved == CountsFit /\ Spec => []FramesConserved
<1>1. PagerInv => FramesConserved  BY FramesFollow
<1>2. QED  BY <1>1, PagerCorrect, PTL

(* Eager swap reservation: vm_map, vm_create, copy on write and vm_destroy *)
(* keep one swap block for every swap-backed page, and lose none.          *)
THEOREM SwapIsConserved == CountsFit /\ Spec => []SwapConserved
<1>1. PagerInv => SwapConserved  BY SwapFollows
<1>2. QED  BY <1>1, PagerCorrect, PTL

(* A mem_block's ptes are exactly the pages that show it, after any        *)
(* sequence of vm_map, vm_create, vm_fault and vm_destroy.                 *)
THEOREM PtesAreExact == CountsFit /\ Spec => []PtesExact
<1>1. PagerInv => PtesExact  BY PtesFollow
<1>2. QED  BY <1>1, PagerCorrect, PTL
=============================================================================
