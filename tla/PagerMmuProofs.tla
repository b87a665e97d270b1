--------------------------- MODULE PagerMmuProofs ---------------------------
(***************************************************************************)
(* Proofs about what the MMU sees of the pager: the page table entries of  *)
(* every valid page agree with the block it shows, and a load that they    *)
(* let through returns the datum the page holds.                           *)
(*                                                                         *)
(* As in PagerProofs the invariants are of a pager state S, and hold       *)
(* in the middle of a handler but for the pages that are being taken from  *)
(* their blocks.  Each helper keeps them, given what PagerProofs shows of  *)
(* the state the helper starts from.                                       *)
(***************************************************************************)
EXTENDS PagerProofs

Ent(S, pg) == S.page_table[pg[1]][pg[2]]

(* What MmuSound says of one page *)
PageOK(S, gone, pg) ==
    LET e == Ent(S, pg)
        x == S.mem_block[BlockIn(S, pg)]
    IN  /\ e.read_enable => x.resident
        /\ x.resident => e.ppage = x.location
        /\ e.write_enable => /\ e.read_enable /\ x.dirty
                             /\ x.is_swap => Showing(S, gone, BlockIn(S, pg)) = {pg}

(* Nobody writes to the pinned page, whose pages no block knows all of. *)
MmuInv(S, gone) ==
    /\ ~S.mem_block[zero_page].dirty
    /\ \A pg \in PagesIn(S) \ gone : PageOK(S, gone, pg)

-----------------------------------------------------------------------------
(* The loops over the ptes of a block.                                     *)

Painted(S, T, ptes, pg, new) == Ent(T, pg) = (IF pg \in ptes THEN new ELSE Ent(S, pg))

LEMMA PaintLoops ==
    ASSUME NEW S, S \in PagerState, NEW ptes, NEW pg \in Pids \X VPages
    PROVE  /\ Ent(S, pg) \in Entry
           /\ Painted(S, SetEntries(S, ptes, Disabled), ptes, pg, Disabled(Ent(S, pg)))
           /\ Painted(S, SetEntries(S, ptes, ReadOnly), ptes, pg, ReadOnly(Ent(S, pg)))
           /\ Painted(S, SetEntries(S, ptes, Readable), ptes, pg, Readable(Ent(S, pg)))
           /\ Painted(S, SetEntries(S, ptes, Writable), ptes, pg, Writable(Ent(S, pg)))
<1>1. PICK p \in Pids, v \in VPages : pg = <<p, v>>
  OBVIOUS
<1>2. S.page_table \in [Pids -> [VPages -> Entry]]
  BY Fields
<1>3. Ent(S, pg) = S.page_table[p][v] /\ Ent(S, pg) \in Entry
  BY <1>1, <1>2 DEF Ent
<1> DEFINE Loop(New(_)) == [a \in Pids |-> [w \in VPages |->
                              IF <<a, w>> \in ptes THEN New(S.page_table[a][w])
                              ELSE S.page_table[a][w]]]
<1>4. /\ SetEntries(S, ptes, Disabled).page_table = Loop(Disabled)
      /\ SetEntries(S, ptes, ReadOnly).page_table = Loop(ReadOnly)
      /\ SetEntries(S, ptes, Readable).page_table = Loop(Readable)
      /\ SetEntries(S, ptes, Writable).page_table = Loop(Writable)
  BY DEF SetEntries, PagerState
<1> QED
  BY <1>1, <1>3, <1>4 DEF Ent, Painted

LEMMA EntType ==
    ASSUME NEW S, S \in PagerState, NEW pg \in Pids \X VPages
    PROVE  Ent(S, pg) \in Entry
BY PaintLoops

(* The new entries *)
LEMMA EntryFields ==
    ASSUME NEW e \in Entry
    PROVE  /\ Disabled(e) \in Entry /\ ReadOnly(e) \in Entry
           /\ Readable(e) \in Entry /\ Writable(e) \in Entry
           /\ Disabled(e).ppage = e.ppage /\ ReadOnly(e).ppage = e.ppage
           /\ Readable(e).ppage = e.ppage /\ Writable(e).ppage = e.ppage
           /\ ~Disabled(e).read_enable /\ ~Disabled(e).write_enable
           /\ (ReadOnly(e).read_enable <=> e.read_enable) /\ ~ReadOnly(e).write_enable
           /\ Readable(e).read_enable /\ (Readable(e).write_enable <=> e.write_enable)
           /\ (Writable(e).read_enable <=> e.read_enable) /\ Writable(e).write_enable
BY DEF Entry, Disabled, ReadOnly, Readable, Writable

(* A step that keeps data_location: each page is all right by itself, or   *)
(* keeps its entry and what of its block matters.                          *)
Undisturbed(S, T, pg) ==
    LET x == S.mem_block[BlockIn(S, pg)]
        y == T.mem_block[BlockIn(S, pg)]
    IN  /\ Ent(T, pg) = Ent(S, pg)
        /\ y.resident = x.resident /\ y.location = x.location
        /\ x.dirty => y.dirty
        /\ y.is_swap = x.is_swap

LEMMA SettleMmu ==
    ASSUME NEW S, NEW T, NEW gone, MmuInv(S, gone), T.data_location = S.data_location,
           ~T.mem_block[zero_page].dirty,
           \A pg \in PagesIn(S) \ gone : Undisturbed(S, T, pg) \/ PageOK(T, gone, pg)
    PROVE  MmuInv(T, gone)
<1>1. /\ PagesIn(T) = PagesIn(S) /\ \A r : BlockIn(T, r) = BlockIn(S, r)
      /\ \A c : Showing(T, gone, c) = Showing(S, gone, c)
  BY SamePages
<1>2. ASSUME NEW pg \in PagesIn(S) \ gone, Undisturbed(S, T, pg) PROVE PageOK(T, gone, pg)
  BY <1>1, <1>2 DEF MmuInv, PageOK, Undisturbed
<1> QED
  BY <1>1, <1>2 DEF MmuInv

-----------------------------------------------------------------------------
(* Eviction and loading.                                                   *)

(* evict_phys_page disables all entries of the victim, and some more. *)
LEMMA EvictEntries ==
    ASSUME NEW S, NEW gone, NEW unswapped, Whole(S, gone, unswapped), S.clock_queue # <<>>
    PROVE  \E victim \in ToSet(S.clock_queue) : LET E == evict_phys_page(S) IN
             /\ Evicted(S, E, victim)
             /\ \A b \in BlockIds \ {victim} : E.mem_block[b].dirty = S.mem_block[b].dirty
             /\ \A pg \in Pids \X VPages :
                  \/ Ent(E, pg) = Ent(S, pg) /\ pg \notin S.mem_block[victim].ptes
                  \/ Ent(E, pg) = Disabled(Ent(S, pg))
<1> DEFINE q == S.clock_queue
           hand == ClockHand(S)
           passed == {q[i] : i \in 1 .. hand - 1}
           rest == FromHand(S)
           victim == Head(rest)
           b == S.mem_block[victim]
           off == UNION {S.mem_block[x].ptes : x \in passed \cup {victim}}
           T == SetEntries(S, off, Disabled)
           mb == [x \in BlockIds |->
                    IF x = victim
                    THEN [b EXCEPT !.resident = FALSE, !.dirty = FALSE, !.referenced = FALSE,
                                   !.location = HomeOf(b)]
                    ELSE [S.mem_block[x] EXCEPT !.referenced = @ /\ x \notin passed]]
           E == evict_phys_page(S)
<1>1. S \in PagerState /\ IsInjective(S.clock_queue) /\ Shape(S)
  BY DEF Whole, Shape, FramesInv
<1>2. victim \in ToSet(q) /\ ToSet(Tail(rest)) = ToSet(q) \ {victim}
  BY <1>1, FromHandLemma
<1>3. T \in PagerState
  BY <1>1, RepaintLoops DEF Repainted
<1>4. E.clock_queue = Tail(rest) /\ E.mem_block = mb /\ E.page_table = T.page_table
  <2>1. E = [T EXCEPT !.clock_queue = Tail(rest),
                  !.free_mem_blocks = Append(@, b.location),
                  !.mem_block = mb,
                  !.file_mapping_table = IF ~b.is_swap /\ b.ptes = {} THEN @ \ {victim} ELSE @,
                  !.swap_file = IF should_write(b) /\ b.is_swap
                                THEN [@ EXCEPT ![Head(b.swap_blocks)] = S.physmem[b.location]]
                                ELSE @,
                  !.files = IF should_write(b) /\ ~b.is_swap
                            THEN [@ EXCEPT ![FileKey(b)] = S.physmem[b.location]] ELSE @]
    BY DEF evict_phys_page
  <2> HIDE DEF E, T, mb, rest, victim, b
  <2>2. QED
    BY <1>3, <2>1 DEF PagerState
<1>5. PICK w \in ToSet(q) : Evicted(S, E, w)
  BY EvictEffect
<1> HIDE DEF rest, E
<1>6. w = victim
  <2>1. ToSet(E.clock_queue) = ToSet(q) \ {w}
    BY <1>5 DEF Evicted
  <2> QED
    BY <1>2, <1>4, <2>1
<1>7. ASSUME NEW x \in BlockIds \ {victim} PROVE E.mem_block[x].dirty = S.mem_block[x].dirty
  <2>1. S.mem_block[x] \in Block
    BY <1>1, Fields
  <2>2. E.mem_block[x] = [S.mem_block[x] EXCEPT !.referenced = @ /\ x \notin passed]
    BY <1>4
  <2> HIDE DEF passed
  <2> QED
    BY <2>1, <2>2 DEF Block
<1>8. ASSUME NEW pg \in Pids \X VPages
      PROVE  \/ Ent(E, pg) = Ent(S, pg) /\ pg \notin S.mem_block[victim].ptes
             \/ Ent(E, pg) = Disabled(Ent(S, pg))
  <2>1. S.mem_block[victim].ptes \subseteq off
    OBVIOUS
  <2> HIDE DEF off
  <2>2. Painted(S, T, off, pg, Disabled(Ent(S, pg)))
    BY <1>1, PaintLoops
  <2>3. Ent(E, pg) = Ent(T, pg)
    BY <1>4 DEF Ent
  <2> HIDE DEF T
  <2> QED
    BY <2>1, <2>2, <2>3 DEF Painted
<1> QED
  BY <1>2, <1>5, <1>6, <1>7, <1>8 DEF E

(* The block of a page that is not gone *)
LEMMA PageBlock ==
    ASSUME NEW S, NEW gone, NEW unswapped, Whole(S, gone, unswapped),
           NEW pg \in PagesIn(S) \ gone
    PROVE  LET b == BlockIn(S, pg) IN
           /\ pg \in Pids \X VPages /\ b \in BlockIds /\ b \in Referenced(S)
           /\ b # zero_page => /\ pg \in S.mem_block[b].ptes
                               /\ S.mem_block[b].ptes = Showing(S, gone, b)
           /\ \A c \in Referenced(S) : pg \in S.mem_block[c].ptes => c = b
<1>1. Shape(S) /\ PtesInv(S, gone)
  BY DEF Whole
<1>2. pg \in Pids \X VPages /\ BlockIn(S, pg) \in BlockIds
  BY <1>1, PagesType DEF PagesIn
<1>3. BlockIn(S, pg) \in Referenced(S)
  BY <1>1, ReferencedMeaning
<1>4. pg \in Showing(S, gone, BlockIn(S, pg))
  BY DEF Showing
<1>5. \A c \in Referenced(S) : S.mem_block[c].ptes \subseteq Showing(S, gone, c)
  BY <1>1 DEF PtesInv
<1> QED
  BY <1>1, <1>2, <1>3, <1>4, <1>5 DEF PtesInv, Showing

LEMMA EvictMmu ==
    ASSUME NEW S, NEW gone, NEW unswapped, Whole(S, gone, unswapped), S.clock_queue # <<>>,
           MmuInv(S, gone)
    PROVE  MmuInv(evict_phys_page(S), gone)
<1> DEFINE E == evict_phys_page(S)
<1>1. PICK victim \in ToSet(S.clock_queue) :
             /\ Evicted(S, E, victim)
             /\ \A b \in BlockIds \ {victim} : E.mem_block[b].dirty = S.mem_block[b].dirty
             /\ \A pg \in Pids \X VPages :
                  \/ Ent(E, pg) = Ent(S, pg) /\ pg \notin S.mem_block[victim].ptes
                  \/ Ent(E, pg) = Disabled(Ent(S, pg))
  BY EvictEntries
<1> HIDE DEF E
<1>2. victim # zero_page /\ zero_page \in BlockIds /\ S \in PagerState
  BY Numbers DEF Whole, Pinned, Shape
<1>3. E.data_location = S.data_location /\ ~E.mem_block[zero_page].dirty
  BY <1>1, <1>2 DEF Evicted, MmuInv
<1>4. ASSUME NEW pg \in PagesIn(S) \ gone
      PROVE  Undisturbed(S, E, pg) \/ PageOK(E, gone, pg)
  <2>1. PICK b : b = BlockIn(S, pg)
    OBVIOUS
  <2>2. /\ pg \in Pids \X VPages /\ b \in BlockIds
        /\ b # zero_page => pg \in S.mem_block[b].ptes
    BY <2>1, PageBlock
  <2>3. BlockIn(E, pg) = b /\ Ent(S, pg) \in Entry /\ PageOK(S, gone, pg)
    BY <1>2, <1>3, <2>1, <2>2, SamePages, EntType DEF MmuInv
  <2>4. CASE b # victim
    <3>1. /\ E.mem_block[b].resident = S.mem_block[b].resident
          /\ E.mem_block[b].location = S.mem_block[b].location
          /\ E.mem_block[b].is_swap = S.mem_block[b].is_swap
          /\ E.mem_block[b].dirty = S.mem_block[b].dirty
      BY <1>1, <2>2, <2>4 DEF Evicted, Alike
    <3>2. CASE Ent(E, pg) = Ent(S, pg)
      BY <2>1, <3>1, <3>2 DEF Undisturbed
    <3>3. CASE Ent(E, pg) = Disabled(Ent(S, pg))
      <4>1. /\ ~Ent(E, pg).read_enable /\ ~Ent(E, pg).write_enable
            /\ Ent(E, pg).ppage = Ent(S, pg).ppage
        BY <2>3, <3>3, EntryFields
      <4> QED
        BY <2>1, <2>3, <3>1, <4>1 DEF PageOK
    <3> QED
      BY <1>1, <2>2, <3>2, <3>3
  <2>5. CASE b = victim
    <3>1. Ent(E, pg) = Disabled(Ent(S, pg))
      BY <1>1, <1>2, <2>2, <2>5
    <3>2. ~Ent(E, pg).read_enable /\ ~Ent(E, pg).write_enable
      BY <2>3, <3>1, EntryFields
    <3>3. ~E.mem_block[b].resident
      BY <1>1, <2>5 DEF Evicted
    <3> QED
      BY <2>3, <3>2, <3>3 DEF PageOK
  <2> QED
    BY <2>4, <2>5
<1>5. MmuInv(E, gone)
  BY <1>3, <1>4, SettleMmu
<1> QED
  BY <1>5 DEF E

(* A frame is found, if need be by an eviction. *)
LEMMA FreeFrameMmu ==
    ASSUME NEW S, NEW gone, NEW unswapped, Whole(S, gone, unswapped), MmuInv(S, gone)
    PROVE  MmuInv(WithFreeFrame(S), gone)
<1>1. CASE S.free_mem_blocks # <<>>
  BY <1>1 DEF WithFreeFrame
<1>2. CASE S.free_mem_blocks = <<>>
  <2>1. S.clock_queue # <<>>
    <3>1. 1 \in Frames \ {0}
      BY Numbers DEF Frames
    <3>2. ToSet(S.free_mem_blocks) = {}
      BY <1>2, EmptyLemma
    <3>3. ToSet(S.clock_queue) # {}
      BY <3>1, <3>2 DEF Whole, FramesInv
    <3> QED
      BY <3>3, EmptyLemma
  <2> QED
    BY <1>2, <2>1, EvictMmu DEF WithFreeFrame
<1> QED
  BY <1>1, <1>2

(* cache_nonresident_page enables the entries of the block for reading. *)
LEMMA LoadEntries ==
    ASSUME NEW S, Whole(S, {}, {}), NEW b \in Referenced(S),
           ~S.mem_block[b].resident, CanRead(S, b)
    PROVE  LET E == WithFreeFrame(S)
               T == cache_nonresident_page(S, b)
               frame == Head(E.free_mem_blocks) IN
           /\ \A c \in BlockIds \ {b} : T.mem_block[c].dirty = E.mem_block[c].dirty
           /\ \A pg \in Pids \X VPages :
                /\ pg \notin E.mem_block[b].ptes => Ent(T, pg) = Ent(E, pg)
                /\ pg \in E.mem_block[b].ptes =>
                     Ent(T, pg) = [ppage |-> frame, read_enable |-> TRUE, write_enable |-> FALSE]
<1> DEFINE E == WithFreeFrame(S)
           R == cache_nonresident_page(S, b)
           frame == Head(E.free_mem_blocks)
           x == E.mem_block[b]
           Cached(e) == [ppage |-> frame, read_enable |-> TRUE, write_enable |-> FALSE]
           T == SetEntries(E, x.ptes, Cached)
           y == [x EXCEPT !.referenced = TRUE, !.resident = TRUE,
                          !.dirty = FALSE, !.location = frame]
           datum == IF x.is_swap THEN E.swap_file[x.location]
                    ELSE E.files[<<x.filename, x.location>>]
           on == [ppage |-> frame, read_enable |-> TRUE, write_enable |-> FALSE]
           pt == [p \in Pids |-> [v \in VPages |->
                     IF <<p, v>> \in x.ptes THEN on ELSE E.page_table[p][v]]]
<1>1. R = [T EXCEPT !.free_mem_blocks = Tail(@), !.clock_queue = Append(@, b),
                    !.mem_block[b] = y, !.physmem[frame] = datum]
  BY Zenon DEF cache_nonresident_page
<1>2. Whole(E, {}, {})
  BY FreeFrameWhole
<1> HIDE DEF E, R
<1>3. E \in PagerState
  BY <1>2 DEF Whole, Shape
<1>4. T = [E EXCEPT !.page_table = pt]
  BY DEF SetEntries
<1> HIDE DEF pt, y, datum, frame, T
<1>5. T.page_table = pt /\ T.mem_block = E.mem_block /\ DOMAIN T = DOMAIN E
  BY <1>3, <1>4 DEF PagerState
<1>6. R.page_table = pt /\ R.mem_block = [E.mem_block EXCEPT ![b] = y]
  BY <1>1, <1>3, <1>5 DEF PagerState
<1>7. \A c \in BlockIds \ {b} : R.mem_block[c].dirty = E.mem_block[c].dirty
  BY <1>3, <1>6, Fields
<1>8. ASSUME NEW pg \in Pids \X VPages
      PROVE  /\ pg \notin x.ptes => Ent(R, pg) = Ent(E, pg)
             /\ pg \in x.ptes => Ent(R, pg) = on
  <2>1. PICK p \in Pids, v \in VPages : pg = <<p, v>>
    OBVIOUS
  <2>2. Ent(R, pg) = IF <<p, v>> \in x.ptes THEN on ELSE E.page_table[p][v]
    BY <1>6, <2>1 DEF Ent, pt
  <2> QED
    BY <2>1, <2>2 DEF Ent
<1> QED
  BY <1>7, <1>8 DEF E, R, frame

LEMMA ResidentMmu ==
    ASSUME NEW S, Whole(S, {}, {}), MmuInv(S, {}), NEW pg \in PagesIn(S), NEW b,
           BlockIn(S, pg) = b
    PROVE  MmuInv(MadeResident(S, b), {})
<1> DEFINE E == WithFreeFrame(S)
           R == cache_nonresident_page(S, b)
           frame == Head(E.free_mem_blocks)
<1>1. Whole(E, {}, {}) /\ Kin(S, E) /\ MmuInv(E, {})
  BY FreeFrameWhole, FreeFrameMmu
<1>2. CASE S.mem_block[b].resident
  BY <1>2 DEF MadeResident
<1>3. CASE ~S.mem_block[b].resident /\ ~CanRead(S, b)
  <2>1. MadeResident(S, b) = E
    BY <1>3 DEF MadeResident, cache_nonresident_page
  <2> QED
    BY <1>1, <2>1
<1>4. CASE ~S.mem_block[b].resident /\ CanRead(S, b)
  <2>1. MadeResident(S, b) = R
    BY <1>4 DEF MadeResident
  <2>2. b \in Referenced(S) /\ b \in BlockIds /\ b # zero_page
    BY <1>4, ReferencedMeaning DEF Whole, Pinned
  <2>3. Loaded(E, R, b)
    BY <1>4, <2>2, LoadEffect
  <2>4. /\ \A c \in BlockIds \ {b} : R.mem_block[c].dirty = E.mem_block[c].dirty
        /\ \A qg \in Pids \X VPages :
                /\ qg \notin E.mem_block[b].ptes => Ent(R, qg) = Ent(E, qg)
                /\ qg \in E.mem_block[b].ptes =>
                     Ent(R, qg) = [ppage |-> frame, read_enable |-> TRUE, write_enable |-> FALSE]
    BY <1>4, <2>2, LoadEntries
  <2>5. frame = R.mem_block[b].location
    BY <2>3 DEF Loaded
  <2> HIDE DEF E, R, frame
  <2>6. R.data_location = E.data_location /\ ~R.mem_block[zero_page].dirty
    BY <1>1, <2>2, <2>3, <2>4, Numbers DEF Loaded, MmuInv
  <2>7. ASSUME NEW qg \in PagesIn(E) \ {}
        PROVE  Undisturbed(E, R, qg) \/ PageOK(R, {}, qg)
    <3>1. PICK c : c = BlockIn(E, qg)
      OBVIOUS
    <3>2. /\ qg \in Pids \X VPages /\ c \in BlockIds
          /\ c # zero_page => qg \in E.mem_block[c].ptes
          /\ \A d \in Referenced(E) : qg \in E.mem_block[d].ptes => d = c
      BY <1>1, <3>1, PageBlock
    <3>3. BlockIn(R, qg) = c
      BY <2>6, <3>1, SamePages
    <3>4. CASE c = b
      <4>1. Ent(R, qg) = [ppage |-> frame, read_enable |-> TRUE, write_enable |-> FALSE]
        BY <2>2, <2>4, <3>2, <3>4
      <4>2. R.mem_block[b].resident
        BY <2>3 DEF Loaded
      <4> QED
        BY <2>5, <3>3, <3>4, <4>1, <4>2 DEF PageOK
    <3>5. CASE c # b
      <4>1. b \in Referenced(E)
        <5>1. pg \in PagesIn(E) /\ BlockIn(E, pg) = b
          BY <1>1, SamePages DEF Kin
        <5> QED
          BY <1>1, <5>1, ReferencedMeaning DEF Whole
      <4>2. Ent(R, qg) = Ent(E, qg)
        BY <2>4, <3>2, <3>5, <4>1
      <4> QED
        BY <2>3, <2>4, <3>1, <3>2, <3>5, <4>2 DEF Undisturbed, Loaded, Alike
    <3> QED
      BY <3>4, <3>5
  <2>8. MmuInv(R, {})
    BY <1>1, <2>6, <2>7, SettleMmu
  <2> QED
    BY <2>1, <2>8 DEF R
<1> QED
  BY <1>2, <1>3, <1>4

-----------------------------------------------------------------------------
(* The helpers of vm_fault.                                                *)

(* The blocks of T are those of S but for the reference bit. *)
SameBlocks(S, T) ==
    /\ T.data_location = S.data_location
    /\ \A c \in BlockIds : /\ Alike(S.mem_block[c], T.mem_block[c])
                           /\ T.mem_block[c].dirty <=> S.mem_block[c].dirty

LEMMA ReadFaultEntries ==
    ASSUME NEW S, S \in PagerState, NEW b \in BlockIds, S.mem_block[b].resident
    PROVE  LET R == read_fault_handler(S, b)
               x == S.mem_block[b] IN
           /\ SameBlocks(S, R)
           /\ \A pg \in Pids \X VPages :
                /\ pg \notin x.ptes => Ent(R, pg) = Ent(S, pg)
                /\ pg \in x.ptes =>
                     /\ Ent(R, pg).ppage = Ent(S, pg).ppage /\ Ent(R, pg).read_enable
                     /\ Ent(R, pg).write_enable <=>
                          Ent(S, pg).write_enable \/ (x.dirty /\ Exclusive(x))
<1> DEFINE x == S.mem_block[b]
           on == x.dirty /\ Exclusive(x)
           V == SetEntries(S, x.ptes, Writable)
           T == IF on THEN V ELSE S
           Q == SetEntries(T, x.ptes, Readable)
           y == [[x EXCEPT !.referenced = TRUE] EXCEPT !.resident = TRUE]
           R == read_fault_handler(S, b)
<1>1. R = [Q EXCEPT !.mem_block[b].referenced = TRUE, !.mem_block[b].resident = TRUE]
  BY DEF read_fault_handler
<1>2. Repainted(S, V)
  BY RepaintLoops
<1>3. T \in PagerState /\ T.mem_block = S.mem_block
  BY <1>2 DEF Repainted
<1> HIDE DEF T
<1>4. Q \in PagerState /\ Q.mem_block = S.mem_block
  BY <1>3, RepaintLoops DEF Repainted
<1>5. R.page_table = Q.page_table
  <2> HIDE DEF Q, R
  <2> QED
    BY <1>1, <1>4 DEF PagerState
<1>6. SameBlocks(S, R)
  <2>1. Unmoved(S, R)
    BY ReadFault
  <2>2. x \in Block /\ S.mem_block \in [BlockIds -> Block]
    BY Fields
  <2>3. R.mem_block = [[S.mem_block EXCEPT ![b].referenced = TRUE] EXCEPT ![b].resident = TRUE]
    <3> HIDE DEF Q, R
    <3> QED
      BY <1>1, <1>4 DEF PagerState
  <2>4. R.mem_block = [S.mem_block EXCEPT ![b] = y]
    BY <2>2, <2>3
  <2>5. y.dirty <=> x.dirty
    BY <2>2 DEF Block
  <2> HIDE DEF y, R
  <2>6. \A c \in BlockIds : R.mem_block[c].dirty <=> S.mem_block[c].dirty
    BY <2>2, <2>4, <2>5
  <2> QED
    BY <2>1, <2>6 DEF SameBlocks, Unmoved
<1>7. ASSUME NEW pg \in Pids \X VPages
      PROVE  /\ pg \notin x.ptes => Ent(R, pg) = Ent(S, pg)
             /\ pg \in x.ptes =>
                  /\ Ent(R, pg).ppage = Ent(S, pg).ppage /\ Ent(R, pg).read_enable
                  /\ Ent(R, pg).write_enable <=> Ent(S, pg).write_enable \/ on
  <2>1. Ent(R, pg) = Ent(Q, pg)
    BY <1>5 DEF Ent
  <2>2. Painted(T, Q, x.ptes, pg, Readable(Ent(T, pg))) /\ Ent(T, pg) \in Entry
    BY <1>3, PaintLoops
  <2>3. Painted(S, V, x.ptes, pg, Writable(Ent(S, pg))) /\ Ent(S, pg) \in Entry
    BY PaintLoops
  <2> HIDE DEF V, R, Q
  <2>4. CASE pg \notin x.ptes
    <3>1. Ent(V, pg) = Ent(S, pg) /\ Ent(Q, pg) = Ent(T, pg)
      BY <2>2, <2>3, <2>4 DEF Painted
    <3>2. Ent(T, pg) = Ent(S, pg)
      BY <3>1 DEF T
    <3> QED
      BY <2>1, <2>4, <3>1, <3>2
  <2>5. CASE pg \in x.ptes
    <3>1. Ent(V, pg) = Writable(Ent(S, pg)) /\ Ent(Q, pg) = Readable(Ent(T, pg))
      BY <2>2, <2>3, <2>5 DEF Painted
    <3>2. /\ Ent(V, pg).ppage = Ent(S, pg).ppage /\ Ent(V, pg).write_enable
      BY <2>3, <3>1, EntryFields
    <3>3. /\ Ent(Q, pg).ppage = Ent(T, pg).ppage /\ Ent(Q, pg).read_enable
          /\ Ent(Q, pg).write_enable <=> Ent(T, pg).write_enable
      BY <2>2, <3>1, EntryFields
    <3>4. CASE on
      <4>1. Ent(T, pg) = Ent(V, pg)
        BY <3>4 DEF T
      <4> QED
        BY <2>1, <2>5, <3>2, <3>3, <3>4, <4>1
    <3>5. CASE ~on
      <4>1. Ent(T, pg) = Ent(S, pg)
        BY <3>5 DEF T
      <4> QED
        BY <2>1, <2>5, <3>3, <3>5, <4>1
    <3> QED
      BY <3>4, <3>5
  <2> QED
    BY <2>4, <2>5
<1> QED
  BY <1>6, <1>7 DEF R

LEMMA WriteFaultEntries ==
    ASSUME NEW S, S \in PagerState, NEW b \in BlockIds
    PROVE  LET W == write_fault_handler(S, b)
               x == S.mem_block[b] IN
           /\ W.mem_block[b].dirty
           /\ \A c \in BlockIds \ {b} : W.mem_block[c].dirty <=> S.mem_block[c].dirty
           /\ \A pg \in Pids \X VPages :
                /\ pg \notin x.ptes => Ent(W, pg) = Ent(S, pg)
                /\ pg \in x.ptes => Ent(W, pg).ppage = Ent(S, pg).ppage
<1> DEFINE x == S.mem_block[b]
           V == SetEntries(S, x.ptes, Writable)
           y == [x EXCEPT !.dirty = TRUE]
           W == write_fault_handler(S, b)
<1>1. W = [V EXCEPT !.mem_block[b].dirty = TRUE]
  BY DEF write_fault_handler
<1>2. V \in PagerState /\ V.mem_block = S.mem_block
  BY RepaintLoops DEF Repainted
<1>3. x \in Block /\ S.mem_block \in [BlockIds -> Block]
  BY Fields
<1>4. y.dirty
  BY <1>3 DEF Block
<1>5. W.page_table = V.page_table /\ W.mem_block = [S.mem_block EXCEPT ![b] = y]
  <2> HIDE DEF V, W
  <2> QED
    BY <1>1, <1>2, <1>3 DEF PagerState
<1>6. ASSUME NEW pg \in Pids \X VPages
      PROVE  /\ pg \notin x.ptes => Ent(W, pg) = Ent(S, pg)
             /\ pg \in x.ptes => Ent(W, pg).ppage = Ent(S, pg).ppage
  <2>1. Painted(S, V, x.ptes, pg, Writable(Ent(S, pg))) /\ Ent(S, pg) \in Entry
    BY PaintLoops
  <2>2. Ent(W, pg) = Ent(V, pg)
    BY <1>5 DEF Ent
  <2> HIDE DEF V, W
  <2> QED
    BY <2>1, <2>2, EntryFields DEF Painted
<1> HIDE DEF y, W
<1> QED
  BY <1>3, <1>4, <1>5, <1>6 DEF W

(* update_block_permissions: the one page left gets its permissions back. *)
LEMMA UpdateEntries ==
    ASSUME NEW S, S \in PagerState, NEW b \in BlockIds, NEW pg \in Pids \X VPages
    PROVE  LET U == update_block_permissions(S, b)
               x == S.mem_block[b] IN
           \/ Ent(U, pg) = Ent(S, pg)
           \/ /\ x.dirty /\ Cardinality(x.ptes) = 1 /\ pg \in x.ptes
              /\ Ent(U, pg).ppage = Ent(S, pg).ppage
              /\ Ent(U, pg).read_enable /\ Ent(U, pg).write_enable
<1> DEFINE x == S.mem_block[b]
           U == update_block_permissions(S, b)
           On(e) == Readable(Writable(e))
           pt == [p \in Pids |-> [v \in VPages |->
                     IF <<p, v>> \in x.ptes THEN On(S.page_table[p][v]) ELSE S.page_table[p][v]]]
<1>1. PICK p \in Pids, v \in VPages : pg = <<p, v>>
  OBVIOUS
<1>2. Ent(S, pg) = S.page_table[p][v] /\ Ent(S, pg) \in Entry
  BY <1>1, EntType DEF Ent
<1>3. On(Ent(S, pg)).ppage = Ent(S, pg).ppage /\ On(Ent(S, pg)).read_enable
      /\ On(Ent(S, pg)).write_enable
  BY <1>2, EntryFields
<1>4. CASE x.dirty /\ Cardinality(x.ptes) = 1 /\ x.referenced
  <2>1. U = [S EXCEPT !.page_table = pt]
    BY <1>4 DEF update_block_permissions, SetEntries
  <2> HIDE DEF pt, U
  <2>2. U.page_table = pt
    BY <2>1 DEF PagerState
  <2> HIDE DEF On
  <2>3. Ent(U, pg) = IF pg \in x.ptes THEN On(Ent(S, pg)) ELSE Ent(S, pg)
    BY <1>1, <1>2, <2>2 DEF Ent, pt
  <2> QED
    BY <1>3, <1>4, <2>3 DEF U
<1>5. CASE ~(x.dirty /\ Cardinality(x.ptes) = 1 /\ x.referenced)
  BY <1>5 DEF update_block_permissions
<1> QED
  BY <1>4, <1>5

(* A block during vm_fault: its pages need not be enabled for reading. *)
AlmostOK(S, pg) ==
    LET e == Ent(S, pg)
        x == S.mem_block[BlockIn(S, pg)]
    IN  /\ x.resident => e.ppage = x.location
        /\ e.write_enable => x.dirty /\ (x.is_swap => Showing(S, {}, BlockIn(S, pg)) = {pg})
MmuFault(S, b) ==
    /\ ~S.mem_block[zero_page].dirty
    /\ \A pg \in PagesIn(S) : AlmostOK(S, pg) /\ (BlockIn(S, pg) # b => PageOK(S, {}, pg))

LEMMA AtFault ==
    ASSUME NEW S, MmuInv(S, {}), NEW b
    PROVE  MmuFault(S, b)
BY DEF MmuInv, MmuFault, PageOK, AlmostOK

(* The pages of a block with one page, or of a file block, become writable *)
LEMMA WriteFaultMmu ==
    ASSUME NEW S, Whole(S, {}, {}), ~S.mem_block[zero_page].dirty,
           NEW pg \in PagesIn(S), NEW b, BlockIn(S, pg) = b, b # zero_page,
           S.mem_block[b].is_swap => Showing(S, {}, b) = {pg},
           \A r \in PagesIn(S) : AlmostOK(S, r) /\ (BlockIn(S, r) # b => PageOK(S, {}, r))
    PROVE  MmuFault(write_fault_handler(S, b), b)
<1> DEFINE W == write_fault_handler(S, b)
<1>1. S \in PagerState /\ b \in BlockIds /\ b \in Referenced(S)
  BY PageBlock DEF Whole, Shape
<1>2. W \in PagerState /\ Unmoved(S, W)
  BY <1>1, WriteFault
<1>3. /\ W.mem_block[b].dirty
      /\ \A c \in BlockIds \ {b} : W.mem_block[c].dirty <=> S.mem_block[c].dirty
      /\ \A r \in Pids \X VPages :
           /\ r \notin S.mem_block[b].ptes => Ent(W, r) = Ent(S, r)
           /\ r \in S.mem_block[b].ptes => Ent(W, r).ppage = Ent(S, r).ppage
  BY <1>1, WriteFaultEntries
<1> HIDE DEF W
<1>4. /\ PagesIn(W) = PagesIn(S) /\ \A r : BlockIn(W, r) = BlockIn(S, r)
      /\ \A c : Showing(W, {}, c) = Showing(S, {}, c)
  BY <1>2, SamePages DEF Unmoved
<1>5. \A c \in BlockIds : /\ W.mem_block[c].resident = S.mem_block[c].resident
                          /\ W.mem_block[c].location = S.mem_block[c].location
                          /\ W.mem_block[c].is_swap = S.mem_block[c].is_swap
  BY <1>2 DEF Unmoved, Alike
<1>6. ASSUME NEW r \in PagesIn(S)
      PROVE  AlmostOK(W, r) /\ (BlockIn(W, r) # b => PageOK(W, {}, r))
  <2>1. PICK c : c = BlockIn(S, r)
    OBVIOUS
  <2>2. /\ r \in Pids \X VPages /\ c \in BlockIds
        /\ c # zero_page => r \in S.mem_block[c].ptes
        /\ \A d \in Referenced(S) : r \in S.mem_block[d].ptes => d = c
    BY <2>1, PageBlock
  <2>3. r \in Showing(S, {}, c)
    BY <2>1 DEF Showing
  <2>4. CASE c = b
    <3>1. Ent(W, r).ppage = Ent(S, r).ppage
      BY <1>3, <2>2, <2>4
    <3>2. S.mem_block[b].resident => Ent(S, r).ppage = S.mem_block[b].location
      BY <2>1, <2>4 DEF AlmostOK
    <3>3. S.mem_block[b].is_swap => Showing(S, {}, b) = {r}
      BY <2>3, <2>4
    <3> QED
      BY <1>1, <1>3, <1>4, <1>5, <2>1, <2>4, <3>1, <3>2, <3>3 DEF AlmostOK
  <2>5. CASE c # b
    <3>1. Ent(W, r) = Ent(S, r)
      BY <1>1, <1>3, <2>2, <2>5
    <3>2. AlmostOK(S, r) /\ PageOK(S, {}, r)
      BY <2>1, <2>5
    <3>3. W.mem_block[c].dirty <=> S.mem_block[c].dirty
      BY <1>3, <2>2, <2>5
    <3> QED
      BY <1>4, <1>5, <2>1, <2>2, <3>1, <3>2, <3>3 DEF AlmostOK, PageOK
  <2> QED
    BY <2>4, <2>5
<1>7. ~W.mem_block[zero_page].dirty
  BY <1>3, Numbers
<1> QED
  BY <1>4, <1>6, <1>7 DEF MmuFault, W

LEMMA ReadFaultMmu ==
    ASSUME NEW S, Whole(S, {}, {}), NEW pg \in PagesIn(S), NEW b, BlockIn(S, pg) = b,
           S.mem_block[b].resident, MmuFault(S, b)
    PROVE  MmuInv(read_fault_handler(S, b), {})
<1> DEFINE R == read_fault_handler(S, b)
           x == S.mem_block[b]
<1>1. S \in PagerState /\ b \in BlockIds /\ b \in Referenced(S)
  BY PageBlock DEF Whole, Shape
<1>2. /\ SameBlocks(S, R)
      /\ \A r \in Pids \X VPages :
           /\ r \notin x.ptes => Ent(R, r) = Ent(S, r)
           /\ r \in x.ptes =>
                /\ Ent(R, r).ppage = Ent(S, r).ppage /\ Ent(R, r).read_enable
                /\ Ent(R, r).write_enable <=> Ent(S, r).write_enable \/ (x.dirty /\ Exclusive(x))
  BY <1>1, ReadFaultEntries
<1> HIDE DEF R
<1>4. /\ PagesIn(R) = PagesIn(S) /\ \A r : BlockIn(R, r) = BlockIn(S, r)
      /\ \A c : Showing(R, {}, c) = Showing(S, {}, c)
  BY <1>2, SamePages DEF SameBlocks
<1>5. \A c \in BlockIds : /\ R.mem_block[c].resident = S.mem_block[c].resident
                          /\ R.mem_block[c].location = S.mem_block[c].location
                          /\ R.mem_block[c].is_swap = S.mem_block[c].is_swap
                          /\ R.mem_block[c].dirty <=> S.mem_block[c].dirty
  BY <1>2 DEF SameBlocks, Alike
<1>6. ASSUME NEW r \in PagesIn(S) PROVE PageOK(R, {}, r)
  <2>1. PICK c : c = BlockIn(S, r)
    OBVIOUS
  <2>2. /\ r \in Pids \X VPages /\ c \in BlockIds
        /\ c # zero_page => /\ r \in S.mem_block[c].ptes
                            /\ S.mem_block[c].ptes = Showing(S, {}, c)
        /\ \A d \in Referenced(S) : r \in S.mem_block[d].ptes => d = c
    BY <2>1, PageBlock
  <2>3. AlmostOK(S, r) /\ (c # b => PageOK(S, {}, r))
    BY <2>1 DEF MmuFault
  <2>4. CASE c # b
    <3>1. Ent(R, r) = Ent(S, r)
      BY <1>1, <1>2, <2>2, <2>4
    <3> QED
      BY <1>4, <1>5, <2>1, <2>2, <2>3, <2>4, <3>1 DEF PageOK
  <2>5. CASE c = b /\ r \notin x.ptes
    <3>1. Ent(R, r) = Ent(S, r)
      BY <1>2, <2>2, <2>5
    <3>2. ~x.dirty
      BY <2>2, <2>5 DEF MmuFault
    <3> QED
      BY <1>1, <1>4, <1>5, <2>1, <2>3, <2>5, <3>1, <3>2 DEF PageOK, AlmostOK
  <2>6. CASE c = b /\ r \in x.ptes
    <3>1. ASSUME x.dirty, Exclusive(x), x.is_swap PROVE Showing(S, {}, b) = {r}
      <4>1. b # zero_page
        BY <3>1 DEF MmuFault
      <4>2. Cardinality(Showing(S, {}, b)) = 1 /\ r \in Showing(S, {}, b)
        BY <2>2, <2>6, <3>1, <4>1 DEF Exclusive
      <4>3. \E z : Showing(S, {}, b) = {z}
        BY <4>2, ShowingFinite, FS_Singleton
      <4> QED
        BY <4>2, <4>3
    <3>2. /\ Ent(R, r).ppage = Ent(S, r).ppage /\ Ent(R, r).read_enable
          /\ Ent(R, r).write_enable <=> Ent(S, r).write_enable \/ (x.dirty /\ Exclusive(x))
      BY <1>2, <2>2, <2>6
    <3>3. Ent(R, r).write_enable => x.dirty /\ (x.is_swap => Showing(S, {}, b) = {r})
      BY <2>1, <2>3, <2>6, <3>1, <3>2 DEF AlmostOK
    <3>4. Ent(R, r).ppage = x.location
      BY <2>1, <2>3, <2>6, <3>2 DEF AlmostOK
    <3> QED
      BY <1>1, <1>4, <1>5, <2>1, <2>6, <3>2, <3>3, <3>4 DEF PageOK
  <2> QED
    BY <2>4, <2>5, <2>6
<1>7. ~R.mem_block[zero_page].dirty
  BY <1>5, Numbers DEF MmuFault
<1> QED
  BY <1>4, <1>6, <1>7 DEF MmuInv, R

-----------------------------------------------------------------------------
(* A page is taken from its block.                                         *)

(* The blocks of T are those of S as far as the MMU is concerned. *)
LikeBlocks(S, T) ==
    /\ T.data_location = S.data_location
    /\ \A c \in BlockIds : /\ T.mem_block[c].resident = S.mem_block[c].resident
                           /\ T.mem_block[c].location = S.mem_block[c].location
                           /\ T.mem_block[c].is_swap = S.mem_block[c].is_swap
                           /\ T.mem_block[c].dirty <=> S.mem_block[c].dirty

(* Nothing but the pages and the blocks matters. *)
LEMMA SameMmu ==
    ASSUME NEW S, NEW T, NEW gone, Shape(S), MmuInv(S, gone), LikeBlocks(S, T),
           T.page_table = S.page_table
    PROVE  MmuInv(T, gone)
<1>1. ~T.mem_block[zero_page].dirty
  BY Numbers DEF LikeBlocks, MmuInv
<1>2. ASSUME NEW pg \in PagesIn(S) \ gone PROVE Undisturbed(S, T, pg)
  <2>1. BlockIn(S, pg) \in BlockIds
    BY PagesType
  <2> QED
    BY <2>1 DEF Undisturbed, LikeBlocks, Ent
<1> QED
  BY <1>1, <1>2, SettleMmu DEF LikeBlocks

LEMMA OneLessShowing ==
    ASSUME NEW S, NEW gone, NEW pg, NEW c
    PROVE  Showing(S, gone \cup {pg}, c) = Showing(S, gone, c) \ {pg}
BY DEF Showing

(* Fewer pages are looked at; the last one of a dirty block may get its    *)
(* permissions back.                                                       *)
LEMMA TakenMmu ==
    ASSUME NEW S, NEW U, NEW gone, NEW pg, NEW b, Shape(S), MmuInv(S, gone), LikeBlocks(S, U),
           \A r \in Pids \X VPages :
             \/ Ent(U, r) = Ent(S, r)
             \/ /\ S.mem_block[b].dirty /\ S.mem_block[b].resident
                /\ Showing(S, gone \cup {pg}, b) = {r}
                /\ Ent(U, r).ppage = Ent(S, r).ppage
                /\ Ent(U, r).read_enable /\ Ent(U, r).write_enable
    PROVE  MmuInv(U, gone \cup {pg})
<1>1. /\ PagesIn(U) = PagesIn(S) /\ \A r : BlockIn(U, r) = BlockIn(S, r)
      /\ \A c : Showing(U, gone \cup {pg}, c) = Showing(S, gone, c) \ {pg}
  <2>1. U.data_location = S.data_location
    BY DEF LikeBlocks
  <2>2. /\ PagesIn(U) = PagesIn(S) /\ \A r : BlockIn(U, r) = BlockIn(S, r)
        /\ \A less, c : Showing(U, less, c) = Showing(S, less, c)
    BY <2>1, SamePages
  <2>3. \A c : Showing(S, gone \cup {pg}, c) = Showing(S, gone, c) \ {pg}
    BY DEF Showing
  <2> QED
    BY <2>2, <2>3
<1>2. ~U.mem_block[zero_page].dirty
  BY Numbers DEF LikeBlocks, MmuInv
<1>3. ASSUME NEW r \in PagesIn(S) \ (gone \cup {pg}) PROVE PageOK(U, gone \cup {pg}, r)
  <2>1. PICK c : c = BlockIn(S, r)
    OBVIOUS
  <2>2. r \in Pids \X VPages /\ c \in BlockIds
    BY <2>1, PagesType DEF PagesIn
  <2>3. PageOK(S, gone, r) /\ r # pg
    BY DEF MmuInv
  <2>4. /\ U.mem_block[c].resident = S.mem_block[c].resident
        /\ U.mem_block[c].location = S.mem_block[c].location
        /\ U.mem_block[c].is_swap = S.mem_block[c].is_swap
        /\ U.mem_block[c].dirty <=> S.mem_block[c].dirty
    BY <2>2 DEF LikeBlocks
  <2>5. CASE Ent(U, r) = Ent(S, r)
    <3>1. Showing(S, gone, c) = {r} => Showing(U, gone \cup {pg}, c) = {r}
      BY <1>1, <2>3
    <3> QED
      BY <1>1, <2>1, <2>3, <2>4, <2>5, <3>1 DEF PageOK
  <2>6. CASE /\ S.mem_block[b].dirty /\ S.mem_block[b].resident
             /\ Showing(S, gone \cup {pg}, b) = {r}
             /\ Ent(U, r).ppage = Ent(S, r).ppage
             /\ Ent(U, r).read_enable /\ Ent(U, r).write_enable
    <3>1. c = b
      <4>1. r \in Showing(S, gone \cup {pg}, b)
        BY <2>6
      <4> QED
        BY <2>1, <4>1 DEF Showing
    <3>2. Showing(U, gone \cup {pg}, c) = {r}
      BY <1>1, <2>6, <3>1, OneLessShowing
    <3> QED
      BY <1>1, <2>1, <2>3, <2>4, <2>6, <3>1, <3>2 DEF PageOK
  <2> QED
    BY <2>2, <2>5, <2>6
<1> QED
  BY <1>1, <1>2, <1>3 DEF MmuInv

(* F is S when the block of the page has forgotten it. *)
LEMMA UpdateTaken ==
    ASSUME NEW S, NEW F, NEW gone, NEW pg \in PagesIn(S), NEW b, BlockIn(S, pg) = b,
           Shape(S), MmuInv(S, gone), F \in PagerState, LikeBlocks(S, F),
           F.page_table = S.page_table, PtesInv(F, gone \cup {pg}), b \in Referenced(F),
           S.mem_block[b].resident
    PROVE  /\ MmuInv(F, gone \cup {pg})
           /\ MmuInv(update_block_permissions(F, b), gone \cup {pg})
<1> DEFINE U == update_block_permissions(F, b)
<1>1. b \in BlockIds
  BY PagesType
<1>2. MmuInv(F, gone \cup {pg})
  BY TakenMmu DEF Ent
<1>3. U.mem_block = F.mem_block /\ U.data_location = F.data_location
  BY <1>1, UpdatePermissions DEF Repainted, Unmoved
<1>4. LikeBlocks(S, U)
  BY <1>3 DEF LikeBlocks
<1>5. ASSUME NEW r \in Pids \X VPages
      PROVE  \/ Ent(U, r) = Ent(S, r)
             \/ /\ S.mem_block[b].dirty /\ S.mem_block[b].resident
                /\ Showing(S, gone \cup {pg}, b) = {r}
                /\ Ent(U, r).ppage = Ent(S, r).ppage
                /\ Ent(U, r).read_enable /\ Ent(U, r).write_enable
  <2>1. \/ Ent(U, r) = Ent(F, r)
        \/ /\ F.mem_block[b].dirty /\ Cardinality(F.mem_block[b].ptes) = 1
           /\ r \in F.mem_block[b].ptes
           /\ Ent(U, r).ppage = Ent(F, r).ppage
           /\ Ent(U, r).read_enable /\ Ent(U, r).write_enable
    BY <1>1, UpdateEntries
  <2>2. Ent(F, r) = Ent(S, r)
    BY DEF Ent
  <2> HIDE DEF U
  <2>3. ASSUME F.mem_block[b].dirty, Cardinality(F.mem_block[b].ptes) = 1,
               r \in F.mem_block[b].ptes
        PROVE  S.mem_block[b].dirty /\ Showing(S, gone \cup {pg}, b) = {r}
    <3>1. S.mem_block[b].dirty /\ b # zero_page
      BY <1>1, <2>3 DEF LikeBlocks, MmuInv
    <3>2. F.mem_block[b].ptes = Showing(S, gone \cup {pg}, b)
      <4>1. F.mem_block[b].ptes = Showing(F, gone \cup {pg}, b)
        BY <3>1 DEF PtesInv
      <4>2. \A less, c : Showing(F, less, c) = Showing(S, less, c)
        BY SamePages DEF LikeBlocks
      <4> QED
        BY <4>1, <4>2
    <3>3. \E z : Showing(S, gone \cup {pg}, b) = {z}
      BY <2>3, <3>2, ShowingFinite, FS_Singleton
    <3> QED
      BY <2>3, <3>1, <3>2, <3>3
  <2> QED
    BY <2>1, <2>2, <2>3
<1> HIDE DEF U
<1>6. MmuInv(U, gone \cup {pg})
  BY <1>4, <1>5, TakenMmu
<1> QED
  BY <1>2, <1>6 DEF U

(* What ErasePte leaves alone *)
LEMMA EraseEntries ==
    ASSUME NEW S, S \in PagerState, NEW b \in BlockIds, NEW p, NEW v
    PROVE  LET E == ErasePte(S, b, p, v) IN
           E.page_table = S.page_table /\ LikeBlocks(S, E)
<1> DEFINE x == S.mem_block[b]
           y == [x EXCEPT !.ptes = @ \ {<<p, v>>}]
           mb == [S.mem_block EXCEPT ![b] = y]
           E == ErasePte(S, b, p, v)
<1>1. S.mem_block \in [BlockIds -> Block] /\ x \in Block
  BY Fields
<1>2. E = [S EXCEPT !.mem_block = mb]
  BY <1>1 DEF ErasePte
<1>3. /\ y.resident = x.resident /\ y.location = x.location /\ y.is_swap = x.is_swap
      /\ y.dirty <=> x.dirty
  BY <1>1 DEF Block
<1> HIDE DEF y
<1>4. mb[b] = y /\ \A c \in BlockIds \ {b} : mb[c] = S.mem_block[c]
  BY <1>1
<1> HIDE DEF mb, E
<1>5. /\ E.page_table = S.page_table /\ E.mem_block = mb /\ E.data_location = S.data_location
  BY <1>2 DEF PagerState
<1> QED
  BY <1>3, <1>4, <1>5 DEF LikeBlocks, E

-----------------------------------------------------------------------------
(* Copy on write and vm_fault.                                             *)

LEMMA SplitEntries ==
    ASSUME NEW S, NEW unpointed, Whole(S, unpointed, {}), NEW p \in Pids,
           NEW v \in DOMAIN S.data_location[p], NEW datum, NEW new, new = Unused(S),
           new \in BlockIds, new \notin Referenced(S), NEW T,
           T = copy_block_handler(S, p, v, datum)
    PROVE  /\ T.mem_block[new].dirty
           /\ \A c \in BlockIds \ {new} : T.mem_block[c].dirty <=> S.mem_block[c].dirty
           /\ Ent(T, <<p, v>>).ppage = Head(S.free_mem_blocks)
           /\ \A r \in Pids \X VPages : r # <<p, v>> => Ent(T, r) = Ent(S, r)
<1> DEFINE old == S.data_location[p][v]
           frame == Head(S.free_mem_blocks)
           sb == <<Last(S.mem_block[old].swap_blocks)>>
           one == {<<p, v>>}
           y == [NewBlock(frame, TRUE, NoName, 0) EXCEPT !.swap_blocks = sb, !.ptes = one,
                                                         !.dirty = TRUE]
           z == [S.mem_block[old] EXCEPT !.swap_blocks = Front(@)]
           mbx == [S.mem_block EXCEPT ![new] = y, ![old].swap_blocks = Front(@)]
           mb == [[S.mem_block EXCEPT ![new] = y] EXCEPT ![old] = z]
           e == [S.page_table[p][v] EXCEPT !.ppage = frame]
           pt == [S.page_table EXCEPT ![p] = [@ EXCEPT ![v] = e]]
<1>0. Shape(S) /\ S \in PagerState
  BY DEF Whole, Shape
<1>1. S.mem_block \in [BlockIds -> Block] /\ S.page_table \in [Pids -> [VPages -> Entry]]
  BY <1>0, Fields
<1>2. v \in VPages /\ old \in BlockIds /\ old # new
  <2>1. <<p, v>> \in PagesIn(S) /\ BlockIn(S, <<p, v>>) = old
    BY <1>0, PagesMeaning
  <2> QED
    BY <1>0, <2>1, PagesMeaning, PagesType, ReferencedMeaning
<1>3. T = [S EXCEPT !.data_location[p][v] = new, !.mem_block = mbx,
                    !.page_table[p][v].ppage = frame, !.free_mem_blocks = Tail(@),
                    !.clock_queue = Append(@, new), !.physmem[frame] = datum]
  BY DEF copy_block_handler
<1>4. y.dirty
  <2> HIDE DEF sb, one, frame
  <2> QED
    BY DEF NewBlock
<1>5. z.dirty <=> S.mem_block[old].dirty
  BY <1>1, <1>2 DEF Block
<1>6. mbx = mb
  <2> HIDE DEF y, old
  <2> QED
    BY <1>1, <1>2
<1> HIDE DEF y, z
<1>7. /\ mb[new] = y /\ mb[old] = z
      /\ \A c \in BlockIds : c # new /\ c # old => mb[c] = S.mem_block[c]
  BY <1>1, <1>2
<1> HIDE DEF mbx, frame
<1>8. T.mem_block = mbx /\ T.page_table = [S.page_table EXCEPT ![p][v].ppage = frame]
  BY <1>0, <1>3 DEF PagerState
<1>9. T.page_table = pt
  BY <1>1, <1>2, <1>8
<1>10. e.ppage = frame
  BY <1>1, <1>2 DEF Entry
<1> HIDE DEF e
<1>11. pt[p][v] = e
  BY <1>1, <1>2
<1>12. \A a \in Pids, w \in VPages : <<a, w>> # <<p, v>> => pt[a][w] = S.page_table[a][w]
  BY <1>1, <1>2
<1>13. Ent(T, <<p, v>>).ppage = frame
  BY <1>9, <1>10, <1>11 DEF Ent
<1>14. ASSUME NEW r \in Pids \X VPages, r # <<p, v>> PROVE Ent(T, r) = Ent(S, r)
  <2>1. PICK a \in Pids, w \in VPages : r = <<a, w>>
    OBVIOUS
  <2> HIDE DEF pt
  <2> QED
    BY <1>9, <1>12, <1>14, <2>1 DEF Ent
<1> HIDE DEF mb
<1>15. /\ T.mem_block[new].dirty
       /\ \A c \in BlockIds \ {new} : T.mem_block[c].dirty <=> S.mem_block[c].dirty
  BY <1>4, <1>5, <1>6, <1>7, <1>8
<1> QED
  BY <1>13, <1>14, <1>15 DEF frame

(* The new block is ready for write_fault_handler. *)
LEMMA SplitMmu ==
    ASSUME NEW S, NEW T, NEW p \in Pids, NEW v \in DOMAIN S.data_location[p], NEW datum,
           NEW new \in BlockIds, new \notin Referenced(S), new = Unused(S),
           Whole(S, {<<p, v>>}, {}), MmuInv(S, {<<p, v>>}), Whole(T, {}, {}),
           T = copy_block_handler(S, p, v, datum), Split(S, T, p, v, new)
    PROVE  /\ <<p, v>> \in PagesIn(T) /\ BlockIn(T, <<p, v>>) = new /\ new # zero_page
           /\ Showing(T, {}, new) = {<<p, v>>} /\ ~T.mem_block[zero_page].dirty
           /\ \A r \in PagesIn(T) : /\ AlmostOK(T, r)
                                    /\ BlockIn(T, r) # new => PageOK(T, {}, r)
<1> DEFINE pg == <<p, v>>
<1>0. Shape(S) /\ Shape(T) /\ S \in PagerState
  BY DEF Whole, Shape
<1>1. v \in VPages /\ pg \in PagesIn(S) /\ S.data_location \in [Pids -> Seq(BlockIds)]
  BY <1>0, PagesMeaning, Fields
<1>2. T.data_location = [S.data_location EXCEPT ![p][v] = new]
  BY DEF Split
<1>3. PagesIn(T) = PagesIn(S)
  <2>1. \A a \in Pids : DOMAIN T.data_location[a] = DOMAIN S.data_location[a]
    BY <1>1, <1>2
  <2> QED
    BY <2>1 DEF PagesIn
<1>4. BlockIn(T, pg) = new /\ \A r \in PagesIn(S) \ {pg} : BlockIn(T, r) = BlockIn(S, r)
  <2>1. BlockIn(T, pg) = new
    BY <1>1, <1>2 DEF BlockIn
  <2>2. ASSUME NEW r \in PagesIn(S) \ {pg} PROVE BlockIn(T, r) = BlockIn(S, r)
    <3>1. PICK a \in Pids, w \in VPages : r = <<a, w>> /\ w \in DOMAIN S.data_location[a]
      BY DEF PagesIn
    <3>2. a # p \/ w # v
      BY <3>1
    <3>3. T.data_location[a][w] = S.data_location[a][w]
      BY <1>1, <1>2, <3>1, <3>2
    <3> QED
      BY <3>1, <3>3 DEF BlockIn
  <2> QED
    BY <2>1, <2>2
<1>5. new # zero_page /\ \A r \in PagesIn(S) : BlockIn(S, r) # new /\ BlockIn(S, r) \in BlockIds
  BY <1>0, ReferencedMeaning, PagesType
<1>6. /\ Showing(T, {}, new) = {pg}
      /\ \A c : c # new => Showing(T, {}, c) = Showing(S, {pg}, c)
  BY <1>1, <1>3, <1>4, <1>5 DEF Showing
<1>7. /\ T.mem_block[new].dirty
      /\ \A c \in BlockIds \ {new} : T.mem_block[c].dirty <=> S.mem_block[c].dirty
      /\ Ent(T, pg).ppage = Head(S.free_mem_blocks)
      /\ \A r \in Pids \X VPages : r # pg => Ent(T, r) = Ent(S, r)
  BY SplitEntries
<1>8. /\ T.mem_block[new].location = Head(S.free_mem_blocks)
      /\ \A c \in BlockIds \ {new} : /\ T.mem_block[c].resident = S.mem_block[c].resident
                                     /\ T.mem_block[c].location = S.mem_block[c].location
                                     /\ T.mem_block[c].is_swap = S.mem_block[c].is_swap
  BY DEF Split
<1> HIDE DEF pg
<1>9. AlmostOK(T, pg)
  BY <1>4, <1>6, <1>7, <1>8 DEF AlmostOK
<1>10. ASSUME NEW r \in PagesIn(S) \ {pg} PROVE PageOK(T, {}, r)
  <2>1. PICK c : c = BlockIn(S, r)
    OBVIOUS
  <2>2. c \in BlockIds \ {new} /\ r \in Pids \X VPages /\ BlockIn(T, r) = c
    BY <1>4, <1>5, <2>1 DEF PagesIn
  <2>3. PageOK(S, {pg}, r)
    BY DEF MmuInv, pg
  <2> QED
    BY <1>6, <1>7, <1>8, <2>1, <2>2, <2>3 DEF PageOK
<1>11. \A r : PageOK(T, {}, r) => AlmostOK(T, r)
  BY DEF PageOK, AlmostOK
<1>12. ~T.mem_block[zero_page].dirty
  BY <1>5, <1>7, Numbers DEF MmuInv
<1>13. \A r \in PagesIn(T) : AlmostOK(T, r) /\ (BlockIn(T, r) # new => PageOK(T, {}, r))
  BY <1>3, <1>4, <1>9, <1>10, <1>11
<1> QED
  BY <1>1, <1>3, <1>4, <1>5, <1>6, <1>12, <1>13 DEF pg

(* The page pg may be written to directly, once it is enabled. *)
ReadyToWrite(S, pg) ==
    LET b == BlockIn(S, pg)
    IN  /\ pg \in PagesIn(S) /\ b # zero_page /\ ~S.mem_block[zero_page].dirty
        /\ S.mem_block[b].is_swap => Showing(S, {}, b) = {pg}
        /\ \A r \in PagesIn(S) : AlmostOK(S, r) /\ (BlockIn(S, r) # b => PageOK(S, {}, r))

LEMMA CopyMmu ==
    ASSUME NEW S, Whole(S, {}, {}), MmuInv(S, {}), NEW p \in Pids,
           NEW v \in DOMAIN S.data_location[p],
           S.mem_block[S.data_location[p][v]].resident,
           is_copy_on_writable(S, S.data_location[p][v])
    PROVE  ReadyToWrite(CopyOnWrite(S, p, v), <<p, v>>)
<1> DEFINE b == S.data_location[p][v]
           pg == <<p, v>>
           R == read_fault_handler(S, b)
           E == ErasePte(R, b, p, v)
           U == update_block_permissions(E, b)
           F == WithFreeFrame(U)
           datum == S.physmem[S.mem_block[b].location]
           T == copy_block_handler(F, p, v, datum)
<1>0. Shape(S) /\ S \in PagerState
  BY DEF Whole, Shape
<1>1. pg \in PagesIn(S) /\ BlockIn(S, pg) = b /\ b \in BlockIds
  <2>1. pg \in PagesIn(S) /\ BlockIn(S, pg) = b
    BY <1>0, PagesMeaning
  <2> QED
    BY <1>0, <2>1, PagesType
<1>2. CopyOnWrite(S, p, v) = T
  BY DEF CopyOnWrite
<1>3. S.mem_block[b].is_swap
  BY DEF is_copy_on_writable
<1>4. datum \in Data
  <2>1. S.mem_block[b].location \in Frames
    BY <1>0, <1>1 DEF Shape, PlaceOK
  <2> QED
    BY <1>0, <2>1, Fields
<1>5. Whole(T, {}, {}) /\ T.data_location[p][v] \in BlockIds
  BY <1>2, CopyWhole
<1> HIDE DEF b, R, datum
<1>6. R \in PagerState /\ Unmoved(S, R)
  BY <1>0, <1>1, ReadFault DEF R, b
<1>7. Whole(R, {}, {}) /\ Shape(R)
  <2>1. Whole(R, {}, {})
    BY <1>6, UnmovedWhole
  <2> QED
    BY <2>1 DEF Whole
<1>8. MmuInv(R, {})
  <2>1. MmuFault(S, b) /\ S.mem_block[b].resident
    BY AtFault DEF b
  <2> QED
    BY <1>1, <2>1, ReadFaultMmu DEF R
<1>9. /\ R.data_location = S.data_location
      /\ \A c \in BlockIds : /\ R.mem_block[c].is_swap = S.mem_block[c].is_swap
                             /\ R.mem_block[c].resident = S.mem_block[c].resident
  BY <1>6 DEF Unmoved, Alike
<1>10. /\ pg \in PagesIn(R) /\ BlockIn(R, pg) = b /\ R.mem_block[b].is_swap
       /\ R.mem_block[b].resident
  BY <1>1, <1>3, <1>9, SamePages DEF b
<1> HIDE DEF E, pg
<1>11. Erased(R, E, b, pg) /\ E.page_table = R.page_table /\ LikeBlocks(R, E)
  BY <1>1, <1>6, EraseEffect, EraseEntries DEF E, pg
<1>12. Whole(E, {pg}, {}) /\ E \in PagerState
  BY <1>7, <1>10, <1>11, EraseWhole DEF Erased
<1>13. b \in Referenced(E)
  <2>1. pg \in PagesIn(E) /\ BlockIn(E, pg) = b
    BY <1>10, <1>11, SamePages DEF Erased
  <2> QED
    BY <1>12, <2>1, ReferencedMeaning DEF Whole
<1> HIDE DEF U
<1>14. MmuInv(U, {pg})
  <2>1. PtesInv(E, {} \cup {pg})
    BY <1>12 DEF Whole
  <2>2. MmuInv(U, {} \cup {pg})
    BY <1>7, <1>8, <1>10, <1>11, <1>12, <1>13, <2>1, UpdateTaken DEF U
  <2> QED
    BY <2>2
<1>15. Whole(U, {pg}, {}) /\ U.data_location = E.data_location
  <2>1. U \in PagerState /\ Unmoved(E, U)
    BY <1>1, <1>12, UpdatePermissions DEF U, Repainted
  <2> QED
    BY <1>12, <2>1, UnmovedWhole DEF Unmoved
<1> HIDE DEF F
<1>16. /\ Whole(F, {pg}, {}) /\ Kin(U, F) /\ F.free_mem_blocks # <<>> /\ MmuInv(F, {pg})
  BY <1>14, <1>15, FreeFrameWhole, FreeFrameMmu DEF F
<1>17. F.data_location = S.data_location
  BY <1>9, <1>11, <1>15, <1>16 DEF Kin, Erased
<1>18. /\ v \in DOMAIN F.data_location[p] /\ F.data_location[p][v] = b
       /\ pg \in PagesIn(F) /\ BlockIn(F, pg) = b /\ b \in Referenced(F)
  <2>1. pg \in PagesIn(F) /\ BlockIn(F, pg) = b
    BY <1>1, <1>17, SamePages
  <2>2. b \in Referenced(F)
    BY <1>16, <2>1, ReferencedMeaning DEF Whole
  <2> QED
    BY <1>17, <2>1, <2>2 DEF b
<1>19. F.mem_block[b].swap_blocks # <<>>
  <2>1. F.mem_block[b].is_swap
    <3>1. U.mem_block[b].is_swap = E.mem_block[b].is_swap
      BY <1>1, <1>12, UpdatePermissions DEF U, Repainted
    <3> QED
      BY <1>1, <1>10, <1>11, <1>16, <3>1 DEF Kin, Erased
  <2>2. Len(F.mem_block[b].swap_blocks) = Cardinality(Showing(F, {}, b))
    BY <1>16, <1>18, <2>1 DEF Whole, SwapInv
  <2>3. Showing(F, {}, b) # {}
    BY <1>18 DEF Showing
  <2>4. Cardinality(Showing(F, {}, b)) # 0
    BY <2>3, ShowingFinite, FS_EmptySet
  <2> QED
    BY <2>2, <2>4
<1>20. PICK new \in BlockIds : new = Unused(F) /\ new \notin Referenced(F)
  BY <1>16, UnusedLemma
<1> HIDE DEF T
<1>21. Split(F, T, p, v, new)
  BY <1>4, <1>16, <1>18, <1>19, <1>20, SplitEffect DEF T
<1>22. Whole(F, {<<p, v>>}, {}) /\ MmuInv(F, {<<p, v>>})
  BY <1>16 DEF pg
<1>23. /\ <<p, v>> \in PagesIn(T) /\ BlockIn(T, <<p, v>>) = new /\ new # zero_page
       /\ Showing(T, {}, new) = {<<p, v>>} /\ ~T.mem_block[zero_page].dirty
       /\ \A r \in PagesIn(T) : /\ AlmostOK(T, r)
                                /\ BlockIn(T, r) # new => PageOK(T, {}, r)
  BY <1>5, <1>18, <1>20, <1>21, <1>22, SplitMmu DEF T
<1>24. ReadyToWrite(T, <<p, v>>)
  BY <1>23 DEF ReadyToWrite
<1> QED
  BY <1>2, <1>24

(* A block that need not be copied has no other page, or is of a file. *)
LEMMA NoCopyMmu ==
    ASSUME NEW S, Whole(S, {}, {}), MmuInv(S, {}), NEW pg \in PagesIn(S),
           S.mem_block[BlockIn(S, pg)].resident, ~is_copy_on_writable(S, BlockIn(S, pg))
    PROVE  ReadyToWrite(S, pg)
<1> DEFINE b == BlockIn(S, pg)
<1>1. b # zero_page
  BY DEF Whole, Pinned, is_copy_on_writable
<1>2. S.mem_block[b].ptes = Showing(S, {}, b) /\ pg \in Showing(S, {}, b)
  BY <1>1, PageBlock
<1>3. ASSUME S.mem_block[b].is_swap PROVE Showing(S, {}, b) = {pg}
  <2>1. ~(Cardinality(Showing(S, {}, b)) > 1)
    BY <1>2, <1>3 DEF is_copy_on_writable
  <2>2. IsFiniteSet(Showing(S, {}, b)) /\ Cardinality(Showing(S, {}, b)) \in Nat
    BY ShowingFinite
  <2>3. Cardinality(Showing(S, {}, b)) # 0
    BY <1>2, <2>2, FS_EmptySet
  <2> HIDE DEF b
  <2>4. Cardinality(Showing(S, {}, b)) = 1
    <3>1. PICK n \in Nat : n = Cardinality(Showing(S, {}, b))
      BY <2>2
    <3> QED
      BY <2>1, <2>3, <3>1
  <2>5. \E z : Showing(S, {}, b) = {z}
    BY <2>2, <2>4, FS_Singleton
  <2> QED
    BY <1>2, <2>5
<1>4. MmuFault(S, b)
  BY AtFault
<1> QED
  BY <1>1, <1>3, <1>4 DEF ReadyToWrite, MmuFault

(* vm_fault once the page is resident *)
LEMMA ServedMmu ==
    ASSUME NEW S, Whole(S, {}, {}), MmuInv(S, {}), NEW p \in Pids,
           NEW v \in DOMAIN S.data_location[p],
           S.mem_block[S.data_location[p][v]].resident, NEW write_flag
    PROVE  MmuInv(Served(S, p, v, write_flag), {})
<1> DEFINE pg == <<p, v>>
           copy == write_flag /\ is_copy_on_writable(S, S.data_location[p][v])
           C == IF copy THEN CopyOnWrite(S, p, v) ELSE S
           b == C.data_location[p][v]
           W == IF write_flag THEN write_fault_handler(C, b) ELSE C
           R == read_fault_handler(W, b)
<1>0. Served(S, p, v, write_flag) = R
  BY DEF Served
<1>1. Shape(S) /\ pg \in PagesIn(S) /\ BlockIn(S, pg) = S.data_location[p][v]
  BY PagesMeaning DEF Whole
<1>2. Whole(C, {}, {}) /\ C.mem_block[b].resident /\ (write_flag => ReadyToWrite(C, pg))
  <2>1. CASE copy
    <3>1. C = CopyOnWrite(S, p, v)
      BY <2>1
    <3>2. ReadyToWrite(CopyOnWrite(S, p, v), pg)
      BY <2>1, CopyMmu
    <3> QED
      BY <2>1, <3>1, <3>2, CopyWhole
  <2>2. CASE ~copy
    <3>1. C = S
      BY <2>2
    <3>2. write_flag => ReadyToWrite(S, pg)
      BY <1>1, <2>2, NoCopyMmu
    <3> HIDE DEF C
    <3> QED
      BY <3>1, <3>2
  <2> QED
    BY <2>1, <2>2
<1>3. ~write_flag => C = S
  OBVIOUS
<1> HIDE DEF C, pg
<1>4. pg \in PagesIn(C) /\ BlockIn(C, pg) = b /\ b \in BlockIds
  <2>1. pg \in PagesIn(C)
    <3>1. CASE write_flag
      BY <1>2, <3>1 DEF ReadyToWrite
    <3>2. CASE ~write_flag
      BY <1>1, <1>3, <3>2
    <3> QED
      BY <3>1, <3>2
  <2>2. BlockIn(C, pg) = b
    BY DEF BlockIn, pg
  <2> QED
    BY <1>2, <2>1, <2>2, PagesType DEF Whole
<1> HIDE DEF b
<1>5. W \in PagerState /\ Unmoved(C, W) /\ MmuFault(W, b)
  <2>1. CASE write_flag
    <3>1. W = write_fault_handler(C, b)
      BY <2>1
    <3>2. MmuFault(W, b)
      BY <1>2, <1>4, <2>1, <3>1, WriteFaultMmu DEF ReadyToWrite
    <3>3. C \in PagerState
      BY <1>2 DEF Whole, Shape
    <3> QED
      BY <1>4, <3>1, <3>2, <3>3, WriteFault
  <2>2. CASE ~write_flag
    <3>1. W = C /\ C = S
      BY <1>3, <2>2
    <3>2. MmuFault(S, b)
      BY AtFault
    <3> HIDE DEF W
    <3> QED
      BY <1>1, <3>1, <3>2 DEF Unmoved, Alike, Shape
  <2> QED
    BY <2>1, <2>2
<1> HIDE DEF W
<1>6. Whole(W, {}, {})
  BY <1>2, <1>5, UnmovedWhole
<1>7. pg \in PagesIn(W) /\ BlockIn(W, pg) = b /\ W.mem_block[b].resident
  <2>1. W.data_location = C.data_location /\ W.mem_block[b].resident
    BY <1>2, <1>4, <1>5 DEF Unmoved, Alike
  <2> QED
    BY <1>4, <2>1, SamePages
<1>8. MmuInv(R, {})
  BY <1>5, <1>6, <1>7, ReadFaultMmu
<1> QED
  BY <1>0, <1>8

-----------------------------------------------------------------------------
(* A process gets one more page.                                           *)

LEMMA AddedMmu ==
    ASSUME NEW S, Shape(S), MmuInv(S, {}), NEW p \in Pids, Len(S.data_location[p]) < num_virt_addr,
           NEW b \in BlockIds, NEW T, OnePageMore(S, T, p, b), ~T.mem_block[zero_page].dirty,
           \A r \in PagesIn(S) :
             LET x == S.mem_block[BlockIn(S, r)]
                 y == T.mem_block[BlockIn(S, r)]
             IN  /\ y.resident = x.resident /\ y.location = x.location
                 /\ y.is_swap = x.is_swap /\ (y.dirty <=> x.dirty)
                 /\ Ent(T, r) = Ent(S, r) \/ Ent(T, r) = ReadOnly(Ent(S, r))
                 /\ BlockIn(S, r) = b /\ x.is_swap => ~Ent(T, r).write_enable,
           LET e == Ent(T, NextPage(S, p))
               y == T.mem_block[b]
           IN  /\ e.read_enable => y.resident
               /\ y.resident => e.ppage = y.location
               /\ e.write_enable => e.read_enable /\ y.dirty /\ ~y.is_swap
    PROVE  MmuInv(T, {})
<1> DEFINE pg == NextPage(S, p)
<1>1. /\ PagesIn(T) = PagesIn(S) \cup {pg}
      /\ \A r \in PagesIn(S) : BlockIn(T, r) = BlockIn(S, r)
      /\ BlockIn(T, pg) = b
      /\ \A c : c # b => Showing(T, {}, c) = Showing(S, {}, c)
  BY GrownPages
<1> HIDE DEF pg
<1>2. PageOK(T, {}, pg)
  BY <1>1 DEF PageOK, pg
<1>3. ASSUME NEW r \in PagesIn(S) PROVE PageOK(T, {}, r)
  <2>1. PICK c : c = BlockIn(S, r)
    OBVIOUS
  <2>2. /\ T.mem_block[c].resident = S.mem_block[c].resident
        /\ T.mem_block[c].location = S.mem_block[c].location
        /\ T.mem_block[c].is_swap = S.mem_block[c].is_swap
        /\ T.mem_block[c].dirty <=> S.mem_block[c].dirty
        /\ Ent(T, r) = Ent(S, r) \/ Ent(T, r) = ReadOnly(Ent(S, r))
        /\ c = b /\ S.mem_block[c].is_swap => ~Ent(T, r).write_enable
    BY <2>1
  <2>3. Ent(S, r) \in Entry
    BY EntType DEF Shape, PagesIn
  <2>4. /\ Ent(T, r).ppage = Ent(S, r).ppage
        /\ Ent(T, r).read_enable <=> Ent(S, r).read_enable
        /\ Ent(T, r).write_enable => Ent(S, r).write_enable
    BY <2>2, <2>3, EntryFields
  <2>5. PageOK(S, {}, r)
    BY DEF MmuInv
  <2>6. ASSUME Ent(T, r).write_enable, S.mem_block[c].is_swap
        PROVE  Showing(T, {}, c) = {r}
    BY <1>1, <2>1, <2>2, <2>4, <2>5, <2>6 DEF PageOK
  <2> QED
    BY <1>1, <2>1, <2>2, <2>4, <2>5, <2>6 DEF PageOK
<1> QED
  BY <1>1, <1>2, <1>3 DEF MmuInv

EntryAdded(S, T, p, b, x, e) ==
    /\ OnePageMore(S, T, p, b)
    /\ T.mem_block[b] = x /\ \A c \in BlockIds \ {b} : T.mem_block[c] = S.mem_block[c]
    /\ NextPage(S, p) \in Pids \X VPages /\ Ent(T, NextPage(S, p)) = e
    /\ \A r \in Pids \X VPages : r # NextPage(S, p) => Ent(T, r) = Ent(S, r)

LEMMA AddPageEntries ==
    ASSUME NEW S, Shape(S), NEW p \in Pids, NEW b \in BlockIds, NEW x,
           Len(S.data_location[p]) < num_virt_addr, NEW e, NEW T,
           T = [S EXCEPT !.data_location[p] = Append(@, b), !.mem_block[b] = x,
                         !.page_table[p][NextPage(S, p)[2]] = e]
    PROVE  EntryAdded(S, T, p, b, x, e)
<1> DEFINE n == NextPage(S, p)[2]
           dl == [S.data_location EXCEPT ![p] = Append(@, b)]
           mb == [S.mem_block EXCEPT ![b] = x]
           pt == [S.page_table EXCEPT ![p][n] = e]
<1>0. S \in PagerState
  BY DEF Shape
<1>1. n \in VPages /\ NextPage(S, p) = <<p, n>>
  <2>1. Len(S.data_location[p]) \in Nat
    BY PagesMeaning
  <2> QED
    BY <2>1, Numbers DEF NextPage, VPages
<1>2. S.mem_block \in [BlockIds -> Block] /\ S.page_table \in [Pids -> [VPages -> Entry]]
  BY <1>0, Fields
<1>3. mb[b] = x /\ \A c \in BlockIds \ {b} : mb[c] = S.mem_block[c]
  BY <1>2
<1> HIDE DEF n
<1>4. /\ pt[p][n] = e
      /\ \A a \in Pids, w \in VPages : <<a, w>> # <<p, n>> => pt[a][w] = S.page_table[a][w]
  BY <1>1, <1>2
<1>5. T = [S EXCEPT !.data_location = dl, !.mem_block = mb, !.page_table = pt]
  BY DEF n
<1>6. \A U : U.data_location = dl => OnePageMore(S, U, p, b)
  BY DEF OnePageMore
<1> HIDE DEF dl, mb, pt
<1>7. T.mem_block = mb /\ T.data_location = dl /\ T.page_table = pt
  BY <1>0, <1>5 DEF PagerState
<1>8. Ent(T, NextPage(S, p)) = e
  <2>1. Ent(T, <<p, n>>) = pt[p][n]
    BY <1>7 DEF Ent
  <2> QED
    BY <1>1, <1>4, <2>1
<1>9. ASSUME NEW r \in Pids \X VPages, r # NextPage(S, p) PROVE Ent(T, r) = Ent(S, r)
  <2>1. PICK a \in Pids, w \in VPages : r = <<a, w>>
    OBVIOUS
  <2> QED
    BY <1>1, <1>4, <1>7, <1>9, <2>1 DEF Ent
<1>10. /\ OnePageMore(S, T, p, b)
       /\ T.mem_block[b] = x /\ \A c \in BlockIds \ {b} : T.mem_block[c] = S.mem_block[c]
  BY <1>3, <1>6, <1>7
<1>11. NextPage(S, p) \in Pids \X VPages
  BY <1>1
<1> QED
  BY <1>8, <1>9, <1>10, <1>11 DEF EntryAdded

(* ReserveSwap *)
LEMMA ReserveEntries ==
    ASSUME NEW S, S \in PagerState, NEW b \in BlockIds
    PROVE  LET T == ReserveSwap(S, b) IN
           /\ T.page_table = S.page_table /\ LikeBlocks(S, T)
           /\ T.mem_block[b].ptes = S.mem_block[b].ptes
<1> DEFINE x == S.mem_block[b]
           sb == Append(x.swap_blocks, Head(S.free_swap_blocks))
           y == [x EXCEPT !.swap_blocks = sb]
           mb == [S.mem_block EXCEPT ![b] = y]
           fs == Tail(S.free_swap_blocks)
           T == ReserveSwap(S, b)
<1>1. S.mem_block \in [BlockIds -> Block] /\ x \in Block
  BY Fields
<1>2. T = [S EXCEPT !.mem_block = mb, !.free_swap_blocks = fs]
  BY <1>1 DEF ReserveSwap
<1> HIDE DEF sb, fs, T
<1>3. /\ y.resident = x.resident /\ y.is_swap = x.is_swap /\ y.location = x.location
      /\ y.ptes = x.ptes /\ (y.dirty <=> x.dirty)
  BY <1>1 DEF Block
<1> HIDE DEF y
<1>4. mb[b] = y /\ \A c \in BlockIds \ {b} : mb[c] = S.mem_block[c]
  BY <1>1
<1> HIDE DEF mb
<1>5. T.mem_block = mb /\ T.page_table = S.page_table /\ T.data_location = S.data_location
  BY <1>2 DEF PagerState
<1> QED
  BY <1>3, <1>4, <1>5 DEF LikeBlocks, T

(* copy_virtual_page: the page of the child sees what the parent's does,   *)
(* and neither may write to a swap-backed block any more.                  *)
LEMMA CopyPageMmu ==
    ASSUME NEW S, Whole(S, {}, {}), MmuInv(S, {}), NEW p \in Pids, NEW c \in Pids,
           NEW v \in DOMAIN S.data_location[p], Len(S.data_location[c]) + 1 = v,
           S.mem_block[S.data_location[p][v]].is_swap => S.free_swap_blocks # <<>>
    PROVE  MmuInv(copy_virtual_page(S, p, c, v), {})
<1> DEFINE b == S.data_location[p][v]
           x == S.mem_block[b]
           pg == <<c, v>>
           y == [x EXCEPT !.ptes = @ \cup {<<c, v>>}]
           old == S.page_table[p][v]
           e == [old EXCEPT !.write_enable = @ /\ ~x.is_swap]
           T == [S EXCEPT !.data_location[c] = Append(@, b),
                          !.mem_block[b].ptes = @ \cup {<<c, v>>},
                          !.page_table[c][v] = e]
           R == ReserveSwap(T, b)
           U == SetEntries(R, R.mem_block[b].ptes, ReadOnly)
           V == copy_virtual_page(S, p, c, v)
<1>0. Shape(S) /\ S \in PagerState
  BY DEF Whole, Shape
<1>1. /\ <<p, v>> \in PagesIn(S) /\ BlockIn(S, <<p, v>>) = b /\ v \in VPages
      /\ b \in BlockIds /\ b \in Referenced(S)
  <2>1. <<p, v>> \in PagesIn(S) /\ BlockIn(S, <<p, v>>) = b /\ v \in VPages
    BY <1>0, PagesMeaning
  <2> QED
    BY <1>0, <2>1, PagesType, ReferencedMeaning
<1>2. /\ Len(S.data_location[c]) < num_virt_addr /\ NextPage(S, c) = pg
      /\ Grown(S, V, c, b)
  BY CopyPageWhole DEF NextPage
<1>3. V = IF ~x.is_swap THEN T ELSE IF b = zero_page THEN R ELSE U
  BY DEF copy_virtual_page
<1>4. x \in Block /\ S.mem_block \in [BlockIds -> Block] /\ old \in Entry /\ old = Ent(S, <<p, v>>)
  <2>1. S.page_table \in [Pids -> [VPages -> Entry]] /\ S.mem_block \in [BlockIds -> Block]
    BY <1>0, Fields
  <2> QED
    BY <1>1, <2>1 DEF Ent
<1>5. T = [S EXCEPT !.data_location[c] = Append(@, b), !.mem_block[b] = y,
                    !.page_table[c][NextPage(S, c)[2]] = e]
  <2>1. NextPage(S, c)[2] = v
    BY <1>2
  <2> HIDE DEF e
  <2> QED
    BY <1>1, <1>4, <2>1
<1>6. /\ e \in Entry /\ e.ppage = old.ppage /\ (e.read_enable <=> old.read_enable)
      /\ e.write_enable <=> old.write_enable /\ ~x.is_swap
  BY <1>4 DEF Entry
<1>7. /\ y \in Block /\ y.resident = x.resident /\ y.is_swap = x.is_swap
      /\ y.location = x.location /\ (y.dirty <=> x.dirty)
      /\ y.filename = x.filename /\ y.block_num = x.block_num
      /\ y.swap_blocks = x.swap_blocks /\ y.ptes = x.ptes \cup {NextPage(S, c)}
  <2>1. <<c, v>> \in Pids \X VPages
    BY <1>1
  <2> QED
    BY <1>2, <1>4, <2>1 DEF Block
<1> HIDE DEF T, e, y, b, V, old
<1>8. /\ T.mem_block[b] = y /\ \A d \in BlockIds \ {b} : T.mem_block[d] = S.mem_block[d]
      /\ pg \in Pids \X VPages /\ Ent(T, pg) = e
      /\ \A r \in Pids \X VPages : r # pg => Ent(T, r) = Ent(S, r)
  <2>1. EntryAdded(S, T, c, b, y, e)
    BY <1>0, <1>1, <1>2, <1>5, AddPageEntries
  <2> QED
    BY <1>2, <2>1 DEF EntryAdded
<1> HIDE DEF pg
<1>9. T \in PagerState
  <2>1. PageAdded(S, T, c, b)
    BY <1>0, <1>1, <1>2, <1>5, <1>6, <1>7, AddPage
  <2> QED
    BY <2>1 DEF PageAdded
<1>10. /\ R.page_table = T.page_table /\ LikeBlocks(T, R) /\ R.mem_block[b].ptes = y.ptes
  BY <1>1, <1>8, <1>9, ReserveEntries
<1>11. /\ \A d \in BlockIds : LET z == S.mem_block[d] IN
            /\ T.mem_block[d].resident = z.resident /\ T.mem_block[d].location = z.location
            /\ T.mem_block[d].is_swap = z.is_swap /\ (T.mem_block[d].dirty <=> z.dirty)
            /\ R.mem_block[d].resident = z.resident /\ R.mem_block[d].location = z.location
            /\ R.mem_block[d].is_swap = z.is_swap /\ (R.mem_block[d].dirty <=> z.dirty)
  <2> HIDE DEF R
  <2>1. \A d \in BlockIds : LET z == S.mem_block[d] IN
            /\ T.mem_block[d].resident = z.resident /\ T.mem_block[d].location = z.location
            /\ T.mem_block[d].is_swap = z.is_swap /\ (T.mem_block[d].dirty <=> z.dirty)
    BY <1>7, <1>8
  <2> QED
    BY <1>10, <2>1 DEF LikeBlocks
<1>12. R \in PagerState \/ ~x.is_swap
  <2>1. ASSUME x.is_swap PROVE R \in PagerState
    <3>1. PageAdded(S, T, c, b)
      BY <1>0, <1>1, <1>2, <1>5, <1>6, <1>7, AddPage
    <3>2. T.free_swap_blocks # <<>>
      BY <2>1, <3>1 DEF PageAdded, b
    <3>3. GivenSwap(T, R, b)
      BY <1>1, <1>9, <3>2, ReserveEffect
    <3> QED
      BY <3>3 DEF GivenSwap
  <2> QED
    BY <2>1
<1> HIDE DEF R, U
<1>13. \A r \in Pids \X VPages : Ent(R, r) = Ent(T, r)
  BY <1>10 DEF Ent
<1>14. ASSUME x.is_swap, NEW r \in Pids \X VPages
       PROVE  /\ U.mem_block = R.mem_block
              /\ Painted(R, U, R.mem_block[b].ptes, r, ReadOnly(Ent(R, r)))
  BY <1>12, <1>14, PaintLoops, RepaintLoops DEF Repainted, U
<1>15. \A d \in BlockIds : LET z == S.mem_block[d] IN
            /\ V.mem_block[d].resident = z.resident /\ V.mem_block[d].location = z.location
            /\ V.mem_block[d].is_swap = z.is_swap /\ (V.mem_block[d].dirty <=> z.dirty)
  <2>1. V.mem_block = T.mem_block \/ V.mem_block = R.mem_block
    <3>1. CASE ~x.is_swap
      BY <1>3, <3>1
    <3>2. CASE x.is_swap
      BY <1>1, <1>3, <1>8, <1>14, <3>2
    <3> QED
      BY <3>1, <3>2
  <2> QED
    BY <1>11, <2>1
<1>16. ASSUME NEW r \in PagesIn(S)
       PROVE  /\ Ent(V, r) = Ent(S, r) \/ Ent(V, r) = ReadOnly(Ent(S, r))
              /\ BlockIn(S, r) = b /\ x.is_swap => ~Ent(V, r).write_enable
  <2>1. r \in Pids \X VPages /\ r # pg /\ Ent(S, r) \in Entry
    <3>1. pg \notin PagesIn(S)
      BY <1>0, <1>1, <1>2, GrownPages DEF Grown
    <3> QED
      BY <1>0, <3>1, EntType DEF PagesIn
  <2>2. Ent(T, r) = Ent(S, r) /\ Ent(R, r) = Ent(S, r)
    BY <1>8, <1>13, <2>1
  <2>3. CASE ~x.is_swap
    BY <1>3, <2>2, <2>3
  <2>4. CASE x.is_swap /\ b = zero_page
    <3>1. V = R
      BY <1>3, <2>4
    <3>2. ASSUME BlockIn(S, r) = b PROVE ~Ent(S, r).write_enable
      BY <2>4, <3>2 DEF MmuInv, PageOK
    <3> QED
      BY <2>2, <3>1, <3>2
  <2>5. CASE x.is_swap /\ b # zero_page
    <3>1. V = U
      BY <1>3, <2>5
    <3>2. Painted(R, U, R.mem_block[b].ptes, r, ReadOnly(Ent(R, r)))
      BY <1>14, <2>1, <2>5
    <3>3. ~ReadOnly(Ent(S, r)).write_enable
      BY <2>1, EntryFields
    <3>4. ASSUME BlockIn(S, r) = b PROVE r \in R.mem_block[b].ptes
      BY <1>7, <1>10, <2>5, <3>4, PageBlock
    <3> QED
      BY <2>2, <3>1, <3>2, <3>3, <3>4 DEF Painted
  <2> QED
    BY <2>3, <2>4, <2>5
<1>17. /\ Ent(V, pg).ppage = old.ppage /\ (Ent(V, pg).read_enable <=> old.read_enable)
       /\ Ent(V, pg).write_enable => old.write_enable /\ ~x.is_swap
  <2>1. Ent(V, pg) = e \/ Ent(V, pg) = ReadOnly(e)
    <3>1. CASE ~x.is_swap
      BY <1>3, <1>8, <3>1
    <3>2. CASE x.is_swap /\ b = zero_page
      BY <1>3, <1>8, <1>13, <3>2
    <3>3. CASE x.is_swap /\ b # zero_page
      <4>1. Painted(R, U, R.mem_block[b].ptes, pg, ReadOnly(Ent(R, pg))) /\ V = U
        BY <1>3, <1>8, <1>14, <3>3
      <4> QED
        BY <1>8, <1>13, <4>1 DEF Painted
    <3> QED
      BY <3>1, <3>2, <3>3
  <2> QED
    BY <1>6, <2>1, EntryFields
<1>18. PageOK(S, {}, <<p, v>>)
  BY <1>1 DEF MmuInv
<1>19. LET f == Ent(V, NextPage(S, c))
           z == V.mem_block[b]
       IN  /\ f.read_enable => z.resident
           /\ z.resident => f.ppage = z.location
           /\ f.write_enable => f.read_enable /\ z.dirty /\ ~z.is_swap
  <2>1. /\ V.mem_block[b].resident = x.resident /\ V.mem_block[b].location = x.location
        /\ V.mem_block[b].is_swap = x.is_swap /\ (V.mem_block[b].dirty <=> x.dirty)
    BY <1>1, <1>15
  <2> QED
    BY <1>1, <1>2, <1>4, <1>17, <1>18, <2>1 DEF PageOK
<1>20. ~V.mem_block[zero_page].dirty
  BY <1>15, Numbers DEF MmuInv
<1>21. OnePageMore(S, V, c, b)
  BY <1>2 DEF Grown
<1>22. \A r \in PagesIn(S) :
             LET z == S.mem_block[BlockIn(S, r)]
                 w == V.mem_block[BlockIn(S, r)]
             IN  /\ w.resident = z.resident /\ w.location = z.location
                 /\ w.is_swap = z.is_swap /\ (w.dirty <=> z.dirty)
                 /\ Ent(V, r) = Ent(S, r) \/ Ent(V, r) = ReadOnly(Ent(S, r))
                 /\ BlockIn(S, r) = b /\ z.is_swap => ~Ent(V, r).write_enable
  <2>1. \A r \in PagesIn(S) : BlockIn(S, r) \in BlockIds
    BY <1>0, PagesType
  <2> QED
    BY <1>15, <1>16, <2>1
<1>23. MmuInv(V, {})
  BY <1>0, <1>1, <1>2, <1>19, <1>20, <1>21, <1>22, AddedMmu
<1> QED
  BY <1>23 DEF V

(* The loop of vm_create: the swap block of the next page is there. *)
LEMMA SwapLeft ==
    ASSUME PagerInv, NEW p \in Pids, NEW c, NEW v \in 0 .. Len(data_location[p]) - 1, NEW S,
           S.data_location[p] = data_location[p], CopiedSoFar(S, p, c, v),
           S.mem_block[S.data_location[p][v + 1]].is_swap
    PROVE  S.free_swap_blocks # <<>>
<1> DEFINE N == Len(data_location[p])
           Left == {w \in SwapPagesOf(Pager, p) : w > v}
<1>0. Shape(Pager) /\ Pager.data_location = data_location /\ Pager.mem_block = mem_block
  BY DEF PagerInv, Whole, Pager
<1>1. N \in Nat /\ DOMAIN data_location[p] = 1 .. N /\ data_location[p] \in Seq(BlockIds)
  BY <1>0, PagesMeaning
<1>2. v + 1 \in 1 .. N /\ v + 1 > v
  BY <1>1
<1>3. data_location[p][v + 1] \in BlockIds
  BY <1>1, <1>2
<1>4. mem_block[data_location[p][v + 1]].is_swap
  BY <1>3 DEF CopiedSoFar
<1>5. v + 1 \in SwapPagesOf(Pager, p)
  BY <1>0, <1>1, <1>2, <1>4 DEF SwapPagesOf
<1>6. IsFiniteSet(Left)
  <2>1. IsFiniteSet(1 .. N)
    <3> HIDE DEF N
    <3>1. 1 \in Int /\ N \in Int
      BY <1>1
    <3> QED
      BY <3>1, FS_Interval
  <2>2. Left \subseteq 1 .. N
    BY <1>0, <1>1 DEF SwapPagesOf
  <2> QED
    BY <2>1, <2>2, FS_Subset
<1>7. Cardinality(Left) \in Nat /\ Cardinality(Left) # 0
  <2>1. Left # {}
    BY <1>2, <1>5
  <2> QED
    BY <1>6, <2>1, FS_EmptySet, FS_CardinalityType
<1>8. Len(S.free_swap_blocks) >= Cardinality(Left)
  BY DEF CopiedSoFar
<1> HIDE DEF Left
<1>9. ASSUME S.free_swap_blocks = <<>> PROVE FALSE
  <2>1. 0 >= Cardinality(Left)
    BY <1>8, <1>9
  <2> QED
    BY <1>7, <2>1
<1> QED
  BY <1>9

LEMMA CopyLoopMmu ==
    ASSUME PagerInv, MmuInv(Pager, {}), NEW p \in alive, NEW c \in Pids \ alive,
           ~(num_swap_blocks[p] > Len(free_swap_blocks))
    PROVE  MmuInv(Copied(p, c)[Len(data_location[p])], {})
<1> DEFINE N == Len(data_location[p])
           f == Copied(p, c)
           T == {v \in 0 .. N : MmuInv(f[v], {})}
<1>0. Shape(Pager) /\ Pager.data_location = data_location /\ p \in Pids /\ p # c /\ c \in Pids
  BY DEF PagerInv, ProcInv, Whole, Pager
<1>1. N \in Nat /\ DOMAIN data_location[p] = 1 .. N
  BY <1>0, PagesMeaning
<1>2. f[0] = Pager /\ \A i \in 1 .. N : f[i] = copy_virtual_page(f[i - 1], p, c, i)
  BY <1>1, CopiedDef
<1>3. \A v \in 0 .. N : CopiedSoFar(f[v], p, c, v)
  BY CopyLoop
<1> HIDE DEF f
<1>4. 0 \in T
  BY <1>1, <1>2
<1>5. ASSUME NEW v \in 0 .. N - 1, v \in T PROVE v + 1 \in T
  <2> DEFINE S == f[v]
  <2>1. v \in 0 .. N /\ v + 1 \in 1 .. N /\ v + 1 \in 0 .. N /\ (v + 1) - 1 = v
    BY <1>1
  <2>2. f[v + 1] = copy_virtual_page(S, p, c, v + 1) /\ MmuInv(S, {})
    BY <1>2, <1>5, <2>1
  <2> HIDE DEF S
  <2>3. CopiedSoFar(S, p, c, v)
    BY <1>3, <2>1 DEF S
  <2>4. /\ Whole(S, {}, {}) /\ S.data_location[p] = data_location[p]
        /\ Len(S.data_location[c]) = v
    BY <1>0, <2>3 DEF CopiedSoFar
  <2>5. v + 1 \in DOMAIN S.data_location[p] /\ Len(S.data_location[c]) + 1 = v + 1
    BY <1>1, <2>1, <2>4
  <2>6. S.mem_block[S.data_location[p][v + 1]].is_swap => S.free_swap_blocks # <<>>
    BY <1>0, <2>3, <2>4, SwapLeft
  <2>7. MmuInv(copy_virtual_page(S, p, c, v + 1), {})
    BY <1>0, <2>2, <2>4, <2>5, <2>6, CopyPageMmu
  <2> QED
    BY <2>1, <2>2, <2>7
<1> HIDE DEF T
<1>6. 0 .. N \subseteq T
  BY <1>1, <1>4, <1>5, UpToInduction
<1>7. N \in 0 .. N
  BY <1>1
<1> QED
  BY <1>6, <1>7 DEF T, f

-----------------------------------------------------------------------------
(* vm_destroy.                                                             *)

(* FreeSwap *)
LEMMA FreeSwapEntries ==
    ASSUME NEW S, S \in PagerState, NEW b \in BlockIds
    PROVE  LET T == FreeSwap(S, b) IN T.page_table = S.page_table /\ LikeBlocks(S, T)
<1> DEFINE x == S.mem_block[b]
           sb == Front(x.swap_blocks)
           y == [x EXCEPT !.swap_blocks = sb]
           mb == [S.mem_block EXCEPT ![b] = y]
           fs == Append(S.free_swap_blocks, Last(x.swap_blocks))
           T == FreeSwap(S, b)
<1>1. S.mem_block \in [BlockIds -> Block] /\ x \in Block
  BY Fields
<1>2. T = [S EXCEPT !.free_swap_blocks = fs, !.mem_block = mb]
  BY <1>1 DEF FreeSwap
<1> HIDE DEF sb, fs, T
<1>3. /\ y.resident = x.resident /\ y.is_swap = x.is_swap /\ y.location = x.location
      /\ (y.dirty <=> x.dirty)
  BY <1>1 DEF Block
<1> HIDE DEF y
<1>4. mb[b] = y /\ \A c \in BlockIds \ {b} : mb[c] = S.mem_block[c]
  BY <1>1
<1> HIDE DEF mb
<1>5. T.mem_block = mb /\ T.page_table = S.page_table /\ T.data_location = S.data_location
  BY <1>2 DEF PagerState
<1> QED
  BY <1>3, <1>4, <1>5 DEF LikeBlocks, T

LEMMA FreeSwapState ==
    ASSUME NEW S, S \in PagerState, NEW b \in BlockIds, S.mem_block[b].swap_blocks # <<>>
    PROVE  LET F == FreeSwap(S, b) IN
           /\ F \in PagerState /\ F.clock_queue = S.clock_queue
           /\ F.file_mapping_table = S.file_mapping_table /\ F.data_location = S.data_location
<1> DEFINE F == FreeSwap(S, b)
           x == S.mem_block[b]
           fs == Append(S.free_swap_blocks, Last(x.swap_blocks))
           sb == Front(x.swap_blocks)
           y == [x EXCEPT !.swap_blocks = sb]
           mb == [S.mem_block EXCEPT ![b] = y]
<1>1. /\ S.mem_block \in [BlockIds -> Block] /\ x \in Block
      /\ S.free_swap_blocks \in Seq(SwapBlocks)
  BY Fields
<1>2. F = [S EXCEPT !.free_swap_blocks = fs, !.mem_block = mb]
  BY <1>1 DEF FreeSwap
<1>3. fs \in Seq(SwapBlocks) /\ sb \in Seq(SwapBlocks)
  <2>1. x.swap_blocks \in Seq(SwapBlocks)
    BY <1>1 DEF Block
  <2>2. Last(x.swap_blocks) \in SwapBlocks /\ sb \in Seq(SwapBlocks)
    BY <2>1, FrontLastLemma
  <2> QED
    BY <1>1, <2>2
<1> HIDE DEF fs, sb
<1>4. y \in Block
  BY <1>1, <1>3 DEF Block
<1> HIDE DEF y
<1>5. mb \in [BlockIds -> Block]
  BY <1>1, <1>4
<1> HIDE DEF mb, F
<1>6. /\ F \in PagerState /\ F.clock_queue = S.clock_queue
      /\ F.file_mapping_table = S.file_mapping_table /\ F.data_location = S.data_location
  BY <1>2, <1>3, <1>5 DEF PagerState
<1> QED
  BY <1>6 DEF F

LEMMA DestroyPageMmu ==
    ASSUME NEW S, NEW gone, Shape(S), MmuInv(S, gone), NEW p \in Pids,
           NEW v \in DOMAIN S.data_location[p], NEW T, T = DestroyPage(S, p, v),
           Shape(T), PtesInv(T, gone \cup {<<p, v>>}),
           S.mem_block[S.data_location[p][v]].is_swap =>
             S.mem_block[S.data_location[p][v]].swap_blocks # <<>>
    PROVE  MmuInv(T, gone \cup {<<p, v>>})
<1> DEFINE pg == <<p, v>>
           b == S.data_location[p][v]
           E == ErasePte(S, b, p, v)
           x == E.mem_block[b]
           F == FreeSwap(E, b)
           U == update_block_permissions(F, b)
           fmt == IF Forgotten(x) THEN E.file_mapping_table \ {b} ELSE E.file_mapping_table
           free == IF x.ptes = {} THEN Append(U.free_mem_blocks, x.location)
                   ELSE U.free_mem_blocks
<1>0. S \in PagerState
  BY DEF Shape
<1>1. pg \in PagesIn(S) /\ BlockIn(S, pg) = b /\ b \in BlockIds /\ pg \in Pids \X VPages
  <2>1. pg \in PagesIn(S) /\ BlockIn(S, pg) = b
    BY PagesMeaning
  <2> QED
    BY <2>1, PagesType DEF PagesIn
<1>2. T = IF ~x.is_swap THEN [E EXCEPT !.file_mapping_table = fmt]
          ELSE IF ~x.resident \/ b = zero_page THEN F
          ELSE [U EXCEPT !.free_mem_blocks = free]
  BY DEF DestroyPage
<1> HIDE DEF E, b, pg, fmt
<1>3. E.page_table = S.page_table /\ LikeBlocks(S, E) /\ Erased(S, E, b, pg) /\ E \in PagerState
  BY <1>0, <1>1, EraseEntries, EraseEffect DEF E, pg, Erased
<1>6. x.is_swap => x.swap_blocks # <<>>
  BY <1>1, <1>3 DEF Erased, Alike, b
<1>4. CASE ~x.is_swap
  <2>1. T = [E EXCEPT !.file_mapping_table = fmt]
    BY <1>2, <1>4
  <2>2. T.page_table = E.page_table /\ T.mem_block = E.mem_block
        /\ T.data_location = E.data_location
    BY <1>3, <2>1 DEF PagerState
  <2>3. LikeBlocks(S, T) /\ \A r : Ent(T, r) = Ent(S, r)
    BY <1>3, <2>2 DEF LikeBlocks, Ent
  <2> QED
    BY <2>3, TakenMmu DEF pg
<1>5. CASE x.is_swap
  <2>1. F.page_table = E.page_table /\ LikeBlocks(E, F)
    BY <1>1, <1>3, FreeSwapEntries
  <2> HIDE DEF F
  <2>2. F.page_table = S.page_table /\ LikeBlocks(S, F)
    <3>1. F.data_location = S.data_location
      BY <1>3, <2>1 DEF LikeBlocks
    <3>2. ASSUME NEW c \in BlockIds
          PROVE  /\ F.mem_block[c].resident = S.mem_block[c].resident
                 /\ F.mem_block[c].location = S.mem_block[c].location
                 /\ F.mem_block[c].is_swap = S.mem_block[c].is_swap
                 /\ F.mem_block[c].dirty <=> S.mem_block[c].dirty
      BY <1>3, <2>1 DEF LikeBlocks
    <3> QED
      BY <1>3, <2>1, <3>1, <3>2 DEF LikeBlocks
  <2>3. CASE ~x.resident \/ b = zero_page
    <3>1. T = F /\ \A r : Ent(F, r) = Ent(S, r)
      BY <1>2, <1>5, <2>2, <2>3 DEF Ent
    <3> QED
      BY <2>2, <3>1, TakenMmu DEF pg
  <2>4. CASE ~(~x.resident \/ b = zero_page)
    <3>1. T = [U EXCEPT !.free_mem_blocks = free]
      BY <1>2, <1>5, <2>4
    <3>2. F \in PagerState /\ F.clock_queue = E.clock_queue
          /\ F.file_mapping_table = E.file_mapping_table /\ F.data_location = E.data_location
      <4>1. x.swap_blocks # <<>>
        BY <1>5, <1>6
      <4> QED
        BY <1>1, <1>3, <4>1, FreeSwapState DEF F
    <3>3. Repainted(F, U)
      BY <1>1, <3>2, UpdatePermissions
    <3> HIDE DEF U, free
    <3>4. /\ U \in PagerState /\ U.mem_block = F.mem_block /\ U.clock_queue = F.clock_queue
          /\ U.file_mapping_table = F.file_mapping_table /\ U.data_location = F.data_location
      BY <3>3 DEF Repainted, Unmoved
    <3>5. /\ T.mem_block = F.mem_block /\ T.clock_queue = F.clock_queue
          /\ T.file_mapping_table = F.file_mapping_table /\ T.data_location = F.data_location
          /\ T.page_table = U.page_table
      BY <3>1, <3>4 DEF PagerState
    <3>6. Referenced(F) = Referenced(T)
      BY <3>5 DEF Referenced
    <3>7. \A less, c : Showing(T, less, c) = Showing(F, less, c)
      BY <3>5, SamePages
    <3>8. PtesInv(F, gone \cup {pg})
      BY <3>5, <3>6, <3>7 DEF PtesInv, pg
    <3>9. b \in Referenced(F)
      <4>1. pg \in PagesIn(T) /\ BlockIn(T, pg) = b
        BY <1>1, <2>2, <3>5, SamePages DEF LikeBlocks
      <4> QED
        BY <3>6, <4>1, ReferencedMeaning
    <3>10. S.mem_block[b].resident
      BY <1>1, <1>3, <2>4 DEF LikeBlocks
    <3>11. MmuInv(U, gone \cup {pg})
      BY <1>1, <2>2, <3>2, <3>8, <3>9, <3>10, UpdateTaken DEF U
    <3>12. Shape(U) /\ LikeBlocks(U, T)
      BY <3>4, <3>5 DEF LikeBlocks, Shape
    <3> QED
      BY <3>5, <3>11, <3>12, SameMmu DEF pg
  <2> QED
    BY <2>3, <2>4
<1> QED
  BY <1>4, <1>5

LEMMA DestroyLoopMmu ==
    ASSUME Whole(Pager, {}, {}), MmuInv(Pager, {}), NEW p \in Pids
    PROVE  MmuInv(Destroyed(p)[Len(data_location[p])], FirstPages(p, Len(data_location[p])))
<1> DEFINE N == Len(data_location[p])
           f == Destroyed(p)
           T == {v \in 0 .. N : MmuInv(f[v], FirstPages(p, v))}
<1>0. Shape(Pager) /\ Pager.data_location = data_location
  BY DEF Whole, Pager
<1>1. N \in Nat /\ DOMAIN data_location[p] = 1 .. N
  BY <1>0, PagesMeaning
<1>2. f[0] = Pager /\ \A i \in 1 .. N : f[i] = DestroyPage(f[i - 1], p, i)
  BY <1>1, DestroyedDef
<1>3. \A v \in 0 .. N : Half(Pager, f[v], FirstPages(p, v))
  BY DestroyLoop
<1> HIDE DEF f
<1>4. 0 \in T
  <2>1. FirstPages(p, 0) = {}
    BY DEF FirstPages
  <2> QED
    BY <1>1, <1>2, <2>1
<1>5. ASSUME NEW v \in 0 .. N - 1, v \in T PROVE v + 1 \in T
  <2> DEFINE S == f[v]
             R == f[v + 1]
             pg == <<p, v + 1>>
             gone == FirstPages(p, v)
             b == S.data_location[p][v + 1]
  <2>1. /\ v \in 0 .. N /\ v + 1 \in 1 .. N /\ (v + 1) - 1 = v /\ v + 1 \in 0 .. N
        /\ v \in Nat
    BY <1>1
  <2>2. R = DestroyPage(S, p, v + 1)
    BY <1>2, <2>1
  <2>3. /\ Half(Pager, S, gone) /\ Half(Pager, R, FirstPages(p, v + 1))
        /\ MmuInv(S, gone)
    BY <1>3, <1>5, <2>1
  <2>4. gone \cup {pg} = FirstPages(p, v + 1)
    <3>1. 1 .. v + 1 = (1 .. v) \cup {v + 1}
      BY <2>1
    <3> QED
      BY <3>1 DEF FirstPages
  <2>5. pg \notin gone
    BY <2>1 DEF FirstPages
  <2> HIDE DEF S, R, gone
  <2>6. /\ Shape(S) /\ S.data_location = data_location /\ SwapInv(S, gone)
        /\ Shape(R) /\ PtesInv(R, gone \cup {pg})
    BY <1>0, <2>3, <2>4 DEF Half
  <2>7. v + 1 \in DOMAIN S.data_location[p]
    BY <1>1, <2>1, <2>6
  <2>8. pg \in PagesIn(S) /\ BlockIn(S, pg) = b
    BY <2>6, <2>7, PagesMeaning
  <2>9. b \in Referenced(S)
    BY <2>6, <2>8, ReferencedMeaning
  <2>10. S.mem_block[b].is_swap => S.mem_block[b].swap_blocks # <<>>
    <3>1. pg \in Showing(S, gone, b)
      BY <2>5, <2>8 DEF Showing
    <3>2. Cardinality(Showing(S, gone, b)) # 0
      BY <3>1, ShowingFinite, FS_EmptySet
    <3>3. S.mem_block[b].is_swap =>
            Len(S.mem_block[b].swap_blocks) = Cardinality(Showing(S, gone, b))
      BY <2>6, <2>9 DEF SwapInv
    <3>4. Len(<<>>) = 0
      OBVIOUS
    <3> QED
      BY <3>2, <3>3, <3>4
  <2>11. MmuInv(R, gone \cup {pg})
    BY <2>2, <2>3, <2>6, <2>7, <2>10, DestroyPageMmu
  <2> QED
    BY <2>1, <2>4, <2>11 DEF R
<1> HIDE DEF T
<1>6. 0 .. N \subseteq T
  BY <1>1, <1>4, <1>5, UpToInduction
<1>7. N \in 0 .. N
  BY <1>1
<1> QED
  BY <1>6, <1>7 DEF T, f

(* The pages that are left after vm_destroy keep their entries. *)
LEMMA ArenaGoneMmu ==
    ASSUME NEW D, NEW T, NEW p \in Pids, NEW gone, Shape(D),
           gone = {pg \in PagesIn(D) : pg[1] = p}, MmuInv(D, gone), ArenaGone(D, T, p, gone),
           \A q \in Pids \ {p} : T.page_table[q] = D.page_table[q]
    PROVE  MmuInv(T, {})
<1>1. D.data_location \in [Pids -> Seq(BlockIds)]
  BY Fields DEF Shape
<1>2. /\ T.data_location = [D.data_location EXCEPT ![p] = <<>>] /\ T.mem_block = D.mem_block
  BY DEF ArenaGone
<1>3. T.data_location[p] = <<>> /\ \A q \in Pids \ {p} : T.data_location[q] = D.data_location[q]
  BY <1>1, <1>2
<1>4. PagesIn(T) = PagesIn(D) \ gone
  <2>1. DOMAIN <<>> = {}
    OBVIOUS
  <2> QED
    BY <1>3, <2>1 DEF PagesIn
<1>5. \A r \in PagesIn(T) : BlockIn(T, r) = BlockIn(D, r) /\ Ent(T, r) = Ent(D, r)
  <2>1. ASSUME NEW r \in PagesIn(T) PROVE r[1] \in Pids \ {p}
    BY <1>4 DEF PagesIn
  <2> QED
    BY <1>3, <2>1 DEF BlockIn, Ent
<1>6. \A c : Showing(T, {}, c) = Showing(D, gone, c)
  BY <1>4, <1>5 DEF Showing
<1>7. ASSUME NEW r \in PagesIn(T) PROVE PageOK(T, {}, r)
  <2>1. PageOK(D, gone, r)
    BY <1>4 DEF MmuInv
  <2> QED
    BY <1>2, <1>5, <1>6, <2>1 DEF PageOK
<1> QED
  BY <1>2, <1>7 DEF MmuInv

(* The end of a handler *)
LEMMA BecomesMmu ==
    ASSUME NEW S, Shape(S), MmuInv(S, {}), Becomes(S)
    PROVE  MmuInv(Pager, {})'
<1> DEFINE N == Pager'
<1>1. /\ N.mem_block = [b \in BlockIds |-> IF b \in Referenced(S) THEN S.mem_block[b] ELSE NoBlock]
      /\ N.page_table = S.page_table /\ N.data_location = S.data_location
  BY DEF Becomes, Pager
<1> HIDE DEF N
<1>2. /\ Referenced(S) \subseteq BlockIds /\ zero_page \in Referenced(S)
      /\ \A r \in PagesIn(S) : BlockIn(S, r) \in Referenced(S)
  BY ReferencedMeaning
<1>3. \A b \in Referenced(S) : N.mem_block[b] = S.mem_block[b]
  BY <1>1, <1>2
<1>4. ~N.mem_block[zero_page].dirty
  BY <1>2, <1>3 DEF MmuInv
<1>5. \A r \in PagesIn(S) \ {} : Undisturbed(S, N, r)
  BY <1>1, <1>2, <1>3 DEF Undisturbed, Ent
<1>6. MmuInv(N, {})
  BY <1>1, <1>4, <1>5, SettleMmu
<1> QED
  BY <1>6 DEF N

LEMMA DestroyMmu ==
    ASSUME PagerInv, MmuInv(Pager, {}), Destroy
    PROVE  MmuInv(Pager, {})'
<1> DEFINE p == curr_pid
           N == Len(data_location[p])
           D == Destroyed(p)[N]
           useless == ToSet(D.free_mem_blocks) \ ToSet(free_mem_blocks)
           gone == FirstPages(p, N)
           T == [inspect_clock_queue(D, useless) EXCEPT
                  !.data_location[p] = <<>>, !.page_table[p] = [v \in VPages |-> NoEntry]]
<1>0. /\ Whole(Pager, {}, {}) /\ ProcInv /\ Shape(Pager) /\ Pager.data_location = data_location
      /\ Pager.free_mem_blocks = free_mem_blocks
  BY DEF PagerInv, Whole, Pager
<1>1. p # NoPid /\ Becomes(T)
  BY DEF Destroy
<1>2. p \in Pids
  BY <1>0, <1>1 DEF ProcInv
<1>3. Half(Pager, D, gone) /\ MmuInv(D, gone)
  BY <1>0, <1>2, DestroyLoop, DestroyLoopMmu
<1> HIDE DEF D
<1>4. D.data_location = data_location /\ Shape(D) /\ D \in PagerState
  BY <1>0, <1>3 DEF Half, Shape
<1>5. gone = {pg \in PagesIn(D) : pg[1] = p}
  <2>1. DOMAIN data_location[p] = 1 .. N /\ DOMAIN data_location[p] \subseteq VPages
    BY <1>0, <1>2, PagesMeaning
  <2> QED
    BY <1>2, <1>4, <2>1 DEF FirstPages, PagesIn
<1>6. ArenaGone(D, T, p, gone)
  <2> HIDE DEF gone, T
  <2>1. useless = ToSet(D.free_mem_blocks) \ ToSet(Pager.free_mem_blocks)
    BY <1>0
  <2> QED
    BY <1>0, <1>2, <1>3, <2>1, InspectEffect DEF T
<1>7. \A q \in Pids \ {p} : T.page_table[q] = D.page_table[q]
  <2> DEFINE useful == {b \in BlockIds : D.mem_block[b].location \notin useless \cup {0}}
             cq == Filter(D.clock_queue, useful)
             C == [D EXCEPT !.clock_queue = cq]
             pt == [C.page_table EXCEPT ![p] = [v \in VPages |-> NoEntry]]
             dl == [C.data_location EXCEPT ![p] = <<>>]
  <2>1. inspect_clock_queue(D, useless) = C
    BY DEF inspect_clock_queue
  <2> HIDE DEF cq
  <2>2. C.page_table = D.page_table /\ DOMAIN C = DOMAIN D
    BY <1>4 DEF PagerState
  <2>3. T = [C EXCEPT !.data_location = dl, !.page_table = pt]
    BY <2>1
  <2>4. D.page_table \in [Pids -> [VPages -> Entry]]
    BY <1>4, Fields
  <2>5. \A q \in Pids \ {p} : pt[q] = D.page_table[q]
    BY <2>2, <2>4
  <2> HIDE DEF T, dl, pt, C
  <2>6. T.page_table = pt
    BY <1>4, <2>2, <2>3 DEF PagerState
  <2> QED
    BY <2>5, <2>6
<1> HIDE DEF gone, T
<1>8. MmuInv(T, {})
  BY <1>2, <1>3, <1>4, <1>5, <1>6, <1>7, ArenaGoneMmu
<1>9. Shape(T)
  <2>1. Whole(T, {}, {})
    BY <1>0, <1>2, <1>3, <1>5, <1>6, ArenaGoneWhole
  <2> QED
    BY <2>1 DEF Whole
<1> QED
  BY <1>1, <1>8, <1>9, BecomesMmu

-----------------------------------------------------------------------------
(* vm_map.                                                                 *)

(* A page is added that shows a block nobody may write to but as a file    *)
(* block, and that the pages it already has see as before.                 *)
LEMMA EntryAddedMmu ==
    ASSUME NEW S, Shape(S), MmuInv(S, {}), NEW p \in Pids, Len(S.data_location[p]) < num_virt_addr,
           NEW b \in BlockIds, NEW T, NEW y, NEW e, EntryAdded(S, T, p, b, y, e),
           \/ b # zero_page /\ \A r \in PagesIn(S) : BlockIn(S, r) # b
           \/ LET x == S.mem_block[b]
              IN  /\ y.resident = x.resident /\ y.location = x.location
                  /\ y.is_swap = x.is_swap /\ (y.dirty <=> x.dirty),
           y.is_swap => ~y.dirty,
           e.read_enable => y.resident, y.resident => e.ppage = y.location,
           e.write_enable => e.read_enable /\ y.dirty /\ ~y.is_swap
    PROVE  MmuInv(T, {})
<1>1. /\ OnePageMore(S, T, p, b)
      /\ T.mem_block[b] = y /\ \A c \in BlockIds \ {b} : T.mem_block[c] = S.mem_block[c]
      /\ NextPage(S, p) \in Pids \X VPages /\ Ent(T, NextPage(S, p)) = e
      /\ \A r \in Pids \X VPages : r # NextPage(S, p) => Ent(T, r) = Ent(S, r)
  BY DEF EntryAdded
<1>2. ~T.mem_block[zero_page].dirty
  BY <1>1, Numbers DEF MmuInv
<1>3. ASSUME NEW r \in PagesIn(S)
      PROVE  LET x == S.mem_block[BlockIn(S, r)]
                 z == T.mem_block[BlockIn(S, r)]
             IN  /\ z.resident = x.resident /\ z.location = x.location
                 /\ z.is_swap = x.is_swap /\ (z.dirty <=> x.dirty)
                 /\ Ent(T, r) = Ent(S, r) \/ Ent(T, r) = ReadOnly(Ent(S, r))
                 /\ BlockIn(S, r) = b /\ x.is_swap => ~Ent(T, r).write_enable
  <2>1. r \in Pids \X VPages /\ BlockIn(S, r) \in BlockIds
    BY PagesType DEF PagesIn
  <2>2. r # NextPage(S, p)
    <3>1. DOMAIN S.data_location[p] = 1 .. Len(S.data_location[p]) /\ Len(S.data_location[p]) \in Nat
      BY PagesMeaning
    <3>2. ASSUME r = NextPage(S, p) PROVE FALSE
      <4>1. PICK k \in Nat : k = Len(S.data_location[p])
        BY <3>1
      <4>2. r[1] = p /\ r[2] = k + 1 /\ r[2] \in 1 .. k
        BY <3>1, <3>2, <4>1 DEF NextPage, PagesIn
      <4> QED
        BY <4>1, <4>2
    <3> QED
      BY <3>2
  <2>3. Ent(T, r) = Ent(S, r) /\ PageOK(S, {}, r)
    BY <1>1, <2>1, <2>2 DEF MmuInv
  <2>4. CASE BlockIn(S, r) # b
    BY <1>1, <2>1, <2>3, <2>4
  <2>5. CASE BlockIn(S, r) = b
    <3>1. LET x == S.mem_block[b]
          IN  /\ y.resident = x.resident /\ y.location = x.location
              /\ y.is_swap = x.is_swap /\ (y.dirty <=> x.dirty)
      BY <2>5
    <3>2. Ent(S, r).write_enable => S.mem_block[b].dirty
      BY <2>3, <2>5 DEF PageOK
    <3> QED
      BY <1>1, <2>3, <2>5, <3>1, <3>2
  <2> QED
    BY <2>4, <2>5
<1>4. LET f == Ent(T, NextPage(S, p))
          z == T.mem_block[b]
      IN  /\ f.read_enable => z.resident
          /\ z.resident => f.ppage = z.location
          /\ f.write_enable => f.read_enable /\ z.dirty /\ ~z.is_swap
  BY <1>1
<1> QED
  BY <1>1, <1>2, <1>3, <1>4, AddedMmu

LEMMA MapSwapMmu ==
    ASSUME PagerInv, MmuInv(Pager, {}), MapSwap
    PROVE  MmuInv(Pager, {})'
<1> DEFINE p == curr_pid
           n == Len(data_location[p]) + 1
           R == ReserveSwap(Pager, zero_page)
           e == [ppage |-> 0, read_enable |-> TRUE, write_enable |-> FALSE]
           T == [R EXCEPT !.page_table[p][n] = e, !.data_location[p] = Append(@, zero_page)]
           x == R.mem_block[zero_page]
<1>0. /\ Whole(Pager, {}, {}) /\ ProcInv /\ Shape(Pager) /\ Pager.data_location = data_location
      /\ Pager.free_swap_blocks = free_swap_blocks /\ Pager \in PagerState /\ Pinned(Pager)
      /\ zero_page \in BlockIds
  BY Numbers DEF PagerInv, Whole, Shape, Pager
<1>1. p # NoPid /\ n <= num_virt_addr /\ free_swap_blocks # <<>> /\ Becomes(T)
  BY DEF MapSwap
<1>2. p \in Pids
  BY <1>0, <1>1 DEF ProcInv
<1>3. Len(Pager.data_location[p]) < num_virt_addr /\ NextPage(Pager, p) = <<p, n>>
  <2>1. PICK k \in Nat : k = Len(data_location[p])
    BY <1>0, <1>2, PagesMeaning
  <2>2. k < num_virt_addr
    BY <1>1, <2>1, Numbers
  <2> QED
    BY <1>0, <2>1, <2>2 DEF NextPage
<1>4. GivenSwap(Pager, R, zero_page) /\ R.page_table = Pager.page_table /\ LikeBlocks(Pager, R)
  BY <1>0, <1>1, ReserveEffect, ReserveEntries
<1> HIDE DEF R
<1>5. /\ R \in PagerState /\ R.data_location = data_location
      /\ NextPage(R, p) = <<p, n>> /\ Len(R.data_location[p]) < num_virt_addr
  BY <1>0, <1>3, <1>4 DEF GivenSwap, NextPage
<1>6. Shape(R) /\ MmuInv(R, {})
  <2>1. \A b \in BlockIds : PlaceOK(R.mem_block[b])
    BY <1>0, <1>4 DEF GivenSwap, Shape, PlaceOK, Alike
  <2> QED
    BY <1>0, <1>4, <1>5, <2>1, SameMmu DEF Shape
<1>7. R.mem_block \in [BlockIds -> Block] /\ x \in Block
  BY <1>0, <1>5, Fields
<1>8. T = [R EXCEPT !.data_location[p] = Append(@, zero_page), !.mem_block[zero_page] = x,
                     !.page_table[p][NextPage(R, p)[2]] = e]
  <2>1. NextPage(R, p)[2] = n
    BY <1>5
  <2>2. [R.mem_block EXCEPT ![zero_page] = x] = R.mem_block
    BY <1>7
  <2> HIDE DEF e, n, x
  <2> DEFINE dl == [R.data_location EXCEPT ![p] = Append(@, zero_page)]
             pt == [R.page_table EXCEPT ![p][n] = e]
             mb == R.mem_block
  <2>3. T = [R EXCEPT !.page_table = pt, !.data_location = dl]
    BY <1>5 DEF PagerState
  <2>4. [R EXCEPT !.data_location[p] = Append(@, zero_page), !.mem_block[zero_page] = x,
                  !.page_table[p][NextPage(R, p)[2]] = e]
          = [R EXCEPT !.data_location = dl, !.mem_block = mb, !.page_table = pt]
    BY <1>5, <2>1, <2>2 DEF PagerState
  <2> HIDE DEF dl, pt
  <2>5. [R EXCEPT !.data_location = dl, !.mem_block = mb, !.page_table = pt]
          = [R EXCEPT !.page_table = pt, !.data_location = dl]
    BY <1>5 DEF PagerState
  <2> QED
    BY <2>3, <2>4, <2>5
<1>9. ~e.write_enable /\ e.ppage = 0
  OBVIOUS
<1>10. x.resident /\ x.location = 0 /\ ~x.dirty
  BY <1>0, <1>4 DEF LikeBlocks, Pinned, MmuInv
<1> HIDE DEF T, e, n, x
<1>11. EntryAdded(R, T, p, zero_page, x, e)
  BY <1>0, <1>2, <1>5, <1>6, <1>8, AddPageEntries
<1>12. MmuInv(T, {})
  <2>1. \/ zero_page # zero_page /\ \A r \in PagesIn(R) : BlockIn(R, r) # zero_page
        \/ LET z == R.mem_block[zero_page]
           IN  /\ x.resident = z.resident /\ x.location = z.location
               /\ x.is_swap = z.is_swap /\ (x.dirty <=> z.dirty)
    BY DEF x
  <2> QED
    BY <1>0, <1>2, <1>5, <1>6, <1>9, <1>10, <1>11, <2>1, EntryAddedMmu
<1>13. Shape(T)
  <2>1. e \in Entry
    BY Numbers DEF Entry, e
  <2>2. PageAdded(R, T, p, zero_page)
    BY <1>0, <1>2, <1>5, <1>6, <1>7, <1>8, <2>1, AddPage DEF x
  <2>3. Pager.mem_block[zero_page].is_swap
    BY <1>0 DEF Pinned
  <2>4. Grown(Pager, T, p, zero_page)
    BY <1>0, <1>1, <1>4, <1>7, <2>2, <2>3, SwapGrown
  <2> DEFINE S == Pager
  <2> HIDE DEF S
  <2>5. Whole(S, {}, {}) /\ zero_page \in Referenced(S) /\ S.mem_block[zero_page].is_swap
        /\ Len(S.data_location[p]) < num_virt_addr /\ Grown(S, T, p, zero_page)
    BY <1>0, <1>3, <2>3, <2>4, ReferencedMeaning DEF S
  <2>6. Whole(T, {}, {})
    BY <1>2, <2>5, GrownWhole
  <2> QED
    BY <2>6 DEF Whole
<1> QED
  BY <1>1, <1>12, <1>13, BecomesMmu

LEMMA MapFileBlockMmu ==
    ASSUME NEW S, Whole(S, {}, {}), MmuInv(S, {}), NEW p \in Pids,
           Len(S.data_location[p]) < num_virt_addr, NEW name, NEW blk,
           NEW n, n = Len(S.data_location[p]) + 1, NEW T, T = map_file_block(S, p, n, name, blk)
    PROVE  MmuInv(T, {})
<1> DEFINE new == Unused(S)
           y == [NewBlock(blk, FALSE, name, blk) EXCEPT
                   !.resident = FALSE, !.referenced = FALSE, !.ptes = {<<p, n>>}]
           e == [ppage |-> blk, read_enable |-> FALSE, write_enable |-> FALSE]
           mb == [S.mem_block EXCEPT ![new] = y]
           fmt == S.file_mapping_table \cup {new}
           dl == [S.data_location EXCEPT ![p] = Append(@, new)]
           pt == [S.page_table EXCEPT ![p][n] = e]
           R == [S EXCEPT !.file_mapping_table = fmt]
<1>0. Shape(S) /\ S \in PagerState
  BY DEF Whole, Shape
<1>1. new \in BlockIds /\ new \notin Referenced(S)
  BY UnusedLemma
<1>2. T = [S EXCEPT !.mem_block = mb, !.file_mapping_table = fmt,
                    !.data_location = dl, !.page_table = pt]
  BY DEF map_file_block
<1> HIDE DEF new
<1>3. ~y.resident /\ ~y.is_swap
  BY DEF NewBlock
<1>4. ~e.read_enable /\ ~e.write_enable
  OBVIOUS
<1>5. fmt \in SUBSET BlockIds
  BY <1>0, <1>1, Fields
<1> HIDE DEF y, e, fmt
<1>6. /\ R \in PagerState /\ R.mem_block = S.mem_block /\ R.data_location = S.data_location
      /\ R.page_table = S.page_table
  BY <1>0, <1>5 DEF PagerState
<1>7. Shape(R) /\ MmuInv(R, {}) /\ Len(R.data_location[p]) < num_virt_addr
  <2>1. LikeBlocks(S, R)
    BY <1>6 DEF LikeBlocks
  <2> QED
    BY <1>0, <1>6, <2>1, SameMmu DEF Shape
<1>8. NextPage(R, p)[2] = n
  BY <1>6 DEF NextPage
<1>9. T = [R EXCEPT !.data_location[p] = Append(@, new), !.mem_block[new] = y,
                    !.page_table[p][NextPage(R, p)[2]] = e]
  <2>1. [R EXCEPT !.data_location[p] = Append(@, new), !.mem_block[new] = y,
                  !.page_table[p][NextPage(R, p)[2]] = e]
        = [R EXCEPT !.data_location = dl, !.mem_block = mb, !.page_table = pt]
    BY <1>6, <1>8 DEF PagerState
  <2> HIDE DEF dl, mb, pt
  <2>2. T = [R EXCEPT !.data_location = dl, !.mem_block = mb, !.page_table = pt]
    BY <1>0, <1>2 DEF PagerState
  <2> QED
    BY <2>1, <2>2
<1> HIDE DEF R
<1>10. EntryAdded(R, T, p, new, y, e)
  BY <1>1, <1>7, <1>9, AddPageEntries
<1>11. new # zero_page /\ \A r \in PagesIn(R) : BlockIn(R, r) # new
  <2>1. PagesIn(R) = PagesIn(S) /\ \A r : BlockIn(R, r) = BlockIn(S, r)
    BY <1>6, SamePages
  <2> QED
    BY <1>0, <1>1, <2>1, ReferencedMeaning
<1> QED
  BY <1>1, <1>3, <1>4, <1>7, <1>10, <1>11, EntryAddedMmu

LEMMA UpdateFileBlockMmu ==
    ASSUME NEW S, Whole(S, {}, {}), MmuInv(S, {}), NEW p \in Pids,
           Len(S.data_location[p]) < num_virt_addr,
           NEW n, n = Len(S.data_location[p]) + 1, NEW b \in S.file_mapping_table,
           NEW reference \in S.mem_block[b].ptes \cup {<<p, n>>},
           reference = <<p, n>> <=> S.mem_block[b].ptes = {},
           NEW T, T = update_file_block(S, p, n, b, reference)
    PROVE  MmuInv(T, {})
<1> DEFINE x == S.mem_block[b]
           on == x.resident /\ x.referenced
           y == [x EXCEPT !.ptes = @ \cup {<<p, n>>}]
           old == S.page_table[p][n]
           e == IF x.ptes # {} THEN S.page_table[reference[1]][reference[2]]
                ELSE [ppage |-> IF x.resident THEN x.location ELSE old.ppage,
                      read_enable |-> on, write_enable |-> on /\ x.dirty]
<1>0. Shape(S) /\ S \in PagerState /\ FilesInv(S) /\ PtesInv(S, {}) /\ Pinned(S)
  BY DEF Whole, Shape
<1>1. b \in Referenced(S) /\ b \in BlockIds /\ ~x.is_swap /\ b # zero_page
  BY <1>0, ReferencedMeaning DEF FilesInv, Pinned
<1>2. n \in VPages /\ NextPage(S, p) = <<p, n>>
  <2>1. Len(S.data_location[p]) \in Nat
    BY <1>0, PagesMeaning
  <2> QED
    BY <2>1, Numbers DEF NextPage, VPages
<1>3. /\ S.mem_block \in [BlockIds -> Block] /\ x \in Block
      /\ S.page_table \in [Pids -> [VPages -> Entry]]
  BY <1>0, <1>1, <1>2, Fields
<1>4. /\ e.read_enable => x.resident
      /\ x.resident => e.ppage = x.location
      /\ e.write_enable => e.read_enable /\ x.dirty
  <2>1. CASE x.ptes # {}
    <3>1. reference \in Showing(S, {}, b)
      BY <1>0, <1>1, <2>1 DEF PtesInv
    <3>2. PageOK(S, {}, reference) /\ BlockIn(S, reference) = b
      BY <3>1 DEF Showing, MmuInv
    <3>3. e = Ent(S, reference)
      BY <2>1 DEF Ent
    <3> HIDE DEF e
    <3> QED
      BY <3>2, <3>3 DEF PageOK
  <2>2. CASE x.ptes = {}
    BY <2>2
  <2> QED
    BY <2>1, <2>2
<1>5. T = [S EXCEPT !.data_location[p] = Append(@, b), !.mem_block[b] = y,
                    !.page_table[p][NextPage(S, p)[2]] = e]
  <2>1. NextPage(S, p)[2] = n
    BY <1>2
  <2> DEFINE dl == [S.data_location EXCEPT ![p] = Append(@, b)]
             mb == [S.mem_block EXCEPT ![b] = y]
             pt == [S.page_table EXCEPT ![p][n] = e]
  <2>2. T = [S EXCEPT !.mem_block = mb, !.data_location = dl, !.page_table = pt]
    BY <1>1, <1>2, <1>3 DEF update_file_block
  <2> HIDE DEF e, y
  <2>3. [S EXCEPT !.data_location[p] = Append(@, b), !.mem_block[b] = y,
                    !.page_table[p][NextPage(S, p)[2]] = e]
        = [S EXCEPT !.data_location = dl, !.mem_block = mb, !.page_table = pt]
    BY <1>0, <2>1 DEF PagerState
  <2> HIDE DEF dl, mb, pt
  <2>4. [S EXCEPT !.mem_block = mb, !.data_location = dl, !.page_table = pt]
        = [S EXCEPT !.data_location = dl, !.mem_block = mb, !.page_table = pt]
    BY <1>0 DEF PagerState
  <2> QED
    BY <2>2, <2>3, <2>4
<1> HIDE DEF e
<1>6. /\ y.resident = x.resident /\ y.is_swap = x.is_swap /\ y.location = x.location
      /\ y.dirty <=> x.dirty
  BY <1>3 DEF Block
<1> HIDE DEF y
<1>7. EntryAdded(S, T, p, b, y, e)
  BY <1>0, <1>1, <1>5, AddPageEntries
<1> QED
  BY <1>0, <1>1, <1>4, <1>6, <1>7, EntryAddedMmu

-----------------------------------------------------------------------------
(* The handlers.                                                           *)

LEMMA FaultMmu ==
    ASSUME PagerInv, MmuInv(Pager, {}), NEW v, NEW write_flag, Fault(v, write_flag)
    PROVE  MmuInv(Pager, {})'
<1> DEFINE p == curr_pid
           b == data_location[p][v]
           S == MadeResident(Pager, b)
           T == IF S.mem_block[b].resident THEN Served(S, p, v, write_flag) ELSE S
<1>1. p # NoPid /\ v \in DOMAIN data_location[p] /\ Becomes(T)
  BY DEF Fault
<1>2. /\ Whole(Pager, {}, {}) /\ Shape(Pager) /\ p \in Pids
      /\ Pager.data_location = data_location
      /\ <<p, v>> \in PagesIn(Pager) /\ BlockIn(Pager, <<p, v>>) = b
  BY <1>1, CurrentProcess
<1>3. Whole(S, {}, {}) /\ MmuInv(S, {}) /\ S.data_location = Pager.data_location
  <2> DEFINE P == Pager
  <2> HIDE DEF P, b
  <2>1. /\ Whole(P, {}, {}) /\ <<p, v>> \in PagesIn(P) /\ BlockIn(P, <<p, v>>) = b
        /\ MmuInv(P, {})
    BY <1>2 DEF P
  <2>2. /\ Whole(MadeResident(P, b), {}, {}) /\ MadeResident(P, b).data_location = P.data_location
    BY <2>1, ResidentWhole
  <2>3. MmuInv(MadeResident(P, b), {})
    BY <2>1, ResidentMmu
  <2> QED
    BY <2>2, <2>3 DEF P
<1> HIDE DEF S
<1>4. Shape(T) /\ MmuInv(T, {})
  <2>1. CASE S.mem_block[b].resident
    <3>1. v \in DOMAIN S.data_location[p] /\ S.mem_block[S.data_location[p][v]].resident
      BY <1>1, <1>2, <1>3, <2>1
    <3>2. Whole(Served(S, p, v, write_flag), {}, {}) /\ MmuInv(Served(S, p, v, write_flag), {})
      BY <1>2, <1>3, <3>1, ServedWhole, ServedMmu
    <3> QED
      BY <2>1, <3>2 DEF Whole
  <2>2. CASE ~S.mem_block[b].resident
    <3>1. T = S
      BY <2>2
    <3> QED
      BY <1>3, <3>1 DEF Whole
  <2> QED
    BY <2>1, <2>2
<1> HIDE DEF T
<1> QED
  BY <1>1, <1>4, BecomesMmu

(* Bringing in the pages of a name *)
LEMMA SettledMmu ==
    ASSUME NEW S, NEW T, Whole(S, {}, {}), Settled(S, T), MmuInv(T, {}), NEW p \in Pids,
           NEW v \in DOMAIN S.data_location[p], NEW b, b = S.data_location[p][v]
    PROVE  MmuInv(MadeResident(T, b), {})
<1>1. Whole(T, {}, {}) /\ Shape(T) /\ T.data_location = S.data_location
  BY DEF Settled, Whole
<1>2. <<p, v>> \in PagesIn(T) /\ BlockIn(T, <<p, v>>) = b
  BY <1>1, PagesMeaning
<1> QED
  BY <1>1, <1>2, ResidentMmu

LEMMA ReadNameMmu ==
    ASSUME NEW S, Whole(S, {}, {}), MmuInv(S, {}), NEW p \in Pids,
           NEW v \in DOMAIN S.data_location[p], NEW w \in DOMAIN S.data_location[p]
    PROVE  MmuInv(ReadName(S, p, v, w), {})
<1> DEFINE A == MadeResident(S, S.data_location[p][v])
           B == MadeResident(A, S.data_location[p][w])
<1>1. Settled(S, S)
  BY DEF Settled
<1>2. Settled(S, A) /\ MmuInv(A, {})
  BY <1>1, SettledResident, SettledMmu
<1> HIDE DEF A
<1>3. MmuInv(B, {})
  BY <1>2, SettledMmu
<1> HIDE DEF B
<1>4. ReadName(S, p, v, w) = A \/ ReadName(S, p, v, w) = B
  BY ReadNameIs DEF A, B
<1> QED
  BY <1>2, <1>3, <1>4

LEMMA MapFileMmu ==
    ASSUME PagerInv, MmuInv(Pager, {}), NEW v \in VPages, NEW w \in VPages,
           NEW blk \in FileBlocks, MapFile(v, w, blk)
    PROVE  MmuInv(Pager, {})'
<1> DEFINE p == curr_pid
           n == Len(data_location[p]) + 1
           name == filename_str(p, v, w)
           S == ReadName(Pager, p, v, w)
<1>1. /\ p # NoPid /\ n <= num_virt_addr /\ v <= w /\ w <= v + 1
      /\ {v, w} \subseteq DOMAIN data_location[p]
      /\ IF NameWasRead(Pager, p, v, w) THEN MapNamed(S, p, n, name, blk) ELSE Becomes(S)
  BY DEF MapFile
<1>2. /\ Whole(Pager, {}, {}) /\ p \in Pids
      /\ Pager.data_location = data_location /\ Len(data_location[p]) \in Nat
  BY <1>1, CurrentProcess
<1>3. NameWasRead(Pager, p, v, w) => name \in Names
  BY <1>1, NameType
<1>4. Settled(Pager, S) /\ MmuInv(S, {})
  BY <1>1, <1>2, ReadNameSettles, ReadNameMmu
<1> HIDE DEF S, name
<1>5. Whole(S, {}, {}) /\ S.data_location = data_location /\ Shape(S)
  BY <1>2, <1>4 DEF Settled, Whole
<1>6. Len(S.data_location[p]) < num_virt_addr /\ n = Len(S.data_location[p]) + 1
  <2>1. PICK k \in Nat : k = Len(data_location[p])
    BY <1>2
  <2>2. k < num_virt_addr
    BY <1>1, <2>1, Numbers
  <2> QED
    BY <1>5, <2>1, <2>2
<1> HIDE DEF n
<1>7. CASE ~NameWasRead(Pager, p, v, w)
  BY <1>1, <1>4, <1>5, <1>7, BecomesMmu
<1>8. CASE NameWasRead(Pager, p, v, w)
  <2>1. MapNamed(S, p, n, name, blk)
    BY <1>1, <1>8
  <2>2. CASE Becomes(map_file_block(S, p, n, name, blk))
    <3> DEFINE T == map_file_block(S, p, n, name, blk)
    <3>1. Whole(T, {}, {}) /\ MmuInv(T, {})
      BY <1>2, <1>3, <1>4, <1>5, <1>6, <1>8, MapFileBlock, MapFileBlockMmu
    <3> HIDE DEF T
    <3> QED
      BY <2>2, <3>1, BecomesMmu DEF T, Whole
  <2>3. ASSUME NEW b \in S.file_mapping_table, NEW reference \in S.mem_block[b].ptes \cup {<<p, n>>},
               reference = <<p, n>> <=> S.mem_block[b].ptes = {},
               Becomes(update_file_block(S, p, n, b, reference))
        PROVE  MmuInv(Pager, {})'
    <3> DEFINE T == update_file_block(S, p, n, b, reference)
    <3>1. Whole(T, {}, {})
      BY <1>2, <1>5, <1>6, UpdateFileBlock
    <3>2. MmuInv(T, {})
      BY <1>2, <1>4, <1>5, <1>6, <2>3, UpdateFileBlockMmu
    <3> HIDE DEF T
    <3> QED
      BY <2>3, <3>1, <3>2, BecomesMmu DEF T, Whole
  <2> QED
    BY <2>1, <2>2, <2>3 DEF MapNamed
<1> QED
  BY <1>7, <1>8

LEMMA MapFileInvalidMmu ==
    ASSUME PagerInv, MmuInv(Pager, {}), MapFileInvalid
    PROVE  MmuInv(Pager, {})'
<1> DEFINE p == curr_pid
           s == data_location[p]
           b == s[Len(s)]
           S == MadeResident(Pager, b)
<1>1. p # NoPid /\ Len(s) \in 1 .. num_virt_addr - 1 /\ Becomes(S)
  <2>1. Pager.data_location = data_location
    BY DEF Pager
  <2> QED
    BY <2>1 DEF MapFileInvalid, Touched
<1>2. /\ Whole(Pager, {}, {}) /\ p \in Pids
      /\ Pager.data_location = data_location /\ s \in Seq(BlockIds)
  BY <1>1, CurrentProcess
<1>3. Len(s) \in DOMAIN s /\ b = s[Len(s)]
  <2>1. Len(s) \in Nat /\ DOMAIN s = 1 .. Len(s)
    BY <1>2
  <2> QED
    BY <1>1, <2>1
<1>4. Settled(Pager, Pager)
  BY <1>2 DEF Settled
<1>5. Settled(Pager, S) /\ MmuInv(S, {})
  <2> HIDE DEF b
  <2> QED
    BY <1>2, <1>3, <1>4, SettledResident, SettledMmu
<1> HIDE DEF S
<1>6. Shape(S)
  BY <1>5 DEF Settled, Whole
<1> QED
  BY <1>1, <1>5, <1>6, BecomesMmu

(* Steps that change neither pages nor blocks nor entries *)
LEMMA NotMmu ==
    ASSUME MmuInv(Pager, {}), Shape(Pager), UNCHANGED <<mem_block, page_table, data_location>>
    PROVE  MmuInv(Pager, {})'
<1> DEFINE S == Pager
           N == Pager'
<1>1. /\ N.mem_block = S.mem_block /\ N.page_table = S.page_table
      /\ N.data_location = S.data_location
  BY DEF Pager
<1>2. Shape(S) /\ MmuInv(S, {})
  OBVIOUS
<1> HIDE DEF S, N
<1>3. LikeBlocks(S, N)
  BY <1>1 DEF LikeBlocks
<1>4. MmuInv(N, {})
  BY <1>1, <1>2, <1>3, SameMmu
<1> QED
  BY <1>4 DEF N

LEMMA CreateMmu ==
    ASSUME PagerInv, MmuInv(Pager, {}), NEW p \in Pids \cup {NoPid}, NEW c \in Pids, Create(p, c)
    PROVE  MmuInv(Pager, {})'
<1>0. ProcInv /\ Shape(Pager)
  BY DEF PagerInv, Whole
<1>1. c \notin alive /\ (p = curr_pid \/ p \notin managed)
  BY DEF Create
<1>2. CASE UNCHANGED pagerVars
  BY <1>0, <1>2, NotMmu DEF pagerVars
<1>3. CASE /\ p \in managed /\ ~(num_swap_blocks[p] > Len(free_swap_blocks))
           /\ Becomes(Copied(p, c)[Len(data_location[p])])
  <2> DEFINE S == Copied(p, c)[Len(data_location[p])]
  <2>1. p \in alive /\ p \in Pids /\ c \in Pids \ alive
    BY <1>0, <1>1, <1>3, PagerAssumption DEF ProcInv
  <2>2. CopiedSoFar(S, p, c, Len(data_location[p]))
    BY <1>1, <1>3, <2>1, CopyLoop
  <2>3. MmuInv(S, {})
    BY <1>3, <2>1, CopyLoopMmu
  <2>4. Shape(S)
    BY <2>2 DEF CopiedSoFar, Whole
  <2> HIDE DEF S
  <2> QED
    BY <1>3, <2>3, <2>4, BecomesMmu DEF S
<1> QED
  BY <1>2, <1>3 DEF Create

(* vm_init: there are no pages. *)
LEMMA InitMmu ==
    ASSUME Init
    PROVE  MmuInv(Pager, {})
<1>1. \A p \in Pids : Pager.data_location[p] = <<>>
  BY DEF Init, Pager
<1>2. DOMAIN <<>> = {}
  OBVIOUS
<1>3. PagesIn(Pager) = {}
  BY <1>1, <1>2 DEF PagesIn
<1>4. Pager.mem_block[zero_page] = NewBlock(0, TRUE, NoName, 0)
  BY Numbers DEF Init, Pager
<1>5. ~Pager.mem_block[zero_page].dirty
  BY <1>4 DEF NewBlock
<1> QED
  BY <1>3, <1>5 DEF MmuInv

LEMMA NextMmu ==
    ASSUME PagerInv, MmuInv(Pager, {}), [Next]_vars
    PROVE  MmuInv(Pager, {})'
<1>0. Shape(Pager)
  BY DEF PagerInv, Whole
<1>1. CASE \E p \in Pids \cup {NoPid}, c \in Pids : Create(p, c)
  BY <1>1, CreateMmu
<1>2. CASE \E p \in Pids : Switch(p)
  BY <1>0, <1>2, NotMmu DEF Switch, pagerVars
<1>3. CASE \E v \in VPages : \E write_flag \in BOOLEAN : Fault(v, write_flag)
  BY <1>3, FaultMmu
<1>4. CASE \E v \in VPages, d \in Data : Store(v, d)
  BY <1>0, <1>4, NotMmu DEF Store
<1>5. CASE Destroy
  BY <1>5, DestroyMmu
<1>6. CASE MapSwap
  BY <1>6, MapSwapMmu
<1>7. CASE \E v, w \in VPages, blk \in FileBlocks : MapFile(v, w, blk)
  BY <1>7, MapFileMmu
<1>8. CASE MapFileInvalid
  BY <1>8, MapFileInvalidMmu
<1>9. CASE \E k \in FileKeys : FileAppears(k)
  BY <1>0, <1>9, NotMmu DEF FileAppears, pagerVars
<1>10. CASE UNCHANGED vars
  BY <1>0, <1>10, NotMmu DEF vars, pagerVars
<1> QED
  BY <1>1, <1>2, <1>3, <1>4, <1>5, <1>6, <1>7, <1>8, <1>9, <1>10 DEF Next

LEMMA MmuFollows ==
    ASSUME MmuInv(Pager, {})
    PROVE  MmuSound
<1>1. /\ Pager.mem_block = mem_block /\ \A pg : EntryOf(pg) = Ent(Pager, pg)
  BY DEF Pager, EntryOf, Ent
<1>2. \A pg \in PagesIn(Pager) : PageOK(Pager, {}, pg)
  BY DEF MmuInv
<1> QED
  BY <1>1, <1>2, PagesFollow DEF MmuSound, PageOK

(* What the MMU lets through is always right: a page that can be read is   *)
(* in the frame its entry names, and one that can be written is dirty and, *)
(* unless it shows a file, nobody else's.  No sequence of faults,          *)
(* evictions, copies on write, forks and exits leaves an entry enabled     *)
(* that the pager should have taken back (vm_fault, evict_phys_page,       *)
(* update_block_permissions, copy_virtual_page).                           *)
THEOREM MmuIsSound == CountsFit /\ Spec => []MmuSound
<1>1. Init => MmuInv(Pager, {})
  BY InitMmu
<1>2. PagerInv /\ MmuInv(Pager, {}) /\ [Next]_vars => MmuInv(Pager, {})'
  BY NextMmu
<1>3. MmuInv(Pager, {}) => MmuSound
  BY MmuFollows
<1> QED
  BY <1>1, <1>2, <1>3, PagerCorrect, PTL DEF Spec

-----------------------------------------------------------------------------
(* What a load returns.  The VirtualMemory value of a file-backed page is  *)
(* that of the block file_mapping_table has for its file and block number, *)
(* so the table must hold every file-backed block that a page shows, and   *)
(* no second block of the same file block.                                 *)

(* What can be shown of the files is in file_mapping_table, once. *)
TableInv(S, gone) ==
    /\ \A b, c \in S.file_mapping_table :
         FileKey(S.mem_block[b]) = FileKey(S.mem_block[c]) => b = c
    /\ \A pg \in PagesIn(S) \ gone :
         S.mem_block[BlockIn(S, pg)].is_swap \/ BlockIn(S, pg) \in S.file_mapping_table

SameFiles(S, T) ==
    \A b \in BlockIds : /\ T.mem_block[b].is_swap = S.mem_block[b].is_swap
                        /\ FileKey(T.mem_block[b]) = FileKey(S.mem_block[b])

(* The table loses only blocks that no page shows. *)
LEMMA TableShrinks ==
    ASSUME NEW S, NEW T, NEW gone, NEW less, Shape(S), TableInv(S, gone), gone \subseteq less,
           SameFiles(S, T), T.data_location = S.data_location,
           T.file_mapping_table \subseteq S.file_mapping_table,
           \A b \in S.file_mapping_table \ T.file_mapping_table : Showing(S, less, b) = {}
    PROVE  TableInv(T, less)
<1>1. PagesIn(T) = PagesIn(S) /\ \A pg : BlockIn(T, pg) = BlockIn(S, pg)
  BY SamePages
<1>2. S.file_mapping_table \subseteq BlockIds
  BY Fields DEF Shape
<1>3. ASSUME NEW b \in T.file_mapping_table, NEW c \in T.file_mapping_table,
             FileKey(T.mem_block[b]) = FileKey(T.mem_block[c])
      PROVE  b = c
  <2>1. b \in BlockIds /\ c \in BlockIds
    BY <1>2
  <2>2. FileKey(S.mem_block[b]) = FileKey(S.mem_block[c])
    BY <1>3, <2>1 DEF SameFiles
  <2> QED
    BY <2>2 DEF TableInv
<1>4. ASSUME NEW pg \in PagesIn(S) \ less
      PROVE  T.mem_block[BlockIn(S, pg)].is_swap \/ BlockIn(S, pg) \in T.file_mapping_table
  <2>1. BlockIn(S, pg) \in BlockIds
    BY PagesType
  <2>2. S.mem_block[BlockIn(S, pg)].is_swap \/ BlockIn(S, pg) \in S.file_mapping_table
    BY DEF TableInv
  <2>3. pg \in Showing(S, less, BlockIn(S, pg))
    BY DEF Showing
  <2> QED
    BY <2>1, <2>2, <2>3 DEF SameFiles
<1> QED
  BY <1>1, <1>3, <1>4 DEF TableInv

LEMMA UnmovedTable ==
    ASSUME NEW S, NEW T, NEW gone, Shape(S), TableInv(S, gone), Unmoved(S, T)
    PROVE  TableInv(T, gone)
<1>1. SameFiles(S, T)
  BY DEF Unmoved, Alike, SameFiles, FileKey
<1> QED
  BY <1>1, TableShrinks DEF Unmoved

(* Eviction forgets a file block without pages. *)
LEMMA FreeFrameTable ==
    ASSUME NEW S, NEW gone, NEW unswapped, Whole(S, gone, unswapped), TableInv(S, gone)
    PROVE  TableInv(WithFreeFrame(S), gone)
<1> DEFINE E == WithFreeFrame(S)
<1>1. Kin(S, E)
  BY FreeFrameWhole
<1> HIDE DEF E
<1>2. SameFiles(S, E)
  BY <1>1 DEF Kin, SameFiles, FileKey
<1>3. ASSUME NEW b \in S.file_mapping_table \ E.file_mapping_table
      PROVE  Showing(S, gone, b) = {}
  <2>1. S.mem_block[b].ptes = {}
    BY <1>1 DEF Kin
  <2>2. b \in Referenced(S)
    BY ReferencedMeaning DEF Whole
  <2>3. b # zero_page
    BY DEF Whole, FilesInv, Pinned
  <2> QED
    BY <2>1, <2>2, <2>3 DEF Whole, PtesInv
<1>4. E.data_location = S.data_location /\ E.file_mapping_table \subseteq S.file_mapping_table
  BY <1>1 DEF Kin
<1>5. Shape(S)
  BY DEF Whole
<1>6. TableInv(E, gone)
  BY <1>2, <1>3, <1>4, <1>5, TableShrinks
<1> QED
  BY <1>6 DEF E

LEMMA ResidentTable ==
    ASSUME NEW S, Whole(S, {}, {}), TableInv(S, {}), NEW pg \in PagesIn(S),
           NEW b, BlockIn(S, pg) = b
    PROVE  TableInv(MadeResident(S, b), {})
<1> DEFINE E == WithFreeFrame(S)
           R == cache_nonresident_page(S, b)
<1>1. Whole(E, {}, {}) /\ Shape(E) /\ TableInv(E, {})
  <2>1. Whole(E, {}, {})
    BY FreeFrameWhole
  <2> QED
    BY <2>1, FreeFrameTable DEF Whole
<1>2. CASE S.mem_block[b].resident
  BY <1>2 DEF MadeResident
<1>3. CASE ~S.mem_block[b].resident /\ ~CanRead(S, b)
  <2>1. MadeResident(S, b) = E
    BY <1>3 DEF MadeResident, cache_nonresident_page
  <2> QED
    BY <1>1, <2>1
<1>4. CASE ~S.mem_block[b].resident /\ CanRead(S, b)
  <2>1. MadeResident(S, b) = R
    BY <1>4 DEF MadeResident
  <2>2. b \in Referenced(S)
    BY ReferencedMeaning DEF Whole
  <2>3. Loaded(E, R, b)
    BY <1>4, <2>2, LoadEffect
  <2> HIDE DEF E, R
  <2>4. SameFiles(E, R)
    BY <2>3 DEF Loaded, Alike, SameFiles, FileKey
  <2>5. TableInv(R, {})
    BY <1>1, <2>3, <2>4, TableShrinks DEF Loaded
  <2> QED
    BY <2>1, <2>5
<1> QED
  BY <1>2, <1>3, <1>4

LEMMA SplitTable ==
    ASSUME NEW S, NEW T, NEW p \in Pids, NEW v \in DOMAIN S.data_location[p], Shape(S),
           TableInv(S, {<<p, v>>}), NEW new \in BlockIds, new \notin Referenced(S),
           Split(S, T, p, v, new)
    PROVE  TableInv(T, {})
<1>1. /\ S.file_mapping_table \subseteq Referenced(S) /\ Referenced(S) \subseteq BlockIds
      /\ \A pg \in PagesIn(S) : BlockIn(S, pg) \in Referenced(S)
  BY ReferencedMeaning
<1>2. \A c \in Referenced(S) : /\ T.mem_block[c].is_swap = S.mem_block[c].is_swap
                               /\ FileKey(T.mem_block[c]) = FileKey(S.mem_block[c])
  BY <1>1 DEF Split, FileKey
<1>3. T.file_mapping_table = S.file_mapping_table /\ T.mem_block[new].is_swap
  BY DEF Split
<1>4. ASSUME NEW b \in T.file_mapping_table, NEW c \in T.file_mapping_table,
             FileKey(T.mem_block[b]) = FileKey(T.mem_block[c])
      PROVE  b = c
  <2>1. FileKey(S.mem_block[b]) = FileKey(S.mem_block[c])
    BY <1>1, <1>2, <1>3, <1>4
  <2> QED
    BY <1>3, <2>1 DEF TableInv
<1>5. ASSUME NEW pg \in PagesIn(T)
      PROVE  T.mem_block[BlockIn(T, pg)].is_swap \/ BlockIn(T, pg) \in T.file_mapping_table
  <2>1. S.data_location \in [Pids -> Seq(BlockIds)]
    BY Fields DEF Shape
  <2>2. T.data_location = [S.data_location EXCEPT ![p][v] = new]
    BY DEF Split
  <2>3. PICK q \in Pids, w \in VPages : pg = <<q, w>> /\ w \in DOMAIN T.data_location[q]
    BY DEF PagesIn
  <2>4. w \in DOMAIN S.data_location[q]
    BY <2>1, <2>2, <2>3
  <2>5. CASE q = p /\ w = v
    BY <1>3, <2>1, <2>2, <2>3, <2>5 DEF BlockIn
  <2>6. CASE ~(q = p /\ w = v)
    <3>1. BlockIn(T, pg) = BlockIn(S, pg)
      BY <2>1, <2>2, <2>3, <2>4, <2>6 DEF BlockIn
    <3>2. pg \in PagesIn(S) /\ pg \notin {<<p, v>>}
      BY <2>3, <2>4, <2>6 DEF PagesIn
    <3> QED
      BY <1>1, <1>2, <1>3, <3>1, <3>2 DEF TableInv
  <2> QED
    BY <2>5, <2>6
<1> QED
  BY <1>4, <1>5 DEF TableInv

(* Copy on write up to the eviction: the page has left its block. *)
Unshared(S, p, v) ==
    LET b == S.data_location[p][v]
    IN  update_block_permissions(ErasePte(read_fault_handler(S, b), b, p, v), b)

CopySteps(S, T, p, v) ==
    LET U == Unshared(S, p, v)
        F == WithFreeFrame(U)
    IN  /\ Whole(U, {<<p, v>>}, {}) /\ SameFiles(S, U) /\ U.data_location = S.data_location
        /\ U.file_mapping_table = S.file_mapping_table
        /\ Whole(F, {<<p, v>>}, {}) /\ v \in DOMAIN F.data_location[p]
        /\ Unused(F) \in BlockIds /\ Unused(F) \notin Referenced(F)
        /\ Split(F, T, p, v, Unused(F))

LEMMA CopyInSteps ==
    ASSUME NEW S, Whole(S, {}, {}), NEW p \in Pids, NEW v \in DOMAIN S.data_location[p],
           S.mem_block[S.data_location[p][v]].resident,
           is_copy_on_writable(S, S.data_location[p][v])
    PROVE  CopySteps(S, CopyOnWrite(S, p, v), p, v)
<1> DEFINE b == S.data_location[p][v]
           pg == <<p, v>>
           R == read_fault_handler(S, b)
           E == ErasePte(R, b, p, v)
           U == Unshared(S, p, v)
           F == WithFreeFrame(U)
           datum == S.physmem[S.mem_block[b].location]
           T == copy_block_handler(F, p, v, datum)
<1>0. Shape(S) /\ S \in PagerState
  BY DEF Whole, Shape
<1>1. pg \in PagesIn(S) /\ BlockIn(S, pg) = b /\ b \in BlockIds
  <2>1. pg \in PagesIn(S) /\ BlockIn(S, pg) = b
    BY <1>0, PagesMeaning
  <2> QED
    BY <1>0, <2>1, PagesType
<1>2. CopyOnWrite(S, p, v) = T /\ U = update_block_permissions(E, b)
  BY DEF CopyOnWrite, Unshared
<1>3. S.mem_block[b].is_swap
  BY DEF is_copy_on_writable
<1>4. datum \in Data
  <2>1. S.mem_block[b].location \in Frames
    BY <1>0, <1>1 DEF Shape, PlaceOK
  <2> QED
    BY <1>0, <2>1, Fields
<1> HIDE DEF b, R, datum
<1>5. R \in PagerState /\ Unmoved(S, R)
  BY <1>0, <1>1, ReadFault DEF R, b
<1>6. Whole(R, {}, {})
  BY <1>5, UnmovedWhole
<1>7. R.data_location = S.data_location /\ R.mem_block[b].is_swap
  BY <1>1, <1>3, <1>5 DEF Unmoved, Alike
<1>8. pg \in PagesIn(R) /\ BlockIn(R, pg) = b
  BY <1>1, <1>7, SamePages
<1> HIDE DEF E, pg
<1>9. Erased(R, E, b, pg)
  BY <1>1, <1>5, EraseEffect DEF E, pg
<1>10. Whole(E, {pg}, {}) /\ E \in PagerState
  <2>1. Whole(E, {pg}, {})
    BY <1>6, <1>7, <1>8, <1>9, EraseWhole
  <2> QED
    BY <2>1 DEF Whole, Shape
<1> HIDE DEF U
<1>11. Repainted(E, U)
  BY <1>1, <1>2, <1>10, UpdatePermissions
<1>12. Whole(U, {pg}, {})
  BY <1>10, <1>11, UnmovedWhole DEF Repainted
<1>13. /\ U.data_location = S.data_location /\ U.file_mapping_table = S.file_mapping_table
  BY <1>5, <1>9, <1>11 DEF Unmoved, Erased, Repainted
<1>14. SameFiles(S, U)
  <2>1. SameFiles(S, R)
    BY <1>5 DEF Unmoved, Alike, SameFiles, FileKey
  <2>2. SameFiles(R, E)
    BY <1>9 DEF Erased, SameFiles, FileKey
  <2>3. U.mem_block = E.mem_block
    BY <1>11 DEF Repainted
  <2> QED
    BY <2>1, <2>2, <2>3 DEF SameFiles
<1> HIDE DEF F
<1>15. Whole(F, {pg}, {}) /\ Kin(U, F) /\ F.free_mem_blocks # <<>>
  BY <1>12, FreeFrameWhole DEF F
<1>16. F.data_location = S.data_location
  BY <1>13, <1>15 DEF Kin
<1>17. /\ v \in DOMAIN F.data_location[p] /\ F.data_location[p][v] = b
       /\ pg \in PagesIn(F) /\ BlockIn(F, pg) = b /\ b \in Referenced(F)
  <2>1. pg \in PagesIn(F) /\ BlockIn(F, pg) = b
    BY <1>1, <1>16, SamePages
  <2>2. b \in Referenced(F)
    BY <1>15, <2>1, ReferencedMeaning DEF Whole
  <2> QED
    BY <1>16, <2>1, <2>2 DEF b
<1>18. F.mem_block[b].swap_blocks # <<>>
  <2>1. F.mem_block[b].is_swap
    BY <1>1, <1>3, <1>14, <1>15 DEF Kin, SameFiles
  <2>2. Len(F.mem_block[b].swap_blocks) = Cardinality(Showing(F, {}, b))
    BY <1>15, <1>17, <2>1 DEF Whole, SwapInv
  <2>3. Showing(F, {}, b) # {}
    BY <1>17 DEF Showing
  <2>4. Cardinality(Showing(F, {}, b)) # 0
    BY <2>3, ShowingFinite, FS_EmptySet
  <2> QED
    BY <2>2, <2>4
<1>19. Unused(F) \in BlockIds /\ Unused(F) \notin Referenced(F)
  BY <1>15, UnusedLemma
<1> HIDE DEF T
<1>20. Split(F, T, p, v, Unused(F))
  BY <1>4, <1>15, <1>17, <1>18, <1>19, SplitEffect DEF T
<1>21. Whole(F, {<<p, v>>}, {}) /\ Whole(U, {<<p, v>>}, {})
  BY <1>12, <1>15 DEF pg
<1> QED
  BY <1>2, <1>13, <1>14, <1>17, <1>19, <1>20, <1>21 DEF CopySteps, F, U

LEMMA CopyTable ==
    ASSUME NEW S, Whole(S, {}, {}), TableInv(S, {}), NEW p \in Pids,
           NEW v \in DOMAIN S.data_location[p],
           S.mem_block[S.data_location[p][v]].resident,
           is_copy_on_writable(S, S.data_location[p][v])
    PROVE  TableInv(CopyOnWrite(S, p, v), {})
<1> DEFINE T == CopyOnWrite(S, p, v)
           U == Unshared(S, p, v)
           F == WithFreeFrame(U)
<1>1. CopySteps(S, T, p, v)
  BY CopyInSteps
<1> HIDE DEF T, U
<1>2. /\ Whole(U, {<<p, v>>}, {}) /\ SameFiles(S, U) /\ U.data_location = S.data_location
      /\ U.file_mapping_table = S.file_mapping_table
      /\ Whole(F, {<<p, v>>}, {}) /\ v \in DOMAIN F.data_location[p]
      /\ Unused(F) \in BlockIds /\ Unused(F) \notin Referenced(F)
      /\ Split(F, T, p, v, Unused(F))
  BY <1>1 DEF CopySteps, U
<1>3. Shape(S) /\ {} \subseteq {<<p, v>>}
  BY DEF Whole
<1>4. TableInv(U, {<<p, v>>})
  BY <1>2, <1>3, TableShrinks
<1>5. TableInv(F, {<<p, v>>})
  BY <1>2, <1>4, FreeFrameTable
<1> HIDE DEF F
<1>6. Shape(F)
  BY <1>2 DEF Whole
<1>7. TableInv(T, {})
  BY <1>2, <1>5, <1>6, SplitTable
<1> QED
  BY <1>7 DEF T

LEMMA ServedTable ==
    ASSUME NEW S, Whole(S, {}, {}), TableInv(S, {}), NEW p \in Pids,
           NEW v \in DOMAIN S.data_location[p],
           S.mem_block[S.data_location[p][v]].resident, NEW write_flag
    PROVE  TableInv(Served(S, p, v, write_flag), {})
<1> DEFINE copy == write_flag /\ is_copy_on_writable(S, S.data_location[p][v])
           C == IF copy THEN CopyOnWrite(S, p, v) ELSE S
           b == C.data_location[p][v]
           W == IF write_flag THEN write_fault_handler(C, b) ELSE C
           R == read_fault_handler(W, b)
<1>0. Served(S, p, v, write_flag) = R
  BY DEF Served
<1>1. Shape(S) /\ S.data_location[p][v] \in BlockIds
  <2>1. Shape(S) /\ <<p, v>> \in PagesIn(S) /\ BlockIn(S, <<p, v>>) = S.data_location[p][v]
    BY PagesMeaning DEF Whole
  <2> QED
    BY <2>1, PagesType
<1>2. Whole(C, {}, {}) /\ b \in BlockIds /\ C.mem_block[b].resident /\ TableInv(C, {})
  <2>1. CASE copy
    <3>1. C = CopyOnWrite(S, p, v)
      BY <2>1
    <3> QED
      BY <2>1, <3>1, CopyWhole, CopyTable
  <2>2. CASE ~copy
    <3>1. C = S
      BY <2>2
    <3> QED
      BY <1>1, <3>1
  <2> QED
    BY <2>1, <2>2
<1> HIDE DEF C, b
<1>3. Shape(C) /\ C \in PagerState
  BY <1>2 DEF Whole, Shape
<1>4. Unmoved(C, W) /\ W \in PagerState
  <2>1. Unmoved(C, C)
    BY DEF Unmoved, Alike
  <2> QED
    BY <1>2, <1>3, <2>1, WriteFault
<1> HIDE DEF W
<1>5. Shape(W) /\ TableInv(W, {}) /\ W.mem_block[b].resident
  <2>1. Whole(W, {}, {})
    BY <1>2, <1>4, UnmovedWhole
  <2>2. TableInv(W, {})
    BY <1>2, <1>3, <1>4, UnmovedTable
  <2>3. W.mem_block[b].resident
    BY <1>2, <1>4 DEF Unmoved, Alike
  <2> QED
    BY <2>1, <2>2, <2>3 DEF Whole
<1>6. Unmoved(W, R)
  BY <1>2, <1>4, <1>5, ReadFault
<1> HIDE DEF R
<1>7. TableInv(R, {})
  BY <1>5, <1>6, UnmovedTable
<1> QED
  BY <1>0, <1>7

(* One page more, of a block the table has if it is of a file *)
LEMMA TableGrows ==
    ASSUME NEW S, NEW T, NEW p \in Pids, NEW b \in BlockIds, Shape(S), TableInv(S, {}),
           Len(S.data_location[p]) < num_virt_addr, OnePageMore(S, T, p, b), SameFiles(S, T),
           T.file_mapping_table = S.file_mapping_table,
           S.mem_block[b].is_swap \/ b \in S.file_mapping_table
    PROVE  TableInv(T, {})
<1>1. /\ PagesIn(T) = PagesIn(S) \cup {NextPage(S, p)}
      /\ \A r \in PagesIn(S) : BlockIn(T, r) = BlockIn(S, r)
      /\ BlockIn(T, NextPage(S, p)) = b
  BY GrownPages
<1>2. /\ S.file_mapping_table \subseteq BlockIds
      /\ \A r \in PagesIn(S) : BlockIn(S, r) \in BlockIds
  BY Fields, PagesType DEF Shape
<1>3. ASSUME NEW c \in T.file_mapping_table, NEW d \in T.file_mapping_table,
             FileKey(T.mem_block[c]) = FileKey(T.mem_block[d])
      PROVE  c = d
  <2>1. FileKey(S.mem_block[c]) = FileKey(S.mem_block[d])
    BY <1>2, <1>3 DEF SameFiles
  <2> QED
    BY <2>1 DEF TableInv
<1>4. ASSUME NEW r \in PagesIn(T)
      PROVE  T.mem_block[BlockIn(T, r)].is_swap \/ BlockIn(T, r) \in T.file_mapping_table
  <2>1. CASE r = NextPage(S, p)
    BY <1>1, <2>1 DEF SameFiles
  <2>2. CASE r \in PagesIn(S)
    BY <1>1, <1>2, <2>2 DEF SameFiles, TableInv
  <2> QED
    BY <1>1, <2>1, <2>2
<1> QED
  BY <1>3, <1>4 DEF TableInv

LEMMA CopyPageTable ==
    ASSUME NEW S, Whole(S, {}, {}), TableInv(S, {}), NEW p \in Pids, NEW c \in Pids,
           NEW v \in DOMAIN S.data_location[p], Len(S.data_location[c]) + 1 = v,
           S.mem_block[S.data_location[p][v]].is_swap => S.free_swap_blocks # <<>>
    PROVE  TableInv(copy_virtual_page(S, p, c, v), {})
<1> DEFINE b == S.data_location[p][v]
           T == copy_virtual_page(S, p, c, v)
<1>1. Len(S.data_location[c]) < num_virt_addr /\ Grown(S, T, c, b)
  BY CopyPageWhole
<1>2. Shape(S) /\ <<p, v>> \in PagesIn(S) /\ BlockIn(S, <<p, v>>) = b
  BY PagesMeaning DEF Whole
<1>3. b \in BlockIds
  BY <1>2, PagesType
<1>4. S.mem_block[b].is_swap \/ b \in S.file_mapping_table
  BY <1>2 DEF TableInv
<1> HIDE DEF b, T
<1>5. SameFiles(S, T)
  BY <1>1 DEF Grown, Alike, SameFiles, FileKey
<1>6. TableInv(T, {})
  BY <1>1, <1>2, <1>3, <1>4, <1>5, TableGrows DEF Grown
<1> QED
  BY <1>6 DEF T

LEMMA CopyLoopTable ==
    ASSUME PagerInv, TableInv(Pager, {}), NEW p \in alive, NEW c \in Pids \ alive,
           ~(num_swap_blocks[p] > Len(free_swap_blocks))
    PROVE  TableInv(Copied(p, c)[Len(data_location[p])], {})
<1> DEFINE N == Len(data_location[p])
           f == Copied(p, c)
           T == {v \in 0 .. N : TableInv(f[v], {})}
<1>0. Shape(Pager) /\ Pager.data_location = data_location /\ p \in Pids /\ p # c /\ c \in Pids
  BY DEF PagerInv, ProcInv, Whole, Pager
<1>1. N \in Nat /\ DOMAIN data_location[p] = 1 .. N
  BY <1>0, PagesMeaning
<1>2. f[0] = Pager /\ \A i \in 1 .. N : f[i] = copy_virtual_page(f[i - 1], p, c, i)
  BY <1>1, CopiedDef
<1>3. \A v \in 0 .. N : CopiedSoFar(f[v], p, c, v)
  BY CopyLoop
<1> HIDE DEF f
<1>4. 0 \in T
  BY <1>1, <1>2
<1>5. ASSUME NEW v \in 0 .. N - 1, v \in T PROVE v + 1 \in T
  <2> DEFINE S == f[v]
  <2>1. v \in 0 .. N /\ v + 1 \in 1 .. N /\ v + 1 \in 0 .. N /\ (v + 1) - 1 = v
    BY <1>1
  <2>2. f[v + 1] = copy_virtual_page(S, p, c, v + 1) /\ TableInv(S, {})
    BY <1>2, <1>5, <2>1
  <2> HIDE DEF S
  <2>3. CopiedSoFar(S, p, c, v)
    BY <1>3, <2>1 DEF S
  <2>4. /\ Whole(S, {}, {}) /\ S.data_location[p] = data_location[p]
        /\ Len(S.data_location[c]) = v
    BY <1>0, <2>3 DEF CopiedSoFar
  <2>5. v + 1 \in DOMAIN S.data_location[p] /\ Len(S.data_location[c]) + 1 = v + 1
    BY <1>1, <2>1, <2>4
  <2>6. S.mem_block[S.data_location[p][v + 1]].is_swap => S.free_swap_blocks # <<>>
    BY <1>0, <2>3, <2>4, SwapLeft
  <2>7. TableInv(copy_virtual_page(S, p, c, v + 1), {})
    BY <1>0, <2>2, <2>4, <2>5, <2>6, CopyPageTable
  <2> QED
    BY <2>1, <2>2, <2>7
<1> HIDE DEF T
<1>6. 0 .. N \subseteq T
  BY <1>1, <1>4, <1>5, UpToInduction
<1>7. N \in 0 .. N
  BY <1>1
<1> QED
  BY <1>6, <1>7 DEF T, f

LEMMA DestroyLoopTable ==
    ASSUME Whole(Pager, {}, {}), TableInv(Pager, {}), NEW p \in Pids
    PROVE  TableInv(Destroyed(p)[Len(data_location[p])], FirstPages(p, Len(data_location[p])))
<1> DEFINE N == Len(data_location[p])
           f == Destroyed(p)
           T == {v \in 0 .. N : TableInv(f[v], FirstPages(p, v))}
<1>0. Shape(Pager) /\ Pager.data_location = data_location
  BY DEF Whole, Pager
<1>1. N \in Nat /\ DOMAIN data_location[p] = 1 .. N
  BY <1>0, PagesMeaning
<1>2. f[0] = Pager /\ \A i \in 1 .. N : f[i] = DestroyPage(f[i - 1], p, i)
  BY <1>1, DestroyedDef
<1>3. \A v \in 0 .. N : Half(Pager, f[v], FirstPages(p, v))
  BY DestroyLoop
<1> HIDE DEF f
<1>4. 0 \in T
  <2>1. FirstPages(p, 0) = {}
    BY DEF FirstPages
  <2>2. f[0] = Pager
    BY <1>2
  <2>3. TableInv(f[0], FirstPages(p, 0))
    BY <2>1, <2>2
  <2>4. 0 \in 0 .. N
    BY <1>1
  <2> QED
    BY <2>3, <2>4
<1>5. ASSUME NEW v \in 0 .. N - 1, v \in T PROVE v + 1 \in T
  <2> DEFINE S == f[v]
             R == f[v + 1]
             pg == <<p, v + 1>>
             gone == FirstPages(p, v)
             less == FirstPages(p, v + 1)
             b == S.data_location[p][v + 1]
  <2>1. /\ v \in 0 .. N /\ v + 1 \in 1 .. N /\ (v + 1) - 1 = v /\ v + 1 \in 0 .. N
        /\ v \in Nat
    BY <1>1
  <2>2. R = DestroyPage(S, p, v + 1)
    BY <1>2, <2>1
  <2>3. Half(Pager, S, gone) /\ Half(Pager, R, less) /\ TableInv(S, gone)
    BY <1>3, <1>5, <2>1
  <2>4. gone \subseteq less /\ pg \notin gone
    BY <2>1 DEF FirstPages
  <2> HIDE DEF S, R, gone, less
  <2>5. /\ Shape(S) /\ S.data_location = data_location /\ SwapInv(S, gone) /\ FilesInv(S)
        /\ Shape(R) /\ PtesInv(R, less) /\ R.data_location = data_location
        /\ Pinned(S) /\ Referenced(R) = Referenced(S)
    BY <1>0, <2>3 DEF Half
  <2>6. v + 1 \in DOMAIN S.data_location[p]
    BY <1>1, <2>1, <2>5
  <2>7. pg \in PagesIn(S) /\ BlockIn(S, pg) = b
    BY <2>5, <2>6, PagesMeaning
  <2>8. b \in Referenced(S) /\ S.file_mapping_table \subseteq Referenced(S)
    BY <2>5, <2>7, ReferencedMeaning
  <2>9. S.mem_block[b].is_swap => S.mem_block[b].swap_blocks # <<>>
    <3>1. pg \in Showing(S, gone, b)
      BY <2>4, <2>7 DEF Showing
    <3>2. Cardinality(Showing(S, gone, b)) # 0
      BY <3>1, ShowingFinite, FS_EmptySet
    <3>3. S.mem_block[b].is_swap =>
            Len(S.mem_block[b].swap_blocks) = Cardinality(Showing(S, gone, b))
      BY <2>5, <2>8 DEF SwapInv
    <3>4. Len(<<>>) = 0
      OBVIOUS
    <3> QED
      BY <3>2, <3>3, <3>4
  <2>10. PageGone(S, R, b, pg)
    BY <2>2, <2>5, <2>6, <2>9, PageGoneEffect
  <2> HIDE DEF b, pg
  <2>11. SameFiles(S, R)
    BY <2>10 DEF PageGone, Alike, SameFiles, FileKey
  <2>12. ASSUME NEW c \in S.file_mapping_table \ R.file_mapping_table
         PROVE  Showing(S, less, c) = {}
    <3>1. c = b /\ R.mem_block[c].ptes = {}
      BY <2>10 DEF PageGone
    <3>2. c \in Referenced(R) /\ c # zero_page
      BY <2>5, <2>8 DEF FilesInv, Pinned
    <3>3. Showing(R, less, c) = {}
      BY <2>5, <3>1, <3>2 DEF PtesInv
    <3>4. \A gone_, d : Showing(R, gone_, d) = Showing(S, gone_, d)
      BY <2>5, SamePages
    <3> QED
      BY <3>3, <3>4
  <2>13. R.file_mapping_table \subseteq S.file_mapping_table
    BY <2>10 DEF PageGone
  <2>14. TableInv(R, less)
    BY <2>3, <2>4, <2>5, <2>11, <2>12, <2>13, TableShrinks
  <2> QED
    BY <2>1, <2>14 DEF R, less
<1> HIDE DEF T
<1>6. 0 .. N \subseteq T
  BY <1>1, <1>4, <1>5, UpToInduction
<1>7. N \in 0 .. N
  BY <1>1
<1> QED
  BY <1>6, <1>7 DEF T, f

LEMMA ArenaGoneTable ==
    ASSUME NEW D, NEW T, NEW p \in Pids, NEW gone, Shape(D),
           gone = {pg \in PagesIn(D) : pg[1] = p}, TableInv(D, gone), ArenaGone(D, T, p, gone)
    PROVE  TableInv(T, {})
<1>1. D.data_location \in [Pids -> Seq(BlockIds)]
  BY Fields DEF Shape
<1>2. /\ T.data_location = [D.data_location EXCEPT ![p] = <<>>] /\ T.mem_block = D.mem_block
      /\ T.file_mapping_table = D.file_mapping_table
  BY DEF ArenaGone
<1>3. T.data_location[p] = <<>> /\ \A q \in Pids \ {p} : T.data_location[q] = D.data_location[q]
  BY <1>1, <1>2
<1>4. PagesIn(T) = PagesIn(D) \ gone
  <2>1. DOMAIN <<>> = {}
    OBVIOUS
  <2> QED
    BY <1>3, <2>1 DEF PagesIn
<1>5. \A r \in PagesIn(T) : BlockIn(T, r) = BlockIn(D, r)
  <2>1. ASSUME NEW r \in PagesIn(T) PROVE r[1] \in Pids \ {p}
    BY <1>4 DEF PagesIn
  <2> QED
    BY <1>3, <2>1 DEF BlockIn
<1> QED
  BY <1>2, <1>4, <1>5 DEF TableInv

LEMMA BecomesTable ==
    ASSUME NEW S, S.data_location \in [Pids -> Seq(BlockIds)],
           S.file_mapping_table \subseteq BlockIds, TableInv(S, {}), Becomes(S)
    PROVE  TableInv(Pager, {})'
<1> DEFINE N == Pager'
<1>1. /\ N.mem_block = [b \in BlockIds |-> IF b \in Referenced(S) THEN S.mem_block[b] ELSE NoBlock]
      /\ N.file_mapping_table = S.file_mapping_table /\ N.data_location = S.data_location
  BY DEF Becomes, Pager
<1> HIDE DEF N
<1>2. \A b \in S.file_mapping_table : N.mem_block[b] = S.mem_block[b]
  <2>1. S.file_mapping_table \subseteq Referenced(S)
    BY DEF Referenced
  <2> QED
    BY <1>1, <2>1
<1>3. ASSUME NEW r \in PagesIn(S)
      PROVE  N.mem_block[BlockIn(S, r)] = S.mem_block[BlockIn(S, r)]
  <2>1. PICK p \in Pids : \E v \in DOMAIN S.data_location[p] : BlockIn(S, r) = S.data_location[p][v]
    BY DEF PagesIn, BlockIn
  <2>2. BlockIn(S, r) \in ToSet(S.data_location[p]) /\ BlockIn(S, r) \in BlockIds
    BY <2>1 DEF ToSet
  <2>3. BlockIn(S, r) \in Referenced(S)
    BY <2>2 DEF Referenced
  <2> QED
    BY <1>1, <2>2, <2>3
<1>4. PagesIn(N) = PagesIn(S) /\ \A r : BlockIn(N, r) = BlockIn(S, r)
  BY <1>1, SamePages
<1>5. TableInv(N, {})
  BY <1>1, <1>2, <1>3, <1>4 DEF TableInv
<1> QED
  BY <1>5 DEF N

LEMMA DestroyTable ==
    ASSUME PagerInv, TableInv(Pager, {}), Destroy
    PROVE  TableInv(Pager, {})'
<1> DEFINE p == curr_pid
           N == Len(data_location[p])
           D == Destroyed(p)[N]
           useless == ToSet(D.free_mem_blocks) \ ToSet(free_mem_blocks)
           gone == FirstPages(p, N)
           T == [inspect_clock_queue(D, useless) EXCEPT
                  !.data_location[p] = <<>>, !.page_table[p] = [v \in VPages |-> NoEntry]]
<1>0. /\ Whole(Pager, {}, {}) /\ ProcInv /\ Shape(Pager) /\ Pager.data_location = data_location
      /\ Pager.free_mem_blocks = free_mem_blocks
  BY DEF PagerInv, Whole, Pager
<1>1. p # NoPid /\ Becomes(T)
  BY DEF Destroy
<1>2. p \in Pids
  BY <1>0, <1>1 DEF ProcInv
<1>3. Half(Pager, D, gone) /\ TableInv(D, gone)
  BY <1>0, <1>2, DestroyLoop, DestroyLoopTable
<1> HIDE DEF D
<1>4. D.data_location = data_location /\ Shape(D)
  BY <1>0, <1>3 DEF Half
<1>5. gone = {pg \in PagesIn(D) : pg[1] = p}
  <2>1. DOMAIN data_location[p] = 1 .. N /\ DOMAIN data_location[p] \subseteq VPages
    BY <1>0, <1>2, PagesMeaning
  <2> QED
    BY <1>2, <1>4, <2>1 DEF FirstPages, PagesIn
<1>6. ArenaGone(D, T, p, gone)
  <2> HIDE DEF gone, T
  <2>1. useless = ToSet(D.free_mem_blocks) \ ToSet(Pager.free_mem_blocks)
    BY <1>0
  <2> QED
    BY <1>0, <1>2, <1>3, <2>1, InspectEffect DEF T
<1> HIDE DEF gone, T
<1>7. TableInv(T, {}) /\ T \in PagerState
  BY <1>2, <1>3, <1>4, <1>5, <1>6, ArenaGoneTable DEF ArenaGone
<1> QED
  BY <1>1, <1>7, BecomesTable, Fields

LEMMA MapSwapTable ==
    ASSUME PagerInv, TableInv(Pager, {}), MapSwap
    PROVE  TableInv(Pager, {})'
<1> DEFINE S == Pager
           p == curr_pid
           n == Len(data_location[p]) + 1
           R == ReserveSwap(S, zero_page)
           e == [ppage |-> 0, read_enable |-> TRUE, write_enable |-> FALSE]
           dl == [R.data_location EXCEPT ![p] = Append(@, zero_page)]
           pt == [R.page_table EXCEPT ![p][n] = e]
           T == [R EXCEPT !.page_table = pt, !.data_location = dl]
<1>0. /\ Whole(S, {}, {}) /\ ProcInv /\ Shape(S) /\ S.data_location = data_location
      /\ S.free_swap_blocks = free_swap_blocks /\ S \in PagerState /\ Pinned(S)
      /\ zero_page \in BlockIds /\ TableInv(S, {})
  BY Numbers DEF PagerInv, Whole, Shape, Pager
<1>1. p # NoPid /\ n <= num_virt_addr /\ free_swap_blocks # <<>> /\ Becomes(T)
  BY DEF MapSwap
<1>2. p \in Pids
  BY <1>0, <1>1 DEF ProcInv
<1> HIDE DEF S
<1>3. Len(S.data_location[p]) < num_virt_addr
  <2>1. PICK k \in Nat : k = Len(data_location[p])
    BY <1>0, <1>2, PagesMeaning
  <2>2. k < num_virt_addr
    BY <1>1, <2>1, Numbers
  <2> QED
    BY <1>0, <2>1, <2>2
<1>4. GivenSwap(S, R, zero_page)
  BY <1>0, <1>1, ReserveEffect
<1> HIDE DEF R
<1>5. OnePageMore(S, [data_location |-> dl], p, zero_page)
  BY <1>4 DEF OnePageMore, GivenSwap
<1>6. dl \in [Pids -> Seq(BlockIds)]
  BY <1>0, <1>2, <1>4, Fields DEF GivenSwap
<1> HIDE DEF dl, pt, e
<1>7. /\ T.data_location = dl /\ T.mem_block = R.mem_block
      /\ T.file_mapping_table = S.file_mapping_table
  BY <1>4 DEF GivenSwap, PagerState
<1>8. OnePageMore(S, T, p, zero_page)
  BY <1>5, <1>7 DEF OnePageMore
<1> HIDE DEF T
<1>9. SameFiles(S, T)
  BY <1>4, <1>7 DEF GivenSwap, Alike, SameFiles, FileKey
<1>10. S.mem_block[zero_page].is_swap
  BY <1>0 DEF Pinned
<1>11. TableInv(T, {})
  BY <1>0, <1>2, <1>3, <1>7, <1>8, <1>9, <1>10, TableGrows
<1>12. S.file_mapping_table \subseteq BlockIds
  BY <1>0, Fields
<1> QED
  BY <1>1, <1>6, <1>7, <1>11, <1>12, BecomesTable

(* A file block that no entry of the table has *)
LEMMA MapFileBlockTable ==
    ASSUME NEW S, Whole(S, {}, {}), TableInv(S, {}), NEW p \in Pids,
           Len(S.data_location[p]) < num_virt_addr, NEW name, NEW blk,
           NEW n, n = Len(S.data_location[p]) + 1, NEW T, T = map_file_block(S, p, n, name, blk),
           {b \in S.file_mapping_table : FileKey(S.mem_block[b]) = <<name, blk>>} = {}
    PROVE  TableInv(T, {})
<1> DEFINE new == Unused(S)
           y == [NewBlock(blk, FALSE, name, blk) EXCEPT
                   !.resident = FALSE, !.referenced = FALSE, !.ptes = {<<p, n>>}]
           e == [ppage |-> blk, read_enable |-> FALSE, write_enable |-> FALSE]
           mb == [S.mem_block EXCEPT ![new] = y]
           fmt == S.file_mapping_table \cup {new}
           dl == [S.data_location EXCEPT ![p] = Append(@, new)]
           pt == [S.page_table EXCEPT ![p][n] = e]
<1>0. Shape(S) /\ S \in PagerState
  BY DEF Whole, Shape
<1>1. new \in BlockIds /\ new \notin Referenced(S)
  BY UnusedLemma
<1>2. T = [S EXCEPT !.mem_block = mb, !.file_mapping_table = fmt,
                    !.data_location = dl, !.page_table = pt]
  BY DEF map_file_block
<1> HIDE DEF new
<1>3. FileKey(y) = <<name, blk>>
  BY DEF NewBlock, FileKey
<1> HIDE DEF y
<1>4. mb[new] = y /\ \A c \in BlockIds \ {new} : mb[c] = S.mem_block[c]
  BY <1>0, <1>1, Fields
<1>5. OnePageMore(S, [data_location |-> dl], p, new)
  BY DEF OnePageMore
<1> HIDE DEF mb, dl, pt
<1>6. T.mem_block = mb /\ T.file_mapping_table = fmt /\ T.data_location = dl
  BY <1>0, <1>2 DEF PagerState
<1>7. OnePageMore(S, T, p, new)
  BY <1>5, <1>6 DEF OnePageMore
<1>8. /\ PagesIn(T) = PagesIn(S) \cup {NextPage(S, p)}
      /\ \A r \in PagesIn(S) : BlockIn(T, r) = BlockIn(S, r)
      /\ BlockIn(T, NextPage(S, p)) = new
  BY <1>0, <1>1, <1>7, GrownPages
<1>9. /\ S.file_mapping_table \subseteq BlockIds \ {new}
      /\ \A r \in PagesIn(S) : BlockIn(S, r) \in BlockIds \ {new}
  BY <1>0, <1>1, ReferencedMeaning
<1>10. ASSUME NEW c \in T.file_mapping_table, NEW d \in T.file_mapping_table,
              FileKey(T.mem_block[c]) = FileKey(T.mem_block[d])
       PROVE  c = d
  <2>1. \A b \in S.file_mapping_table : /\ T.mem_block[b] = S.mem_block[b]
                                        /\ FileKey(S.mem_block[b]) # <<name, blk>>
    BY <1>4, <1>6, <1>9
  <2>2. FileKey(T.mem_block[new]) = <<name, blk>>
    BY <1>3, <1>4, <1>6
  <2>3. c \in S.file_mapping_table \/ c = new
    BY <1>6
  <2>4. d \in S.file_mapping_table \/ d = new
    BY <1>6
  <2>5. CASE c \in S.file_mapping_table /\ d \in S.file_mapping_table
    BY <1>10, <2>1, <2>5 DEF TableInv
  <2>6. CASE c = new \/ d = new
    BY <1>10, <2>1, <2>2, <2>3, <2>4, <2>6
  <2> QED
    BY <2>3, <2>4, <2>5, <2>6
<1>11. ASSUME NEW r \in PagesIn(T)
       PROVE  T.mem_block[BlockIn(T, r)].is_swap \/ BlockIn(T, r) \in T.file_mapping_table
  <2>1. CASE r = NextPage(S, p)
    BY <1>6, <1>8, <2>1
  <2>2. CASE r \in PagesIn(S)
    <3>1. T.mem_block[BlockIn(S, r)] = S.mem_block[BlockIn(S, r)]
      BY <1>4, <1>6, <1>9, <2>2
    <3> QED
      BY <1>6, <1>8, <2>2, <3>1 DEF TableInv
  <2> QED
    BY <1>8, <2>1, <2>2
<1> QED
  BY <1>10, <1>11 DEF TableInv

LEMMA UpdateFileBlockTable ==
    ASSUME NEW S, Whole(S, {}, {}), TableInv(S, {}), NEW p \in Pids,
           Len(S.data_location[p]) < num_virt_addr, NEW n,
           NEW b \in S.file_mapping_table, NEW reference,
           NEW T, T = update_file_block(S, p, n, b, reference)
    PROVE  TableInv(T, {})
<1> DEFINE x == S.mem_block[b]
           y == [x EXCEPT !.ptes = @ \cup {<<p, n>>}]
           mb == [S.mem_block EXCEPT ![b] = y]
           dl == [S.data_location EXCEPT ![p] = Append(@, b)]
           e == IF x.ptes # {} THEN S.page_table[reference[1]][reference[2]]
                ELSE [ppage |-> IF x.resident THEN x.location ELSE S.page_table[p][n].ppage,
                      read_enable |-> x.resident /\ x.referenced,
                      write_enable |-> (x.resident /\ x.referenced) /\ x.dirty]
           pt == [S.page_table EXCEPT ![p][n] = e]
<1>0. Shape(S) /\ S \in PagerState
  BY DEF Whole, Shape
<1>1. S.mem_block \in [BlockIds -> Block] /\ b \in BlockIds /\ x \in Block
  BY <1>0, Fields
<1>2. FileKey(y) = FileKey(x) /\ y.is_swap = x.is_swap
  BY <1>1 DEF Block, FileKey
<1>3. T = [S EXCEPT !.mem_block = mb, !.data_location = dl, !.page_table = pt]
  BY <1>1 DEF update_file_block
<1>4. OnePageMore(S, [data_location |-> dl], p, b)
  BY DEF OnePageMore
<1> HIDE DEF y
<1>5. mb[b] = y /\ \A c \in BlockIds \ {b} : mb[c] = S.mem_block[c]
  BY <1>1
<1> HIDE DEF mb, dl, pt, e
<1>6. /\ T.mem_block = mb /\ T.file_mapping_table = S.file_mapping_table
      /\ T.data_location = dl
  BY <1>0, <1>3 DEF PagerState
<1>7. OnePageMore(S, T, p, b)
  BY <1>4, <1>6 DEF OnePageMore
<1>8. SameFiles(S, T)
  BY <1>2, <1>5, <1>6 DEF SameFiles
<1> QED
  BY <1>0, <1>1, <1>6, <1>7, <1>8, TableGrows

-----------------------------------------------------------------------------
LEMMA FaultTable ==
    ASSUME PagerInv, TableInv(Pager, {}), NEW v, NEW write_flag, Fault(v, write_flag)
    PROVE  TableInv(Pager, {})'
<1> DEFINE p == curr_pid
           b == data_location[p][v]
           S == MadeResident(Pager, b)
           T == IF S.mem_block[b].resident THEN Served(S, p, v, write_flag) ELSE S
<1>1. p # NoPid /\ v \in DOMAIN data_location[p] /\ Becomes(T)
  BY DEF Fault
<1>2. /\ Whole(Pager, {}, {}) /\ Shape(Pager) /\ p \in Pids
      /\ Pager.data_location = data_location
      /\ <<p, v>> \in PagesIn(Pager) /\ BlockIn(Pager, <<p, v>>) = b
  BY <1>1, CurrentProcess
<1>3. Whole(S, {}, {}) /\ TableInv(S, {}) /\ S.data_location = Pager.data_location
  <2> DEFINE P == Pager
  <2> HIDE DEF P, b
  <2>1. /\ Whole(P, {}, {}) /\ <<p, v>> \in PagesIn(P) /\ BlockIn(P, <<p, v>>) = b
        /\ TableInv(P, {})
    BY <1>2 DEF P
  <2>2. /\ Whole(MadeResident(P, b), {}, {}) /\ MadeResident(P, b).data_location = P.data_location
    BY <2>1, ResidentWhole
  <2>3. TableInv(MadeResident(P, b), {})
    BY <2>1, ResidentTable
  <2> QED
    BY <2>2, <2>3 DEF P
<1> HIDE DEF S
<1>4. Whole(T, {}, {}) /\ TableInv(T, {})
  <2>1. CASE S.mem_block[b].resident
    <3>1. v \in DOMAIN S.data_location[p] /\ S.mem_block[S.data_location[p][v]].resident
      BY <1>1, <1>2, <1>3, <2>1
    <3>2. Whole(Served(S, p, v, write_flag), {}, {}) /\ TableInv(Served(S, p, v, write_flag), {})
      BY <1>2, <1>3, <3>1, ServedWhole, ServedTable
    <3> QED
      BY <2>1, <3>2
  <2>2. CASE ~S.mem_block[b].resident
    BY <1>3, <2>2
  <2> QED
    BY <2>1, <2>2
<1> HIDE DEF T
<1>5. T \in PagerState
  BY <1>4 DEF Whole, Shape
<1> QED
  BY <1>1, <1>4, <1>5, BecomesTable, Fields

LEMMA SettledTable ==
    ASSUME NEW S, NEW T, Whole(S, {}, {}), Settled(S, T), TableInv(T, {}), NEW p \in Pids,
           NEW v \in DOMAIN S.data_location[p], NEW b, b = S.data_location[p][v]
    PROVE  TableInv(MadeResident(T, b), {})
<1>1. Whole(T, {}, {}) /\ Shape(T) /\ T.data_location = S.data_location
  BY DEF Settled, Whole
<1>2. <<p, v>> \in PagesIn(T) /\ BlockIn(T, <<p, v>>) = b
  BY <1>1, PagesMeaning
<1> QED
  BY <1>1, <1>2, ResidentTable

LEMMA ReadNameTable ==
    ASSUME NEW S, Whole(S, {}, {}), TableInv(S, {}), NEW p \in Pids,
           NEW v \in DOMAIN S.data_location[p], NEW w \in DOMAIN S.data_location[p]
    PROVE  TableInv(ReadName(S, p, v, w), {})
<1> DEFINE A == MadeResident(S, S.data_location[p][v])
           B == MadeResident(A, S.data_location[p][w])
<1>1. Settled(S, S)
  BY DEF Settled
<1>2. Settled(S, A) /\ TableInv(A, {})
  BY <1>1, SettledResident, SettledTable
<1> HIDE DEF A
<1>3. TableInv(B, {})
  BY <1>2, SettledTable
<1> HIDE DEF B
<1>4. ReadName(S, p, v, w) = A \/ ReadName(S, p, v, w) = B
  BY ReadNameIs DEF A, B
<1> QED
  BY <1>2, <1>3, <1>4

LEMMA MapFileTable ==
    ASSUME PagerInv, TableInv(Pager, {}), NEW v \in VPages, NEW w \in VPages,
           NEW blk \in FileBlocks, MapFile(v, w, blk)
    PROVE  TableInv(Pager, {})'
<1> DEFINE p == curr_pid
           n == Len(data_location[p]) + 1
           name == filename_str(p, v, w)
           S == ReadName(Pager, p, v, w)
<1>1. /\ p # NoPid /\ n <= num_virt_addr /\ v <= w /\ w <= v + 1
      /\ {v, w} \subseteq DOMAIN data_location[p]
      /\ IF NameWasRead(Pager, p, v, w) THEN MapNamed(S, p, n, name, blk) ELSE Becomes(S)
  BY DEF MapFile
<1>2. /\ Whole(Pager, {}, {}) /\ p \in Pids
      /\ Pager.data_location = data_location /\ Len(data_location[p]) \in Nat
  BY <1>1, CurrentProcess
<1>3. NameWasRead(Pager, p, v, w) => name \in Names
  BY <1>1, NameType
<1>4. Settled(Pager, S) /\ TableInv(S, {})
  BY <1>1, <1>2, ReadNameSettles, ReadNameTable
<1> HIDE DEF S, name
<1>5. Whole(S, {}, {}) /\ S.data_location = data_location /\ S \in PagerState
  BY <1>2, <1>4 DEF Settled, Whole, Shape
<1>6. Len(S.data_location[p]) < num_virt_addr /\ n = Len(S.data_location[p]) + 1
  <2>1. PICK k \in Nat : k = Len(data_location[p])
    BY <1>2
  <2>2. k < num_virt_addr
    BY <1>1, <2>1, Numbers
  <2> QED
    BY <1>5, <2>1, <2>2
<1> HIDE DEF n
<1>7. CASE ~NameWasRead(Pager, p, v, w)
  BY <1>1, <1>4, <1>5, <1>7, BecomesTable, Fields
<1>8. CASE NameWasRead(Pager, p, v, w)
  <2>1. MapNamed(S, p, n, name, blk)
    BY <1>1, <1>8
  <2>2. CASE /\ {b \in S.file_mapping_table : FileKey(S.mem_block[b]) = <<name, blk>>} = {}
             /\ Becomes(map_file_block(S, p, n, name, blk))
    <3> DEFINE T == map_file_block(S, p, n, name, blk)
    <3>1. Whole(T, {}, {})
      BY <1>2, <1>3, <1>5, <1>6, <1>8, MapFileBlock
    <3>2. /\ T = map_file_block(S, p, n, name, blk) /\ Becomes(T) /\ p \in Pids
          /\ {b \in S.file_mapping_table : FileKey(S.mem_block[b]) = <<name, blk>>} = {}
          /\ Whole(S, {}, {}) /\ TableInv(S, {})
      BY <1>2, <1>4, <1>5, <2>2
    <3> HIDE DEF T, p
    <3>3. TableInv(T, {})
      BY <1>6, <3>2, MapFileBlockTable
    <3>4. T \in PagerState
      BY <3>1 DEF Whole, Shape
    <3> QED
      BY <3>2, <3>3, <3>4, BecomesTable, Fields
  <2>3. ASSUME NEW b \in S.file_mapping_table, NEW reference \in S.mem_block[b].ptes \cup {<<p, n>>},
               Becomes(update_file_block(S, p, n, b, reference))
        PROVE  TableInv(Pager, {})'
    <3> DEFINE T == update_file_block(S, p, n, b, reference)
    <3>1. Whole(T, {}, {})
      BY <1>2, <1>5, <1>6, UpdateFileBlock
    <3>2. TableInv(T, {})
      BY <1>2, <1>4, <1>5, <1>6, UpdateFileBlockTable
    <3> HIDE DEF T
    <3>3. T \in PagerState /\ Becomes(T)
      BY <2>3, <3>1 DEF T, Whole, Shape
    <3> QED
      BY <3>2, <3>3, BecomesTable, Fields
  <2> QED
    BY <2>1, <2>2, <2>3 DEF MapNamed
<1> QED
  BY <1>7, <1>8

LEMMA MapFileInvalidTable ==
    ASSUME PagerInv, TableInv(Pager, {}), MapFileInvalid
    PROVE  TableInv(Pager, {})'
<1> DEFINE p == curr_pid
           s == data_location[p]
           b == s[Len(s)]
           S == MadeResident(Pager, b)
<1>1. p # NoPid /\ Len(s) \in 1 .. num_virt_addr - 1 /\ Becomes(S)
  <2>1. Pager.data_location = data_location
    BY DEF Pager
  <2> QED
    BY <2>1 DEF MapFileInvalid, Touched
<1>2. /\ Whole(Pager, {}, {}) /\ p \in Pids
      /\ Pager.data_location = data_location /\ s \in Seq(BlockIds)
  BY <1>1, CurrentProcess
<1>3. Len(s) \in DOMAIN s /\ b = s[Len(s)]
  <2>1. Len(s) \in Nat /\ DOMAIN s = 1 .. Len(s)
    BY <1>2
  <2> QED
    BY <1>1, <2>1
<1>4. Settled(Pager, Pager)
  BY <1>2 DEF Settled
<1>5. Settled(Pager, S) /\ TableInv(S, {})
  <2> HIDE DEF b
  <2> QED
    BY <1>2, <1>3, <1>4, SettledResident, SettledTable
<1> HIDE DEF S
<1>6. S \in PagerState
  BY <1>5 DEF Settled, Whole, Shape
<1> QED
  BY <1>1, <1>5, <1>6, BecomesTable, Fields

(* Steps that change neither pages nor blocks *)
LEMMA NotTable ==
    ASSUME TableInv(Pager, {}), UNCHANGED <<mem_block, file_mapping_table, data_location>>
    PROVE  TableInv(Pager, {})'
<1> DEFINE S == Pager
           N == Pager'
<1>1. /\ N.mem_block = S.mem_block /\ N.file_mapping_table = S.file_mapping_table
      /\ N.data_location = S.data_location
  BY DEF Pager
<1>2. TableInv(S, {})
  OBVIOUS
<1> HIDE DEF S, N
<1>3. PagesIn(N) = PagesIn(S) /\ \A r : BlockIn(N, r) = BlockIn(S, r)
  BY <1>1, SamePages
<1>4. TableInv(N, {})
  BY <1>1, <1>2, <1>3 DEF TableInv
<1> QED
  BY <1>4 DEF N

LEMMA CreateTable ==
    ASSUME PagerInv, TableInv(Pager, {}), NEW p \in Pids \cup {NoPid}, NEW c \in Pids, Create(p, c)
    PROVE  TableInv(Pager, {})'
<1>0. ProcInv
  BY DEF PagerInv
<1>1. c \notin alive /\ (p = curr_pid \/ p \notin managed)
  BY DEF Create
<1>2. CASE UNCHANGED pagerVars
  BY <1>2, NotTable DEF pagerVars
<1>3. CASE /\ p \in managed /\ ~(num_swap_blocks[p] > Len(free_swap_blocks))
           /\ Becomes(Copied(p, c)[Len(data_location[p])])
  <2> DEFINE S == Copied(p, c)[Len(data_location[p])]
  <2>1. p \in alive /\ p \in Pids /\ c \in Pids \ alive
    BY <1>0, <1>1, <1>3, PagerAssumption DEF ProcInv
  <2>2. CopiedSoFar(S, p, c, Len(data_location[p]))
    BY <1>1, <1>3, <2>1, CopyLoop
  <2>3. TableInv(S, {})
    BY <1>3, <2>1, CopyLoopTable
  <2>4. S \in PagerState
    BY <2>2 DEF CopiedSoFar, Whole, Shape
  <2> HIDE DEF S
  <2> QED
    BY <1>3, <2>3, <2>4, BecomesTable, Fields DEF S
<1> QED
  BY <1>2, <1>3 DEF Create

LEMMA InitTable ==
    ASSUME Init
    PROVE  TableInv(Pager, {})
<1>1. (\A p \in Pids : Pager.data_location[p] = <<>>) /\ Pager.file_mapping_table = {}
  BY DEF Init, Pager
<1>2. DOMAIN <<>> = {}
  OBVIOUS
<1>3. PagesIn(Pager) = {}
  BY <1>1, <1>2 DEF PagesIn
<1> QED
  BY <1>1, <1>3 DEF TableInv

LEMMA NextTable ==
    ASSUME PagerInv, TableInv(Pager, {}), [Next]_vars
    PROVE  TableInv(Pager, {})'
<1>1. CASE \E p \in Pids \cup {NoPid}, c \in Pids : Create(p, c)
  BY <1>1, CreateTable
<1>2. CASE \E p \in Pids : Switch(p)
  BY <1>2, NotTable DEF Switch, pagerVars
<1>3. CASE \E v \in VPages : \E write_flag \in BOOLEAN : Fault(v, write_flag)
  BY <1>3, FaultTable
<1>4. CASE \E v \in VPages, d \in Data : Store(v, d)
  BY <1>4, NotTable DEF Store
<1>5. CASE Destroy
  BY <1>5, DestroyTable
<1>6. CASE MapSwap
  BY <1>6, MapSwapTable
<1>7. CASE \E v, w \in VPages, blk \in FileBlocks : MapFile(v, w, blk)
  BY <1>7, MapFileTable
<1>8. CASE MapFileInvalid
  BY <1>8, MapFileInvalidTable
<1>9. CASE \E k \in FileKeys : FileAppears(k)
  BY <1>9, NotTable DEF FileAppears, pagerVars
<1>10. CASE UNCHANGED vars
  BY <1>10, NotTable DEF vars, pagerVars
<1> QED
  BY <1>1, <1>2, <1>3, <1>4, <1>5, <1>6, <1>7, <1>8, <1>9, <1>10 DEF Next

(* What VirtualMemory says a page holds *)
LEMMA ValueOf ==
    ASSUME PagerInv, TableInv(Pager, {}), NEW p \in Pids, NEW v \in DOMAIN data_location[p]
    PROVE  VM!Value(p, v) = DatumOf(Pager, mem_block[data_location[p][v]])
<1> DEFINE S == Pager
           b == data_location[p][v]
           x == mem_block[b]
<1>0. /\ Whole(S, {}, {}) /\ Shape(S) /\ FilesInv(S) /\ S.data_location = data_location
      /\ S.mem_block = mem_block /\ S.file_mapping_table = file_mapping_table
  BY DEF PagerInv, Whole, Pager
<1> HIDE DEF S
<1>1. <<p, v>> \in PagesIn(S) /\ BlockIn(S, <<p, v>>) = b
  BY <1>0, PagesMeaning
<1>2. b \in Referenced(S)
  BY <1>0, <1>1, ReferencedMeaning
<1>3. CASE x.is_swap
  <2>1. Shows(p, v) = Private
    BY <1>3 DEF Shows
  <2> QED
    BY <2>1 DEF VM!Value, Datum, Pager
<1>4. CASE ~x.is_swap
  <2>1. Shows(p, v) = FileKey(x)
    BY <1>4 DEF Shows
  <2>2. FileKey(x) \in FileKeys /\ FileKey(x) # Private
    BY <1>0, <1>2, <1>4, PagerAssumption DEF FilesInv, NamedOK, FileKey, FileKeys
  <2>3. b \in file_mapping_table
    BY <1>0, <1>1, <1>4 DEF TableInv, S
  <2>4. \A c \in file_mapping_table : FileKey(mem_block[c]) = FileKey(x) => c = b
    BY <1>0, <2>3 DEF TableInv, S
  <2>5. (CHOOSE c \in file_mapping_table : FileKey(mem_block[c]) = FileKey(x)) = b
    BY <2>3, <2>4
  <2> DEFINE key == FileKey(x)
  <2>6. key \in FileKeys /\ key # Private /\ Shows(p, v) = key
        /\ (\E c \in file_mapping_table : FileKey(mem_block[c]) = key)
        /\ (CHOOSE c \in file_mapping_table : FileKey(mem_block[c]) = key) = b
    BY <2>1, <2>2, <2>3, <2>5
  <2> HIDE DEF key
  <2> QED
    BY <2>6 DEF VM!Value
<1> QED
  BY <1>3, <1>4

LEMMA LoadsFollow ==
    ASSUME PagerInv, MmuInv(Pager, {}), TableInv(Pager, {})
    PROVE  LoadsRight
<1>1. ASSUME NEW pg \in Pages, EntryOf(pg).read_enable
      PROVE  physmem[EntryOf(pg).ppage] = VM!Value(pg[1], pg[2])
  <2> DEFINE x == mem_block[data_location[pg[1]][pg[2]]]
  <2>1. pg[1] \in Pids /\ pg[2] \in DOMAIN data_location[pg[1]]
    BY DEF Pages
  <2>2. VM!Value(pg[1], pg[2]) = DatumOf(Pager, x)
    BY <2>1, ValueOf
  <2>3. MmuSound
    BY MmuFollows
  <2>4. x.resident /\ EntryOf(pg).ppage = x.location
    BY <1>1, <2>3 DEF MmuSound, BlockOf
  <2>5. DatumOf(Pager, x) = physmem[x.location]
    BY <2>4 DEF DatumOf, Pager
  <2> QED
    BY <2>2, <2>4, <2>5
<1> QED
  BY <1>1 DEF LoadsRight

(* For any numbers of processes, pages, frames and files: a load that the  *)
(* MMU lets through returns what VirtualMemory says the page holds.  The   *)
(* block of a file-backed page is never dropped from file_mapping_table    *)
(* while a page shows it (evict_phys_page, vm_destroy), and vm_map never   *)
(* enters a second block for a file block that is there (map_file_block).  *)
THEOREM LoadsAreRight == CountsFit /\ Spec => []LoadsRight
<1>1. Init => MmuInv(Pager, {}) /\ TableInv(Pager, {})
  BY InitMmu, InitTable
<1>2. PagerInv /\ MmuInv(Pager, {}) /\ TableInv(Pager, {}) /\ [Next]_vars
        => MmuInv(Pager, {})' /\ TableInv(Pager, {})'
  BY NextMmu, NextTable
<1>3. PagerInv /\ MmuInv(Pager, {}) /\ TableInv(Pager, {}) => LoadsRight
  BY LoadsFollow
<1> QED
  BY <1>1, <1>2, <1>3, PagerCorrect, PTL DEF Spec
=============================================================================
