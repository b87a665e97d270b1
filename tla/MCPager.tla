------------------------------ MODULE MCPager ------------------------------
(* Values for the pager, and the states TLC tells apart.                   *)
EXTENDS Pager

(* One file that can be opened, the one a page of ones names.  All other   *)
(* names, the one a page of zeroes gives and those that cross a page       *)
(* boundary among them, are of files that do not exist.                    *)
MCExisting == {<< <<1>>, 0 >>}
NoFiles == {}

Symmetry == Permutations(Pids)

(* Frames, swap blocks and mem_blocks have no identity that matters.  Up   *)
(* to their names a state is what the blocks of the clock queue and of the *)
(* pages hold, which pages share a block, and how many frames and swap     *)
(* blocks are free; data left in free frames and in swap blocks that back  *)
(* a dirty page belong to nobody.  All that is so only in states with the  *)
(* invariants of WellFormed; the view shows the others whole.              *)
WellFormed == TypeOK /\ FramesConserved /\ SwapConserved /\ CleanOnDisk

UpToNames ==
    LET held(b) == [mem_block[b] EXCEPT !.location = DatumOf(Pager, mem_block[b]),
                                        !.swap_blocks = Len(@)]
        block(b) == <<held(b), b \in file_mapping_table, PagesOf(b)>>
        seen(e, x) == <<e.read_enable, e.write_enable, x.resident /\ e.ppage = x.location>>
    IN  <<[i \in DOMAIN clock_queue |-> block(clock_queue[i])],
          [pg \in Pages |-> <<block(BlockOf(pg)), seen(EntryOf(pg), mem_block[BlockOf(pg)])>>],
          block(zero_page), Cardinality(file_mapping_table),
          Len(free_mem_blocks), Len(free_swap_blocks), files, procVars, accessible>>

View == IF WellFormed THEN UpToNames ELSE vars
=============================================================================
