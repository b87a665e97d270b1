-------------------------- MODULE PagerDataProofs --------------------------
(***************************************************************************)
(* Proofs about the data of the pages: where they are kept (CleanOnDisk),  *)
(* that only stores change them (OnlyStoresChangePages), and that the      *)
(* pager implements VirtualMemory.                                         *)
(*                                                                         *)
(* As in PagerProofs, the invariants are of a pager state S.  SwapOwned:   *)
(* no swap block is in two places.  DataInv: the data of a block that is   *)
(* clean are in its backing store, those of a block out of memory in its   *)
(* first swap block or in its file block.  Preserved(S, T, gone): every    *)
(* page but those of gone, and every file block, shows the same in T as in *)
(* S.  Each helper keeps the invariants and preserves all pages, however   *)
(* many evictions it makes on the way; a handler is then one of a few      *)
(* things (NothingShown, PagesCopied, PagesLost, PageShown, Stored), and   *)
(* each of them is a step of VirtualMemory.                                *)
(***************************************************************************)
EXTENDS PagerMmuProofs


(* No swap block is in two places. *)
Owned(S, b) == ToSet(S.mem_block[b].swap_blocks)

SwapOwned(S) ==
    /\ IsInjective(S.free_swap_blocks)
    /\ \A b \in Referenced(S) : /\ IsInjective(S.mem_block[b].swap_blocks)
                                /\ Owned(S, b) \cap ToSet(S.free_swap_blocks) = {}
    /\ \A b, c \in Referenced(S) : b # c => Owned(S, b) \cap Owned(S, c) = {}

(* The last member of a sequence without duplicates *)
LEMMA FrontLemma ==
    ASSUME NEW S, NEW s \in Seq(S), s # <<>>, IsInjective(s)
    PROVE  /\ IsInjective(Front(s)) /\ Last(s) \notin ToSet(Front(s))
           /\ ToSet(Front(s)) = ToSet(s) \ {Last(s)} /\ Last(s) \in ToSet(s)
<1> PICK n \in Nat : Len(s) = n
  BY LenProperties
<1>1. n >= 1 /\ DOMAIN s = 1 .. n
  BY EmptySeq, LenProperties
<1>2. Front(s) = SubSeq(s, 1, n - 1)
  BY DEF Front
<1>3. IsInjective(Front(s)) /\ ToSet(Front(s)) = {s[i] : i \in 1 .. n - 1}
  <2>1. 1 \in 1 .. Len(s) + 1 /\ n - 1 \in 0 .. Len(s)
    BY <1>1
  <2> QED
    BY <2>1, <1>2, SubSeqLemma
<1>4. Last(s) = s[n] /\ \A i \in 1 .. n - 1 : s[i] # s[n]
  BY <1>1 DEF Last, IsInjective
<1>5. ToSet(s) = {s[i] : i \in 1 .. n}
  BY <1>1 DEF ToSet
<1> QED
  BY <1>1, <1>3, <1>4, <1>5

(* Nothing is reserved or given back. *)
LEMMA SameOwned ==
    ASSUME NEW S, NEW T, SwapOwned(S), Referenced(T) \subseteq Referenced(S),
           T.free_swap_blocks = S.free_swap_blocks,
           \A b \in Referenced(T) : T.mem_block[b].swap_blocks = S.mem_block[b].swap_blocks
    PROVE  SwapOwned(T)
BY DEF SwapOwned, Owned

(* The blocks of a state have sequences of swap blocks. *)
LEMMA SwapSeq ==
    ASSUME NEW S, Shape(S), NEW b \in Referenced(S)
    PROVE  /\ b \in BlockIds /\ S.mem_block[b].swap_blocks \in Seq(SwapBlocks)
           /\ S.free_swap_blocks \in Seq(SwapBlocks)
<1>1. b \in BlockIds
  BY ReferencedMeaning
<1>2. S.mem_block \in [BlockIds -> Block] /\ S.free_swap_blocks \in Seq(SwapBlocks)
  BY Fields DEF Shape
<1> QED
  BY <1>1, <1>2 DEF Block

(* The first free swap block is reserved for b. *)
LEMMA TakeOwned ==
    ASSUME NEW S, NEW T, NEW b \in Referenced(S), Shape(S), SwapOwned(S),
           Referenced(T) \subseteq Referenced(S), S.free_swap_blocks # <<>>,
           T.free_swap_blocks = Tail(S.free_swap_blocks),
           T.mem_block[b].swap_blocks = Append(S.mem_block[b].swap_blocks, Head(S.free_swap_blocks)),
           \A c \in Referenced(S) \ {b} :
             T.mem_block[c].swap_blocks = S.mem_block[c].swap_blocks
    PROVE  SwapOwned(T)
<1> DEFINE k == Head(S.free_swap_blocks)
           sb == S.mem_block[b].swap_blocks
<1>1. sb \in Seq(SwapBlocks) /\ S.free_swap_blocks \in Seq(SwapBlocks)
  BY SwapSeq
<1>2. /\ k \in SwapBlocks /\ IsInjective(T.free_swap_blocks) /\ k \notin ToSet(T.free_swap_blocks)
      /\ ToSet(S.free_swap_blocks) = {k} \cup ToSet(T.free_swap_blocks)
  BY <1>1, HeadTailLemma DEF SwapOwned
<1>3. k \notin Owned(S, b) /\ IsInjective(sb)
  BY <1>2 DEF SwapOwned
<1>4. Owned(T, b) = Owned(S, b) \cup {k} /\ IsInjective(T.mem_block[b].swap_blocks)
  BY <1>1, <1>2, <1>3, AppendLemma DEF Owned
<1>5. \A c \in Referenced(S) \ {b} : Owned(T, c) = Owned(S, c)
  BY DEF Owned
<1> HIDE DEF k, sb
<1>6. \A c \in Referenced(T) : /\ IsInjective(T.mem_block[c].swap_blocks)
                               /\ Owned(T, c) \cap ToSet(T.free_swap_blocks) = {}
  <2>1. Owned(T, b) \cap ToSet(T.free_swap_blocks) = {}
    BY <1>2, <1>4 DEF SwapOwned
  <2>2. \A c \in Referenced(S) \ {b} : /\ IsInjective(T.mem_block[c].swap_blocks)
                                       /\ Owned(T, c) \cap ToSet(T.free_swap_blocks) = {}
    BY <1>2, <1>5 DEF SwapOwned
  <2> QED
    BY <1>4, <2>1, <2>2
<1>7. \A c \in Referenced(S) \ {b} : Owned(T, b) \cap Owned(T, c) = {}
  BY <1>2, <1>4, <1>5 DEF SwapOwned
<1>8. \A c, d \in Referenced(T) : c # d => Owned(T, c) \cap Owned(T, d) = {}
  <2>1. \A c, d \in Referenced(S) \ {b} : c # d => Owned(T, c) \cap Owned(T, d) = {}
    BY <1>5 DEF SwapOwned
  <2> QED
    BY <1>7, <2>1
<1> QED
  BY <1>2, <1>6, <1>8 DEF SwapOwned

(* The last swap block of b is free again. *)
LEMMA GiveOwned ==
    ASSUME NEW S, NEW T, NEW b \in Referenced(S), Shape(S), SwapOwned(S),
           Referenced(T) \subseteq Referenced(S), S.mem_block[b].swap_blocks # <<>>,
           T.free_swap_blocks = Append(S.free_swap_blocks, Last(S.mem_block[b].swap_blocks)),
           T.mem_block[b].swap_blocks = Front(S.mem_block[b].swap_blocks),
           \A c \in Referenced(S) \ {b} :
             T.mem_block[c].swap_blocks = S.mem_block[c].swap_blocks
    PROVE  SwapOwned(T)
<1> DEFINE sb == S.mem_block[b].swap_blocks
           k == Last(sb)
<1>1. sb \in Seq(SwapBlocks) /\ S.free_swap_blocks \in Seq(SwapBlocks) /\ IsInjective(sb)
  BY SwapSeq DEF SwapOwned
<1>2. /\ IsInjective(T.mem_block[b].swap_blocks) /\ k \in Owned(S, b)
      /\ Owned(T, b) = Owned(S, b) \ {k} /\ k \in SwapBlocks
  BY <1>1, FrontLemma, FrontLastLemma DEF Owned
<1>3. k \notin ToSet(S.free_swap_blocks)
  BY <1>2 DEF SwapOwned
<1>4. /\ IsInjective(T.free_swap_blocks)
      /\ ToSet(T.free_swap_blocks) = ToSet(S.free_swap_blocks) \cup {k}
  BY <1>1, <1>2, <1>3, AppendLemma DEF SwapOwned
<1>5. \A c \in Referenced(S) \ {b} : Owned(T, c) = Owned(S, c) /\ k \notin Owned(S, c)
  BY <1>2 DEF Owned, SwapOwned
<1> HIDE DEF k, sb
<1>6. \A c \in Referenced(T) : /\ IsInjective(T.mem_block[c].swap_blocks)
                               /\ Owned(T, c) \cap ToSet(T.free_swap_blocks) = {}
  <2>1. Owned(T, b) \cap ToSet(T.free_swap_blocks) = {}
    BY <1>2, <1>4 DEF SwapOwned
  <2>2. \A c \in Referenced(S) \ {b} : /\ IsInjective(T.mem_block[c].swap_blocks)
                                       /\ Owned(T, c) \cap ToSet(T.free_swap_blocks) = {}
    BY <1>4, <1>5 DEF SwapOwned
  <2> QED
    BY <1>2, <2>1, <2>2
<1>7. \A c, d \in Referenced(T) : c # d => Owned(T, c) \cap Owned(T, d) = {}
  <2>1. \A c \in Referenced(S) : Owned(T, c) \subseteq Owned(S, c)
    BY <1>2, <1>5
  <2> QED
    BY <2>1 DEF SwapOwned
<1> QED
  BY <1>4, <1>6, <1>7 DEF SwapOwned

(* The last swap block of old is that of the new block. *)
LEMMA HandOwned ==
    ASSUME NEW S, NEW T, NEW old \in Referenced(S), NEW new, new \notin Referenced(S), Shape(S),
           SwapOwned(S), Referenced(T) \subseteq Referenced(S) \cup {new},
           S.mem_block[old].swap_blocks # <<>>,
           T.free_swap_blocks = S.free_swap_blocks,
           T.mem_block[new].swap_blocks = <<Last(S.mem_block[old].swap_blocks)>>,
           T.mem_block[old].swap_blocks = Front(S.mem_block[old].swap_blocks),
           \A c \in Referenced(S) \ {old} :
             T.mem_block[c].swap_blocks = S.mem_block[c].swap_blocks
    PROVE  SwapOwned(T)
<1> DEFINE sb == S.mem_block[old].swap_blocks
           k == Last(sb)
<1>1. sb \in Seq(SwapBlocks) /\ S.free_swap_blocks \in Seq(SwapBlocks) /\ IsInjective(sb)
  BY SwapSeq DEF SwapOwned
<1>2. /\ IsInjective(T.mem_block[old].swap_blocks) /\ k \in Owned(S, old)
      /\ Owned(T, old) = Owned(S, old) \ {k} /\ k \in SwapBlocks
  BY <1>1, FrontLemma, FrontLastLemma DEF Owned
<1>3. k \notin ToSet(S.free_swap_blocks)
  BY <1>2 DEF SwapOwned
<1>4. Owned(T, new) = {k} /\ IsInjective(T.mem_block[new].swap_blocks)
  <2>1. ToSet(<<k>>) = {k} /\ IsInjective(<<k>>)
    BY DEF ToSet, IsInjective
  <2> QED
    BY <2>1 DEF Owned
<1>5. \A c \in Referenced(S) \ {old} : Owned(T, c) = Owned(S, c) /\ k \notin Owned(S, c)
  BY <1>2 DEF Owned, SwapOwned
<1> HIDE DEF k, sb
<1>6. \A c \in Referenced(T) : /\ IsInjective(T.mem_block[c].swap_blocks)
                               /\ Owned(T, c) \cap ToSet(T.free_swap_blocks) = {}
  <2>1. /\ Owned(T, old) \cap ToSet(T.free_swap_blocks) = {}
        /\ Owned(T, new) \cap ToSet(T.free_swap_blocks) = {}
    BY <1>2, <1>3, <1>4 DEF SwapOwned
  <2>2. \A c \in Referenced(S) \ {old} : /\ IsInjective(T.mem_block[c].swap_blocks)
                                         /\ Owned(T, c) \cap ToSet(T.free_swap_blocks) = {}
    BY <1>5 DEF SwapOwned
  <2> QED
    BY <1>2, <1>4, <2>1, <2>2
<1>7. \A c, d \in Referenced(T) : c # d => Owned(T, c) \cap Owned(T, d) = {}
  <2>1. \A c \in Referenced(S) : Owned(T, c) \subseteq Owned(S, c) /\ k \notin Owned(T, c)
    BY <1>2, <1>5
  <2>2. \A c, d \in Referenced(S) : c # d => Owned(T, c) \cap Owned(T, d) = {}
    BY <2>1 DEF SwapOwned
  <2>3. \A c \in Referenced(S) : Owned(T, c) \cap Owned(T, new) = {}
    BY <1>4, <2>1
  <2> QED
    BY <2>2, <2>3
<1> QED
  BY <1>6, <1>7 DEF SwapOwned

-----------------------------------------------------------------------------
(* The data of the blocks, and what stays of them.                         *)

Backing(S, x) == IF x.is_swap THEN S.swap_file[Head(x.swap_blocks)] ELSE S.files[FileKey(x)]

BackedUp(S, b) ==
    LET x == S.mem_block[b]
    IN  /\ x.is_swap /\ ~x.resident => x.location = Head(x.swap_blocks)
        /\ x.resident /\ ~x.dirty => S.physmem[x.location] = Backing(S, x)

Live(S, gone) == {BlockIn(S, pg) : pg \in PagesIn(S) \ gone} \cup S.file_mapping_table

DataInv(S, gone) ==
    /\ S.physmem[0] = 0
    /\ \A b \in Live(S, gone) \ {zero_page} : BackedUp(S, b)
    /\ \A b \in ToSet(S.clock_queue) : S.mem_block[b].is_swap \/ b \in S.file_mapping_table

KindOf(S, pg) == LET x == S.mem_block[BlockIn(S, pg)] IN IF x.is_swap THEN Private ELSE FileKey(x)
HeldIn(S, pg) == DatumOf(S, S.mem_block[BlockIn(S, pg)])
ContentOf(S, k) ==
    IF \E b \in S.file_mapping_table : FileKey(S.mem_block[b]) = k
    THEN DatumOf(S, S.mem_block[CHOOSE b \in S.file_mapping_table : FileKey(S.mem_block[b]) = k])
    ELSE S.files[k]

SamePage(S, T, pg) ==
    pg \in PagesIn(T) /\ KindOf(T, pg) = KindOf(S, pg) /\ HeldIn(T, pg) = HeldIn(S, pg)
SameContent(S, T) == \A k \in FileKeys : ContentOf(T, k) = ContentOf(S, k)

(* Nothing an application can see is different but on the pages of gone. *)
Preserved(S, T, gone) ==
    SameContent(S, T) /\ \A pg \in PagesIn(S) \ gone : SamePage(S, T, pg)

LEMMA PreservedTrans ==
    ASSUME NEW S, NEW T, NEW U, NEW gone, NEW less, gone \subseteq less,
           Preserved(S, T, gone), Preserved(T, U, less)
    PROVE  Preserved(S, U, less)
BY DEF Preserved, SameContent, SamePage

LEMMA PreservedSame ==
    ASSUME NEW S
    PROVE  Preserved(S, S, {})
BY DEF Preserved, SameContent, SamePage

(* The content of a file block is that of its only block. *)
LEMMA ContentIs ==
    ASSUME NEW S, NEW gone, TableInv(S, gone), NEW k
    PROVE  /\ \A b \in S.file_mapping_table : FileKey(S.mem_block[b]) = k =>
                ContentOf(S, k) = DatumOf(S, S.mem_block[b])
           /\ (\A b \in S.file_mapping_table : FileKey(S.mem_block[b]) # k) =>
                ContentOf(S, k) = S.files[k]
<1>1. ASSUME NEW b \in S.file_mapping_table, FileKey(S.mem_block[b]) = k
      PROVE  ContentOf(S, k) = DatumOf(S, S.mem_block[b])
  <2> DEFINE c == CHOOSE c \in S.file_mapping_table : FileKey(S.mem_block[c]) = k
  <2>1. c \in S.file_mapping_table /\ FileKey(S.mem_block[c]) = k
    BY <1>1
  <2>2. ContentOf(S, k) = DatumOf(S, S.mem_block[c])
    BY <1>1 DEF ContentOf
  <2> HIDE DEF c
  <2>3. c = b
    BY <1>1, <2>1 DEF TableInv
  <2> QED
    BY <2>2, <2>3
<1>2. (\A b \in S.file_mapping_table : FileKey(S.mem_block[b]) # k) =>
        ContentOf(S, k) = S.files[k]
  BY DEF ContentOf
<1> QED
  BY <1>1, <1>2

(* A block is forgotten only when the file has its data. *)
LEMMA ContentKept ==
    ASSUME NEW S, NEW T, NEW gone, NEW less, TableInv(S, gone), TableInv(T, less),
           T.file_mapping_table \subseteq S.file_mapping_table,
           \A b \in S.file_mapping_table :
             /\ FileKey(T.mem_block[b]) = FileKey(S.mem_block[b])
             /\ IF b \in T.file_mapping_table
                THEN DatumOf(T, T.mem_block[b]) = DatumOf(S, S.mem_block[b])
                ELSE T.files[FileKey(S.mem_block[b])] = DatumOf(S, S.mem_block[b]),
           \A k \in FileKeys : \/ T.files[k] = S.files[k]
                               \/ \E b \in S.file_mapping_table : FileKey(S.mem_block[b]) = k
    PROVE  SameContent(S, T)
<1>1. ASSUME NEW k \in FileKeys
      PROVE  ContentOf(T, k) = ContentOf(S, k)
  <2>1. CASE \E b \in T.file_mapping_table : FileKey(T.mem_block[b]) = k
    <3>1. PICK b \in T.file_mapping_table : FileKey(T.mem_block[b]) = k
      BY <2>1
    <3>2. b \in S.file_mapping_table /\ FileKey(S.mem_block[b]) = k
      BY <3>1
    <3>3. ContentOf(T, k) = DatumOf(T, T.mem_block[b])
      BY <3>1, ContentIs
    <3>4. ContentOf(S, k) = DatumOf(S, S.mem_block[b])
      BY <3>2, ContentIs
    <3> QED
      BY <3>1, <3>2, <3>3, <3>4
  <2>2. CASE ~\E b \in T.file_mapping_table : FileKey(T.mem_block[b]) = k
    <3>1. ContentOf(T, k) = T.files[k]
      BY <2>2, ContentIs
    <3>2. CASE \E b \in S.file_mapping_table : FileKey(S.mem_block[b]) = k
      <4>1. PICK b \in S.file_mapping_table : FileKey(S.mem_block[b]) = k
        BY <3>2
      <4>2. b \notin T.file_mapping_table
        BY <2>2, <4>1
      <4>3. ContentOf(S, k) = DatumOf(S, S.mem_block[b])
        BY <4>1, ContentIs
      <4> QED
        BY <3>1, <4>1, <4>2, <4>3
    <3>3. CASE ~\E b \in S.file_mapping_table : FileKey(S.mem_block[b]) = k
      <4>1. ContentOf(S, k) = S.files[k]
        BY <3>3, ContentIs
      <4> QED
        BY <3>1, <3>3, <4>1
    <3> QED
      BY <3>2, <3>3
  <2> QED
    BY <2>1, <2>2
<1> QED
  BY <1>1 DEF SameContent

(* A step that moves no data, and makes no block of B clean. *)
Calm(S, T, B) ==
    /\ T.physmem = S.physmem /\ T.swap_file = S.swap_file /\ T.files = S.files
    /\ \A c \in B : LET x == S.mem_block[c]
                        y == T.mem_block[c]
                    IN  /\ y.resident = x.resident /\ y.location = x.location
                        /\ y.is_swap = x.is_swap /\ y.filename = x.filename
                        /\ y.block_num = x.block_num /\ (x.dirty => y.dirty)

LEMMA CalmTrans ==
    ASSUME NEW S, NEW T, NEW U, NEW B, Calm(S, T, B), Calm(T, U, B)
    PROVE  Calm(S, U, B)
BY DEF Calm

LEMMA CalmBlock ==
    ASSUME NEW S, NEW T, NEW B, Calm(S, T, B), NEW b \in B
    PROVE  /\ DatumOf(T, T.mem_block[b]) = DatumOf(S, S.mem_block[b])
           /\ FileKey(T.mem_block[b]) = FileKey(S.mem_block[b])
           /\ T.mem_block[b].is_swap = S.mem_block[b].is_swap
<1> DEFINE x == S.mem_block[b]
           y == T.mem_block[b]
<1>1. /\ y.resident = x.resident /\ y.location = x.location
      /\ y.is_swap = x.is_swap /\ y.filename = x.filename /\ y.block_num = x.block_num
      /\ T.physmem = S.physmem /\ T.swap_file = S.swap_file /\ T.files = S.files
  BY DEF Calm
<1> HIDE DEF x, y
<1>2. FileKey(y) = FileKey(x)
  BY <1>1 DEF FileKey
<1> QED
  BY <1>1, <1>2 DEF DatumOf, x, y

(* Such a step keeps the backups of the blocks that stay. *)
LEMMA CalmData ==
    ASSUME NEW S, NEW T, NEW B, NEW gone, NEW less, DataInv(S, gone), Calm(S, T, B),
           Live(T, less) \ {zero_page} \subseteq Live(S, gone), Live(T, less) \subseteq B,
           \A b \in Live(T, less) \ {zero_page} : S.mem_block[b].is_swap =>
             Head(T.mem_block[b].swap_blocks) = Head(S.mem_block[b].swap_blocks),
           \A b \in ToSet(T.clock_queue) :
             /\ b \in ToSet(S.clock_queue) /\ b \in B
             /\ b \in S.file_mapping_table => b \in T.file_mapping_table
    PROVE  DataInv(T, less)
<1>1. ASSUME NEW b \in Live(T, less) \ {zero_page}
      PROVE  BackedUp(T, b)
  <2> DEFINE x == S.mem_block[b]
             y == T.mem_block[b]
  <2>1. /\ y.resident = x.resident /\ y.location = x.location
        /\ y.is_swap = x.is_swap /\ y.filename = x.filename /\ y.block_num = x.block_num
        /\ x.dirty => y.dirty
        /\ T.physmem = S.physmem /\ T.swap_file = S.swap_file /\ T.files = S.files
    BY DEF Calm
  <2>2. x.is_swap => Head(y.swap_blocks) = Head(x.swap_blocks)
    OBVIOUS
  <2>3. BackedUp(S, b)
    BY DEF DataInv
  <2>4. FileKey(y) = FileKey(x)
    BY <2>1 DEF FileKey
  <2>5. Backing(T, y) = Backing(S, x)
    BY <2>1, <2>2, <2>4 DEF Backing
  <2> QED
    BY <2>1, <2>2, <2>3, <2>5 DEF BackedUp
<1>2. T.physmem[0] = 0
  BY DEF DataInv, Calm
<1>3. ASSUME NEW b \in ToSet(T.clock_queue)
      PROVE  T.mem_block[b].is_swap \/ b \in T.file_mapping_table
  BY DEF DataInv, Calm
<1> QED
  BY <1>1, <1>2, <1>3 DEF DataInv

(* It changes nothing an application can see. *)
LEMMA CalmPreserved ==
    ASSUME NEW S, NEW T, NEW B, NEW gone, NEW less, NEW out, TableInv(S, gone), TableInv(T, less),
           Calm(S, T, B), S.file_mapping_table \subseteq B,
           T.file_mapping_table \subseteq S.file_mapping_table,
           \A b \in S.file_mapping_table \ T.file_mapping_table :
             ~S.mem_block[b].is_swap /\ ~S.mem_block[b].resident,
           \A pg \in PagesIn(S) \ out : pg \in PagesIn(T) /\ BlockIn(T, pg) = BlockIn(S, pg)
                                        /\ BlockIn(S, pg) \in B
    PROVE  Preserved(S, T, out)
<1>1. ASSUME NEW pg \in PagesIn(S) \ out
      PROVE  SamePage(S, T, pg)
  <2> DEFINE b == BlockIn(S, pg)
  <2>1. b \in B /\ BlockIn(T, pg) = b /\ pg \in PagesIn(T)
    OBVIOUS
  <2> HIDE DEF b
  <2>2. /\ DatumOf(T, T.mem_block[b]) = DatumOf(S, S.mem_block[b])
        /\ FileKey(T.mem_block[b]) = FileKey(S.mem_block[b])
        /\ T.mem_block[b].is_swap = S.mem_block[b].is_swap
    BY <2>1, CalmBlock
  <2> QED
    BY <2>1, <2>2 DEF SamePage, KindOf, HeldIn, b
<1>2. T.files = S.files
  BY DEF Calm
<1>3. ASSUME NEW b \in S.file_mapping_table
      PROVE  /\ FileKey(T.mem_block[b]) = FileKey(S.mem_block[b])
             /\ IF b \in T.file_mapping_table
                THEN DatumOf(T, T.mem_block[b]) = DatumOf(S, S.mem_block[b])
                ELSE T.files[FileKey(S.mem_block[b])] = DatumOf(S, S.mem_block[b])
  <2>1. /\ DatumOf(T, T.mem_block[b]) = DatumOf(S, S.mem_block[b])
        /\ FileKey(T.mem_block[b]) = FileKey(S.mem_block[b])
    BY CalmBlock
  <2>2. b \notin T.file_mapping_table =>
          T.files[FileKey(S.mem_block[b])] = DatumOf(S, S.mem_block[b])
    BY <1>2 DEF DatumOf
  <2> QED
    BY <2>1, <2>2
<1>4. SameContent(S, T)
  BY <1>2, <1>3, ContentKept
<1> QED
  BY <1>1, <1>4 DEF Preserved

-----------------------------------------------------------------------------
(* Eviction and loading.                                                   *)

(* What evict_phys_page writes: the frame of a dirty victim. *)
SavedTo(S, E, victim) ==
    LET x == S.mem_block[victim]
    IN  /\ E.physmem = S.physmem
        /\ E.swap_file = IF x.dirty /\ x.is_swap
                         THEN [S.swap_file EXCEPT ![Head(x.swap_blocks)] = S.physmem[x.location]]
                         ELSE S.swap_file
        /\ E.files = IF x.dirty /\ ~x.is_swap
                     THEN [S.files EXCEPT ![FileKey(x)] = S.physmem[x.location]] ELSE S.files
        /\ \A b \in BlockIds \ {victim} : E.mem_block[b].dirty = S.mem_block[b].dirty

LEMMA EvictSaves ==
    ASSUME NEW S, NEW gone, NEW unswapped, Whole(S, gone, unswapped), S.clock_queue # <<>>
    PROVE  \E victim \in ToSet(S.clock_queue) :
             Evicted(S, evict_phys_page(S), victim) /\ SavedTo(S, evict_phys_page(S), victim)
<1> DEFINE q == S.clock_queue
           hand == ClockHand(S)
           passed == {q[i] : i \in 1 .. hand - 1}
           rest == FromHand(S)
           victim == Head(rest)
           b == S.mem_block[victim]
           off == UNION {S.mem_block[x].ptes : x \in passed \cup {victim}}
           T == SetEntries(S, off, Disabled)
           mb == [x \in BlockIds |->
                    IF x = victim
                    THEN [b EXCEPT !.resident = FALSE, !.dirty = FALSE, !.referenced = FALSE,
                                   !.location = HomeOf(b)]
                    ELSE [S.mem_block[x] EXCEPT !.referenced = @ /\ x \notin passed]]
           sf == IF should_write(b) /\ b.is_swap
                 THEN [T.swap_file EXCEPT ![Head(b.swap_blocks)] = S.physmem[b.location]]
                 ELSE T.swap_file
           fs == IF should_write(b) /\ ~b.is_swap
                 THEN [T.files EXCEPT ![FileKey(b)] = S.physmem[b.location]] ELSE T.files
           E == evict_phys_page(S)
<1>1. S \in PagerState /\ IsInjective(S.clock_queue) /\ Shape(S)
  BY DEF Whole, Shape, FramesInv
<1>2. victim \in ToSet(q) /\ ToSet(Tail(rest)) = ToSet(q) \ {victim}
  BY <1>1, FromHandLemma
<1>3. /\ T \in PagerState /\ T.physmem = S.physmem /\ T.swap_file = S.swap_file
      /\ T.files = S.files
  BY <1>1, RepaintLoops DEF Repainted
<1>4. /\ E.clock_queue = Tail(rest) /\ E.physmem = T.physmem
      /\ E.swap_file = sf /\ E.files = fs
  <2>1. E = [T EXCEPT !.clock_queue = Tail(rest),
                  !.free_mem_blocks = Append(@, b.location),
                  !.mem_block = mb,
                  !.file_mapping_table = IF ~b.is_swap /\ b.ptes = {} THEN @ \ {victim} ELSE @,
                  !.swap_file = sf,
                  !.files = fs]
    BY DEF evict_phys_page
  <2> HIDE DEF E, T, mb, rest, victim, b, sf, fs
  <2>2. QED
    BY <1>3, <2>1 DEF PagerState
<1>5. PICK w \in ToSet(q) :
        /\ Evicted(S, E, w)
        /\ \A c \in BlockIds \ {w} : E.mem_block[c].dirty = S.mem_block[c].dirty
  BY EvictEntries
<1> HIDE DEF rest, E
<1>6. w = victim
  <2>1. ToSet(E.clock_queue) = ToSet(q) \ {w}
    BY <1>5 DEF Evicted
  <2> QED
    BY <1>2, <1>4, <2>1
<1> HIDE DEF T
<1>7. SavedTo(S, E, victim)
  BY <1>3, <1>4, <1>5, <1>6 DEF SavedTo, should_write
<1> QED
  BY <1>2, <1>5, <1>6, <1>7 DEF E

(* A page needs a swap block as long as it counts. *)
LEMMA LiveHome ==
    ASSUME NEW S, NEW gone, Shape(S), SwapInv(S, gone), NEW b \in Referenced(S),
           S.mem_block[b].is_swap
    PROVE  S.mem_block[b].swap_blocks # <<>> <=> \E pg \in PagesIn(S) \ gone : BlockIn(S, pg) = b
<1> DEFINE sb == S.mem_block[b].swap_blocks
<1>1. Len(sb) = Cardinality(Showing(S, gone, b)) /\ sb \in Seq(SwapBlocks)
  BY SwapSeq DEF SwapInv
<1>2. sb = <<>> <=> Len(sb) = 0
  BY <1>1, EmptySeq, LenProperties
<1>3. Cardinality(Showing(S, gone, b)) = 0 <=> Showing(S, gone, b) = {}
  BY ShowingFinite, FS_EmptySet
<1> HIDE DEF sb
<1> QED
  BY <1>1, <1>2, <1>3 DEF Showing, sb

(* The heads of the swap blocks of two blocks are different. *)
LEMMA HeadsApart ==
    ASSUME NEW S, Shape(S), SwapOwned(S), NEW b \in Referenced(S), NEW c \in Referenced(S), b # c,
           S.mem_block[b].swap_blocks # <<>>, S.mem_block[c].swap_blocks # <<>>
    PROVE  Head(S.mem_block[b].swap_blocks) # Head(S.mem_block[c].swap_blocks)
<1>1. \A d \in {b, c} : Head(S.mem_block[d].swap_blocks) \in Owned(S, d)
  BY SwapSeq, HeadTailLemma DEF Owned
<1> QED
  BY <1>1 DEF SwapOwned

(* The live blocks: a swap-backed one has a swap block, another is the     *)
(* only one of its file block.                                             *)
LEMMA LiveBlocks ==
    ASSUME NEW S, NEW gone, Shape(S), FilesInv(S), SwapInv(S, gone), TableInv(S, gone),
           NEW b \in Live(S, gone)
    PROVE  /\ b \in Referenced(S) /\ b \in BlockIds
           /\ S.mem_block[b].is_swap => S.mem_block[b].swap_blocks # <<>>
           /\ ~S.mem_block[b].is_swap => b \in S.file_mapping_table
<1>1. b \in Referenced(S) /\ b \in BlockIds
  BY ReferencedMeaning DEF Live
<1>2. CASE b \in S.file_mapping_table
  BY <1>1, <1>2 DEF FilesInv
<1>3. CASE b \notin S.file_mapping_table
  <2>1. PICK pg \in PagesIn(S) \ gone : BlockIn(S, pg) = b
    BY <1>3 DEF Live
  <2>2. S.mem_block[b].is_swap
    BY <1>3, <2>1 DEF TableInv
  <2> QED
    BY <1>1, <2>1, <2>2, LiveHome
<1> QED
  BY <1>2, <1>3

(* What the victim of an eviction is *)
LEMMA VictimIs ==
    ASSUME NEW S, NEW gone, NEW unswapped, Whole(S, gone, unswapped), DataInv(S, unswapped),
           NEW w \in ToSet(S.clock_queue)
    PROVE  /\ w \in Referenced(S) /\ w \in BlockIds /\ w # zero_page /\ S.mem_block[w].resident
           /\ S.mem_block[w] \in Block /\ S.mem_block[w].location \in Frames
           /\ w \in Live(S, unswapped)
           /\ S.mem_block[w].is_swap => /\ S.mem_block[w].swap_blocks # <<>>
                                        /\ Head(S.mem_block[w].swap_blocks) \in SwapBlocks
           /\ ~S.mem_block[w].is_swap => /\ w \in S.file_mapping_table
                                         /\ FileKey(S.mem_block[w]) \in FileKeys
<1>0. /\ Shape(S) /\ Pinned(S) /\ ResidentInv(S) /\ FilesInv(S) /\ HomeInv(S)
      /\ SwapInv(S, unswapped) /\ S \in PagerState
  BY DEF Whole, Shape
<1>1. w \in Referenced(S) /\ w \in BlockIds /\ w # zero_page
  BY <1>0, ReferencedMeaning DEF Pinned
<1>2. S.mem_block[w].resident
  BY <1>0, <1>1 DEF ResidentInv
<1>3. S.mem_block[w].location \in Frames /\ S.mem_block[w] \in Block
  BY <1>0, <1>1, <1>2, Fields DEF Shape, PlaceOK
<1>4. CASE S.mem_block[w].is_swap
  <2>1. S.mem_block[w].swap_blocks # <<>>
    BY <1>0, <1>4 DEF HomeInv
  <2>2. w \in Live(S, unswapped)
    BY <1>0, <1>1, <1>4, <2>1, LiveHome DEF Live
  <2>3. Head(S.mem_block[w].swap_blocks) \in SwapBlocks
    BY <1>0, <1>1, <2>1, SwapSeq, HeadTailLemma
  <2> QED
    BY <1>1, <1>2, <1>3, <1>4, <2>1, <2>2, <2>3
<1>5. CASE ~S.mem_block[w].is_swap
  <2>1. w \in S.file_mapping_table
    BY <1>5 DEF DataInv
  <2>2. FileKey(S.mem_block[w]) \in FileKeys
    BY <1>0, <1>1, <1>5 DEF FilesInv, NamedOK, FileKey, FileKeys
  <2> QED
    BY <1>1, <1>2, <1>3, <1>5, <2>1, <2>2 DEF Live
<1> QED
  BY <1>4, <1>5

BlockKept(S, T, b) ==
    /\ DatumOf(T, T.mem_block[b]) = DatumOf(S, S.mem_block[b])
    /\ b # zero_page => BackedUp(T, b)

(* The data of the victim are where it looks for them. *)
LEMMA VictimKept ==
    ASSUME NEW S, NEW E, NEW gone, NEW unswapped, Whole(S, gone, unswapped),
           DataInv(S, unswapped), NEW w \in ToSet(S.clock_queue), Evicted(S, E, w), SavedTo(S, E, w)
    PROVE  /\ BlockKept(S, E, w)
           /\ ~S.mem_block[w].is_swap =>
                E.files[FileKey(S.mem_block[w])] = DatumOf(S, S.mem_block[w])
<1> DEFINE x == S.mem_block[w]
           y == E.mem_block[w]
<1>0. S \in PagerState
  BY DEF Whole, Shape
<1>1. /\ x.resident /\ w \in Live(S, unswapped) \ {zero_page}
      /\ x.is_swap => x.swap_blocks # <<>> /\ Head(x.swap_blocks) \in SwapBlocks
      /\ ~x.is_swap => FileKey(x) \in FileKeys
  BY VictimIs
<1>2. /\ ~y.resident /\ y.location = HomeOf(x) /\ y.is_swap = x.is_swap
      /\ y.swap_blocks = x.swap_blocks /\ y.filename = x.filename /\ y.block_num = x.block_num
  BY DEF Evicted
<1>3. FileKey(y) = FileKey(x)
  BY <1>2 DEF FileKey
<1>4. /\ S.swap_file \in [SwapBlocks -> Data] /\ S.files \in [FileKeys -> Data]
  BY <1>0, Fields
<1>5. BackedUp(S, w)
  BY <1>1 DEF DataInv
<1>6. /\ E.swap_file = IF x.dirty /\ x.is_swap
                       THEN [S.swap_file EXCEPT ![Head(x.swap_blocks)] = S.physmem[x.location]]
                       ELSE S.swap_file
      /\ E.files = IF x.dirty /\ ~x.is_swap
                   THEN [S.files EXCEPT ![FileKey(x)] = S.physmem[x.location]] ELSE S.files
  BY DEF SavedTo
<1> HIDE DEF x, y
<1>7. DatumOf(S, x) = S.physmem[x.location]
  BY <1>1 DEF DatumOf
<1>8. ~x.dirty => S.physmem[x.location] = Backing(S, x)
  BY <1>1, <1>5 DEF BackedUp, x
<1>9. x.is_swap => E.swap_file[Head(x.swap_blocks)] = S.physmem[x.location]
  BY <1>1, <1>4, <1>6, <1>8 DEF Backing
<1>10. ~x.is_swap => E.files[FileKey(x)] = S.physmem[x.location]
  BY <1>1, <1>4, <1>6, <1>8 DEF Backing
<1>11. DatumOf(E, y) = S.physmem[x.location]
  BY <1>2, <1>3, <1>9, <1>10 DEF DatumOf, HomeOf
<1>12. BackedUp(E, w)
  BY <1>2 DEF BackedUp, HomeOf, y
<1> QED
  BY <1>7, <1>10, <1>11, <1>12 DEF BlockKept, x, y

(* Those of the others are not overwritten. *)
LEMMA OthersKept ==
    ASSUME NEW S, NEW E, NEW gone, NEW unswapped, Whole(S, gone, unswapped),
           TableInv(S, unswapped), SwapOwned(S), DataInv(S, unswapped),
           NEW w \in ToSet(S.clock_queue), Evicted(S, E, w), SavedTo(S, E, w),
           NEW b \in Live(S, unswapped), b # w
    PROVE  BlockKept(S, E, b)
<1> DEFINE x == S.mem_block[b]
           y == E.mem_block[b]
           z == S.mem_block[w]
<1>0. Shape(S) /\ S \in PagerState /\ FilesInv(S) /\ SwapInv(S, unswapped) /\ Pinned(S)
  BY DEF Whole, Shape
<1>1. /\ b \in Referenced(S) /\ b \in BlockIds
      /\ x.is_swap => x.swap_blocks # <<>>
      /\ ~x.is_swap => b \in S.file_mapping_table
  BY <1>0, LiveBlocks
<1>2. /\ w \in Referenced(S) /\ (z.is_swap => z.swap_blocks # <<>>)
      /\ ~z.is_swap => w \in S.file_mapping_table
  BY VictimIs
<1>3. /\ S.swap_file \in [SwapBlocks -> Data] /\ S.files \in [FileKeys -> Data]
  BY <1>0, Fields
<1>4. /\ y.resident = x.resident /\ y.location = x.location /\ y.is_swap = x.is_swap
      /\ y.swap_blocks = x.swap_blocks /\ y.filename = x.filename /\ y.block_num = x.block_num
      /\ y.dirty = x.dirty
  BY <1>1 DEF Evicted, SavedTo, Alike
<1>5. FileKey(y) = FileKey(x)
  BY <1>4 DEF FileKey
<1>6. x.is_swap => E.swap_file[Head(x.swap_blocks)] = S.swap_file[Head(x.swap_blocks)]
  <2>1. x.is_swap /\ z.is_swap => Head(x.swap_blocks) # Head(z.swap_blocks)
    BY <1>0, <1>1, <1>2, HeadsApart
  <2>2. E.swap_file = IF z.dirty /\ z.is_swap
                      THEN [S.swap_file EXCEPT ![Head(z.swap_blocks)] = S.physmem[z.location]]
                      ELSE S.swap_file
    BY DEF SavedTo
  <2> HIDE DEF x, z
  <2> QED
    BY <1>3, <2>1, <2>2
<1>7. ~x.is_swap => E.files[FileKey(x)] = S.files[FileKey(x)]
  <2>1. ~x.is_swap /\ ~z.is_swap => FileKey(x) # FileKey(z)
    BY <1>1, <1>2 DEF TableInv
  <2>2. E.files = IF z.dirty /\ ~z.is_swap
                  THEN [S.files EXCEPT ![FileKey(z)] = S.physmem[z.location]] ELSE S.files
    BY DEF SavedTo
  <2> HIDE DEF x, z
  <2> QED
    BY <1>3, <2>1, <2>2
<1>8. E.physmem = S.physmem
  BY DEF SavedTo
<1>9. CASE b = zero_page
  <2>1. x.resident
    BY <1>0, <1>9 DEF Pinned
  <2> HIDE DEF x, y
  <2>2. DatumOf(E, y) = DatumOf(S, x)
    BY <1>4, <1>8, <2>1 DEF DatumOf
  <2> QED
    BY <1>9, <2>2 DEF BlockKept, x, y
<1>10. CASE b # zero_page
  <2>1. BackedUp(S, b)
    BY <1>10 DEF DataInv
  <2> HIDE DEF y
  <2>2. DatumOf(E, y) = DatumOf(S, x)
    BY <1>4, <1>5, <1>6, <1>7, <1>8, <2>1 DEF DatumOf, BackedUp
  <2>3. Backing(E, y) = Backing(S, x)
    BY <1>4, <1>5, <1>6, <1>7 DEF Backing
  <2>4. BackedUp(E, b)
    BY <1>4, <1>8, <2>1, <2>3 DEF BackedUp, y
  <2> QED
    BY <2>2, <2>4 DEF BlockKept, y
<1> QED
  BY <1>9, <1>10

(* The state of a handler after which nothing is lost: with what follows   *)
(* of it for the caller.                                                   *)
Sound(S, gone) == TableInv(S, gone) /\ SwapOwned(S) /\ DataInv(S, gone)
SoundStep(S, T, less) == SwapOwned(T) /\ DataInv(T, less) /\ Preserved(S, T, less)

LEMMA EvictData ==
    ASSUME NEW S, NEW gone, NEW unswapped, Whole(S, gone, unswapped), S.clock_queue # <<>>,
           TableInv(S, gone), Sound(S, unswapped), NEW E, E = evict_phys_page(S)
    PROVE  SoundStep(S, E, unswapped)
<1>0. /\ Shape(S) /\ S \in PagerState /\ FilesInv(S) /\ PtesInv(S, gone)
      /\ SwapInv(S, unswapped) /\ Pinned(S)
      /\ TableInv(S, unswapped) /\ SwapOwned(S) /\ DataInv(S, unswapped)
  BY DEF Whole, Shape, Sound
<1>1. PICK w \in ToSet(S.clock_queue) : Evicted(S, E, w) /\ SavedTo(S, E, w)
  BY EvictSaves
<1>2. /\ w \in Referenced(S) /\ w \in BlockIds /\ w # zero_page /\ S.mem_block[w].resident
      /\ w \in Live(S, unswapped)
      /\ ~S.mem_block[w].is_swap => w \in S.file_mapping_table
  BY <1>0, VictimIs
<1>3. \A b \in Live(S, unswapped) : BlockKept(S, E, b)
  BY <1>0, <1>1, VictimKept, OthersKept
<1>4. /\ E \in PagerState /\ E.data_location = S.data_location
      /\ ToSet(E.clock_queue) = ToSet(S.clock_queue) \ {w}
      /\ E.free_swap_blocks = S.free_swap_blocks
      /\ E.file_mapping_table = IF ~S.mem_block[w].is_swap /\ S.mem_block[w].ptes = {}
                                THEN S.file_mapping_table \ {w} ELSE S.file_mapping_table
  BY <1>1 DEF Evicted
<1>5. \A b \in BlockIds : /\ E.mem_block[b].is_swap = S.mem_block[b].is_swap
                          /\ E.mem_block[b].swap_blocks = S.mem_block[b].swap_blocks
                          /\ FileKey(E.mem_block[b]) = FileKey(S.mem_block[b])
  BY <1>1 DEF Evicted, Alike, FileKey
<1>6. PagesIn(E) = PagesIn(S) /\ \A pg : BlockIn(E, pg) = BlockIn(S, pg)
  BY <1>4, SamePages
<1>7. SwapOwned(E)
  <2>1. Whole(E, gone, unswapped)
    BY <1>1, EvictWhole
  <2>2. Referenced(E) \subseteq Referenced(S) /\ Referenced(S) \subseteq BlockIds
    <3>1. Shape(E)
      BY <2>1 DEF Whole
    <3> QED
      BY <1>0, <1>4, <1>6, <3>1, ReferencedMeaning
  <2> QED
    BY <1>0, <1>4, <1>5, <2>2, SameOwned
<1>8. DataInv(E, unswapped)
  <2>1. E.physmem[0] = 0
    BY <1>0, <1>1 DEF DataInv, SavedTo
  <2>2. Live(E, unswapped) \subseteq Live(S, unswapped)
    BY <1>4, <1>6 DEF Live
  <2>3. ASSUME NEW b \in ToSet(E.clock_queue)
        PROVE  E.mem_block[b].is_swap \/ b \in E.file_mapping_table
    <3>1. b \in ToSet(S.clock_queue) /\ b # w /\ b \in BlockIds
      BY <1>0, <1>4, ReferencedMeaning
    <3> QED
      BY <1>0, <1>4, <1>5, <3>1 DEF DataInv
  <2> QED
    BY <1>3, <2>1, <2>2, <2>3 DEF DataInv, BlockKept
<1>9. SameContent(S, E)
  <2>1. TableInv(E, gone)
    <3>1. SameFiles(S, E)
      BY <1>5 DEF SameFiles
    <3>2. \A b \in S.file_mapping_table \ E.file_mapping_table : Showing(S, gone, b) = {}
      BY <1>0, <1>2, <1>4 DEF PtesInv
    <3> QED
      BY <1>0, <1>4, <3>1, <3>2, TableShrinks
  <2>2. S.file_mapping_table \subseteq BlockIds /\ S.file_mapping_table \subseteq Live(S, unswapped)
    BY <1>0, Fields DEF Live
  <2>3. ASSUME NEW b \in S.file_mapping_table
        PROVE  /\ FileKey(E.mem_block[b]) = FileKey(S.mem_block[b])
               /\ IF b \in E.file_mapping_table
                  THEN DatumOf(E, E.mem_block[b]) = DatumOf(S, S.mem_block[b])
                  ELSE E.files[FileKey(S.mem_block[b])] = DatumOf(S, S.mem_block[b])
    <3>1. CASE b \in E.file_mapping_table
      BY <1>3, <1>5, <2>2, <3>1 DEF BlockKept
    <3>2. CASE b \notin E.file_mapping_table
      <4>1. b = w /\ ~S.mem_block[w].is_swap
        BY <1>4, <3>2
      <4>2. E.files[FileKey(S.mem_block[w])] = DatumOf(S, S.mem_block[w])
        BY <1>0, <1>1, <4>1, VictimKept
      <4> QED
        BY <1>2, <1>5, <3>2, <4>1, <4>2
    <3> QED
      BY <3>1, <3>2
  <2>4. ASSUME NEW k \in FileKeys
        PROVE  \/ E.files[k] = S.files[k]
               \/ \E b \in S.file_mapping_table : FileKey(S.mem_block[b]) = k
    <3>1. S.files \in [FileKeys -> Data]
      BY <1>0, Fields
    <3>2. E.files = S.files \/ (~S.mem_block[w].is_swap /\
            E.files = [S.files EXCEPT ![FileKey(S.mem_block[w])] = S.physmem[S.mem_block[w].location]])
      BY <1>1 DEF SavedTo
    <3> QED
      BY <1>2, <3>1, <3>2
  <2>5. E.file_mapping_table \subseteq S.file_mapping_table
    BY <1>4
  <2> QED
    BY <1>0, <2>1, <2>3, <2>4, <2>5, ContentKept
<1>10. ASSUME NEW pg \in PagesIn(S) \ unswapped
       PROVE  SamePage(S, E, pg)
  <2>1. BlockIn(S, pg) \in Live(S, unswapped) /\ BlockIn(S, pg) \in BlockIds
    BY <1>0, PagesType DEF Live
  <2> QED
    BY <1>3, <1>5, <1>6, <2>1 DEF SamePage, KindOf, HeldIn, BlockKept
<1> QED
  BY <1>7, <1>8, <1>9, <1>10 DEF SoundStep, Preserved

LEMMA FreeFrameData ==
    ASSUME NEW S, NEW gone, NEW unswapped, Whole(S, gone, unswapped), TableInv(S, gone),
           Sound(S, unswapped)
    PROVE  SoundStep(S, WithFreeFrame(S), unswapped)
<1>1. CASE S.free_mem_blocks # <<>>
  <2>1. WithFreeFrame(S) = S
    BY <1>1 DEF WithFreeFrame
  <2> QED
    BY <2>1, PreservedSame DEF SoundStep, Sound, Preserved
<1>2. CASE S.free_mem_blocks = <<>>
  <2>1. S.clock_queue # <<>>
    <3>1. 1 \in Frames \ {0}
      BY Numbers DEF Frames
    <3>2. ToSet(S.free_mem_blocks) = {} /\ FramesInv(S)
      BY <1>2, EmptyLemma DEF Whole
    <3>3. ToSet(S.clock_queue) # {}
      BY <3>1, <3>2 DEF FramesInv
    <3> QED
      BY <3>3, EmptyLemma
  <2>2. WithFreeFrame(S) = evict_phys_page(S)
    BY <1>2 DEF WithFreeFrame
  <2> QED
    BY <2>1, <2>2, EvictData
<1> QED
  BY <1>1, <1>2

(* What cache_nonresident_page reads into the first free frame *)
ReadFrom(S, T, b) ==
    LET x == S.mem_block[b]
    IN  /\ T.physmem = [S.physmem EXCEPT ![Head(S.free_mem_blocks)] =
                          IF x.is_swap THEN S.swap_file[x.location]
                          ELSE S.files[<<x.filename, x.location>>]]
        /\ T.swap_file = S.swap_file /\ T.files = S.files
        /\ \A c \in BlockIds \ {b} : T.mem_block[c].dirty = S.mem_block[c].dirty

LEMMA LoadReads ==
    ASSUME NEW S, Whole(S, {}, {}), NEW b \in Referenced(S),
           ~S.mem_block[b].resident, CanRead(S, b)
    PROVE  ReadFrom(WithFreeFrame(S), cache_nonresident_page(S, b), b)
<1> DEFINE E == WithFreeFrame(S)
           R == cache_nonresident_page(S, b)
           frame == Head(E.free_mem_blocks)
           x == E.mem_block[b]
           Cached(e) == [ppage |-> frame, read_enable |-> TRUE, write_enable |-> FALSE]
           T == SetEntries(E, x.ptes, Cached)
           y == [x EXCEPT !.referenced = TRUE, !.resident = TRUE,
                          !.dirty = FALSE, !.location = frame]
           datum == IF x.is_swap THEN E.swap_file[x.location]
                    ELSE E.files[<<x.filename, x.location>>]
           on == [ppage |-> frame, read_enable |-> TRUE, write_enable |-> FALSE]
           pt == [p \in Pids |-> [v \in VPages |->
                     IF <<p, v>> \in x.ptes THEN on ELSE E.page_table[p][v]]]
<1>1. R = [T EXCEPT !.free_mem_blocks = Tail(@), !.clock_queue = Append(@, b),
                    !.mem_block[b] = y, !.physmem[frame] = datum]
  BY Zenon DEF cache_nonresident_page
<1>2. Whole(E, {}, {})
  BY FreeFrameWhole
<1>3. \A c \in BlockIds \ {b} : R.mem_block[c].dirty = E.mem_block[c].dirty
  BY LoadEntries
<1> HIDE DEF E, R
<1>4. E \in PagerState
  BY <1>2 DEF Whole, Shape
<1>5. T = [E EXCEPT !.page_table = pt]
  BY DEF SetEntries
<1>6. datum = IF x.is_swap THEN E.swap_file[x.location]
              ELSE E.files[<<x.filename, x.location>>]
  OBVIOUS
<1> HIDE DEF pt, y, datum, frame, T
<1>7. /\ T.physmem = E.physmem /\ T.swap_file = E.swap_file /\ T.files = E.files
      /\ DOMAIN T = DOMAIN E
  BY <1>4, <1>5 DEF PagerState
<1>8. R.physmem = [E.physmem EXCEPT ![frame] = datum] /\ R.swap_file = E.swap_file
      /\ R.files = E.files
  BY <1>1, <1>4, <1>7 DEF PagerState
<1> QED
  BY <1>3, <1>6, <1>8 DEF ReadFrom, E, R, frame

(* A frame that is written is of no block yet. *)
LEMMA FreeFrame ==
    ASSUME NEW S, NEW unpointed, NEW unswapped, Whole(S, unpointed, unswapped),
           S.free_mem_blocks # <<>>
    PROVE  LET f == Head(S.free_mem_blocks) IN
           /\ f \in Frames /\ f # 0
           /\ \A c \in Referenced(S) : S.mem_block[c].resident => S.mem_block[c].location # f
<1> DEFINE f == Head(S.free_mem_blocks)
<1>0. Shape(S) /\ S \in PagerState /\ Pinned(S) /\ ResidentInv(S) /\ FramesInv(S)
  BY DEF Whole, Shape
<1>1. f \in Frames /\ f \in ToSet(S.free_mem_blocks)
  BY <1>0, Fields, HeadTailLemma
<1>2. f # 0 /\ S.mem_block[zero_page].location # f
  BY <1>0, <1>1 DEF FramesInv, Pinned
<1>3. \A c \in Referenced(S) \ {zero_page} :
        S.mem_block[c].resident => S.mem_block[c].location # f
  BY <1>0, <1>1 DEF FramesInv, ResidentInv
<1> QED
  BY <1>1, <1>2, <1>3

(* The blocks that keep their frames, when a free one is written *)
StaysPut(S, T, b, f) ==
    LET x == S.mem_block[b]
        y == T.mem_block[b]
    IN  /\ y.resident = x.resident /\ y.location = x.location /\ y.is_swap = x.is_swap
        /\ y.filename = x.filename /\ y.block_num = x.block_num /\ y.dirty = x.dirty
        /\ x.is_swap /\ b # zero_page => Head(y.swap_blocks) = Head(x.swap_blocks)
        /\ x.resident => x.location # f /\ x.location \in Frames

LEMMA OtherFrames ==
    ASSUME NEW S, NEW T, NEW f, NEW d, NEW b, S.physmem \in [Frames -> Data],
           T.physmem = [S.physmem EXCEPT ![f] = d], T.swap_file = S.swap_file, T.files = S.files,
           StaysPut(S, T, b, f), b # zero_page => BackedUp(S, b)
    PROVE  BlockKept(S, T, b)
<1> DEFINE x == S.mem_block[b]
           y == T.mem_block[b]
<1>1. /\ y.resident = x.resident /\ y.location = x.location /\ y.is_swap = x.is_swap
      /\ y.filename = x.filename /\ y.block_num = x.block_num /\ y.dirty = x.dirty
      /\ x.is_swap /\ b # zero_page => Head(y.swap_blocks) = Head(x.swap_blocks)
  BY DEF StaysPut
<1>2. x.resident => T.physmem[x.location] = S.physmem[x.location]
  BY DEF StaysPut
<1> HIDE DEF x, y
<1>3. FileKey(y) = FileKey(x)
  BY <1>1 DEF FileKey
<1>4. DatumOf(T, y) = DatumOf(S, x)
  BY <1>1, <1>2, <1>3 DEF DatumOf
<1>5. b # zero_page => Backing(T, y) = Backing(S, x)
  BY <1>1, <1>3 DEF Backing
<1>6. b # zero_page => BackedUp(T, b)
  BY <1>1, <1>2, <1>5 DEF BackedUp, x, y
<1> QED
  BY <1>4, <1>6 DEF BlockKept, x, y

LEMMA LoadData ==
    ASSUME NEW S, NEW T, NEW b, Whole(S, {}, {}), Whole(T, {}, {}), Sound(S, {}), TableInv(T, {}),
           Loaded(S, T, b), ReadFrom(S, T, b), S.free_mem_blocks # <<>>,
           NEW pg \in PagesIn(S), BlockIn(S, pg) = b, ~S.mem_block[b].resident
    PROVE  SoundStep(S, T, {})
<1> DEFINE f == Head(S.free_mem_blocks)
           x == S.mem_block[b]
           y == T.mem_block[b]
           d == IF x.is_swap THEN S.swap_file[x.location] ELSE S.files[<<x.filename, x.location>>]
<1>0. /\ Shape(S) /\ S \in PagerState /\ Pinned(S) /\ FilesInv(S) /\ SwapInv(S, {})
      /\ Shape(T) /\ TableInv(S, {}) /\ SwapOwned(S) /\ DataInv(S, {})
  BY DEF Whole, Shape, Sound
<1>1. b \in Referenced(S) /\ b \in BlockIds /\ b # zero_page /\ b \in Live(S, {})
  BY <1>0, ReferencedMeaning DEF Pinned, Live
<1>2. f \in Frames /\ f # 0
      /\ \A c \in Referenced(S) : S.mem_block[c].resident => S.mem_block[c].location # f
  BY FreeFrame
<1>3. /\ T.clock_queue = Append(S.clock_queue, b) /\ T.data_location = S.data_location
      /\ T.free_swap_blocks = S.free_swap_blocks /\ T.file_mapping_table = S.file_mapping_table
      /\ y.resident /\ y.location = f /\ y.is_swap = x.is_swap /\ y.swap_blocks = x.swap_blocks
      /\ y.filename = x.filename /\ y.block_num = x.block_num
  BY DEF Loaded
<1>4. \A c \in BlockIds \ {b} : Alike(S.mem_block[c], T.mem_block[c])
                                /\ T.mem_block[c].dirty = S.mem_block[c].dirty
  BY DEF Loaded, ReadFrom
<1>5. /\ T.physmem = [S.physmem EXCEPT ![f] = d]
      /\ T.swap_file = S.swap_file /\ T.files = S.files
  BY DEF ReadFrom
<1>6. \A c \in BlockIds : /\ T.mem_block[c].is_swap = S.mem_block[c].is_swap
                          /\ T.mem_block[c].swap_blocks = S.mem_block[c].swap_blocks
                          /\ FileKey(T.mem_block[c]) = FileKey(S.mem_block[c])
  BY <1>3, <1>4 DEF Alike, FileKey
<1>7. S.physmem \in [Frames -> Data] /\ T.physmem[f] = d
  BY <1>0, <1>2, <1>5, Fields
<1>8. d = DatumOf(S, x)
  <2>1. ~x.is_swap => x.location = x.block_num
    BY <1>0, <1>1 DEF FilesInv, NamedOK
  <2> QED
    BY <2>1 DEF DatumOf, FileKey
<1>9. BlockKept(S, T, b)
  <2>1. BackedUp(S, b)
    BY <1>0, <1>1 DEF DataInv
  <2>2. x.is_swap => x.location = Head(x.swap_blocks)
    BY <2>1 DEF BackedUp
  <2>3. FileKey(y) = FileKey(x)
    BY <1>1, <1>6
  <2> HIDE DEF y
  <2>4. DatumOf(T, y) = d
    BY <1>3, <1>7 DEF DatumOf
  <2>5. Backing(T, y) = DatumOf(S, x)
    BY <1>3, <1>5, <2>2, <2>3 DEF Backing, DatumOf
  <2>6. BackedUp(T, b)
    BY <1>3, <1>7, <1>8, <2>5 DEF BackedUp, y
  <2> QED
    BY <1>8, <2>4, <2>6 DEF BlockKept, y
<1> HIDE DEF f, d, x, y
<1>10. ASSUME NEW c \in Live(S, {}) PROVE BlockKept(S, T, c)
  <2>1. CASE c = b
    BY <1>9, <2>1
  <2>2. CASE c # b
    <3>1. c \in Referenced(S) /\ c \in BlockIds
      BY <1>0, LiveBlocks
    <3>2. c # zero_page => BackedUp(S, c)
      BY <1>0 DEF DataInv
    <3>3. S.mem_block[c].resident => S.mem_block[c].location # f
                                     /\ S.mem_block[c].location \in Frames
      BY <1>0, <1>2, <3>1 DEF Shape, PlaceOK
    <3>4. Alike(S.mem_block[c], T.mem_block[c]) /\ T.mem_block[c].dirty = S.mem_block[c].dirty
      BY <1>4, <2>2, <3>1
    <3>5. StaysPut(S, T, c, f)
      BY <3>3, <3>4 DEF StaysPut, Alike
    <3> QED
      BY <1>5, <1>7, <3>2, <3>5, OtherFrames
  <2> QED
    BY <2>1, <2>2
<1>11. PagesIn(T) = PagesIn(S) /\ \A r : BlockIn(T, r) = BlockIn(S, r)
  BY <1>3, SamePages
<1>12. ToSet(T.clock_queue) = ToSet(S.clock_queue) \cup {b} /\ ToSet(S.clock_queue) \subseteq BlockIds
  BY <1>0, <1>1, <1>3, Fields, AppendLemma, ReferencedMeaning
<1>13. SwapOwned(T)
  <2>1. \A c \in Referenced(T) : \/ c = zero_page \/ c \in ToSet(S.clock_queue) \cup {b}
                                 \/ c \in S.file_mapping_table
                                 \/ \E r \in PagesIn(S) : BlockIn(S, r) = c
    <3>1. \A c \in Referenced(T) : \/ c = zero_page \/ c \in ToSet(T.clock_queue)
                                   \/ c \in T.file_mapping_table
                                   \/ \E r \in PagesIn(T) : BlockIn(T, r) = c
      BY <1>0, ReferencedMeaning
    <3> QED
      BY <1>3, <1>11, <1>12, <3>1
  <2>2. Referenced(T) \subseteq Referenced(S) /\ Referenced(S) \subseteq BlockIds
    BY <1>0, <1>1, <2>1, ReferencedMeaning
  <2> QED
    BY <1>0, <1>3, <1>6, <2>2, SameOwned
<1>14. DataInv(T, {})
  <2>1. T.physmem[0] = 0
    BY <1>0, <1>2, <1>5, <1>7, Numbers DEF DataInv
  <2>2. Live(T, {}) = Live(S, {})
    BY <1>3, <1>11 DEF Live
  <2>3. \A c \in ToSet(T.clock_queue) : T.mem_block[c].is_swap \/ c \in T.file_mapping_table
    <3>1. x.is_swap \/ b \in S.file_mapping_table
      BY <1>0, <1>1, LiveBlocks DEF x
    <3>2. \A c \in ToSet(S.clock_queue) : S.mem_block[c].is_swap \/ c \in S.file_mapping_table
      BY <1>0 DEF DataInv
    <3> QED
      BY <1>1, <1>3, <1>6, <1>12, <3>1, <3>2 DEF x
  <2> QED
    BY <1>10, <2>1, <2>2, <2>3 DEF DataInv, BlockKept
<1>15. SameContent(S, T)
  <2>1. S.file_mapping_table \subseteq BlockIds /\ S.file_mapping_table \subseteq Live(S, {})
    BY <1>0, Fields DEF Live
  <2>2. \A c \in S.file_mapping_table :
          /\ FileKey(T.mem_block[c]) = FileKey(S.mem_block[c])
          /\ DatumOf(T, T.mem_block[c]) = DatumOf(S, S.mem_block[c])
    BY <1>6, <1>10, <2>1 DEF BlockKept
  <2> QED
    BY <1>0, <1>3, <1>5, <2>2, ContentKept
<1>16. ASSUME NEW r \in PagesIn(S) \ {} PROVE SamePage(S, T, r)
  <2>1. BlockIn(S, r) \in Live(S, {}) /\ BlockIn(S, r) \in BlockIds
    BY <1>0, PagesType DEF Live
  <2> QED
    BY <1>6, <1>10, <1>11, <2>1 DEF SamePage, KindOf, HeldIn, BlockKept
<1> QED
  BY <1>13, <1>14, <1>15, <1>16 DEF SoundStep, Preserved

LEMMA SoundThen ==
    ASSUME NEW S, NEW T, NEW U, NEW gone, NEW less, gone \subseteq less,
           SoundStep(S, T, gone), SoundStep(T, U, less)
    PROVE  SoundStep(S, U, less)
BY PreservedTrans DEF SoundStep

LEMMA SoundIf ==
    ASSUME NEW S, NEW T, NEW less, SoundStep(S, T, less), TableInv(T, less)
    PROVE  Sound(T, less)
BY DEF Sound, SoundStep

LEMMA SoundStill ==
    ASSUME NEW S, Sound(S, {})
    PROVE  SoundStep(S, S, {})
BY PreservedSame DEF Sound, SoundStep

LEMMA ResidentData ==
    ASSUME NEW S, Whole(S, {}, {}), Sound(S, {}), NEW pg \in PagesIn(S), NEW b,
           BlockIn(S, pg) = b
    PROVE  SoundStep(S, MadeResident(S, b), {})
<1> DEFINE E == WithFreeFrame(S)
           T == MadeResident(S, b)
<1>0. Shape(S) /\ TableInv(S, {})
  BY DEF Whole, Sound
<1>1. b \in Referenced(S) /\ b \in BlockIds
  BY <1>0, ReferencedMeaning
<1>2. CASE S.mem_block[b].resident
  <2>1. T = S
    BY <1>2 DEF MadeResident
  <2> QED
    BY <2>1, SoundStill
<1>3. CASE ~S.mem_block[b].resident
  <2>1. T = cache_nonresident_page(S, b)
    BY <1>3 DEF MadeResident
  <2>2. /\ Whole(E, {}, {}) /\ Kin(S, E) /\ E.free_mem_blocks # <<>>
        /\ TableInv(E, {}) /\ SoundStep(S, E, {})
    BY <1>0, FreeFrameWhole, FreeFrameTable, FreeFrameData
  <2>3. CASE ~CanRead(S, b)
    <3>1. T = E
      BY <2>1, <2>3 DEF cache_nonresident_page
    <3> QED
      BY <2>2, <3>1
  <2>4. CASE CanRead(S, b)
    <3>1. Loaded(E, T, b) /\ ReadFrom(E, T, b)
      BY <1>1, <1>3, <2>1, <2>4, LoadEffect, LoadReads
    <3>2. TableInv(T, {}) /\ Whole(T, {}, {})
      BY <1>0, ResidentTable, ResidentWhole
    <3> HIDE DEF E, T
    <3>3. Sound(E, {})
      BY <2>2, SoundIf
    <3>4. /\ E.data_location = S.data_location /\ ~E.mem_block[b].resident
      BY <1>1, <1>3, <2>2 DEF Kin
    <3>5. pg \in PagesIn(E) /\ BlockIn(E, pg) = b
      BY <3>4, SamePages
    <3>6. SoundStep(E, T, {})
      BY <2>2, <3>1, <3>2, <3>3, <3>4, <3>5, LoadData
    <3> QED
      BY <2>2, <3>6, SoundThen DEF T
  <2> QED
    BY <2>3, <2>4
<1> QED
  BY <1>2, <1>3

-----------------------------------------------------------------------------
(* The helpers that move no data.                                          *)

SameStore(S, T) == T.physmem = S.physmem /\ T.swap_file = S.swap_file /\ T.files = S.files

Still(S, T) ==
    /\ Calm(S, T, BlockIds)
    /\ T.clock_queue = S.clock_queue /\ T.file_mapping_table = S.file_mapping_table
    /\ T.data_location = S.data_location /\ T.free_swap_blocks = S.free_swap_blocks
    /\ \A c \in BlockIds : T.mem_block[c].swap_blocks = S.mem_block[c].swap_blocks

LEMMA StillTrans ==
    ASSUME NEW S, NEW T, NEW U, Still(S, T), Still(T, U)
    PROVE  Still(S, U)
<1>1. Calm(S, U, BlockIds)
  BY CalmTrans DEF Still
<1> QED
  BY <1>1 DEF Still

LEMMA StillSound ==
    ASSUME NEW S, NEW T, NEW gone, Shape(S), Shape(T), Sound(S, gone), Still(S, T)
    PROVE  SoundStep(S, T, gone) /\ TableInv(T, gone) /\ Sound(T, gone)
<1>0. TableInv(S, gone) /\ SwapOwned(S) /\ DataInv(S, gone)
  BY DEF Sound
<1>1. PagesIn(T) = PagesIn(S) /\ \A pg : BlockIn(T, pg) = BlockIn(S, pg)
  BY SamePages DEF Still
<1>2. Referenced(T) = Referenced(S) /\ Referenced(S) \subseteq BlockIds
  BY ReferencedMeaning DEF Still, Referenced
<1>3. SwapOwned(T)
  BY <1>0, <1>2, SameOwned DEF Still
<1>4. Live(T, gone) = Live(S, gone) /\ Live(S, gone) \subseteq BlockIds
  <2>1. Live(T, gone) = Live(S, gone)
    BY <1>1 DEF Live, Still
  <2>2. S.file_mapping_table \subseteq BlockIds
    BY Fields DEF Shape
  <2> QED
    BY <2>1, <2>2, PagesType DEF Live
<1>5. DataInv(T, gone)
  <2>1. ToSet(S.clock_queue) \subseteq BlockIds
    BY <1>2, ReferencedMeaning
  <2>2. /\ Calm(S, T, BlockIds) /\ T.clock_queue = S.clock_queue
        /\ T.file_mapping_table = S.file_mapping_table
        /\ \A c \in BlockIds : T.mem_block[c].swap_blocks = S.mem_block[c].swap_blocks
    BY DEF Still
  <2> QED
    BY <1>0, <1>4, <2>1, <2>2, CalmData
<1>6. TableInv(T, gone)
  <2>1. SameFiles(S, T)
    BY CalmBlock DEF Still, SameFiles
  <2> QED
    BY <1>0, <2>1, TableShrinks DEF Still
<1>7. Preserved(S, T, gone)
  <2>1. /\ Calm(S, T, BlockIds) /\ T.file_mapping_table = S.file_mapping_table
        /\ S.file_mapping_table \subseteq BlockIds
    BY Fields DEF Still, Shape
  <2>2. \A pg \in PagesIn(S) \ gone : pg \in PagesIn(T) /\ BlockIn(T, pg) = BlockIn(S, pg)
                                      /\ BlockIn(S, pg) \in BlockIds
    BY <1>1, PagesType
  <2> QED
    BY <1>0, <1>6, <2>1, <2>2, CalmPreserved
<1> QED
  BY <1>3, <1>5, <1>6, <1>7 DEF SoundStep, Sound

LEMMA RepaintStill ==
    ASSUME NEW S, NEW T, Repainted(S, T)
    PROVE  Still(S, T)
BY DEF Repainted, Unmoved, Still, Calm

LEMMA UnmovedStill ==
    ASSUME NEW S, NEW T, Unmoved(S, T), SameStore(S, T),
           \A c \in BlockIds : S.mem_block[c].dirty => T.mem_block[c].dirty
    PROVE  Still(S, T)
BY DEF Unmoved, Alike, SameStore, Still, Calm

(* A change of mem_block alone *)
LEMMA StoreKept ==
    ASSUME NEW S, S \in PagerState, NEW mb
    PROVE  SameStore(S, [S EXCEPT !.mem_block = mb])
BY DEF PagerState, SameStore

LEMMA ReadFaultStill ==
    ASSUME NEW S, S \in PagerState, NEW b \in BlockIds, S.mem_block[b].resident
    PROVE  Still(S, read_fault_handler(S, b))
<1> DEFINE x == S.mem_block[b]
           T == IF x.dirty /\ Exclusive(x) THEN SetEntries(S, x.ptes, Writable) ELSE S
           R == SetEntries(T, x.ptes, Readable)
           mb == [[R.mem_block EXCEPT ![b].referenced = TRUE] EXCEPT ![b].resident = TRUE]
<1>1. T \in PagerState /\ SameStore(S, T)
  <2>1. Repainted(S, SetEntries(S, x.ptes, Writable))
    BY RepaintLoops
  <2> QED
    BY <2>1 DEF Repainted, SameStore
<1>2. read_fault_handler(S, b) = [R EXCEPT !.mem_block[b].referenced = TRUE,
                                           !.mem_block[b].resident = TRUE]
  BY DEF read_fault_handler
<1> HIDE DEF T
<1>3. R \in PagerState /\ SameStore(T, R)
  BY <1>1, RepaintLoops DEF Repainted, SameStore
<1> HIDE DEF R
<1>4. read_fault_handler(S, b) = [R EXCEPT !.mem_block = mb]
  BY <1>2, <1>3 DEF PagerState
<1> HIDE DEF mb
<1>5. SameStore(S, read_fault_handler(S, b))
  BY <1>1, <1>3, <1>4, StoreKept DEF SameStore
<1>6. /\ Unmoved(S, read_fault_handler(S, b))
      /\ \A c \in BlockIds : S.mem_block[c].dirty => read_fault_handler(S, b).mem_block[c].dirty
  BY ReadFault, ReadFaultEntries DEF SameBlocks
<1> QED
  BY <1>5, <1>6, UnmovedStill

LEMMA WriteFaultStill ==
    ASSUME NEW S, S \in PagerState, NEW b \in BlockIds
    PROVE  Still(S, write_fault_handler(S, b))
<1> DEFINE x == S.mem_block[b]
           R == SetEntries(S, x.ptes, Writable)
           mb == [R.mem_block EXCEPT ![b].dirty = TRUE]
<1>1. R \in PagerState /\ SameStore(S, R)
  BY RepaintLoops DEF Repainted, SameStore
<1>2. write_fault_handler(S, b) = [R EXCEPT !.mem_block = mb]
  BY DEF write_fault_handler
<1> HIDE DEF R, mb
<1>3. SameStore(S, write_fault_handler(S, b))
  BY <1>1, <1>2, StoreKept DEF SameStore
<1>4. /\ Unmoved(S, write_fault_handler(S, b))
      /\ \A c \in BlockIds : S.mem_block[c].dirty => write_fault_handler(S, b).mem_block[c].dirty
  BY WriteFault, WriteFaultEntries
<1> QED
  BY <1>3, <1>4, UnmovedStill

LEMMA EraseStill ==
    ASSUME NEW S, S \in PagerState, NEW b \in BlockIds, NEW p, NEW v
    PROVE  Still(S, ErasePte(S, b, p, v))
<1> DEFINE T == ErasePte(S, b, p, v)
           mb == [S.mem_block EXCEPT ![b].ptes = @ \ {<<p, v>>}]
<1>1. T = [S EXCEPT !.mem_block = mb]
  BY DEF ErasePte
<1>2. Erased(S, T, b, <<p, v>>) /\ LikeBlocks(S, T)
  BY EraseEffect, EraseEntries
<1> HIDE DEF mb, T
<1>3. SameStore(S, T)
  BY <1>1, StoreKept
<1> QED
  BY <1>2, <1>3 DEF Erased, LikeBlocks, SameStore, Still, Calm, T

-----------------------------------------------------------------------------
(* Copy on write.                                                          *)

LEMMA FrontHead ==
    ASSUME NEW S, NEW s \in Seq(S), s # <<>>, Front(s) # <<>>
    PROVE  Head(Front(s)) = Head(s)
<1>1. PICK n \in Nat : Len(s) = n
  BY LenProperties
<1>2. n >= 1 /\ Front(s) = SubSeq(s, 1, n - 1)
  BY <1>1, EmptySeq DEF Front
<1>3. Len(Front(s)) = n - 1 /\ Front(s) \in Seq(S)
  BY <1>1, FrontLastLemma
<1>4. n - 1 >= 1
  BY <1>2, <1>3, EmptySeq
<1>5. Front(s)[1] = s[1]
  BY <1>1, <1>2, <1>4
<1> QED
  BY <1>3, <1>5

SplitStore(S, T, datum, new) ==
    /\ T.physmem = [S.physmem EXCEPT ![Head(S.free_mem_blocks)] = datum]
    /\ T.swap_file = S.swap_file /\ T.files = S.files
    /\ T.mem_block[new].dirty
    /\ \A c \in BlockIds \ {new} : T.mem_block[c].dirty <=> S.mem_block[c].dirty

LEMMA SplitWrites ==
    ASSUME NEW S, NEW unpointed, Whole(S, unpointed, {}), NEW p \in Pids,
           NEW v \in DOMAIN S.data_location[p], NEW datum, NEW new, new = Unused(S),
           new \in BlockIds, new \notin Referenced(S), NEW T,
           T = copy_block_handler(S, p, v, datum)
    PROVE  SplitStore(S, T, datum, new)
<1> DEFINE old == S.data_location[p][v]
           frame == Head(S.free_mem_blocks)
           mb == [S.mem_block EXCEPT
              ![new] = [NewBlock(frame, TRUE, NoName, 0) EXCEPT
                          !.swap_blocks = <<Last(S.mem_block[old].swap_blocks)>>,
                          !.ptes = {<<p, v>>}, !.dirty = TRUE],
              ![old].swap_blocks = Front(@)]
<1>0. S \in PagerState
  BY DEF Whole, Shape
<1>1. T = [S EXCEPT !.data_location[p][v] = new, !.mem_block = mb,
                    !.page_table[p][v].ppage = frame, !.free_mem_blocks = Tail(@),
                    !.clock_queue = Append(@, new), !.physmem[frame] = datum]
  BY DEF copy_block_handler
<1> HIDE DEF mb, frame
<1>2. /\ T.physmem = [S.physmem EXCEPT ![frame] = datum]
      /\ T.swap_file = S.swap_file /\ T.files = S.files
  BY <1>0, <1>1 DEF PagerState
<1>3. /\ T.mem_block[new].dirty
      /\ \A c \in BlockIds \ {new} : T.mem_block[c].dirty <=> S.mem_block[c].dirty
  BY SplitEntries
<1> QED
  BY <1>2, <1>3 DEF SplitStore, frame

(* Where the pages are after a split *)
PageMoved(S, T, p, v, new) == T.data_location = [S.data_location EXCEPT ![p][v] = new]

LEMMA SplitPages ==
    ASSUME NEW S, NEW T, NEW p \in Pids, NEW v \in DOMAIN S.data_location[p], Shape(S), NEW new,
           PageMoved(S, T, p, v, new)
    PROVE  /\ <<p, v>> \in PagesIn(S) /\ BlockIn(S, <<p, v>>) = S.data_location[p][v]
           /\ PagesIn(T) = PagesIn(S) /\ BlockIn(T, <<p, v>>) = new
           /\ \A r \in PagesIn(S) : r # <<p, v>> => BlockIn(T, r) = BlockIn(S, r)
<1>1. S.data_location \in [Pids -> Seq(BlockIds)] /\ S.data_location[p] \in Seq(BlockIds)
  BY Fields DEF Shape
<1>2. \A r \in Pids : /\ DOMAIN T.data_location[r] = DOMAIN S.data_location[r]
                      /\ \A w \in DOMAIN S.data_location[r] : T.data_location[r][w] =
                           IF r = p /\ w = v THEN new ELSE S.data_location[r][w]
  BY <1>1 DEF PageMoved
<1>3. PagesIn(T) = PagesIn(S)
  BY <1>2 DEF PagesIn
<1>4. <<p, v>> \in PagesIn(S) /\ BlockIn(S, <<p, v>>) = S.data_location[p][v]
  BY PagesMeaning
<1>5. BlockIn(T, <<p, v>>) = new
  BY <1>2 DEF BlockIn
<1>6. ASSUME NEW r \in PagesIn(S), r # <<p, v>>
      PROVE  BlockIn(T, r) = BlockIn(S, r)
  <2>1. r = <<r[1], r[2]>> /\ r[1] \in Pids /\ r[2] \in DOMAIN S.data_location[r[1]]
    BY PagesType
  <2>2. ~(r[1] = p /\ r[2] = v)
    BY <1>6, <2>1
  <2> QED
    BY <1>2, <2>1, <2>2 DEF BlockIn
<1> QED
  BY <1>3, <1>4, <1>5, <1>6

LEMMA SplitData ==
    ASSUME NEW S, NEW T, NEW p \in Pids, NEW v \in DOMAIN S.data_location[p], NEW datum,
           NEW new \in BlockIds, new \notin Referenced(S), S.free_mem_blocks # <<>>,
           Whole(S, {<<p, v>>}, {}), TableInv(S, {<<p, v>>}), SwapOwned(S), DataInv(S, {}),
           Whole(T, {}, {}), TableInv(T, {}),
           Split(S, T, p, v, new), SplitStore(S, T, datum, new),
           S.mem_block[S.data_location[p][v]].is_swap, datum = HeldIn(S, <<p, v>>)
    PROVE  SoundStep(S, T, {})
<1> DEFINE pg == <<p, v>>
           old == S.data_location[p][v]
           f == Head(S.free_mem_blocks)
<1>0. /\ Shape(S) /\ S \in PagerState /\ Pinned(S) /\ SwapInv(S, {}) /\ FilesInv(S)
      /\ Shape(T) /\ SwapInv(T, {}) /\ FilesInv(T) /\ T \in PagerState
  BY DEF Whole, Shape
<1>1. /\ T.clock_queue = Append(S.clock_queue, new)
      /\ T.free_swap_blocks = S.free_swap_blocks
      /\ T.file_mapping_table = S.file_mapping_table
      /\ T.data_location = [S.data_location EXCEPT ![p][v] = new]
      /\ T.mem_block[new].resident /\ T.mem_block[new].is_swap
      /\ T.mem_block[new].swap_blocks = <<Last(S.mem_block[old].swap_blocks)>>
      /\ T.mem_block[new].location = f
  BY DEF Split
<1>2. \A c \in BlockIds \ {new} :
        LET x == S.mem_block[c]
            z == T.mem_block[c] IN
        /\ z.resident = x.resident /\ z.is_swap = x.is_swap
        /\ z.swap_blocks = IF c = old THEN Front(x.swap_blocks) ELSE x.swap_blocks
        /\ z.location = x.location /\ z.filename = x.filename /\ z.block_num = x.block_num
        /\ z.dirty <=> x.dirty
  BY DEF Split, SplitStore
<1>3. /\ pg \in PagesIn(S) /\ BlockIn(S, pg) = old /\ PagesIn(T) = PagesIn(S)
      /\ BlockIn(T, pg) = new
      /\ \A r \in PagesIn(S) : r # pg => BlockIn(T, r) = BlockIn(S, r)
  <2> HIDE DEF pg, old
  <2>1. Shape(S) /\ PageMoved(S, T, p, v, new)
    BY <1>0, <1>1 DEF PageMoved
  <2>2. /\ <<p, v>> \in PagesIn(S) /\ BlockIn(S, <<p, v>>) = S.data_location[p][v]
        /\ PagesIn(T) = PagesIn(S) /\ BlockIn(T, <<p, v>>) = new
        /\ \A r \in PagesIn(S) : r # <<p, v>> => BlockIn(T, r) = BlockIn(S, r)
    BY <2>1, SplitPages
  <2> QED
    BY <2>2 DEF pg, old
<1>4. /\ Referenced(S) \subseteq BlockIds /\ old \in Referenced(S) /\ old # new /\ new # zero_page
      /\ ToSet(S.clock_queue) \subseteq Referenced(S)
      /\ \A r \in PagesIn(S) : BlockIn(S, r) \in Referenced(S)
  BY <1>0, <1>3, ReferencedMeaning
<1>5. S.mem_block[old].swap_blocks # <<>> /\ S.mem_block[old].swap_blocks \in Seq(SwapBlocks)
  BY <1>0, <1>3, <1>4, LiveHome, SwapSeq
<1>6. f \in Frames /\ f # 0
      /\ \A c \in Referenced(S) : S.mem_block[c].resident => S.mem_block[c].location # f
  BY FreeFrame
<1>7. /\ T.physmem = [S.physmem EXCEPT ![f] = datum] /\ S.physmem \in [Frames -> Data]
      /\ T.swap_file = S.swap_file /\ T.files = S.files
  BY <1>0, Fields DEF SplitStore
<1> HIDE DEF f, pg, old
<1>8. ToSet(T.clock_queue) = ToSet(S.clock_queue) \cup {new}
  BY <1>0, <1>1, Fields, AppendLemma
<1>9. SwapOwned(T)
  <2>1. \A c \in Referenced(T) : \/ c = zero_page \/ c \in ToSet(T.clock_queue)
                                 \/ c \in T.file_mapping_table
                                 \/ \E r \in PagesIn(T) : BlockIn(T, r) = c
    BY <1>0, ReferencedMeaning
  <2>2. \A c \in Referenced(T) : \/ c = zero_page \/ c \in ToSet(S.clock_queue) \cup {new}
                                 \/ c \in S.file_mapping_table
                                 \/ \E r \in PagesIn(S) : BlockIn(S, r) = c
    BY <1>1, <1>3, <1>8, <2>1
  <2>3. Referenced(T) \subseteq Referenced(S) \cup {new}
    BY <1>0, <2>2, ReferencedMeaning
  <2>4. \A c \in Referenced(S) : T.mem_block[c].swap_blocks =
          IF c = old THEN Front(S.mem_block[c].swap_blocks) ELSE S.mem_block[c].swap_blocks
    BY <1>2, <1>4
  <2> QED
    BY <1>0, <1>1, <1>4, <1>5, <2>3, <2>4, HandOwned
<1>10. ASSUME NEW c \in Live(T, {}) \ {new}
       PROVE  c \in Live(S, {}) /\ c \in BlockIds /\ BlockKept(S, T, c)
  <2>1. c \in Live(S, {})
    BY <1>1, <1>3 DEF Live
  <2>2. c \in Referenced(T) /\ c \in BlockIds
        /\ (T.mem_block[c].is_swap => T.mem_block[c].swap_blocks # <<>>)
    BY <1>0, LiveBlocks
  <2>3. c \in Referenced(S)
    BY <1>0, <2>1, ReferencedMeaning DEF Live
  <2>4. S.mem_block[c].is_swap =>
          Head(T.mem_block[c].swap_blocks) = Head(S.mem_block[c].swap_blocks)
    <3>1. CASE c # old
      BY <1>2, <2>2, <3>1
    <3>2. CASE c = old
      BY <1>2, <1>5, <2>2, <3>2, FrontHead
    <3> QED
      BY <3>1, <3>2
  <2>5. S.mem_block[c].resident => S.mem_block[c].location # f /\ S.mem_block[c].location \in Frames
    BY <1>0, <1>6, <2>2, <2>3 DEF Shape, PlaceOK
  <2>6. S.mem_block[c] \in Block /\ T.mem_block[c] \in Block
    BY <1>0, <2>2, Fields
  <2>7. StaysPut(S, T, c, f)
    BY <1>2, <2>2, <2>4, <2>5, <2>6 DEF StaysPut, Block
  <2>8. c # zero_page => BackedUp(S, c)
    BY <2>1 DEF DataInv
  <2> QED
    BY <1>7, <2>1, <2>2, <2>7, <2>8, OtherFrames
<1>11. BackedUp(T, new) /\ DatumOf(T, T.mem_block[new]) = datum
  <2>1. T.physmem[f] = datum
    BY <1>6, <1>7
  <2>2. T.mem_block[new].dirty
    BY DEF SplitStore
  <2> QED
    BY <1>1, <2>1, <2>2 DEF BackedUp, DatumOf
<1>12. DataInv(T, {})
  <2>1. T.physmem[0] = 0
    BY <1>6, <1>7, Numbers DEF DataInv
  <2>2. \A c \in ToSet(T.clock_queue) : T.mem_block[c].is_swap \/ c \in T.file_mapping_table
    BY <1>1, <1>2, <1>4, <1>8 DEF DataInv
  <2>3. \A c \in Live(T, {}) \ {zero_page} : BackedUp(T, c)
    BY <1>10, <1>11 DEF BlockKept
  <2> QED
    BY <2>1, <2>2, <2>3 DEF DataInv
<1>13. \A c \in BlockIds \ {new} : /\ FileKey(T.mem_block[c]) = FileKey(S.mem_block[c])
                                   /\ T.mem_block[c].is_swap = S.mem_block[c].is_swap
  BY <1>2 DEF FileKey
<1>14. SameContent(S, T)
  <2>1. \A c \in S.file_mapping_table : c \in Live(T, {}) \ {new} /\ c \in BlockIds
    BY <1>0, <1>1, <1>4, ReferencedMeaning DEF Live
  <2>2. \A c \in S.file_mapping_table :
          /\ FileKey(T.mem_block[c]) = FileKey(S.mem_block[c])
          /\ DatumOf(T, T.mem_block[c]) = DatumOf(S, S.mem_block[c])
    BY <1>10, <1>13, <2>1 DEF BlockKept
  <2> QED
    BY <1>1, <1>7, <2>2, ContentKept
<1>15. ASSUME NEW r \in PagesIn(S) \ {}
       PROVE  SamePage(S, T, r)
  <2>1. CASE r = pg
    <3>1. KindOf(T, r) = KindOf(S, r)
      BY <1>1, <1>3, <2>1 DEF KindOf, old
    <3>2. HeldIn(T, r) = HeldIn(S, r)
      BY <1>3, <1>11, <2>1 DEF HeldIn, pg
    <3> QED
      BY <1>3, <3>1, <3>2 DEF SamePage
  <2>2. CASE r # pg
    <3>1. BlockIn(T, r) = BlockIn(S, r) /\ r \in PagesIn(T) /\ BlockIn(S, r) \in Live(T, {}) \ {new}
      BY <1>3, <1>4, <2>2 DEF Live
    <3> QED
      BY <1>10, <1>13, <3>1 DEF SamePage, KindOf, HeldIn, BlockKept
  <2> QED
    BY <2>1, <2>2
<1> QED
  BY <1>9, <1>12, <1>14, <1>15 DEF SoundStep, Preserved

(* The copy holds what the page held, also if the old block is evicted. *)
LEMMA CopyData ==
    ASSUME NEW S, Whole(S, {}, {}), Sound(S, {}), NEW p \in Pids,
           NEW v \in DOMAIN S.data_location[p],
           S.mem_block[S.data_location[p][v]].resident,
           is_copy_on_writable(S, S.data_location[p][v])
    PROVE  SoundStep(S, CopyOnWrite(S, p, v), {})
<1> DEFINE b == S.data_location[p][v]
           R == read_fault_handler(S, b)
           E == ErasePte(R, b, p, v)
           U == Unshared(S, p, v)
           F == WithFreeFrame(U)
           T == CopyOnWrite(S, p, v)
           datum == S.physmem[S.mem_block[b].location]
<1>0. /\ Shape(S) /\ S \in PagerState /\ TableInv(S, {})
      /\ <<p, v>> \in PagesIn(S) /\ BlockIn(S, <<p, v>>) = b
  BY PagesMeaning DEF Whole, Shape, Sound
<1>1. b \in BlockIds /\ S.mem_block[b].resident /\ S.mem_block[b].is_swap
  BY <1>0, PagesType DEF is_copy_on_writable
<1>2. datum = HeldIn(S, <<p, v>>)
  BY <1>0, <1>1 DEF HeldIn, DatumOf
<1>3. T = copy_block_handler(F, p, v, datum) /\ U = update_block_permissions(E, b)
  BY DEF CopyOnWrite, Unshared
<1>4. CopySteps(S, T, p, v)
  BY CopyInSteps
<1>5. Whole(T, {}, {}) /\ TableInv(T, {})
  BY <1>0, CopyWhole, CopyTable
<1> HIDE DEF T, U, datum, b
<1>6. /\ Whole(U, {<<p, v>>}, {}) /\ U.data_location = S.data_location /\ SameFiles(S, U)
      /\ Whole(F, {<<p, v>>}, {}) /\ v \in DOMAIN F.data_location[p]
      /\ Unused(F) \in BlockIds /\ Unused(F) \notin Referenced(F)
      /\ Split(F, T, p, v, Unused(F))
  BY <1>4 DEF CopySteps, U
<1>7. Still(S, U)
  <2>1. Still(S, R) /\ R \in PagerState
    BY <1>0, <1>1, ReadFaultStill, ReadFault
  <2> HIDE DEF R
  <2>2. Still(R, E) /\ E \in PagerState
    BY <1>1, <2>1, EraseStill, EraseEffect DEF Erased
  <2> HIDE DEF E
  <2>3. Still(E, U)
    BY <1>1, <1>3, <2>2, UpdatePermissions, RepaintStill
  <2> QED
    BY <2>1, <2>2, <2>3, StillTrans
<1> HIDE DEF R, E
<1>8. Shape(U) /\ SoundStep(S, U, {}) /\ Sound(U, {})
  BY <1>0, <1>6, <1>7, StillSound DEF Whole
<1>9. TableInv(U, {<<p, v>>})
  BY <1>8 DEF Sound, TableInv
<1>10. /\ SoundStep(U, F, {}) /\ TableInv(F, {<<p, v>>})
       /\ F.free_mem_blocks # <<>> /\ Kin(U, F)
  BY <1>6, <1>8, <1>9, FreeFrameData, FreeFrameTable, FreeFrameWhole
<1> HIDE DEF F
<1>11. SoundStep(S, F, {})
  BY <1>8, <1>10, SoundThen
<1>12. F.data_location[p][v] = b /\ F.mem_block[b].is_swap
  BY <1>1, <1>6, <1>10 DEF Kin, SameFiles, b
<1>13. datum = HeldIn(F, <<p, v>>)
  BY <1>0, <1>2, <1>11 DEF SoundStep, Preserved, SamePage
<1>14. SplitStore(F, T, datum, Unused(F))
  BY <1>3, <1>6, SplitWrites
<1>15. SwapOwned(F) /\ DataInv(F, {})
  BY <1>11 DEF SoundStep
<1>16. SoundStep(F, T, {})
  BY <1>5, <1>6, <1>10, <1>12, <1>13, <1>14, <1>15, SplitData
<1> QED
  BY <1>11, <1>16, SoundThen DEF T

LEMMA ServedData ==
    ASSUME NEW S, Whole(S, {}, {}), Sound(S, {}), NEW p \in Pids,
           NEW v \in DOMAIN S.data_location[p],
           S.mem_block[S.data_location[p][v]].resident, NEW write_flag
    PROVE  SoundStep(S, Served(S, p, v, write_flag), {})
<1> DEFINE copy == write_flag /\ is_copy_on_writable(S, S.data_location[p][v])
           C == IF copy THEN CopyOnWrite(S, p, v) ELSE S
           b == C.data_location[p][v]
           W == IF write_flag THEN write_fault_handler(C, b) ELSE C
           R == read_fault_handler(W, b)
<1>0. Served(S, p, v, write_flag) = R
  BY DEF Served
<1>1. Shape(S) /\ S.data_location[p][v] \in BlockIds
  <2>1. Shape(S) /\ <<p, v>> \in PagesIn(S) /\ BlockIn(S, <<p, v>>) = S.data_location[p][v]
    BY PagesMeaning DEF Whole
  <2> QED
    BY <2>1, PagesType
<1>2. /\ Whole(C, {}, {}) /\ b \in BlockIds /\ C.mem_block[b].resident /\ TableInv(C, {})
      /\ SoundStep(S, C, {})
  <2>1. CASE copy
    <3>1. C = CopyOnWrite(S, p, v)
      BY <2>1
    <3> QED
      BY <2>1, <3>1, CopyWhole, CopyTable, CopyData DEF Sound
  <2>2. CASE ~copy
    <3>1. C = S
      BY <2>2
    <3> QED
      BY <1>1, <3>1, SoundStill DEF Sound
  <2> QED
    BY <2>1, <2>2
<1> HIDE DEF C, b
<1>3. Shape(C) /\ C \in PagerState /\ Sound(C, {})
  BY <1>2, SoundIf DEF Whole, Shape
<1>4. Still(C, W) /\ Unmoved(C, W) /\ W \in PagerState
  <2>1. Unmoved(C, C) /\ Still(C, C)
    BY DEF Unmoved, Alike, Still, Calm
  <2> QED
    BY <1>2, <1>3, <2>1, WriteFault, WriteFaultStill
<1> HIDE DEF W
<1>5. Whole(W, {}, {}) /\ W.mem_block[b].resident
  BY <1>2, <1>4, UnmovedWhole DEF Unmoved, Alike
<1>6. Still(W, R) /\ Unmoved(W, R) /\ R \in PagerState
  BY <1>2, <1>4, <1>5, ReadFault, ReadFaultStill
<1> HIDE DEF R
<1>7. Shape(R)
  BY <1>5, <1>6, UnmovedWhole DEF Whole
<1>8. SoundStep(C, R, {})
  BY <1>3, <1>4, <1>6, <1>7, StillTrans, StillSound
<1> QED
  BY <1>0, <1>2, <1>8, SoundThen

-----------------------------------------------------------------------------
(* The end of a handler: nothing is lost with the blocks that go.          *)

Deallocated(S, N) ==
    /\ N.physmem = S.physmem /\ N.swap_file = S.swap_file /\ N.files = S.files
    /\ N.clock_queue = S.clock_queue /\ N.file_mapping_table = S.file_mapping_table
    /\ N.free_swap_blocks = S.free_swap_blocks /\ N.data_location = S.data_location
    /\ \A b \in Referenced(S) : N.mem_block[b] = S.mem_block[b]

LEMMA DeallocatedSound ==
    ASSUME NEW S, NEW N, Shape(S), Shape(N), Sound(S, {}), Deallocated(S, N)
    PROVE  SoundStep(S, N, {}) /\ Sound(N, {})
<1> DEFINE B == Referenced(S)
<1>0. TableInv(S, {}) /\ SwapOwned(S) /\ DataInv(S, {})
  BY DEF Sound
<1>1. PagesIn(N) = PagesIn(S) /\ \A pg : BlockIn(N, pg) = BlockIn(S, pg)
  BY SamePages DEF Deallocated
<1>2. Referenced(N) = B
  BY DEF Deallocated, Referenced
<1>3. /\ S.file_mapping_table \subseteq B /\ ToSet(S.clock_queue) \subseteq B
      /\ \A pg \in PagesIn(S) : BlockIn(S, pg) \in B
  BY ReferencedMeaning
<1>4. Calm(S, N, B) /\ \A b \in B : N.mem_block[b] = S.mem_block[b]
  BY DEF Calm, Deallocated
<1> HIDE DEF B
<1>5. SwapOwned(N)
  BY <1>0, <1>2, <1>4, SameOwned DEF Deallocated, B
<1>6. Live(N, {}) = Live(S, {}) /\ Live(S, {}) \subseteq B
  <2>1. Live(N, {}) = Live(S, {})
    BY <1>1 DEF Live, Deallocated
  <2> QED
    BY <1>3, <2>1 DEF Live
<1>7. DataInv(N, {})
  BY <1>0, <1>3, <1>4, <1>6, CalmData DEF Deallocated
<1>8. TableInv(N, {})
  BY <1>0, <1>1, <1>3, <1>4 DEF TableInv, Deallocated
<1>9. Preserved(S, N, {})
  BY <1>0, <1>1, <1>3, <1>4, <1>8, CalmPreserved DEF Deallocated
<1> QED
  BY <1>5, <1>7, <1>8, <1>9 DEF SoundStep, Sound

LEMMA BecomesDeallocated ==
    ASSUME NEW S, Shape(S), Becomes(S)
    PROVE  Deallocated(S, Pager')
<1> DEFINE mb == [b \in BlockIds |-> IF b \in Referenced(S) THEN S.mem_block[b] ELSE NoBlock]
           N == Pager'
<1>1. /\ physmem' = S.physmem /\ swap_file' = S.swap_file /\ files' = S.files
      /\ mem_block' = mb /\ clock_queue' = S.clock_queue
      /\ free_swap_blocks' = S.free_swap_blocks
      /\ file_mapping_table' = S.file_mapping_table /\ data_location' = S.data_location
  BY DEF Becomes
<1>2. \A b \in Referenced(S) : mb[b] = S.mem_block[b]
  BY ReferencedMeaning
<1> HIDE DEF mb
<1>3. /\ N.physmem = S.physmem /\ N.swap_file = S.swap_file /\ N.files = S.files
      /\ N.mem_block = mb /\ N.clock_queue = S.clock_queue
      /\ N.free_swap_blocks = S.free_swap_blocks
      /\ N.file_mapping_table = S.file_mapping_table /\ N.data_location = S.data_location
  BY <1>1 DEF Pager
<1> HIDE DEF N
<1>4. Deallocated(S, N)
  BY <1>2, <1>3 DEF Deallocated
<1> QED
  BY <1>4 DEF N

(* A handler that ends with Becomes(T), from the state P *)
LEMMA BecomesData ==
    ASSUME NEW P, NEW T, NEW less, Whole(T, {}, {}), TableInv(T, {}),
           SwapOwned(T), DataInv(T, {}), Preserved(P, T, less), Becomes(T)
    PROVE  /\ SwapOwned(Pager') /\ DataInv(Pager', {}) /\ Preserved(P, Pager', less)
           /\ Deallocated(T, Pager') /\ SoundStep(T, Pager', {})
<1> DEFINE N == Pager'
<1>1. Shape(T) /\ Deallocated(T, N)
  BY BecomesDeallocated DEF Whole
<1>2. Shape(N)
  BY BecomesWhole DEF Whole
<1> HIDE DEF N
<1>3. SoundStep(T, N, {})
  BY <1>1, <1>2, DeallocatedSound DEF Sound
<1>4. Preserved(P, N, less)
  BY <1>3 DEF SoundStep, Preserved, SameContent, SamePage
<1> QED
  BY <1>1, <1>3, <1>4 DEF SoundStep, N

-----------------------------------------------------------------------------
(* vm_fault, and reading a name.                                           *)

LEMMA FaultData ==
    ASSUME PagerInv, Sound(Pager, {}), NEW v, NEW write_flag, Fault(v, write_flag)
    PROVE  SoundStep(Pager, Pager', {}) /\ PagesIn(Pager') = PagesIn(Pager)
<1> DEFINE p == curr_pid
           b == data_location[p][v]
           P == Pager
           N == Pager'
           S == MadeResident(P, b)
           T == IF S.mem_block[b].resident THEN Served(S, p, v, write_flag) ELSE S
<1>1. p # NoPid /\ v \in DOMAIN data_location[p] /\ Becomes(T)
  BY DEF Fault
<1>2. /\ Whole(P, {}, {}) /\ Shape(P) /\ p \in Pids /\ P.data_location = data_location
      /\ <<p, v>> \in PagesIn(P) /\ BlockIn(P, <<p, v>>) = b /\ Sound(P, {})
  BY <1>1, CurrentProcess
<1> HIDE DEF P, b, N
<1>4. /\ Whole(S, {}, {}) /\ TableInv(S, {}) /\ S.data_location = P.data_location
      /\ SoundStep(P, S, {}) /\ PagesIn(S) = PagesIn(P)
  BY <1>2, ResidentWhole, ResidentTable, ResidentData, SamePages DEF Sound
<1> HIDE DEF S
<1>5. Sound(S, {})
  BY <1>4, SoundIf
<1>6. Whole(T, {}, {}) /\ TableInv(T, {}) /\ SoundStep(S, T, {}) /\ PagesIn(T) = PagesIn(S)
  <2>1. CASE S.mem_block[b].resident
    <3>1. v \in DOMAIN S.data_location[p] /\ S.mem_block[S.data_location[p][v]].resident
      BY <1>1, <1>2, <1>4, <2>1 DEF b
    <3> DEFINE U == Served(S, p, v, write_flag)
    <3>2. /\ Whole(U, {}, {}) /\ TableInv(U, {}) /\ SoundStep(S, U, {}) /\ PagesIn(U) = PagesIn(S)
      BY <1>2, <1>4, <1>5, <3>1, ServedWhole, ServedTable, ServedData DEF Steady
    <3> QED
      BY <2>1, <3>2
  <2>2. CASE ~S.mem_block[b].resident
    BY <1>4, <1>5, <2>2, SoundStill
  <2> QED
    BY <2>1, <2>2
<1> HIDE DEF T
<1>7. SoundStep(P, T, {})
  BY <1>4, <1>6, SoundThen
<1>8. SwapOwned(T) /\ DataInv(T, {}) /\ Preserved(P, T, {})
  BY <1>7 DEF SoundStep
<1>9. /\ SwapOwned(N) /\ DataInv(N, {}) /\ Preserved(P, N, {}) /\ Deallocated(T, N)
  BY <1>1, <1>6, <1>8, BecomesData DEF N
<1>10. SoundStep(P, N, {}) /\ PagesIn(N) = PagesIn(P)
  BY <1>4, <1>6, <1>9, SamePages DEF SoundStep, Deallocated
<1> QED
  BY <1>10 DEF P, N

LEMMA SettledData ==
    ASSUME NEW S, NEW T, Whole(S, {}, {}), Settled(S, T), TableInv(T, {}), SoundStep(S, T, {}),
           NEW p \in Pids, NEW v \in DOMAIN S.data_location[p], NEW b, b = S.data_location[p][v]
    PROVE  SoundStep(S, MadeResident(T, b), {})
<1>1. Whole(T, {}, {}) /\ Shape(T) /\ T.data_location = S.data_location
  BY DEF Settled, Whole
<1>2. <<p, v>> \in PagesIn(T) /\ BlockIn(T, <<p, v>>) = b
  BY <1>1, PagesMeaning
<1>3. Sound(T, {})
  BY SoundIf
<1>4. SoundStep(T, MadeResident(T, b), {})
  BY <1>1, <1>2, <1>3, ResidentData
<1> QED
  BY <1>4, SoundThen

LEMMA ReadNameData ==
    ASSUME NEW S, Whole(S, {}, {}), Sound(S, {}), NEW p \in Pids,
           NEW v \in DOMAIN S.data_location[p], NEW w \in DOMAIN S.data_location[p]
    PROVE  /\ SoundStep(S, ReadName(S, p, v, w), {}) /\ SoundStep(S, Touched(S, p, v), {})
           /\ Settled(S, Touched(S, p, v)) /\ Settled(S, ReadName(S, p, v, w))
<1> DEFINE A == MadeResident(S, S.data_location[p][v])
           B == MadeResident(A, S.data_location[p][w])
<1>1. Settled(S, S) /\ TableInv(S, {}) /\ SoundStep(S, S, {})
  BY SoundStill DEF Settled, Sound
<1>2. Settled(S, A) /\ TableInv(A, {}) /\ SoundStep(S, A, {})
  BY <1>1, SettledResident, SettledTable, SettledData
<1> HIDE DEF A
<1>3. SoundStep(S, B, {})
  BY <1>2, SettledData
<1> HIDE DEF B
<1>4. ReadName(S, p, v, w) = A \/ ReadName(S, p, v, w) = B
  BY ReadNameIs DEF A, B
<1>5. Touched(S, p, v) = A
  BY ReadNameIs DEF A
<1> QED
  BY <1>2, <1>3, <1>4, <1>5, ReadNameSettles

(* The byte get_data takes from the frame is what the page held before. *)
LEMMA ByteIs ==
    ASSUME NEW S, Shape(S), NEW T, Settled(S, T), SoundStep(S, T, {}), NEW p \in Pids,
           NEW v \in DOMAIN S.data_location[p], WasRead(T, p, v)
    PROVE  ByteOf(T, p, v) = HeldIn(S, <<p, v>>)
<1>1. <<p, v>> \in PagesIn(S)
  BY PagesMeaning
<1>2. HeldIn(T, <<p, v>>) = HeldIn(S, <<p, v>>)
  BY <1>1 DEF SoundStep, Preserved, SamePage
<1>3. HeldIn(T, <<p, v>>) = ByteOf(T, p, v)
  BY DEF HeldIn, DatumOf, BlockIn, WasRead, ByteOf
<1> QED
  BY <1>2, <1>3

LEMMA MapFileInvalidData ==
    ASSUME PagerInv, Sound(Pager, {}), MapFileInvalid
    PROVE  SoundStep(Pager, Pager', {}) /\ PagesIn(Pager') = PagesIn(Pager)
<1> DEFINE p == curr_pid
           s == data_location[p]
           b == s[Len(s)]
           P == Pager
           N == Pager'
           S == MadeResident(P, b)
<1>1. p # NoPid /\ Len(s) \in 1 .. num_virt_addr - 1 /\ Becomes(S)
  <2>1. Pager.data_location = data_location
    BY DEF Pager
  <2> QED
    BY <2>1 DEF MapFileInvalid, Touched
<1>2. /\ Whole(P, {}, {}) /\ p \in Pids /\ Sound(P, {})
      /\ P.data_location = data_location /\ s \in Seq(BlockIds)
  BY <1>1, CurrentProcess
<1>3. Len(s) \in DOMAIN s /\ b = s[Len(s)]
  <2>1. Len(s) \in Nat /\ DOMAIN s = 1 .. Len(s)
    BY <1>2
  <2> QED
    BY <1>1, <2>1
<1> HIDE DEF P, b, N
<1>4. Settled(P, P) /\ TableInv(P, {}) /\ SoundStep(P, P, {})
  BY <1>2, SoundStill DEF Settled, Sound
<1>5. Settled(P, S) /\ TableInv(S, {}) /\ SoundStep(P, S, {})
  BY <1>2, <1>3, <1>4, SettledResident, SettledTable, SettledData
<1> HIDE DEF S
<1>6. Whole(S, {}, {}) /\ S.data_location = P.data_location
  BY <1>5 DEF Settled
<1>7. SwapOwned(S) /\ DataInv(S, {}) /\ Preserved(P, S, {})
  BY <1>5 DEF SoundStep
<1>8. /\ SwapOwned(N) /\ DataInv(N, {}) /\ Preserved(P, N, {}) /\ Deallocated(S, N)
  BY <1>1, <1>5, <1>6, <1>7, BecomesData DEF N
<1>9. SoundStep(P, N, {}) /\ PagesIn(N) = PagesIn(P)
  BY <1>6, <1>8, SamePages DEF SoundStep, Deallocated
<1> QED
  BY <1>9 DEF P, N

-----------------------------------------------------------------------------
(* A process gets one more page.                                           *)

KeepsData(S, T) ==
    SameStore(S, T) /\ \A c \in BlockIds : S.mem_block[c].dirty => T.mem_block[c].dirty

(* The new page holds what its block held before. *)
LEMMA GrownData ==
    ASSUME NEW S, NEW T, NEW p \in Pids, NEW b \in Referenced(S), Whole(S, {}, {}), Shape(T),
           Len(S.data_location[p]) < num_virt_addr, Grown(S, T, p, b), KeepsData(S, T),
           Sound(S, {}), TableInv(T, {}), b = zero_page \/ b \in Live(S, {})
    PROVE  /\ SoundStep(S, T, {}) /\ PagesIn(T) = PagesIn(S) \cup {NextPage(S, p)}
           /\ KindOf(T, NextPage(S, p)) = IF S.mem_block[b].is_swap THEN Private
                                          ELSE FileKey(S.mem_block[b])
           /\ HeldIn(T, NextPage(S, p)) = DatumOf(S, S.mem_block[b])
<1> DEFINE pg == NextPage(S, p)
<1>0. /\ Shape(S) /\ SwapInv(S, {}) /\ FilesInv(S) /\ Referenced(S) \subseteq BlockIds
      /\ TableInv(S, {}) /\ SwapOwned(S) /\ DataInv(S, {})
  BY ReferencedMeaning DEF Whole, Sound
<1>1. /\ PagesIn(T) = PagesIn(S) \cup {pg}
      /\ \A r \in PagesIn(S) : BlockIn(T, r) = BlockIn(S, r)
      /\ BlockIn(T, pg) = b
  BY <1>0, GrownPages DEF Grown
<1>2. /\ T.clock_queue = S.clock_queue /\ T.file_mapping_table = S.file_mapping_table
      /\ \A c \in BlockIds \ {b} : Alike(S.mem_block[c], T.mem_block[c])
      /\ T.mem_block[b].resident = S.mem_block[b].resident
      /\ T.mem_block[b].is_swap = S.mem_block[b].is_swap
      /\ T.mem_block[b].location = S.mem_block[b].location
      /\ T.mem_block[b].filename = S.mem_block[b].filename
      /\ T.mem_block[b].block_num = S.mem_block[b].block_num
      /\ S.mem_block[b].is_swap =>
           /\ S.free_swap_blocks # <<>> /\ T.free_swap_blocks = Tail(S.free_swap_blocks)
           /\ T.mem_block[b].swap_blocks =
                Append(S.mem_block[b].swap_blocks, Head(S.free_swap_blocks))
      /\ ~S.mem_block[b].is_swap => /\ T.free_swap_blocks = S.free_swap_blocks
                                    /\ T.mem_block[b].swap_blocks = S.mem_block[b].swap_blocks
  BY DEF Grown
<1> HIDE DEF pg
<1>3. Calm(S, T, BlockIds)
  <2>1. \A c \in BlockIds \ {b} : /\ T.mem_block[c].resident = S.mem_block[c].resident
                                  /\ T.mem_block[c].location = S.mem_block[c].location
                                  /\ T.mem_block[c].is_swap = S.mem_block[c].is_swap
                                  /\ T.mem_block[c].filename = S.mem_block[c].filename
                                  /\ T.mem_block[c].block_num = S.mem_block[c].block_num
    BY <1>2 DEF Alike
  <2> QED
    BY <1>2, <2>1 DEF Calm, KeepsData, SameStore
<1>4. Referenced(T) \subseteq Referenced(S)
  <2>1. \A c \in Referenced(T) : \/ c = zero_page \/ c \in ToSet(T.clock_queue)
                                 \/ c \in T.file_mapping_table
                                 \/ \E r \in PagesIn(T) : BlockIn(T, r) = c
    BY ReferencedMeaning
  <2>2. \A c \in Referenced(T) : \/ c = zero_page \/ c \in ToSet(S.clock_queue)
                                 \/ c \in S.file_mapping_table
                                 \/ c = b \/ \E r \in PagesIn(S) : BlockIn(S, r) = c
    BY <1>1, <1>2, <2>1
  <2> QED
    BY <1>0, <2>2, ReferencedMeaning
<1>5. \A c \in Referenced(S) \ {b} : T.mem_block[c].swap_blocks = S.mem_block[c].swap_blocks
  BY <1>0, <1>2 DEF Alike
<1>6. SwapOwned(T)
  <2>1. CASE S.mem_block[b].is_swap
    BY <1>0, <1>2, <1>4, <1>5, <2>1, TakeOwned
  <2>2. CASE ~S.mem_block[b].is_swap
    <3>1. \A c \in Referenced(T) : T.mem_block[c].swap_blocks = S.mem_block[c].swap_blocks
      BY <1>2, <1>4, <1>5, <2>2
    <3> QED
      BY <1>0, <1>2, <1>4, <2>2, <3>1, SameOwned
  <2> QED
    BY <2>1, <2>2
<1>7. Live(T, {}) \ {zero_page} \subseteq Live(S, {}) /\ Live(T, {}) \subseteq Referenced(T)
  <2>1. Live(T, {}) \ {zero_page} \subseteq Live(S, {})
    BY <1>1, <1>2 DEF Live
  <2> QED
    BY <2>1, ReferencedMeaning DEF Live
<1>8. ASSUME NEW c \in Live(T, {}) \ {zero_page}, S.mem_block[c].is_swap
      PROVE  Head(T.mem_block[c].swap_blocks) = Head(S.mem_block[c].swap_blocks)
  <2>1. c \in Referenced(S) /\ S.mem_block[c].swap_blocks # <<>>
    BY <1>0, <1>7, <1>8, LiveBlocks
  <2>2. CASE c = b
    <3> DEFINE s == S.mem_block[b].swap_blocks
               k == Head(S.free_swap_blocks)
    <3>1. s \in Seq(SwapBlocks) /\ S.free_swap_blocks \in Seq(SwapBlocks)
      BY <1>0, SwapSeq
    <3>2. s # <<>> /\ k \in SwapBlocks
      BY <1>2, <1>8, <2>1, <2>2, <3>1
    <3> HIDE DEF s, k
    <3>3. Head(Append(s, k)) = Head(s)
      BY <3>1, <3>2
    <3> QED
      BY <1>2, <1>8, <2>2, <3>3 DEF s, k
  <2>3. CASE c # b
    BY <1>5, <2>1, <2>3
  <2> QED
    BY <2>2, <2>3
<1>9. DataInv(T, {})
  <2>1. ToSet(S.clock_queue) \subseteq BlockIds /\ Live(T, {}) \subseteq BlockIds
    BY <1>0, <1>4, <1>7, ReferencedMeaning
  <2> QED
    BY <1>0, <1>2, <1>3, <1>7, <1>8, <2>1, CalmData
<1>10. Preserved(S, T, {})
  <2>1. /\ S.file_mapping_table \subseteq BlockIds /\ \A r \in PagesIn(S) : BlockIn(S, r) \in BlockIds
    BY <1>0, PagesType, Fields DEF Shape
  <2> QED
    BY <1>0, <1>1, <1>2, <1>3, <2>1, CalmPreserved
<1>11. /\ DatumOf(T, T.mem_block[b]) = DatumOf(S, S.mem_block[b])
       /\ FileKey(T.mem_block[b]) = FileKey(S.mem_block[b])
  BY <1>0, <1>3, CalmBlock
<1> QED
  BY <1>1, <1>2, <1>6, <1>9, <1>10, <1>11 DEF SoundStep, KindOf, HeldIn, pg

(* The steps that add a page leave all data alone. *)
LEMMA AddPageKeeps ==
    ASSUME NEW S, S \in PagerState, NEW dl, NEW mb, NEW pt, NEW T,
           T = [S EXCEPT !.data_location = dl, !.mem_block = mb, !.page_table = pt]
    PROVE  SameStore(S, T) /\ T.mem_block = mb
BY DEF SameStore, PagerState

LEMMA ReserveKeeps ==
    ASSUME NEW S, S \in PagerState, NEW b \in BlockIds
    PROVE  KeepsData(S, ReserveSwap(S, b))
<1> DEFINE mb == [S.mem_block EXCEPT ![b].swap_blocks = Append(@, Head(S.free_swap_blocks))]
           free == Tail(S.free_swap_blocks)
           T == ReserveSwap(S, b)
<1>1. T = [S EXCEPT !.mem_block = mb, !.free_swap_blocks = free]
  BY DEF ReserveSwap, PagerState
<1>2. LikeBlocks(S, T)
  BY ReserveEntries
<1> HIDE DEF mb, free, T
<1>3. SameStore(S, T)
  BY <1>1 DEF SameStore, PagerState
<1> QED
  BY <1>2, <1>3 DEF KeepsData, LikeBlocks, T

LEMMA KeepsTrans ==
    ASSUME NEW S, NEW T, NEW U, KeepsData(S, T), KeepsData(T, U)
    PROVE  KeepsData(S, U)
BY DEF KeepsData, SameStore

LEMMA CopyPageKeeps ==
    ASSUME NEW S, Whole(S, {}, {}), NEW p \in Pids, NEW c \in Pids,
           NEW v \in DOMAIN S.data_location[p], Len(S.data_location[c]) + 1 = v,
           S.mem_block[S.data_location[p][v]].is_swap => S.free_swap_blocks # <<>>
    PROVE  KeepsData(S, copy_virtual_page(S, p, c, v))
<1> DEFINE b == S.data_location[p][v]
           x == S.mem_block[b]
           y == [x EXCEPT !.ptes = @ \cup {<<c, v>>}]
           e == [S.page_table[p][v] EXCEPT !.write_enable = @ /\ ~x.is_swap]
           dl == [S.data_location EXCEPT ![c] = Append(@, b)]
           mb == [S.mem_block EXCEPT ![b].ptes = @ \cup {<<c, v>>}]
           pt == [S.page_table EXCEPT ![c][v] = e]
           T == [S EXCEPT !.data_location = dl, !.mem_block = mb, !.page_table = pt]
           R == ReserveSwap(T, b)
           U == SetEntries(R, R.mem_block[b].ptes, ReadOnly)
           V == copy_virtual_page(S, p, c, v)
<1>0. Shape(S) /\ S \in PagerState
  BY DEF Whole, Shape
<1>1. b \in BlockIds /\ v \in VPages
  <2>1. <<p, v>> \in PagesIn(S) /\ BlockIn(S, <<p, v>>) = b /\ v \in VPages
    BY <1>0, PagesMeaning
  <2> QED
    BY <1>0, <2>1, PagesType
<1>2. V = IF ~x.is_swap THEN T ELSE IF b = zero_page THEN R ELSE U
  BY DEF copy_virtual_page
<1>3. dl \in [Pids -> Seq(BlockIds)]
  BY <1>0, <1>1, Fields
<1>4. /\ mb \in [BlockIds -> Block]
      /\ \A d \in BlockIds : mb[d].dirty = S.mem_block[d].dirty
  <2>1. S.mem_block \in [BlockIds -> Block] /\ x \in Block
    BY <1>0, <1>1, Fields
  <2>2. <<c, v>> \in Pids \X VPages
    BY <1>1
  <2>3. y \in Block /\ y.dirty = x.dirty
    BY <2>1, <2>2 DEF Block
  <2>4. mb = [S.mem_block EXCEPT ![b] = y]
    BY <1>1, <2>1
  <2> HIDE DEF y
  <2> QED
    BY <1>1, <2>1, <2>3, <2>4
<1>5. pt \in [Pids -> [VPages -> Entry]]
  <2>1. S.page_table \in [Pids -> [VPages -> Entry]]
    BY <1>0, Fields
  <2>2. S.page_table[p][v] \in Entry
    BY <1>1, <2>1
  <2>3. e \in Entry
    BY <2>2 DEF Entry
  <2> HIDE DEF e
  <2> QED
    BY <1>1, <2>1, <2>3
<1> HIDE DEF dl, mb, pt, b
<1>6. T \in PagerState /\ SameStore(S, T) /\ T.mem_block = mb
  BY <1>0, <1>3, <1>4, <1>5, AddPageKeeps DEF PagerState
<1> HIDE DEF T
<1>7. KeepsData(S, T)
  BY <1>4, <1>6 DEF KeepsData
<1>8. KeepsData(T, R)
  BY <1>1, <1>6, ReserveKeeps
<1>9. KeepsData(S, R)
  BY <1>7, <1>8, KeepsTrans
<1>10. KeepsData(S, U)
  <2>1. U.mem_block = R.mem_block /\ U.physmem = R.physmem
        /\ U.swap_file = R.swap_file /\ U.files = R.files
    <3>1. ASSUME NEW W, NEW ptes, W = [R EXCEPT !.page_table = ptes]
          PROVE  W.mem_block = R.mem_block /\ W.physmem = R.physmem
                 /\ W.swap_file = R.swap_file /\ W.files = R.files
      BY <3>1, <1>1, <1>6 DEF ReserveSwap, PagerState
    <3> QED
      BY <3>1 DEF SetEntries
  <2> HIDE DEF U, R
  <2> QED
    BY <1>9, <2>1 DEF KeepsData, SameStore
<1> HIDE DEF R, U
<1>11. KeepsData(S, V)
  BY <1>2, <1>7, <1>9, <1>10
<1> QED
  BY <1>11 DEF V

LEMMA CopyPageData ==
    ASSUME NEW S, Whole(S, {}, {}), Sound(S, {}), NEW p \in Pids, NEW c \in Pids,
           NEW v \in DOMAIN S.data_location[p], Len(S.data_location[c]) + 1 = v,
           S.mem_block[S.data_location[p][v]].is_swap => S.free_swap_blocks # <<>>
    PROVE  /\ SoundStep(S, copy_virtual_page(S, p, c, v), {})
           /\ TableInv(copy_virtual_page(S, p, c, v), {})
<1> DEFINE b == S.data_location[p][v]
           T == copy_virtual_page(S, p, c, v)
<1>1. Len(S.data_location[c]) < num_virt_addr /\ Grown(S, T, c, b) /\ b \in Referenced(S)
  BY CopyPageWhole
<1>2. KeepsData(S, T) /\ TableInv(T, {})
  BY CopyPageKeeps, CopyPageTable DEF Sound
<1>3. b \in Live(S, {})
  <2>1. <<p, v>> \in PagesIn(S) /\ BlockIn(S, <<p, v>>) = b
    BY PagesMeaning DEF Whole
  <2> QED
    BY <2>1 DEF Live
<1> HIDE DEF b, T
<1>4. Shape(T)
  BY <1>1, GrownWhole DEF Whole
<1>5. SoundStep(S, T, {})
  BY <1>1, <1>2, <1>3, <1>4, GrownData
<1> QED
  BY <1>2, <1>5 DEF T

LEMMA CopyLoopData ==
    ASSUME PagerInv, Sound(Pager, {}), NEW p \in alive, NEW c \in Pids \ alive,
           ~(num_swap_blocks[p] > Len(free_swap_blocks))
    PROVE  SoundStep(Pager, Copied(p, c)[Len(data_location[p])], {})
<1> DEFINE N == Len(data_location[p])
           f == Copied(p, c)
           T == {v \in 0 .. N : SoundStep(Pager, f[v], {}) /\ TableInv(f[v], {})}
<1>0. /\ Shape(Pager) /\ Pager.data_location = data_location /\ p \in Pids /\ p # c /\ c \in Pids
      /\ TableInv(Pager, {}) /\ SoundStep(Pager, Pager, {})
  BY SoundStill DEF PagerInv, ProcInv, Whole, Pager, Sound
<1>1. N \in Nat /\ DOMAIN data_location[p] = 1 .. N
  BY <1>0, PagesMeaning
<1>2. f[0] = Pager /\ \A i \in 1 .. N : f[i] = copy_virtual_page(f[i - 1], p, c, i)
  BY <1>1, CopiedDef
<1>3. \A v \in 0 .. N : CopiedSoFar(f[v], p, c, v)
  BY CopyLoop
<1> HIDE DEF f
<1>4. 0 \in T
  <2>1. 0 \in 0 .. N /\ f[0] = Pager
    BY <1>1, <1>2
  <2> QED
    BY <1>0, <2>1
<1>5. ASSUME NEW v \in 0 .. N - 1, v \in T PROVE v + 1 \in T
  <2> DEFINE S == f[v]
             P == Pager
  <2>1. v \in 0 .. N /\ v + 1 \in 1 .. N /\ v + 1 \in 0 .. N /\ (v + 1) - 1 = v
    BY <1>1
  <2>2. f[v + 1] = copy_virtual_page(S, p, c, v + 1) /\ SoundStep(P, S, {}) /\ TableInv(S, {})
    BY <1>2, <1>5, <2>1
  <2> HIDE DEF S, P
  <2>3. CopiedSoFar(S, p, c, v)
    BY <1>3, <2>1 DEF S
  <2>4. /\ Whole(S, {}, {}) /\ S.data_location[p] = data_location[p]
        /\ Len(S.data_location[c]) = v
    BY <1>0, <2>3 DEF CopiedSoFar
  <2>5. v + 1 \in DOMAIN S.data_location[p] /\ Len(S.data_location[c]) + 1 = v + 1
    BY <1>1, <2>1, <2>4
  <2>6. S.mem_block[S.data_location[p][v + 1]].is_swap => S.free_swap_blocks # <<>>
    BY <1>0, <2>3, <2>4, SwapLeft
  <2>7. Sound(S, {})
    BY <2>2, SoundIf
  <2> DEFINE R == copy_virtual_page(S, p, c, v + 1)
  <2>8. SoundStep(S, R, {}) /\ TableInv(R, {})
    BY <1>0, <2>4, <2>5, <2>6, <2>7, CopyPageData
  <2>9. f[v + 1] = R
    BY <2>2
  <2> HIDE DEF R
  <2>10. SoundStep(P, R, {})
    BY <2>2, <2>8, SoundThen
  <2> QED
    BY <2>1, <2>8, <2>9, <2>10 DEF P
<1> HIDE DEF T
<1>6. 0 .. N \subseteq T
  BY <1>1, <1>4, <1>5, UpToInduction
<1>7. N \in 0 .. N
  BY <1>1
<1> QED
  BY <1>6, <1>7 DEF T, f

-----------------------------------------------------------------------------
(* vm_map.                                                                 *)

(* A file block is shown for the first time: nobody sees the file change. *)
NotMapped(S, key) == \A b \in S.file_mapping_table : FileKey(S.mem_block[b]) # key

LEMMA NewFileData ==
    ASSUME NEW S, NEW T, NEW p \in Pids, NEW new \in BlockIds \ Referenced(S), Whole(S, {}, {}),
           Shape(T), Len(S.data_location[p]) < num_virt_addr, NewFile(S, T, p, new),
           SameStore(S, T), Sound(S, {}), TableInv(T, {}),
           NEW key, FileKey(T.mem_block[new]) = key, NotMapped(S, key)
    PROVE  /\ SoundStep(S, T, {}) /\ PagesIn(T) = PagesIn(S) \cup {NextPage(S, p)}
           /\ KindOf(T, NextPage(S, p)) = key
<1> DEFINE pg == NextPage(S, p)
<1>0. /\ Shape(S) /\ Referenced(S) \subseteq BlockIds
      /\ TableInv(S, {}) /\ SwapOwned(S) /\ DataInv(S, {})
  BY ReferencedMeaning DEF Whole, Sound
<1>1. /\ PagesIn(T) = PagesIn(S) \cup {pg}
      /\ \A r \in PagesIn(S) : BlockIn(T, r) = BlockIn(S, r)
      /\ BlockIn(T, pg) = new
  BY <1>0, GrownPages DEF NewFile
<1>2. /\ T.clock_queue = S.clock_queue /\ T.free_swap_blocks = S.free_swap_blocks
      /\ T.file_mapping_table = S.file_mapping_table \cup {new}
      /\ \A c \in BlockIds \ {new} : T.mem_block[c] = S.mem_block[c]
      /\ ~T.mem_block[new].resident /\ ~T.mem_block[new].is_swap
      /\ T.mem_block[new].swap_blocks = <<>>
  BY DEF NewFile
<1> HIDE DEF pg
<1>3. /\ S.file_mapping_table \subseteq Referenced(S) /\ ToSet(S.clock_queue) \subseteq Referenced(S)
      /\ \A r \in PagesIn(S) : BlockIn(S, r) \in Referenced(S)
  BY <1>0, ReferencedMeaning
<1>4. \A c \in Referenced(S) : c # new /\ T.mem_block[c] = S.mem_block[c]
  BY <1>0, <1>2
<1>5. Calm(S, T, Referenced(S))
  BY <1>4 DEF Calm, SameStore
<1>6. SwapOwned(T)
  <2>1. \A c \in Referenced(T) : \/ c = zero_page \/ c \in ToSet(T.clock_queue)
                                 \/ c \in T.file_mapping_table
                                 \/ \E r \in PagesIn(T) : BlockIn(T, r) = c
    BY ReferencedMeaning
  <2>2. \A c \in Referenced(T) : \/ c = zero_page \/ c \in ToSet(S.clock_queue)
                                 \/ c \in S.file_mapping_table
                                 \/ c = new \/ \E r \in PagesIn(S) : BlockIn(S, r) = c
    BY <1>1, <1>2, <2>1
  <2>3. Referenced(T) \subseteq Referenced(S) \cup {new}
    BY <1>0, <2>2, ReferencedMeaning
  <2>4. IsInjective(T.mem_block[new].swap_blocks) /\ Owned(T, new) = {}
    BY <1>2 DEF IsInjective, Owned, ToSet
  <2>5. \A c \in Referenced(S) : T.mem_block[c].swap_blocks = S.mem_block[c].swap_blocks
                                 /\ Owned(T, c) = Owned(S, c)
    BY <1>4 DEF Owned
  <2> QED
    BY <1>0, <1>2, <2>3, <2>4, <2>5 DEF SwapOwned
<1>7. DataInv(T, {})
  <2>1. ASSUME NEW b \in Live(T, {}) \ {zero_page}
        PROVE  BackedUp(T, b)
    <3>1. b = new \/ b \in Live(S, {})
      BY <1>1, <1>2 DEF Live
    <3>2. CASE b = new
      BY <1>2, <3>2 DEF BackedUp
    <3>3. CASE b \in Live(S, {})
      <4>1. b \in Referenced(S) /\ BackedUp(S, b)
        BY <1>0, <1>3, <3>3 DEF Live, DataInv
      <4> QED
        BY <1>4, <4>1 DEF BackedUp, Backing, SameStore
    <3> QED
      BY <3>1, <3>2, <3>3
  <2>2. T.physmem[0] = 0
    BY <1>0 DEF DataInv, SameStore
  <2>3. \A b \in ToSet(T.clock_queue) : T.mem_block[b].is_swap \/ b \in T.file_mapping_table
    BY <1>0, <1>2, <1>3, <1>4 DEF DataInv
  <2> QED
    BY <2>1, <2>2, <2>3 DEF DataInv
<1>8. SameContent(S, T)
  <2>1. ASSUME NEW k \in FileKeys
        PROVE  ContentOf(T, k) = ContentOf(S, k)
    <3>1. CASE k = key
      <4>1. ContentOf(S, k) = S.files[k]
        BY <1>0, <3>1, ContentIs DEF NotMapped
      <4>2. ContentOf(T, k) = DatumOf(T, T.mem_block[new])
        BY <1>2, <3>1, ContentIs
      <4>3. DatumOf(T, T.mem_block[new]) = S.files[k]
        BY <1>2, <3>1 DEF DatumOf, SameStore
      <4> QED
        BY <4>1, <4>2, <4>3
    <3>2. CASE k # key /\ \E b \in S.file_mapping_table : FileKey(S.mem_block[b]) = k
      <4>1. PICK b \in S.file_mapping_table : FileKey(S.mem_block[b]) = k
        BY <3>2
      <4>2. b \in Referenced(S) /\ b \in T.file_mapping_table /\ FileKey(T.mem_block[b]) = k
        BY <1>2, <1>3, <1>4, <4>1
      <4>3. ContentOf(S, k) = DatumOf(S, S.mem_block[b])
        BY <1>0, <4>1, ContentIs
      <4>4. ContentOf(T, k) = DatumOf(T, T.mem_block[b])
        BY <4>2, ContentIs
      <4>5. DatumOf(T, T.mem_block[b]) = DatumOf(S, S.mem_block[b])
        BY <1>5, <4>2, CalmBlock
      <4> QED
        BY <4>3, <4>4, <4>5
    <3>3. CASE k # key /\ \A b \in S.file_mapping_table : FileKey(S.mem_block[b]) # k
      <4>1. \A b \in T.file_mapping_table : FileKey(T.mem_block[b]) # k
        BY <1>2, <1>3, <1>4, <3>3
      <4>2. ContentOf(S, k) = S.files[k]
        BY <1>0, <3>3, ContentIs
      <4>3. ContentOf(T, k) = T.files[k]
        BY <4>1, ContentIs
      <4> QED
        BY <4>2, <4>3 DEF SameStore
    <3> QED
      BY <3>1, <3>2, <3>3
  <2> QED
    BY <2>1 DEF SameContent
<1>9. \A r \in PagesIn(S) : SamePage(S, T, r)
  <2>1. ASSUME NEW r \in PagesIn(S)
        PROVE  SamePage(S, T, r)
    <3> DEFINE b == BlockIn(S, r)
    <3>1. b \in Referenced(S) /\ BlockIn(T, r) = b /\ r \in PagesIn(T)
      BY <1>1, <1>3
    <3> HIDE DEF b
    <3>2. /\ DatumOf(T, T.mem_block[b]) = DatumOf(S, S.mem_block[b])
          /\ FileKey(T.mem_block[b]) = FileKey(S.mem_block[b])
          /\ T.mem_block[b].is_swap = S.mem_block[b].is_swap
      BY <1>5, <3>1, CalmBlock
    <3> QED
      BY <3>1, <3>2 DEF SamePage, KindOf, HeldIn, b
  <2> QED
    BY <2>1
<1>10. KindOf(T, pg) = key
  BY <1>1, <1>2 DEF KindOf
<1> QED
  BY <1>1, <1>6, <1>7, <1>8, <1>9, <1>10 DEF SoundStep, Preserved, pg

(* map_file_block *)
LEMMA MapFileBlockData ==
    ASSUME NEW S, Whole(S, {}, {}), Sound(S, {}), NEW p \in Pids,
           Len(S.data_location[p]) < num_virt_addr, NEW name \in Names, NEW blk \in FileBlocks,
           NEW n, n = Len(S.data_location[p]) + 1, NEW T, T = map_file_block(S, p, n, name, blk),
           {b \in S.file_mapping_table : FileKey(S.mem_block[b]) = <<name, blk>>} = {}
    PROVE  SoundStep(S, T, {}) /\ KindOf(T, <<p, n>>) = <<name, blk>>
<1> DEFINE new == Unused(S)
           key == <<name, blk>>
<1>1. /\ Whole(T, {}, {}) /\ NewFile(S, T, p, new) /\ FileKey(T.mem_block[new]) = key
      /\ new \in BlockIds \ Referenced(S)
  BY MapFileBlock
<1>2. TableInv(T, {})
  BY MapFileBlockTable DEF Sound
<1>3. SameStore(S, T)
  <2> DEFINE y == [NewBlock(blk, FALSE, name, blk) EXCEPT
                     !.resident = FALSE, !.referenced = FALSE, !.ptes = {<<p, n>>}]
             mb == [S.mem_block EXCEPT ![new] = y]
             fmt == S.file_mapping_table \cup {new}
             dl == [S.data_location EXCEPT ![p] = Append(@, new)]
             pt == [S.page_table EXCEPT ![p][n] =
                      [ppage |-> blk, read_enable |-> FALSE, write_enable |-> FALSE]]
  <2>1. T = [S EXCEPT !.mem_block = mb, !.file_mapping_table = fmt,
                      !.data_location = dl, !.page_table = pt]
    BY DEF map_file_block
  <2> HIDE DEF mb, fmt, dl, pt
  <2>2. S \in PagerState
    BY DEF Whole, Shape
  <2> QED
    BY <2>1, <2>2 DEF PagerState, SameStore
<1>4. NotMapped(S, key)
  BY DEF NotMapped
<1>5. Shape(T) /\ NextPage(S, p) = <<p, n>>
  BY <1>1 DEF Whole, NextPage
<1> HIDE DEF key, new
<1>6. SoundStep(S, T, {}) /\ KindOf(T, NextPage(S, p)) = key
  BY <1>1, <1>2, <1>3, <1>4, <1>5, NewFileData
<1> QED
  BY <1>5, <1>6 DEF key

(* update_file_block *)
LEMMA UpdateFileBlockData ==
    ASSUME NEW S, Whole(S, {}, {}), Sound(S, {}), NEW p \in Pids,
           Len(S.data_location[p]) < num_virt_addr,
           NEW n, n = Len(S.data_location[p]) + 1, NEW b \in S.file_mapping_table,
           NEW reference \in S.mem_block[b].ptes \cup {<<p, n>>},
           NEW T, T = update_file_block(S, p, n, b, reference)
    PROVE  SoundStep(S, T, {}) /\ KindOf(T, <<p, n>>) = FileKey(S.mem_block[b])
<1>0. S \in PagerState /\ b \in BlockIds /\ b \in Referenced(S) /\ ~S.mem_block[b].is_swap
      /\ b \in Live(S, {}) /\ NextPage(S, p) = <<p, n>>
  BY ReferencedMeaning DEF Whole, Shape, FilesInv, Live, NextPage
<1>1. Whole(T, {}, {}) /\ Grown(S, T, p, b)
  BY UpdateFileBlock
<1>2. TableInv(T, {}) /\ Shape(T)
  BY <1>1, UpdateFileBlockTable DEF Sound, Whole
<1>3. KeepsData(S, T)
  <2> DEFINE x == S.mem_block[b]
             on == x.resident /\ x.referenced
             old == S.page_table[p][n]
             e == IF x.ptes # {} THEN S.page_table[reference[1]][reference[2]]
                  ELSE [ppage |-> IF x.resident THEN x.location ELSE old.ppage,
                        read_enable |-> on, write_enable |-> on /\ x.dirty]
             mb == [S.mem_block EXCEPT ![b].ptes = @ \cup {<<p, n>>}]
             dl == [S.data_location EXCEPT ![p] = Append(@, b)]
             pt == [S.page_table EXCEPT ![p][n] = e]
  <2>1. n \in VPages
    BY PagesMeaning, Numbers DEF VPages, Whole
  <2>2. T = [S EXCEPT !.mem_block = mb, !.data_location = dl, !.page_table = pt]
    BY <1>0, <2>1, Fields DEF update_file_block
  <2>3. \A c \in BlockIds : mb[c].dirty = S.mem_block[c].dirty
    <3>1. S.mem_block \in [BlockIds -> Block]
      BY <1>0, Fields
    <3> QED
      BY <1>0, <3>1 DEF Block
  <2> HIDE DEF mb, dl, pt
  <2>4. T.mem_block = mb /\ SameStore(S, T)
    BY <1>0, <2>2 DEF PagerState, SameStore
  <2> QED
    BY <2>3, <2>4 DEF KeepsData
<1>4. SoundStep(S, T, {}) /\ KindOf(T, NextPage(S, p)) = FileKey(S.mem_block[b])
  BY <1>0, <1>1, <1>2, <1>3, GrownData
<1> QED
  BY <1>0, <1>4

(* The process p has one more page, of this kind; all others are the same. *)
PageShown(S, N, p, kind) ==
    /\ SoundStep(S, N, {})
    /\ \A r \in Pids : DOMAIN N.data_location[r] =
         IF r = p THEN 1 .. Len(S.data_location[p]) + 1 ELSE DOMAIN S.data_location[r]
    /\ KindOf(N, NextPage(S, p)) = kind
    /\ kind = Private => HeldIn(N, NextPage(S, p)) = 0

(* The end of a vm_map *)
LEMMA PageShownIf ==
    ASSUME NEW S, Shape(S), NEW T, NEW p \in Pids, Len(S.data_location[p]) < num_virt_addr,
           NEW b \in BlockIds, NEW kind, Whole(T, {}, {}), TableInv(T, {}), SoundStep(S, T, {}),
           OnePageMore(S, T, p, b), KindOf(T, NextPage(S, p)) = kind,
           kind = Private => HeldIn(T, NextPage(S, p)) = 0, Becomes(T)
    PROVE  PageShown(S, Pager', p, kind)
<1> DEFINE N == Pager'
           s == S.data_location[p]
<1>1. SwapOwned(T) /\ DataInv(T, {}) /\ Preserved(S, T, {})
  BY DEF SoundStep
<1>2. /\ SwapOwned(N) /\ DataInv(N, {}) /\ Preserved(S, N, {}) /\ Deallocated(T, N)
      /\ SoundStep(T, N, {})
  BY <1>1, BecomesData
<1> HIDE DEF N
<1>3. NextPage(S, p) \in PagesIn(T)
  BY GrownPages
<1>4. /\ KindOf(N, NextPage(S, p)) = KindOf(T, NextPage(S, p))
      /\ HeldIn(N, NextPage(S, p)) = HeldIn(T, NextPage(S, p))
  BY <1>2, <1>3 DEF SoundStep, Preserved, SamePage
<1>5. s \in Seq(BlockIds) /\ S.data_location \in [Pids -> Seq(BlockIds)]
  BY Fields DEF Shape
<1> HIDE DEF s
<1>6. DOMAIN Append(s, b) = 1 .. Len(s) + 1
  BY <1>5
<1>7. N.data_location = [S.data_location EXCEPT ![p] = Append(s, b)]
  BY <1>2 DEF Deallocated, OnePageMore, s
<1>8. \A r \in Pids : DOMAIN N.data_location[r] =
         IF r = p THEN 1 .. Len(s) + 1 ELSE DOMAIN S.data_location[r]
  BY <1>5, <1>6, <1>7
<1>9. SoundStep(S, N, {})
  BY <1>2 DEF SoundStep
<1> QED
  BY <1>4, <1>8, <1>9 DEF PageShown, N, s

(* map_swap_block: the new page shows the page of zeroes. *)
LEMMA MapSwapData ==
    ASSUME PagerInv, Sound(Pager, {}), MapSwap
    PROVE  PageShown(Pager, Pager', curr_pid, Private)
<1> DEFINE S == Pager
           N == Pager'
           p == curr_pid
           n == Len(data_location[p]) + 1
           R == ReserveSwap(S, zero_page)
           e == [ppage |-> 0, read_enable |-> TRUE, write_enable |-> FALSE]
           dl == [R.data_location EXCEPT ![p] = Append(@, zero_page)]
           pt == [R.page_table EXCEPT ![p][n] = e]
           T == [R EXCEPT !.page_table = pt, !.data_location = dl]
<1>0. /\ Whole(S, {}, {}) /\ ProcInv /\ Shape(S) /\ S.data_location = data_location
      /\ S.free_swap_blocks = free_swap_blocks /\ S \in PagerState /\ Pinned(S)
      /\ zero_page \in BlockIds /\ Sound(S, {})
  BY Numbers DEF PagerInv, Whole, Shape, Pager
<1>1. p # NoPid /\ n <= num_virt_addr /\ free_swap_blocks # <<>> /\ Becomes(T)
  BY DEF MapSwap
<1>2. p \in Pids
  BY <1>0, <1>1 DEF ProcInv
<1> HIDE DEF S, N
<1>3. Len(S.data_location[p]) < num_virt_addr /\ n \in VPages /\ n = Len(S.data_location[p]) + 1
  <2>1. PICK k \in Nat : k = Len(data_location[p])
    BY <1>0, <1>2, PagesMeaning
  <2>2. k < num_virt_addr /\ k + 1 \in 1 .. num_virt_addr
    BY <1>1, <2>1, Numbers
  <2> QED
    BY <1>0, <2>1, <2>2 DEF VPages
<1>4. GivenSwap(S, R, zero_page) /\ KeepsData(S, R)
  BY <1>0, <1>1, ReserveEffect, ReserveKeeps
<1> HIDE DEF R, n
<1>5. OnePageMore(S, [data_location |-> dl], p, zero_page)
  BY <1>4 DEF OnePageMore, GivenSwap
<1>6. dl \in [Pids -> Seq(BlockIds)]
  BY <1>0, <1>2, <1>4, Fields DEF GivenSwap
<1>7. pt \in [Pids -> [VPages -> Entry]]
  <2>1. R.page_table \in [Pids -> [VPages -> Entry]]
    BY <1>0, <1>4, Fields DEF GivenSwap
  <2>2. e \in Entry
    BY Numbers DEF Entry
  <2> HIDE DEF e
  <2> QED
    BY <1>2, <1>3, <2>1, <2>2
<1> HIDE DEF dl, pt
<1>8. R \in PagerState
  BY <1>4 DEF GivenSwap
<1>9. /\ T \in PagerState /\ T.data_location = dl /\ T.mem_block = R.mem_block
      /\ T.clock_queue = R.clock_queue /\ T.free_mem_blocks = R.free_mem_blocks
      /\ T.free_swap_blocks = R.free_swap_blocks /\ T.file_mapping_table = R.file_mapping_table
      /\ SameStore(R, T)
  BY <1>6, <1>7, <1>8 DEF PagerState, SameStore
<1> HIDE DEF T
<1>10. OnePageMore(S, T, p, zero_page)
  BY <1>5, <1>9 DEF OnePageMore
<1>11. KeepsData(S, T)
  BY <1>4, <1>9 DEF KeepsData, SameStore
<1>12. S.mem_block[zero_page].is_swap /\ S.mem_block[zero_page].resident
       /\ S.mem_block[zero_page].location = 0
  BY <1>0 DEF Pinned
<1>13. Grown(S, T, p, zero_page)
  BY <1>0, <1>1, <1>4, <1>9, <1>10, <1>12 DEF GivenSwap, Grown
<1>14. zero_page \in Referenced(S)
  BY <1>0, ReferencedMeaning
<1>15. Whole(T, {}, {}) /\ Shape(T)
  BY <1>0, <1>2, <1>3, <1>13, <1>14, GrownWhole DEF Whole
<1>16. TableInv(T, {})
  <2>1. SameFiles(S, T) /\ T.file_mapping_table = S.file_mapping_table
    BY <1>4, <1>9 DEF GivenSwap, Alike, SameFiles, FileKey
  <2> QED
    BY <1>0, <1>2, <1>3, <1>10, <1>12, <2>1, TableGrows DEF Sound
<1>17. /\ SoundStep(S, T, {}) /\ KindOf(T, NextPage(S, p)) = Private
       /\ HeldIn(T, NextPage(S, p)) = DatumOf(S, S.mem_block[zero_page])
  BY <1>0, <1>2, <1>3, <1>11, <1>12, <1>13, <1>14, <1>15, <1>16, GrownData
<1>18. DatumOf(S, S.mem_block[zero_page]) = 0
  BY <1>0, <1>12 DEF DatumOf, Sound, DataInv
<1>19. PageShown(S, N, p, Private)
  BY <1>0, <1>1, <1>2, <1>3, <1>10, <1>15, <1>16, <1>17, <1>18, PageShownIf DEF N
<1> QED
  BY <1>19 DEF S, N

(* Nobody gets or loses a page, and nothing changes. *)
NothingShown(S, N) ==
    /\ SoundStep(S, N, {})
    /\ \A r \in Pids : DOMAIN N.data_location[r] = DOMAIN S.data_location[r]

(* vm_map of a file block: the name was read, and the page shows it. *)
LEMMA MapFileData ==
    ASSUME PagerInv, Sound(Pager, {}), NEW v \in VPages, NEW w \in VPages,
           NEW blk \in FileBlocks, MapFile(v, w, blk)
    PROVE  \/ NothingShown(Pager, Pager')
           \/ /\ NameWasRead(Pager, curr_pid, v, w)
              /\ PageShown(Pager, Pager', curr_pid, <<filename_str(curr_pid, v, w), blk>>)
<1> DEFINE p == curr_pid
           n == Len(data_location[p]) + 1
           name == filename_str(p, v, w)
           P == Pager
           N == Pager'
           S == ReadName(P, p, v, w)
<1>1. /\ p # NoPid /\ n <= num_virt_addr /\ v <= w /\ w <= v + 1
      /\ {v, w} \subseteq DOMAIN data_location[p]
      /\ IF NameWasRead(P, p, v, w) THEN MapNamed(S, p, n, name, blk) ELSE Becomes(S)
  BY DEF MapFile
<1>2. /\ Whole(P, {}, {}) /\ Shape(P) /\ p \in Pids /\ Sound(P, {})
      /\ P.data_location = data_location /\ Len(data_location[p]) \in Nat
  BY <1>1, CurrentProcess
<1>3. NameWasRead(Pager, p, v, w) => name \in Names
  BY <1>1, NameType
<1> HIDE DEF P, N
<1>4. Settled(P, S) /\ TableInv(S, {}) /\ SoundStep(P, S, {})
  BY <1>1, <1>2, ReadNameSettles, ReadNameTable, ReadNameData DEF Sound
<1> HIDE DEF S, name
<1>5. /\ Whole(S, {}, {}) /\ S.data_location = P.data_location /\ Sound(S, {})
  BY <1>2, <1>4, SoundIf DEF Settled
<1>6. Len(P.data_location[p]) < num_virt_addr /\ n = Len(P.data_location[p]) + 1
  <2>1. PICK k \in Nat : k = Len(data_location[p])
    BY <1>2
  <2>2. k < num_virt_addr
    BY <1>1, <2>1, Numbers
  <2> QED
    BY <1>2, <2>1, <2>2
<1> HIDE DEF n
<1>7. CASE ~NameWasRead(P, p, v, w)
  <2>1. SwapOwned(S) /\ DataInv(S, {}) /\ Preserved(P, S, {}) /\ Becomes(S)
    BY <1>1, <1>4, <1>7 DEF SoundStep
  <2>2. SwapOwned(N) /\ DataInv(N, {}) /\ Preserved(P, N, {}) /\ Deallocated(S, N)
    BY <1>4, <1>5, <2>1, BecomesData DEF N
  <2>3. NothingShown(P, N)
    BY <1>5, <2>2 DEF NothingShown, SoundStep, Deallocated
  <2> QED
    BY <2>3 DEF P, N
<1>8. CASE NameWasRead(P, p, v, w)
  <2> DEFINE key == <<name, blk>>
  <2>0. name \in Names
    BY <1>3, <1>8 DEF P
  <2>1. MapNamed(S, p, n, name, blk)
    BY <1>1, <1>8
  <2>2. key # Private
    BY <2>0, PagerAssumption DEF FileKeys
  <2>3. NextPage(P, p) = <<p, n>> /\ NextPage(S, p) = <<p, n>>
    BY <1>5, <1>6 DEF NextPage
  <2>4. CASE /\ {b \in S.file_mapping_table : FileKey(S.mem_block[b]) = key} = {}
             /\ Becomes(map_file_block(S, p, n, name, blk))
    <3> DEFINE T == map_file_block(S, p, n, name, blk)
               new == Unused(S)
    <3>1. Whole(T, {}, {}) /\ NewFile(S, T, p, new) /\ new \in BlockIds
      BY <1>2, <2>0, <1>5, <1>6, MapFileBlock
    <3>2. /\ T = map_file_block(S, p, n, name, blk) /\ Becomes(T) /\ p \in Pids
          /\ {b \in S.file_mapping_table : FileKey(S.mem_block[b]) = <<name, blk>>} = {}
          /\ Whole(S, {}, {}) /\ TableInv(S, {}) /\ Sound(S, {})
          /\ Len(S.data_location[p]) < num_virt_addr /\ n = Len(S.data_location[p]) + 1
      BY <1>2, <1>4, <1>5, <1>6, <2>4
    <3> HIDE DEF T, p, new
    <3>3. TableInv(T, {})
      BY <3>2, MapFileBlockTable
    <3>4. SoundStep(S, T, {}) /\ KindOf(T, <<p, n>>) = <<name, blk>>
      BY <2>0, <3>2, MapFileBlockData
    <3> HIDE DEF key
    <3>5. SoundStep(P, T, {}) /\ OnePageMore(P, T, p, new) /\ KindOf(T, NextPage(P, p)) = key
      <4>1. SoundStep(P, T, {})
        BY <1>4, <3>4, SoundThen
      <4>2. OnePageMore(P, T, p, new)
        BY <1>5, <3>1 DEF NewFile, OnePageMore
      <4> QED
        BY <2>3, <3>4, <4>1, <4>2 DEF key
    <3>6. PageShown(P, N, p, key)
      BY <1>2, <1>6, <2>2, <3>1, <3>2, <3>3, <3>5, PageShownIf DEF N
    <3> QED
      BY <1>8, <3>6 DEF P, N, p, key, name
  <2>5. ASSUME NEW b \in S.file_mapping_table, NEW reference \in S.mem_block[b].ptes \cup {<<p, n>>},
               FileKey(S.mem_block[b]) = key, Becomes(update_file_block(S, p, n, b, reference))
        PROVE  PageShown(Pager, Pager', curr_pid, <<filename_str(curr_pid, v, w), blk>>)
    <3> DEFINE T == update_file_block(S, p, n, b, reference)
    <3> HIDE DEF key
    <3>1. Len(S.data_location[p]) < num_virt_addr /\ n = Len(S.data_location[p]) + 1
      BY <1>5, <1>6
    <3>2. Whole(T, {}, {}) /\ Grown(S, T, p, b)
      BY <1>2, <1>5, <3>1, UpdateFileBlock
    <3>3. TableInv(T, {})
      BY <1>2, <1>4, <1>5, <3>1, UpdateFileBlockTable
    <3>4. SoundStep(S, T, {}) /\ KindOf(T, <<p, n>>) = FileKey(S.mem_block[b])
      BY <1>2, <1>5, <3>1, UpdateFileBlockData
    <3> HIDE DEF T
    <3>5. Becomes(T) /\ b \in BlockIds
      BY <1>5, <2>5, Fields DEF T, Whole, Shape
    <3>6. SoundStep(P, T, {}) /\ OnePageMore(P, T, p, b) /\ KindOf(T, NextPage(P, p)) = key
      <4>1. SoundStep(P, T, {})
        BY <1>4, <3>4, SoundThen
      <4>2. OnePageMore(P, T, p, b)
        BY <1>5, <3>2 DEF Grown, OnePageMore
      <4> QED
        BY <2>3, <2>5, <3>4, <4>1, <4>2
    <3>7. PageShown(P, N, p, key)
      BY <1>2, <1>6, <2>2, <3>2, <3>3, <3>5, <3>6, PageShownIf DEF N
    <3> QED
      BY <3>7 DEF P, N, key, name
  <2> QED
    BY <1>8, <2>1, <2>4, <2>5 DEF MapNamed, P
<1> QED
  BY <1>7, <1>8

-----------------------------------------------------------------------------
(* vm_create.                                                              *)

(* The process c has the pages of p. *)
PagesCopied(S, N, p, c) ==
    /\ SoundStep(S, N, {})
    /\ \A r \in Pids : DOMAIN N.data_location[r] = DOMAIN S.data_location[IF r = c THEN p ELSE r]
    /\ \A v \in DOMAIN S.data_location[p] : /\ KindOf(N, <<c, v>>) = KindOf(N, <<p, v>>)
                                            /\ HeldIn(N, <<c, v>>) = HeldIn(N, <<p, v>>)

LEMMA ForkData ==
    ASSUME PagerInv, Sound(Pager, {}), NEW p \in alive, NEW c \in Pids \ alive,
           ~(num_swap_blocks[p] > Len(free_swap_blocks)),
           Becomes(Copied(p, c)[Len(data_location[p])])
    PROVE  PagesCopied(Pager, Pager', p, c)
<1> DEFINE n == Len(data_location[p])
           T == Copied(p, c)[n]
           P == Pager
           N == Pager'
<1>0. /\ Shape(P) /\ P.data_location = data_location /\ p \in Pids /\ p # c /\ c \in Pids
  BY DEF PagerInv, ProcInv, Whole, Pager
<1>1. n \in Nat /\ DOMAIN data_location[p] = 1 .. n
  BY <1>0, PagesMeaning
<1>2. CopiedSoFar(T, p, c, n)
  BY CopyLoop
<1>3. SoundStep(P, T, {}) /\ TableInv(T, {})
  BY CopyLoopData, CopyLoopTable DEF Sound
<1>4. Becomes(T)
  OBVIOUS
<1> HIDE DEF T, P, N
<1>5. /\ Whole(T, {}, {}) /\ Shape(T) /\ Len(T.data_location[c]) = n
      /\ \A r \in Pids \ {c} : T.data_location[r] = data_location[r]
      /\ \A i \in 1 .. n : T.data_location[c][i] = data_location[p][i]
  BY <1>2 DEF CopiedSoFar, Whole
<1>6. SwapOwned(T) /\ DataInv(T, {}) /\ Preserved(P, T, {})
  BY <1>3 DEF SoundStep
<1>7. SwapOwned(N) /\ DataInv(N, {}) /\ Preserved(P, N, {}) /\ Deallocated(T, N)
  BY <1>3, <1>4, <1>5, <1>6, BecomesData DEF N
<1>8. N.data_location = T.data_location
  BY <1>7 DEF Deallocated
<1>9. DOMAIN T.data_location[c] = 1 .. n
  BY <1>0, <1>5, PagesMeaning
<1>10. \A r \in Pids : DOMAIN N.data_location[r] = DOMAIN P.data_location[IF r = c THEN p ELSE r]
  BY <1>0, <1>1, <1>5, <1>8, <1>9
<1>11. \A v \in DOMAIN P.data_location[p] : BlockIn(N, <<c, v>>) = BlockIn(N, <<p, v>>)
  BY <1>0, <1>1, <1>5, <1>8 DEF BlockIn
<1>12. PagesCopied(P, N, p, c)
  BY <1>7, <1>10, <1>11 DEF PagesCopied, SoundStep, KindOf, HeldIn
<1> QED
  BY <1>12 DEF P, N

-----------------------------------------------------------------------------
(* vm_destroy.                                                             *)

(* What the body of the loop leaves alone *)
LEMMA EraseKeeps ==
    ASSUME NEW S, S \in PagerState, NEW b \in BlockIds, NEW p, NEW v
    PROVE  KeepsData(S, ErasePte(S, b, p, v))
<1>1. Still(S, ErasePte(S, b, p, v))
  BY EraseStill
<1> QED
  BY <1>1 DEF Still, Calm, KeepsData, SameStore

LEMMA FreeSwapKeeps ==
    ASSUME NEW S, S \in PagerState, NEW b \in BlockIds
    PROVE  KeepsData(S, FreeSwap(S, b))
<1> DEFINE mb == [S.mem_block EXCEPT ![b].swap_blocks = Front(@)]
           free == Append(S.free_swap_blocks, Last(S.mem_block[b].swap_blocks))
           T == FreeSwap(S, b)
<1>1. T = [S EXCEPT !.free_swap_blocks = free, !.mem_block = mb]
  BY DEF FreeSwap, PagerState
<1>2. LikeBlocks(S, T)
  BY FreeSwapEntries
<1> HIDE DEF mb, free, T
<1>3. SameStore(S, T)
  BY <1>1 DEF SameStore, PagerState
<1> QED
  BY <1>2, <1>3 DEF KeepsData, LikeBlocks, T

LEMMA DestroyPageKeeps ==
    ASSUME NEW S, Shape(S), NEW p \in Pids, NEW v \in DOMAIN S.data_location[p],
           S.mem_block[S.data_location[p][v]].is_swap =>
             S.mem_block[S.data_location[p][v]].swap_blocks # <<>>
    PROVE  KeepsData(S, DestroyPage(S, p, v))
<1> DEFINE b == S.data_location[p][v]
           E == ErasePte(S, b, p, v)
           x == E.mem_block[b]
           F == FreeSwap(E, b)
           U == update_block_permissions(F, b)
           T == DestroyPage(S, p, v)
           fmt == IF Forgotten(x) THEN E.file_mapping_table \ {b} ELSE E.file_mapping_table
           free == IF x.ptes = {} THEN Append(U.free_mem_blocks, x.location) ELSE U.free_mem_blocks
<1>0. S \in PagerState
  BY DEF Shape
<1>1. b \in BlockIds
  <2>1. <<p, v>> \in PagesIn(S) /\ BlockIn(S, <<p, v>>) = b
    BY PagesMeaning
  <2> QED
    BY <2>1, PagesType
<1> HIDE DEF b
<1>2. E \in PagerState /\ Erased(S, E, b, <<p, v>>) /\ KeepsData(S, E)
  <2>1. Erased(S, E, b, <<p, v>>)
    BY <1>0, <1>1, EraseEffect
  <2>2. KeepsData(S, E)
    BY <1>0, <1>1, EraseKeeps
  <2> QED
    BY <2>1, <2>2 DEF Erased
<1> USE DEF b
<1>3. T = IF ~x.is_swap THEN [E EXCEPT !.file_mapping_table = fmt]
          ELSE IF ~x.resident \/ b = zero_page THEN F
          ELSE [U EXCEPT !.free_mem_blocks = free]
  BY DEF DestroyPage
<1> HIDE DEF E, b, fmt, free, T
<1>4. x.is_swap => E.mem_block[b].swap_blocks # <<>>
  BY <1>1, <1>2 DEF Erased, b
<1>5. CASE ~x.is_swap
  <2>1. T = [E EXCEPT !.file_mapping_table = fmt]
    BY <1>3, <1>5
  <2>2. SameStore(E, T) /\ T.mem_block = E.mem_block
    BY <1>2, <2>1 DEF SameStore, PagerState
  <2> QED
    BY <1>2, <2>2, KeepsTrans DEF KeepsData, T
<1>6. CASE x.is_swap
  <2>1. F \in PagerState /\ KeepsData(E, F)
    BY <1>1, <1>2, <1>4, <1>6, FreeSwapState, FreeSwapKeeps
  <2> HIDE DEF F
  <2>2. KeepsData(S, F)
    BY <1>2, <2>1, KeepsTrans
  <2>3. Repainted(F, U)
    BY <1>1, <2>1, UpdatePermissions
  <2> HIDE DEF U
  <2>4. KeepsData(S, U) /\ U \in PagerState
    BY <2>2, <2>3 DEF Repainted, KeepsData, SameStore
  <2> DEFINE W == [U EXCEPT !.free_mem_blocks = free]
  <2>5. KeepsData(U, W)
    BY <2>4 DEF KeepsData, SameStore, PagerState
  <2>6. T = F \/ T = W
    BY <1>3, <1>6
  <2> HIDE DEF W
  <2>7. KeepsData(S, T)
    BY <2>2, <2>4, <2>5, <2>6, KeepsTrans
  <2> QED
    BY <2>7 DEF T
<1> QED
  BY <1>5, <1>6

(* A page leaves its block. *)
LEMMA PageGoneData ==
    ASSUME NEW S, NEW T, NEW gone, NEW less, NEW pg \in PagesIn(S), pg \notin gone,
           less = gone \cup {pg}, NEW b, BlockIn(S, pg) = b,
           Shape(S), SwapInv(S, gone), Sound(S, gone),
           Shape(T), FilesInv(T), SwapInv(T, less), TableInv(T, less),
           \A c \in ToSet(S.clock_queue) : S.mem_block[c].resident,
           PageGone(S, T, b, pg), KeepsData(S, T)
    PROVE  SoundStep(S, T, less)
<1>0. TableInv(S, gone) /\ SwapOwned(S) /\ DataInv(S, gone)
  BY DEF Sound
<1>1. /\ T.clock_queue = S.clock_queue /\ T.data_location = S.data_location
      /\ \A c \in BlockIds \ {b} : Alike(S.mem_block[c], T.mem_block[c])
      /\ T.mem_block[b].resident = S.mem_block[b].resident
      /\ T.mem_block[b].is_swap = S.mem_block[b].is_swap
      /\ T.mem_block[b].location = S.mem_block[b].location
      /\ T.mem_block[b].filename = S.mem_block[b].filename
      /\ T.mem_block[b].block_num = S.mem_block[b].block_num
      /\ T.file_mapping_table \subseteq S.file_mapping_table
      /\ \A c \in S.file_mapping_table \ T.file_mapping_table :
           ~S.mem_block[c].is_swap /\ ~S.mem_block[c].resident
      /\ S.mem_block[b].is_swap =>
           /\ T.free_swap_blocks = Append(S.free_swap_blocks, Last(S.mem_block[b].swap_blocks))
           /\ T.mem_block[b].swap_blocks = Front(S.mem_block[b].swap_blocks)
      /\ ~S.mem_block[b].is_swap => /\ T.free_swap_blocks = S.free_swap_blocks
                                    /\ T.mem_block[b].swap_blocks = S.mem_block[b].swap_blocks
  BY DEF PageGone
<1>2. PagesIn(T) = PagesIn(S) /\ \A r : BlockIn(T, r) = BlockIn(S, r)
  BY <1>1, SamePages
<1>3. /\ b \in Referenced(S) /\ b \in BlockIds /\ Referenced(S) \subseteq BlockIds
      /\ S.file_mapping_table \subseteq BlockIds /\ ToSet(S.clock_queue) \subseteq BlockIds
  BY ReferencedMeaning
<1>4. Calm(S, T, BlockIds)
  <2>1. \A c \in BlockIds \ {b} : /\ T.mem_block[c].resident = S.mem_block[c].resident
                                  /\ T.mem_block[c].location = S.mem_block[c].location
                                  /\ T.mem_block[c].is_swap = S.mem_block[c].is_swap
                                  /\ T.mem_block[c].filename = S.mem_block[c].filename
                                  /\ T.mem_block[c].block_num = S.mem_block[c].block_num
    BY <1>1 DEF Alike
  <2> QED
    BY <1>1, <2>1 DEF Calm, KeepsData, SameStore
<1>5. Referenced(T) \subseteq Referenced(S)
  <2>1. \A c \in Referenced(T) : \/ c = zero_page \/ c \in ToSet(T.clock_queue)
                                 \/ c \in T.file_mapping_table
                                 \/ \E r \in PagesIn(T) : BlockIn(T, r) = c
    BY ReferencedMeaning
  <2>2. \A c \in Referenced(T) : \/ c = zero_page \/ c \in ToSet(S.clock_queue)
                                 \/ c \in S.file_mapping_table
                                 \/ \E r \in PagesIn(S) : BlockIn(S, r) = c
    BY <1>1, <1>2, <2>1
  <2> QED
    BY <2>2, ReferencedMeaning
<1>6. \A c \in Referenced(S) \ {b} : T.mem_block[c].swap_blocks = S.mem_block[c].swap_blocks
  BY <1>1, <1>3 DEF Alike
<1>7. S.mem_block[b].is_swap => S.mem_block[b].swap_blocks # <<>>
  BY <1>3, LiveHome
<1>8. SwapOwned(T)
  <2>1. CASE S.mem_block[b].is_swap
    BY <1>0, <1>1, <1>3, <1>5, <1>6, <1>7, <2>1, GiveOwned
  <2>2. CASE ~S.mem_block[b].is_swap
    <3>1. \A c \in Referenced(T) : T.mem_block[c].swap_blocks = S.mem_block[c].swap_blocks
      BY <1>1, <1>5, <1>6, <2>2
    <3> QED
      BY <1>0, <1>1, <1>5, <2>2, <3>1, SameOwned
  <2> QED
    BY <2>1, <2>2
<1>9. Live(T, less) \subseteq Live(S, gone) /\ Live(T, less) \subseteq Referenced(T)
  <2>1. Live(T, less) \subseteq Live(S, gone)
    BY <1>1, <1>2 DEF Live
  <2> QED
    BY <2>1, ReferencedMeaning DEF Live
<1>10. ASSUME NEW c \in Live(T, less) \ {zero_page}, S.mem_block[c].is_swap
       PROVE  Head(T.mem_block[c].swap_blocks) = Head(S.mem_block[c].swap_blocks)
  <2>1. c \in Referenced(S)
    BY <1>5, <1>9
  <2>2. CASE c = b
    <3> DEFINE s == S.mem_block[b].swap_blocks
    <3>1. s \in Seq(SwapBlocks)
      BY <1>3, SwapSeq
    <3>2. T.mem_block[b].swap_blocks # <<>>
      BY <1>1, <1>10, <2>2, LiveBlocks
    <3>3. s # <<>> /\ T.mem_block[b].swap_blocks = Front(s)
      BY <1>1, <1>7, <1>10, <2>2
    <3> HIDE DEF s
    <3>4. Head(Front(s)) = Head(s)
      BY <3>1, <3>2, <3>3, FrontHead
    <3> QED
      BY <2>2, <3>3, <3>4 DEF s
  <2>3. CASE c # b
    BY <1>6, <2>1, <2>3
  <2> QED
    BY <2>2, <2>3
<1>11. DataInv(T, less)
  <2>1. Live(T, less) \subseteq BlockIds
    BY <1>3, <1>5, <1>9
  <2>2. \A c \in ToSet(T.clock_queue) :
          /\ c \in ToSet(S.clock_queue) /\ c \in BlockIds
          /\ c \in S.file_mapping_table => c \in T.file_mapping_table
    BY <1>1, <1>3
  <2> QED
    BY <1>0, <1>4, <1>9, <1>10, <2>1, <2>2, CalmData
<1>12. Preserved(S, T, less)
  <2>1. \A r \in PagesIn(S) \ less : r \in PagesIn(T) /\ BlockIn(T, r) = BlockIn(S, r)
                                     /\ BlockIn(S, r) \in BlockIds
    BY <1>2, PagesType
  <2> QED
    BY <1>0, <1>1, <1>3, <1>4, <2>1, CalmPreserved
<1> QED
  BY <1>8, <1>11, <1>12 DEF SoundStep

LEMMA DestroyLoopData ==
    ASSUME Whole(Pager, {}, {}), Sound(Pager, {}), NEW p \in Pids
    PROVE  LET n == Len(data_location[p])
           IN  /\ SoundStep(Pager, Destroyed(p)[n], FirstPages(p, n))
               /\ TableInv(Destroyed(p)[n], FirstPages(p, n))
<1> DEFINE N == Len(data_location[p])
           f == Destroyed(p)
           P == Pager
           Q(v) == SoundStep(P, f[v], FirstPages(p, v)) /\ TableInv(f[v], FirstPages(p, v))
           I == {v \in 0 .. N : Q(v)}
<1>0. /\ Shape(P) /\ P.data_location = data_location /\ TableInv(P, {}) /\ Sound(P, {})
      /\ \A c \in ToSet(P.clock_queue) : P.mem_block[c].resident
  <2>1. Shape(P) /\ P.data_location = data_location /\ TableInv(P, {}) /\ Sound(P, {})
    BY DEF Whole, Pager, Sound
  <2>2. \A c \in ToSet(P.clock_queue) : c \in Referenced(P) \ {zero_page}
    BY <2>1, ReferencedMeaning DEF Whole, Pinned
  <2> QED
    BY <2>1, <2>2 DEF Whole, ResidentInv
<1>1. N \in Nat /\ DOMAIN data_location[p] = 1 .. N
  BY <1>0, PagesMeaning
<1>2. f[0] = P /\ \A i \in 1 .. N : f[i] = DestroyPage(f[i - 1], p, i)
  BY <1>1, DestroyedDef
<1>3. \A v \in 0 .. N : Half(P, f[v], FirstPages(p, v))
  BY DestroyLoop
<1> HIDE DEF f, P
<1>4. 0 \in I
  <2>1. FirstPages(p, 0) = {}
    BY DEF FirstPages
  <2>2. f[0] = P
    BY <1>2
  <2>3. Q(0)
    BY <1>0, <2>1, <2>2, SoundStill
  <2>4. 0 \in 0 .. N
    BY <1>1
  <2> QED
    BY <2>3, <2>4
<1>5. ASSUME NEW v \in 0 .. N - 1, v \in I PROVE v + 1 \in I
  <2> DEFINE S == f[v]
             R == f[v + 1]
             pg == <<p, v + 1>>
             gone == FirstPages(p, v)
             less == FirstPages(p, v + 1)
             b == S.data_location[p][v + 1]
  <2>1. /\ v \in 0 .. N /\ v + 1 \in 1 .. N /\ (v + 1) - 1 = v /\ v + 1 \in 0 .. N
        /\ v \in Nat
    BY <1>1
  <2>2. R = DestroyPage(S, p, v + 1)
    BY <1>2, <2>1
  <2>3. Half(P, S, gone) /\ Half(P, R, less) /\ SoundStep(P, S, gone) /\ TableInv(S, gone)
    BY <1>3, <1>5, <2>1
  <2>4. gone \subseteq less /\ pg \notin gone /\ less = gone \cup {pg}
    <3>1. 1 .. v + 1 = (1 .. v) \cup {v + 1} /\ v + 1 \notin 1 .. v
      BY <2>1
    <3> QED
      BY <3>1 DEF FirstPages
  <2> HIDE DEF S, R, gone, less
  <2>5. /\ Shape(S) /\ S.data_location = data_location /\ SwapInv(S, gone) /\ FilesInv(S)
        /\ Shape(R) /\ PtesInv(R, less) /\ R.data_location = data_location
        /\ FilesInv(R) /\ SwapInv(R, less)
        /\ Pinned(S) /\ Referenced(R) = Referenced(S)
        /\ S.clock_queue = P.clock_queue
    BY <1>0, <2>3 DEF Half
  <2>6. v + 1 \in DOMAIN S.data_location[p]
    BY <1>1, <2>1, <2>5
  <2>7. pg \in PagesIn(S) /\ BlockIn(S, pg) = b
    BY <2>5, <2>6, PagesMeaning
  <2>8. b \in Referenced(S) /\ S.file_mapping_table \subseteq Referenced(S)
    BY <2>5, <2>7, ReferencedMeaning
  <2>9. S.mem_block[b].is_swap => S.mem_block[b].swap_blocks # <<>>
    BY <2>4, <2>5, <2>7, <2>8, LiveHome
  <2>10. PageGone(S, R, b, pg)
    BY <2>2, <2>5, <2>6, <2>9, PageGoneEffect
  <2>11. KeepsData(S, R)
    BY <2>2, <2>5, <2>6, <2>9, DestroyPageKeeps
  <2> HIDE DEF b, pg
  <2>12. SameFiles(S, R)
    BY <2>10 DEF PageGone, Alike, SameFiles, FileKey
  <2>13. ASSUME NEW c \in S.file_mapping_table \ R.file_mapping_table
         PROVE  Showing(S, less, c) = {}
    <3>1. c = b /\ R.mem_block[c].ptes = {}
      BY <2>10 DEF PageGone
    <3>2. c \in Referenced(R) /\ c # zero_page
      BY <2>5, <2>8 DEF FilesInv, Pinned
    <3>3. Showing(R, less, c) = {}
      BY <2>5, <3>1, <3>2 DEF PtesInv
    <3>4. \A gone_, d : Showing(R, gone_, d) = Showing(S, gone_, d)
      BY <2>5, SamePages
    <3> QED
      BY <3>3, <3>4
  <2>14. R.file_mapping_table \subseteq S.file_mapping_table
    BY <2>10 DEF PageGone
  <2>15. TableInv(R, less)
    BY <2>3, <2>4, <2>5, <2>12, <2>13, <2>14, TableShrinks
  <2>16. \A c \in ToSet(S.clock_queue) : S.mem_block[c].resident
    <3>1. \A c \in ToSet(S.clock_queue) : c \in BlockIds
      BY <2>5, ReferencedMeaning
    <3>2. \A c \in BlockIds : S.mem_block[c].resident = P.mem_block[c].resident
      BY <2>3 DEF Half
    <3> QED
      BY <1>0, <2>5, <3>1, <3>2
  <2>17. SoundStep(S, R, less)
    <3>1. Sound(S, gone)
      BY <2>3, SoundIf
    <3> QED
      BY <2>4, <2>5, <2>7, <2>10, <2>11, <2>15, <2>16, <3>1, PageGoneData
  <2>18. SoundStep(P, R, less)
    BY <2>3, <2>4, <2>17, SoundThen
  <2>19. Q(v + 1)
    BY <2>15, <2>18 DEF R, less
  <2> QED
    BY <2>1, <2>19
<1> HIDE DEF I
<1>6. 0 .. N \subseteq I
  BY <1>1, <1>4, <1>5, UpToInduction
<1>7. N \in 0 .. N
  BY <1>1
<1> QED
  BY <1>6, <1>7 DEF I, f, P

(* The pages that are left after vm_destroy show what they did. *)
LEMMA ArenaGoneData ==
    ASSUME NEW D, NEW T, NEW p \in Pids, NEW gone, Shape(D), Shape(T), SwapInv(D, gone),
           gone = {pg \in PagesIn(D) : pg[1] = p}, Sound(D, gone), TableInv(T, {}),
           ArenaGone(D, T, p, gone), SameStore(D, T)
    PROVE  /\ SwapOwned(T) /\ DataInv(T, {}) /\ Preserved(D, T, gone)
           /\ PagesIn(T) = PagesIn(D) \ gone
<1>0. TableInv(D, gone) /\ SwapOwned(D) /\ DataInv(D, gone)
  BY DEF Sound
<1>1. D.data_location \in [Pids -> Seq(BlockIds)]
  BY Fields DEF Shape
<1>2. /\ T.data_location = [D.data_location EXCEPT ![p] = <<>>] /\ T.mem_block = D.mem_block
      /\ T.file_mapping_table = D.file_mapping_table
      /\ T.free_swap_blocks = D.free_swap_blocks
      /\ ToSet(T.clock_queue) \subseteq ToSet(D.clock_queue)
  BY DEF ArenaGone
<1>3. T.data_location[p] = <<>> /\ \A q \in Pids \ {p} : T.data_location[q] = D.data_location[q]
  BY <1>1, <1>2
<1>4. PagesIn(T) = PagesIn(D) \ gone
  <2>1. DOMAIN <<>> = {}
    OBVIOUS
  <2> QED
    BY <1>3, <2>1 DEF PagesIn
<1>5. \A r \in PagesIn(T) : BlockIn(T, r) = BlockIn(D, r)
  <2>1. ASSUME NEW r \in PagesIn(T) PROVE r[1] \in Pids \ {p}
    BY <1>4 DEF PagesIn
  <2> QED
    BY <1>3, <2>1 DEF BlockIn
<1>6. Calm(D, T, BlockIds)
  BY <1>2 DEF Calm, SameStore
<1>7. Live(T, {}) = Live(D, gone)
  BY <1>2, <1>4, <1>5 DEF Live
<1>8. /\ Live(T, {}) \subseteq BlockIds /\ ToSet(D.clock_queue) \subseteq BlockIds
      /\ D.file_mapping_table \subseteq BlockIds
      /\ \A r \in PagesIn(D) : BlockIn(D, r) \in BlockIds
  <2>1. /\ ToSet(D.clock_queue) \subseteq BlockIds /\ D.file_mapping_table \subseteq BlockIds
        /\ \A r \in PagesIn(D) : BlockIn(D, r) \in BlockIds
    BY ReferencedMeaning
  <2> QED
    BY <1>7, <2>1 DEF Live
<1>9. DataInv(T, {})
  BY <1>0, <1>2, <1>6, <1>7, <1>8, CalmData
<1>10. Preserved(D, T, gone)
  BY <1>0, <1>2, <1>4, <1>5, <1>6, <1>8, CalmPreserved
<1>11. Referenced(T) \subseteq Referenced(D)
  <2>1. \A c \in Referenced(T) : \/ c = zero_page \/ c \in ToSet(T.clock_queue)
                                 \/ c \in T.file_mapping_table
                                 \/ \E r \in PagesIn(T) : BlockIn(T, r) = c
    BY ReferencedMeaning
  <2>2. \A c \in Referenced(T) : \/ c = zero_page \/ c \in ToSet(D.clock_queue)
                                 \/ c \in D.file_mapping_table
                                 \/ \E r \in PagesIn(D) : BlockIn(D, r) = c
    BY <1>2, <1>4, <1>5, <2>1
  <2> QED
    BY <2>2, ReferencedMeaning
<1>12. SwapOwned(T)
  BY <1>0, <1>2, <1>11, SameOwned
<1> QED
  BY <1>4, <1>9, <1>10, <1>12

(* The process p has no pages any more. *)
PagesLost(S, N, p) ==
    /\ SwapOwned(N) /\ DataInv(N, {}) /\ Preserved(S, N, {pg \in PagesIn(S) : pg[1] = p})
    /\ N.data_location = [S.data_location EXCEPT ![p] = <<>>]

LEMMA DestroyData ==
    ASSUME PagerInv, Sound(Pager, {}), Destroy
    PROVE  PagesLost(Pager, Pager', curr_pid)
<1> DEFINE p == curr_pid
           n == Len(data_location[p])
           D == Destroyed(p)[n]
           useless == ToSet(D.free_mem_blocks) \ ToSet(free_mem_blocks)
           gone == FirstPages(p, n)
           C == inspect_clock_queue(D, useless)
           T == [C EXCEPT !.data_location[p] = <<>>, !.page_table[p] = [v \in VPages |-> NoEntry]]
           P == Pager
           N == Pager'
<1>0. /\ Whole(P, {}, {}) /\ ProcInv /\ Shape(P) /\ P.data_location = data_location
      /\ P.free_mem_blocks = free_mem_blocks
  BY DEF PagerInv, Whole, Pager
<1>1. p # NoPid /\ Becomes(T)
  BY DEF Destroy
<1>2. p \in Pids
  BY <1>0, <1>1 DEF ProcInv
<1>3. Half(P, D, gone) /\ TableInv(D, gone) /\ SoundStep(P, D, gone)
  BY <1>0, <1>2, DestroyLoop, DestroyLoopData
<1> HIDE DEF D, P, N
<1>4. D.data_location = data_location /\ Shape(D) /\ SwapInv(D, gone)
  BY <1>0, <1>3 DEF Half
<1>5. gone = {pg \in PagesIn(D) : pg[1] = p}
  <2>1. DOMAIN data_location[p] = 1 .. n /\ DOMAIN data_location[p] \subseteq VPages
    BY <1>0, <1>2, PagesMeaning
  <2> QED
    BY <1>2, <1>4, <2>1 DEF FirstPages, PagesIn
<1>6. ArenaGone(D, T, p, gone)
  <2> HIDE DEF gone, T
  <2>1. useless = ToSet(D.free_mem_blocks) \ ToSet(P.free_mem_blocks)
    BY <1>0
  <2> QED
    BY <1>0, <1>2, <1>3, <2>1, InspectEffect DEF T
<1>7. SameStore(D, T)
  <2>1. D \in PagerState
    BY <1>4 DEF Shape
  <2>2. /\ C.physmem = D.physmem /\ C.swap_file = D.swap_file /\ C.files = D.files
    BY <2>1 DEF inspect_clock_queue, PagerState
  <2>3. /\ T.physmem = C.physmem /\ T.swap_file = C.swap_file /\ T.files = C.files
    BY <2>1 DEF inspect_clock_queue, PagerState
  <2> QED
    BY <2>2, <2>3 DEF SameStore
<1> HIDE DEF gone, T
<1>8. TableInv(T, {}) /\ T \in PagerState
  BY <1>2, <1>3, <1>4, <1>5, <1>6, ArenaGoneTable DEF ArenaGone
<1>9. Whole(T, {}, {}) /\ Shape(T)
  BY <1>0, <1>2, <1>3, <1>5, <1>6, ArenaGoneWhole DEF Whole
<1>10. /\ SwapOwned(T) /\ DataInv(T, {}) /\ Preserved(D, T, gone)
  <2>1. Sound(D, gone)
    BY <1>3, SoundIf
  <2> QED
    BY <1>2, <1>4, <1>5, <1>6, <1>7, <1>8, <1>9, <2>1, ArenaGoneData
<1>11. Preserved(P, T, gone)
  BY <1>3, <1>10, PreservedTrans DEF SoundStep
<1>12. /\ SwapOwned(N) /\ DataInv(N, {}) /\ Preserved(P, N, gone) /\ Deallocated(T, N)
  BY <1>1, <1>8, <1>9, <1>10, <1>11, BecomesData DEF N
<1>13. N.data_location = [P.data_location EXCEPT ![p] = <<>>]
  BY <1>0, <1>4, <1>6, <1>12 DEF Deallocated, ArenaGone
<1>14. gone = {pg \in PagesIn(P) : pg[1] = p}
  BY <1>0, <1>4, <1>5, SamePages
<1>15. PagesLost(P, N, p)
  BY <1>12, <1>13, <1>14 DEF PagesLost
<1> QED
  BY <1>15 DEF P, N

-----------------------------------------------------------------------------
(* The other steps.                                                        *)

(* Nothing the pager keeps is different. *)
LEMMA NothingHappens ==
    ASSUME Sound(Pager, {}), UNCHANGED pagerVars
    PROVE  NothingShown(Pager, Pager')
<1> DEFINE P == Pager
           N == Pager'
<1>1. N = P
  BY DEF pagerVars, Pager
<1>2. Sound(P, {})
  OBVIOUS
<1> HIDE DEF P, N
<1>3. NothingShown(P, N)
  BY <1>1, <1>2, SoundStill DEF NothingShown
<1> QED
  BY <1>3 DEF P, N

LEMMA CreateData ==
    ASSUME PagerInv, Sound(Pager, {}), NEW p \in Pids \cup {NoPid}, NEW c \in Pids, Create(p, c)
    PROVE  \/ NothingShown(Pager, Pager') /\ UNCHANGED pagerVars
           \/ /\ p \in alive /\ c \notin alive /\ alive' = alive \cup {c}
              /\ ~(num_swap_blocks[p] > Len(free_swap_blocks))
              /\ PagesCopied(Pager, Pager', p, c)
<1>0. ProcInv
  BY DEF PagerInv
<1>1. c \notin alive /\ (p = curr_pid \/ p \notin managed)
  BY DEF Create
<1>2. CASE UNCHANGED pagerVars
  BY <1>2, NothingHappens
<1>3. CASE /\ p \in managed /\ ~(num_swap_blocks[p] > Len(free_swap_blocks))
           /\ Becomes(Copied(p, c)[Len(data_location[p])]) /\ alive' = alive \cup {c}
  <2>1. p \in alive /\ p \in Pids /\ c \in Pids \ alive
    BY <1>0, <1>1, <1>3, PagerAssumption DEF ProcInv
  <2>2. PagesCopied(Pager, Pager', p, c)
    BY <1>3, <2>1, ForkData
  <2> QED
    BY <1>3, <2>1, <2>2
<1> QED
  BY <1>2, <1>3 DEF Create

(* A store: to the page alone, or to what all pages of a file block show. *)
Stored(S, N, pg, d) ==
    /\ SwapOwned(N) /\ DataInv(N, {}) /\ N.data_location = S.data_location
    /\ pg \in PagesIn(S) /\ \A r \in PagesIn(S) : KindOf(N, r) = KindOf(S, r)
    /\ HeldIn(N, pg) = d
    /\ \A r \in PagesIn(S) \ {pg} : KindOf(S, r) = Private => HeldIn(N, r) = HeldIn(S, r)
    /\ \A k \in FileKeys : ContentOf(N, k) = IF k = KindOf(S, pg) THEN d ELSE ContentOf(S, k)

(* The frame of a block that is written to *)
Written(S, N, f, d) ==
    /\ N.physmem = [S.physmem EXCEPT ![f] = d]
    /\ N.swap_file = S.swap_file /\ N.files = S.files /\ N.mem_block = S.mem_block
    /\ N.clock_queue = S.clock_queue /\ N.free_swap_blocks = S.free_swap_blocks
    /\ N.file_mapping_table = S.file_mapping_table /\ N.data_location = S.data_location

LEMMA WrittenData ==
    ASSUME NEW S, NEW N, NEW d, NEW pg \in PagesIn(S), NEW b, b = BlockIn(S, pg),
           Whole(S, {}, {}), Sound(S, {}), TableInv(N, {}), b # zero_page,
           S.mem_block[b].resident, S.mem_block[b].dirty,
           S.mem_block[b].is_swap => Showing(S, {}, b) = {pg},
           Written(S, N, S.mem_block[b].location, d)
    PROVE  Stored(S, N, pg, d)
<1> DEFINE f == S.mem_block[b].location
<1>0. /\ Shape(S) /\ Pinned(S) /\ FramesInv(S) /\ ResidentInv(S) /\ FilesInv(S)
      /\ TableInv(S, {}) /\ SwapOwned(S) /\ DataInv(S, {}) /\ S.physmem \in [Frames -> Data]
  BY Fields DEF Whole, Sound, Shape
<1>1. /\ b \in Referenced(S) /\ b \in BlockIds /\ Referenced(S) \subseteq BlockIds
      /\ S.file_mapping_table \subseteq Referenced(S)
      /\ \A r \in PagesIn(S) : BlockIn(S, r) \in Referenced(S)
  BY <1>0, ReferencedMeaning
<1>2. b \in ToSet(S.clock_queue) /\ f # 0 /\ f \in Frames
  BY <1>0, <1>1 DEF ResidentInv, FramesInv, Shape, PlaceOK
<1>3. ASSUME NEW c \in Referenced(S) \ {b}, S.mem_block[c].resident
      PROVE  S.mem_block[c].location # f /\ S.mem_block[c].location \in Frames
  <2>1. c \in BlockIds
    BY <1>1
  <2>2. S.mem_block[c].location \in Frames
    BY <1>0, <1>3, <2>1 DEF Shape, PlaceOK
  <2>3. CASE c = zero_page
    BY <1>0, <1>2, <2>2, <2>3 DEF Pinned
  <2>4. CASE c # zero_page
    <3>1. c \in ToSet(S.clock_queue)
      BY <1>0, <1>3, <2>4 DEF ResidentInv
    <3> QED
      BY <1>0, <1>2, <2>2, <3>1 DEF FramesInv
  <2> QED
    BY <2>3, <2>4
<1> HIDE DEF f
<1>4. /\ N.physmem = [S.physmem EXCEPT ![f] = d]
      /\ N.swap_file = S.swap_file /\ N.files = S.files /\ N.mem_block = S.mem_block
      /\ N.clock_queue = S.clock_queue /\ N.free_swap_blocks = S.free_swap_blocks
      /\ N.file_mapping_table = S.file_mapping_table /\ N.data_location = S.data_location
  BY DEF Written, f
<1>5. /\ N.physmem[f] = d /\ \A g \in Frames \ {f} : N.physmem[g] = S.physmem[g]
  BY <1>0, <1>2, <1>4
<1>6. PagesIn(N) = PagesIn(S) /\ \A r : BlockIn(N, r) = BlockIn(S, r)
  BY <1>4, SamePages
<1>7. \A c \in Referenced(S) \ {b} : DatumOf(N, N.mem_block[c]) = DatumOf(S, S.mem_block[c])
  BY <1>3, <1>4, <1>5 DEF DatumOf
<1>8. DatumOf(N, N.mem_block[b]) = d
  BY <1>4, <1>5 DEF DatumOf, f
<1>9. SwapOwned(N)
  <2>1. Referenced(N) = Referenced(S)
    BY <1>4 DEF Referenced
  <2> QED
    BY <1>0, <1>4, <2>1, SameOwned
<1>10. DataInv(N, {})
  <2>1. N.physmem[0] = 0
    BY <1>0, <1>2, <1>5, Numbers DEF DataInv
  <2>2. Live(N, {}) = Live(S, {}) /\ Live(S, {}) \subseteq Referenced(S)
    <3>1. Live(N, {}) = Live(S, {})
      BY <1>4, <1>6 DEF Live
    <3> QED
      BY <1>1, <3>1 DEF Live
  <2>3. ASSUME NEW c \in Live(N, {}) \ {zero_page}
        PROVE  BackedUp(N, c)
    <3> DEFINE x == S.mem_block[c]
    <3>1. BackedUp(S, c) /\ c \in Referenced(S)
      BY <1>0, <2>2 DEF DataInv
    <3>2. N.mem_block[c] = x /\ Backing(N, x) = Backing(S, x)
      BY <1>4 DEF Backing
    <3>3. c # b /\ x.resident => N.physmem[x.location] = S.physmem[x.location]
      BY <1>3, <1>5, <3>1
    <3>4. c = b => x.dirty
      OBVIOUS
    <3> HIDE DEF x
    <3> QED
      BY <3>1, <3>2, <3>3, <3>4 DEF BackedUp, x
  <2>4. \A c \in ToSet(N.clock_queue) : N.mem_block[c].is_swap \/ c \in N.file_mapping_table
    BY <1>0, <1>4 DEF DataInv
  <2> QED
    BY <2>1, <2>3, <2>4 DEF DataInv
<1>11. \A r \in PagesIn(S) : KindOf(N, r) = KindOf(S, r)
  BY <1>4, <1>6 DEF KindOf
<1>12. HeldIn(N, pg) = d
  BY <1>6, <1>8 DEF HeldIn
<1>13. ASSUME NEW r \in PagesIn(S) \ {pg}, KindOf(S, r) = Private
       PROVE  HeldIn(N, r) = HeldIn(S, r)
  <2> DEFINE c == BlockIn(S, r)
  <2>1. c \in Referenced(S)
    BY <1>1
  <2>2. c # b
    <3>1. SUFFICES ASSUME c = b PROVE FALSE
      OBVIOUS
    <3>2. S.mem_block[b].is_swap
      <4>1. SUFFICES ASSUME ~S.mem_block[b].is_swap PROVE FALSE
        OBVIOUS
      <4>2. FileKey(S.mem_block[b]) \in FileKeys
        BY <1>0, <1>1, <4>1 DEF FilesInv, NamedOK, FileKey, FileKeys
      <4> QED
        BY <1>13, <3>1, <4>1, <4>2, PagerAssumption DEF KindOf
    <3>3. r \in Showing(S, {}, b)
      BY <3>1 DEF Showing
    <3> QED
      BY <3>2, <3>3
  <2> HIDE DEF c
  <2> QED
    BY <1>6, <1>7, <2>1, <2>2 DEF HeldIn, c
<1>14. ASSUME NEW k \in FileKeys
       PROVE  ContentOf(N, k) = IF k = KindOf(S, pg) THEN d ELSE ContentOf(S, k)
  <2>1. CASE S.mem_block[b].is_swap
    <3>1. KindOf(S, pg) = Private /\ k # Private
      BY <2>1, PagerAssumption DEF KindOf
    <3>2. b \notin S.file_mapping_table
      BY <1>0, <2>1 DEF FilesInv
    <3>3. CASE \E c \in S.file_mapping_table : FileKey(S.mem_block[c]) = k
      <4>1. PICK c \in S.file_mapping_table : FileKey(S.mem_block[c]) = k
        BY <3>3
      <4>2. ContentOf(S, k) = DatumOf(S, S.mem_block[c])
        BY <1>0, <4>1, ContentIs
      <4>3. c \in N.file_mapping_table /\ FileKey(N.mem_block[c]) = k
        BY <1>4, <4>1
      <4>4. ContentOf(N, k) = DatumOf(N, N.mem_block[c])
        BY <4>3, ContentIs
      <4> QED
        BY <1>1, <1>7, <3>1, <3>2, <4>1, <4>2, <4>4
    <3>4. CASE ~\E c \in S.file_mapping_table : FileKey(S.mem_block[c]) = k
      BY <1>4, <3>1, <3>4 DEF ContentOf
    <3> QED
      BY <3>3, <3>4
  <2>2. CASE ~S.mem_block[b].is_swap
    <3>1. b \in S.file_mapping_table /\ KindOf(S, pg) = FileKey(S.mem_block[b])
      BY <1>0, <2>2 DEF TableInv, KindOf
    <3>2. CASE k = KindOf(S, pg)
      <4>1. b \in N.file_mapping_table /\ FileKey(N.mem_block[b]) = k
        BY <1>4, <3>1, <3>2
      <4>2. ContentOf(N, k) = DatumOf(N, N.mem_block[b])
        BY <4>1, ContentIs
      <4> QED
        BY <1>8, <3>2, <4>2
    <3>3. CASE k # KindOf(S, pg) /\ \E c \in S.file_mapping_table : FileKey(S.mem_block[c]) = k
      <4>1. PICK c \in S.file_mapping_table : FileKey(S.mem_block[c]) = k
        BY <3>3
      <4>2. ContentOf(S, k) = DatumOf(S, S.mem_block[c]) /\ c # b
        BY <1>0, <3>1, <3>3, <4>1, ContentIs
      <4>3. c \in N.file_mapping_table /\ FileKey(N.mem_block[c]) = k
        BY <1>4, <4>1
      <4>4. ContentOf(N, k) = DatumOf(N, N.mem_block[c])
        BY <4>3, ContentIs
      <4> QED
        BY <1>1, <1>7, <3>3, <4>1, <4>2, <4>4
    <3>4. CASE k # KindOf(S, pg) /\ ~\E c \in S.file_mapping_table : FileKey(S.mem_block[c]) = k
      BY <1>4, <3>4 DEF ContentOf
    <3> QED
      BY <3>2, <3>3, <3>4
  <2> QED
    BY <2>1, <2>2
<1> QED
  BY <1>4, <1>9, <1>10, <1>11, <1>12, <1>13, <1>14 DEF Stored

LEMMA StoreData ==
    ASSUME PagerInv, MmuInv(Pager, {}), Sound(Pager, {}), NEW v, NEW d, Store(v, d)
    PROVE  Stored(Pager, Pager', <<curr_pid, v>>, d)
<1> DEFINE P == Pager
           N == Pager'
           p == curr_pid
           pg == <<p, v>>
           b == BlockIn(P, pg)
           f == P.mem_block[b].location
<1>0. /\ Whole(P, {}, {}) /\ Shape(P) /\ Sound(P, {}) /\ MmuInv(P, {})
      /\ P.data_location = data_location
      /\ P.page_table = page_table /\ P.physmem = physmem
  BY DEF PagerInv, Whole, Pager
<1>1. p # NoPid /\ v \in DOMAIN data_location[p] /\ page_table[p][v].write_enable
  BY DEF Store
<1>2. pg \in PagesIn(P)
  BY <1>1, CurrentProcess
<1>3. Ent(P, pg) = page_table[p][v]
  BY <1>0 DEF Ent
<1>4. physmem' = [physmem EXCEPT ![page_table[p][v].ppage] = d]
  BY DEF Store
<1>5. /\ N.physmem = physmem'
      /\ N.swap_file = P.swap_file /\ N.files = P.files /\ N.mem_block = P.mem_block
      /\ N.clock_queue = P.clock_queue /\ N.free_swap_blocks = P.free_swap_blocks
      /\ N.file_mapping_table = P.file_mapping_table /\ N.data_location = P.data_location
  BY DEF Store, Pager
<1>6. TableInv(N, {})
  BY NotTable DEF Store, Sound
<1> HIDE DEF P, N
<1>7. PageOK(P, {}, pg) /\ ~P.mem_block[zero_page].dirty
  BY <1>0, <1>2 DEF MmuInv
<1> HIDE DEF pg, p
<1>8. /\ P.mem_block[b].resident /\ P.mem_block[b].dirty
      /\ page_table[p][v].ppage = f
      /\ P.mem_block[b].is_swap => Showing(P, {}, b) = {pg}
  BY <1>1, <1>3, <1>7 DEF PageOK
<1>9. b # zero_page
  BY <1>7, <1>8
<1>10. Written(P, N, f, d)
  BY <1>0, <1>4, <1>5, <1>8 DEF Written
<1> HIDE DEF b
<1>11. Stored(P, N, pg, d)
  BY <1>0, <1>2, <1>6, <1>8, <1>9, <1>10, WrittenData DEF b
<1> QED
  BY <1>11 DEF P, N, pg, p

-----------------------------------------------------------------------------
(* The invariant of the data.                                              *)

LEMMA SamePagesShown ==
    ASSUME NEW S, NEW N, Shape(S), Shape(N), SoundStep(S, N, {}), PagesIn(N) = PagesIn(S)
    PROVE  NothingShown(S, N)
<1>1. ASSUME NEW r \in Pids
      PROVE  DOMAIN N.data_location[r] = DOMAIN S.data_location[r]
  <2>1. DOMAIN N.data_location[r] \subseteq VPages /\ DOMAIN S.data_location[r] \subseteq VPages
    BY PagesMeaning
  <2>2. \A v \in VPages : <<r, v>> \in PagesIn(N) <=> v \in DOMAIN N.data_location[r]
    BY DEF PagesIn
  <2>3. \A v \in VPages : <<r, v>> \in PagesIn(S) <=> v \in DOMAIN S.data_location[r]
    BY DEF PagesIn
  <2> QED
    BY <2>1, <2>2, <2>3
<1> QED
  BY <1>1 DEF NothingShown

(* The invariant of the pager and its data *)
DataCorrect == PagerInv /\ MmuInv(Pager, {}) /\ Sound(Pager, {})

LEMMA InitData ==
    ASSUME CountsFit, Init
    PROVE  DataCorrect
<1> DEFINE swap == [i \in 1 .. swap_blocks |-> i - 1]
           zero == NewBlock(0, TRUE, NoName, 0)
           S == Pager
<1>0. /\ S.clock_queue = <<>> /\ S.free_swap_blocks = swap
      /\ S.file_mapping_table = {} /\ \A p \in Pids : S.data_location[p] = <<>>
      /\ S.mem_block = [b \in BlockIds |-> IF b = zero_page THEN zero ELSE NoBlock]
      /\ S.physmem = [f \in Frames |-> 0]
  BY DEF Init, Pager
<1>1. PagerInv /\ MmuInv(S, {}) /\ TableInv(S, {}) /\ Shape(S)
  <2>1. PagerInv /\ MmuInv(S, {}) /\ TableInv(S, {})
    BY InitWhole, InitMmu, InitTable
  <2> QED
    BY <2>1 DEF PagerInv, Whole
<1> HIDE DEF S
<1>2. ToSet(<<>>) = {} /\ DOMAIN <<>> = {} /\ IsInjective(<<>>)
  BY EmptyLemma
<1>3. PagesIn(S) = {}
  BY <1>0, <1>2 DEF PagesIn
<1>4. Referenced(S) = {zero_page}
  BY <1>0, <1>1, <1>2, <1>3, ReferencedMeaning
<1>5. S.mem_block[zero_page].swap_blocks = <<>>
  BY <1>0, Numbers DEF NewBlock
<1>6. IsInjective(swap)
  BY Numbers DEF IsInjective
<1> HIDE DEF swap
<1>7. SwapOwned(S)
  BY <1>0, <1>2, <1>4, <1>5, <1>6 DEF SwapOwned, Owned
<1>8. Live(S, {}) = {}
  BY <1>0, <1>3 DEF Live
<1>9. DataInv(S, {})
  BY <1>0, <1>2, <1>8, Numbers DEF DataInv
<1> QED
  BY <1>1, <1>7, <1>9 DEF DataCorrect, Sound, S

(* What a step does to the pages *)
LEMMA StepData ==
    ASSUME DataCorrect, [Next]_vars
    PROVE  /\ PagerInv' /\ MmuInv(Pager, {})' /\ TableInv(Pager, {})'
           /\ \/ NothingShown(Pager, Pager')
              \/ \E p \in Pids, c \in Pids : PagesCopied(Pager, Pager', p, c)
              \/ \E p \in Pids : PagesLost(Pager, Pager', p)
              \/ \E p \in Pids : \E kind : PageShown(Pager, Pager', p, kind)
              \/ \E v \in VPages, d \in Data : Store(v, d) /\ Stored(Pager, Pager', <<curr_pid, v>>, d)
<1>0. PagerInv /\ MmuInv(Pager, {}) /\ Sound(Pager, {}) /\ TableInv(Pager, {}) /\ ProcInv
      /\ Shape(Pager)
  BY DEF DataCorrect, Sound, PagerInv, Whole
<1>1. PagerInv' /\ MmuInv(Pager, {})' /\ TableInv(Pager, {})'
  BY <1>0, NextKeeps, NextMmu, NextTable
<1>2. Shape(Pager')
  BY <1>1 DEF PagerInv, Whole
<1>3. CASE \E p \in Pids \cup {NoPid}, c \in Pids : Create(p, c)
  <2>1. PICK p \in Pids \cup {NoPid}, c \in Pids : Create(p, c)
    BY <1>3
  <2>2. p \in alive => p \in Pids
    BY <1>0 DEF ProcInv
  <2> QED
    BY <1>0, <1>1, <2>1, <2>2, CreateData
<1>4. CASE \E v \in VPages : \E write_flag \in BOOLEAN : Fault(v, write_flag)
  <2>1. SoundStep(Pager, Pager', {}) /\ PagesIn(Pager') = PagesIn(Pager)
    BY <1>0, <1>4, FaultData
  <2> QED
    BY <1>0, <1>1, <1>2, <2>1, SamePagesShown
<1>5. CASE \E v \in VPages, d \in Data : Store(v, d)
  BY <1>0, <1>1, <1>5, StoreData
<1>6. CASE Destroy
  <2>1. curr_pid \in Pids
    BY <1>0, <1>6 DEF Destroy, ProcInv
  <2> QED
    BY <1>0, <1>1, <1>6, <2>1, DestroyData
<1>7. CASE MapSwap
  <2>1. curr_pid \in Pids
    BY <1>0, <1>7 DEF MapSwap, ProcInv
  <2> QED
    BY <1>0, <1>1, <1>7, <2>1, MapSwapData
<1>8. CASE \E v, w \in VPages, blk \in FileBlocks : MapFile(v, w, blk)
  <2>1. curr_pid \in Pids
    BY <1>0, <1>8 DEF MapFile, ProcInv
  <2> QED
    BY <1>0, <1>1, <1>8, <2>1, MapFileData
<1>9. CASE MapFileInvalid
  <2>1. SoundStep(Pager, Pager', {}) /\ PagesIn(Pager') = PagesIn(Pager)
    BY <1>0, <1>9, MapFileInvalidData
  <2> QED
    BY <1>0, <1>1, <1>2, <2>1, SamePagesShown
<1>10. CASE UNCHANGED pagerVars
  BY <1>0, <1>1, <1>10, NothingHappens
<1>11. CASE \/ \E p \in Pids : Switch(p)
            \/ \E k \in FileKeys : FileAppears(k)
            \/ UNCHANGED vars
  BY <1>10, <1>11 DEF Switch, FileAppears, vars
<1> QED
  BY <1>3, <1>4, <1>5, <1>6, <1>7, <1>8, <1>9, <1>11 DEF Next

LEMMA NextData ==
    ASSUME DataCorrect, [Next]_vars
    PROVE  DataCorrect'
<1>1. /\ PagerInv' /\ MmuInv(Pager, {})' /\ TableInv(Pager, {})'
      /\ SwapOwned(Pager') /\ DataInv(Pager', {})
  BY StepData DEF NothingShown, PagesCopied, PagesLost, PageShown, Stored, SoundStep
<1> QED
  BY <1>1 DEF DataCorrect, Sound

(* The data of every mem_block are where eviction, cache_nonresident_page  *)
(* and the handlers take them to be, always.                               *)
THEOREM DataIsCorrect == CountsFit /\ Spec => []DataCorrect
<1>1. CountsFit /\ Init => DataCorrect
  BY InitData
<1>2. DataCorrect /\ [Next]_vars => DataCorrect'
  BY NextData
<1> QED
  BY <1>1, <1>2, PTL DEF Spec

LEMMA CleanFollows ==
    ASSUME DataCorrect
    PROVE  CleanOnDisk
<1> DEFINE S == Pager
<1>0. /\ Whole(S, {}, {}) /\ Shape(S) /\ Pinned(S) /\ FilesInv(S) /\ ResidentInv(S)
      /\ SwapInv(S, {}) /\ HomeInv(S) /\ DataInv(S, {})
  BY DEF DataCorrect, Sound, PagerInv, Whole
<1>1. /\ S.physmem = physmem /\ S.mem_block = mem_block /\ S.clock_queue = clock_queue
      /\ S.swap_file = swap_file /\ S.files = files
  BY DEF Pager
<1>2. InUse = Referenced(S)
  BY DEF InUse
<1> HIDE DEF S
<1>3. ASSUME NEW b \in Referenced(S), S.mem_block[b].is_swap, ~S.mem_block[b].resident
      PROVE  S.mem_block[b].location = Head(S.mem_block[b].swap_blocks)
  <2>1. b # zero_page /\ b \notin ToSet(S.clock_queue) /\ b \notin S.file_mapping_table
    BY <1>0, <1>3 DEF Pinned, ResidentInv, FilesInv
  <2>2. \E pg \in PagesIn(S) : BlockIn(S, pg) = b
    BY <1>0, <2>1, ReferencedMeaning
  <2>3. b \in Live(S, {})
    BY <2>2 DEF Live
  <2> QED
    BY <1>0, <1>3, <2>1, <2>3 DEF DataInv, BackedUp
<1>4. ASSUME NEW b \in ToSet(S.clock_queue), ~S.mem_block[b].dirty
      PROVE  S.physmem[S.mem_block[b].location] = Backing(S, S.mem_block[b])
  <2>1. b \in Referenced(S) \ {zero_page} /\ S.mem_block[b].resident
    BY <1>0, ReferencedMeaning DEF Pinned, ResidentInv
  <2>2. b \in Live(S, {})
    <3>1. CASE S.mem_block[b].is_swap
      <4>1. S.mem_block[b].swap_blocks # <<>>
        BY <1>0, <3>1 DEF HomeInv
      <4>2. \E pg \in PagesIn(S) \ {} : BlockIn(S, pg) = b
        BY <1>0, <2>1, <3>1, <4>1, LiveHome
      <4> QED
        BY <4>2 DEF Live
    <3>2. CASE ~S.mem_block[b].is_swap
      BY <1>0, <3>2 DEF DataInv, Live
    <3> QED
      BY <3>1, <3>2
  <2> QED
    BY <1>0, <1>4, <2>1, <2>2 DEF DataInv, BackedUp
<1>5. S.physmem[0] = 0
  BY <1>0 DEF DataInv
<1> QED
  BY <1>1, <1>2, <1>3, <1>4, <1>5 DEF CleanOnDisk, Backing

(* For any numbers of frames, swap blocks, processes and pages: eviction   *)
(* may drop a clean mem_block, as the swap file or the file has its data,  *)
(* and a swap-backed mem_block out of memory is in its first swap block,   *)
(* which no fork, copy on write or exit of another process takes from it   *)
(* (evict_phys_page, cache_nonresident_page, copy_block_handler,           *)
(* vm_destroy).                                                            *)
THEOREM CleanIsOnDisk == CountsFit /\ Spec => []CleanOnDisk
<1>1. DataCorrect => CleanOnDisk
  BY CleanFollows
<1> QED
  BY <1>1, DataIsCorrect, PTL

-----------------------------------------------------------------------------
(* What the processes see.                                                 *)

ValuesAre == /\ Pages = PagesIn(Pager)
             /\ \A pg \in Pages : VM!Value(pg[1], pg[2]) = HeldIn(Pager, pg)

LEMMA ValuesHeld == DataCorrect => ValuesAre
<1> SUFFICES ASSUME DataCorrect PROVE ValuesAre
  OBVIOUS
<1>0. PagerInv /\ TableInv(Pager, {}) /\ Shape(Pager)
  BY DEF DataCorrect, Sound, PagerInv, Whole
<1>1. Pager.data_location = data_location /\ Pager.mem_block = mem_block
  BY DEF Pager
<1>2. Pages = PagesIn(Pager)
  BY <1>1 DEF Pages, PagesIn
<1>3. ASSUME NEW pg \in Pages
      PROVE  VM!Value(pg[1], pg[2]) = HeldIn(Pager, pg)
  <2>1. pg[1] \in Pids /\ pg[2] \in DOMAIN data_location[pg[1]]
    BY DEF Pages
  <2>2. VM!Value(pg[1], pg[2]) = DatumOf(Pager, mem_block[data_location[pg[1]][pg[2]]])
    BY <1>0, <2>1, ValueOf
  <2> QED
    BY <1>1, <2>2 DEF HeldIn, BlockIn
<1> QED
  BY <1>2, <1>3 DEF ValuesAre

LEMMA ValuesHeldNext == DataCorrect' => ValuesAre'
BY ValuesHeld, PTL

LEMMA OnlyStores ==
    ASSUME DataCorrect, [Next]_vars, ~\E v \in VPages, d \in Data : Store(v, d)
    PROVE  \A pg \in Pages : pg \in Pages' => VM!Value(pg[1], pg[2])' = VM!Value(pg[1], pg[2])
<1> DEFINE P == Pager
           N == Pager'
<1>1. /\ Pages = PagesIn(P) /\ Pages' = PagesIn(N)
      /\ \A pg \in Pages : VM!Value(pg[1], pg[2]) = HeldIn(P, pg)
      /\ \A pg \in Pages' : VM!Value(pg[1], pg[2])' = HeldIn(N, pg)
  <2>1. ValuesAre /\ ValuesAre'
    BY ValuesHeld, ValuesHeldNext, NextData
  <2> QED
    BY <2>1 DEF ValuesAre
<1>2. \/ NothingShown(P, N)
      \/ \E p \in Pids, c \in Pids : PagesCopied(P, N, p, c)
      \/ \E p \in Pids : PagesLost(P, N, p)
      \/ \E p \in Pids : \E kind : PageShown(P, N, p, kind)
  BY StepData
<1>3. P.data_location \in [Pids -> Seq(BlockIds)]
  BY Fields DEF DataCorrect, PagerInv, Whole, Shape
<1> HIDE DEF P, N
<1>4. ASSUME NEW pg \in PagesIn(P), pg \in PagesIn(N)
      PROVE  HeldIn(N, pg) = HeldIn(P, pg)
  <2>1. CASE SoundStep(P, N, {})
    BY <2>1 DEF SoundStep, Preserved, SamePage
  <2>2. CASE \E p \in Pids : PagesLost(P, N, p)
    <3>1. PICK p \in Pids : PagesLost(P, N, p)
      BY <2>2
    <3>2. pg[1] # p
      <4>1. SUFFICES ASSUME pg[1] = p PROVE FALSE
        OBVIOUS
      <4>2. pg[2] \in DOMAIN N.data_location[p]
        BY <1>4, <4>1 DEF PagesIn
      <4>3. N.data_location[p] = <<>>
        BY <1>3, <3>1 DEF PagesLost
      <4>4. DOMAIN <<>> = {}
        OBVIOUS
      <4> QED
        BY <4>2, <4>3, <4>4
    <3> QED
      BY <3>1, <3>2 DEF PagesLost, Preserved, SamePage
  <2> QED
    BY <1>2, <2>1, <2>2 DEF NothingShown, PagesCopied, PageShown
<1> QED
  BY <1>1, <1>4

(* What a page holds changes by a store of its process, or to its file     *)
(* block, and by nothing else: for any numbers of frames, pages and        *)
(* processes, no fault, eviction, copy on write, fork, mapping or exit     *)
(* loses or mixes up the data of a page.                                   *)
THEOREM OnlyStoresChange == CountsFit /\ Spec => OnlyStoresChangePages
<1>1. DataCorrect /\ [Next]_vars =>
        [(\E v \in VPages, d \in Data : Store(v, d)) \/
         \A pg \in Pages : pg \in Pages' => VM!Value(pg[1], pg[2])' = VM!Value(pg[1], pg[2])]_vars
  BY OnlyStores
<1> QED
  BY <1>1, DataIsCorrect, PTL DEF Spec, OnlyStoresChangePages

-----------------------------------------------------------------------------
(* The pager implements VirtualMemory.                                     *)

(* Functions that are sequences *)
Extends(f, g, n) ==
    /\ f = [v \in 1 .. n |-> f[v]]
    /\ g = [v \in 1 .. n + 1 |-> g[v]]
    /\ \A v \in 1 .. n : g[v] = f[v]

LEMMA FunAppend ==
    ASSUME NEW n \in Nat, NEW f, NEW g, Extends(f, g, n)
    PROVE  g = Append(f, g[n + 1]) /\ Len(f) = n
<1> DEFINE X == {g[v] : v \in 1 .. n + 1}
           e == g[n + 1]
           h == Append(f, e)
<1>0. n + 1 \in 1 .. n + 1 /\ 1 .. n \subseteq 1 .. n + 1
  OBVIOUS
<1>1. f \in [1 .. n -> X] /\ g \in [1 .. n + 1 -> X] /\ e \in X
  BY <1>0 DEF Extends
<1> HIDE DEF X
<1>2. f \in Seq(X) /\ g \in Seq(X) /\ Len(f) = n /\ Len(g) = n + 1
  BY <1>1
<1> HIDE DEF e
<1>3. h \in Seq(X) /\ Len(h) = n + 1 /\ h[n + 1] = e /\ \A v \in 1 .. n : h[v] = f[v]
  BY <1>1, <1>2
<1> HIDE DEF h
<1>4. \A v \in 1 .. n + 1 : g[v] = h[v]
  <2>1. \A v \in 1 .. n + 1 : v \in 1 .. n \/ v = n + 1
    OBVIOUS
  <2>2. g[n + 1] = h[n + 1]
    BY <1>3 DEF e
  <2> QED
    BY <1>3, <2>1, <2>2 DEF Extends
<1>5. g = h
  BY <1>2, <1>3, <1>4, SeqEqual
<1> QED
  BY <1>2, <1>5 DEF h, e

LEMMA FunEmpty ==
    ASSUME NEW f, f = [v \in DOMAIN f |-> f[v]], DOMAIN f = {}
    PROVE  f = <<>>
<1>1. f \in [1 .. 0 -> {}]
  OBVIOUS
<1>2. f \in Seq({}) /\ Len(f) = 0
  BY <1>1
<1> QED
  BY <1>2, EmptySeq

(* The variables of VirtualMemory, of a state of the pager *)
ArenaOf(S) == [p \in Pids |-> [v \in DOMAIN S.data_location[p] |-> KindOf(S, <<p, v>>)]]
PrivateOf(S) == [p \in Pids |-> [v \in DOMAIN S.data_location[p] |->
                   IF KindOf(S, <<p, v>>) = Private THEN HeldIn(S, <<p, v>>) ELSE 0]]
ContentsOf(S) == [k \in FileKeys |-> ContentOf(S, k)]

LEMMA SameRows ==
    ASSUME NEW S, NEW N, NEW gone, Shape(S), Preserved(S, N, gone)
    PROVE  /\ ContentsOf(N) = ContentsOf(S)
           /\ \A r \in Pids : \A v \in DOMAIN S.data_location[r] : <<r, v>> \notin gone =>
                /\ KindOf(N, <<r, v>>) = KindOf(S, <<r, v>>)
                /\ HeldIn(N, <<r, v>>) = HeldIn(S, <<r, v>>)
<1>1. \A r \in Pids : \A v \in DOMAIN S.data_location[r] : <<r, v>> \in PagesIn(S)
  BY PagesMeaning
<1> QED
  BY <1>1 DEF Preserved, SameContent, SamePage, ContentsOf

LEMMA NothingView ==
    ASSUME NEW S, NEW N, Shape(S), NothingShown(S, N)
    PROVE  ArenaOf(N) = ArenaOf(S) /\ PrivateOf(N) = PrivateOf(S) /\ ContentsOf(N) = ContentsOf(S)
<1>1. /\ ContentsOf(N) = ContentsOf(S)
      /\ \A r \in Pids : \A v \in DOMAIN S.data_location[r] :
           /\ KindOf(N, <<r, v>>) = KindOf(S, <<r, v>>)
           /\ HeldIn(N, <<r, v>>) = HeldIn(S, <<r, v>>)
  BY SameRows DEF NothingShown, SoundStep
<1>2. \A r \in Pids : DOMAIN N.data_location[r] = DOMAIN S.data_location[r]
  BY DEF NothingShown
<1>3. ArenaOf(N) = ArenaOf(S)
  BY <1>1, <1>2 DEF ArenaOf
<1>4. PrivateOf(N) = PrivateOf(S)
  BY <1>1, <1>2 DEF PrivateOf
<1> QED
  BY <1>1, <1>3, <1>4

LEMMA CopiedView ==
    ASSUME NEW S, NEW N, Shape(S), NEW p \in Pids, NEW c \in Pids, PagesCopied(S, N, p, c)
    PROVE  /\ ArenaOf(N) = [ArenaOf(S) EXCEPT ![c] = ArenaOf(S)[p]]
           /\ PrivateOf(N) = [PrivateOf(S) EXCEPT ![c] = PrivateOf(S)[p]]
           /\ ContentsOf(N) = ContentsOf(S)
<1>1. /\ ContentsOf(N) = ContentsOf(S)
      /\ \A r \in Pids : \A v \in DOMAIN S.data_location[r] :
           /\ KindOf(N, <<r, v>>) = KindOf(S, <<r, v>>)
           /\ HeldIn(N, <<r, v>>) = HeldIn(S, <<r, v>>)
  BY SameRows DEF PagesCopied, SoundStep
<1>2. /\ \A r \in Pids : r # c => DOMAIN N.data_location[r] = DOMAIN S.data_location[r]
      /\ DOMAIN N.data_location[c] = DOMAIN S.data_location[p]
      /\ \A v \in DOMAIN S.data_location[p] : /\ KindOf(N, <<c, v>>) = KindOf(N, <<p, v>>)
                                              /\ HeldIn(N, <<c, v>>) = HeldIn(N, <<p, v>>)
  BY DEF PagesCopied
<1>3. /\ \A r \in Pids : r # c => ArenaOf(N)[r] = ArenaOf(S)[r]
      /\ ArenaOf(N)[c] = ArenaOf(S)[p]
  BY <1>1, <1>2 DEF ArenaOf
<1>4. /\ \A r \in Pids : r # c => PrivateOf(N)[r] = PrivateOf(S)[r]
      /\ PrivateOf(N)[c] = PrivateOf(S)[p]
  BY <1>1, <1>2 DEF PrivateOf
<1>5. ArenaOf(N) = [ArenaOf(S) EXCEPT ![c] = ArenaOf(S)[p]]
  BY <1>3 DEF ArenaOf
<1>6. PrivateOf(N) = [PrivateOf(S) EXCEPT ![c] = PrivateOf(S)[p]]
  BY <1>4 DEF PrivateOf
<1> QED
  BY <1>1, <1>5, <1>6

LEMMA LostView ==
    ASSUME NEW S, NEW N, Shape(S), NEW p \in Pids, PagesLost(S, N, p)
    PROVE  /\ ArenaOf(N) = [ArenaOf(S) EXCEPT ![p] = <<>>]
           /\ PrivateOf(N) = [PrivateOf(S) EXCEPT ![p] = <<>>]
           /\ ContentsOf(N) = ContentsOf(S)
<1>0. S.data_location \in [Pids -> Seq(BlockIds)] /\ DOMAIN <<>> = {}
  BY Fields DEF Shape
<1>1. /\ ContentsOf(N) = ContentsOf(S)
      /\ \A r \in Pids : \A v \in DOMAIN S.data_location[r] :
           <<r, v>> \notin {pg \in PagesIn(S) : pg[1] = p} =>
             /\ KindOf(N, <<r, v>>) = KindOf(S, <<r, v>>)
             /\ HeldIn(N, <<r, v>>) = HeldIn(S, <<r, v>>)
  BY SameRows DEF PagesLost
<1>2. /\ \A r \in Pids : r # p => DOMAIN N.data_location[r] = DOMAIN S.data_location[r]
      /\ DOMAIN N.data_location[p] = {}
  BY <1>0 DEF PagesLost
<1>3. /\ \A r \in Pids : r # p => ArenaOf(N)[r] = ArenaOf(S)[r]
      /\ \A r \in Pids : r # p => PrivateOf(N)[r] = PrivateOf(S)[r]
  BY <1>1, <1>2 DEF ArenaOf, PrivateOf
<1>4. ArenaOf(N)[p] = <<>> /\ PrivateOf(N)[p] = <<>>
  <2> DEFINE f == ArenaOf(N)[p]
             g == PrivateOf(N)[p]
  <2>1. DOMAIN f = {} /\ f = [v \in DOMAIN f |-> f[v]]
    BY <1>2 DEF ArenaOf
  <2>2. DOMAIN g = {} /\ g = [v \in DOMAIN g |-> g[v]]
    BY <1>2 DEF PrivateOf
  <2> HIDE DEF f, g
  <2>3. f = <<>> /\ g = <<>>
    BY <2>1, <2>2, FunEmpty
  <2> QED
    BY <2>3 DEF f, g
<1>5. ArenaOf(N) = [ArenaOf(S) EXCEPT ![p] = <<>>]
  BY <1>3, <1>4 DEF ArenaOf
<1>6. PrivateOf(N) = [PrivateOf(S) EXCEPT ![p] = <<>>]
  BY <1>3, <1>4 DEF PrivateOf
<1> QED
  BY <1>1, <1>5, <1>6

LEMMA ShownView ==
    ASSUME NEW S, NEW N, Shape(S), NEW p \in Pids, NEW kind, PageShown(S, N, p, kind)
    PROVE  /\ ArenaOf(N) = [ArenaOf(S) EXCEPT ![p] = Append(@, kind)]
           /\ PrivateOf(N) = [PrivateOf(S) EXCEPT ![p] = Append(@, 0)]
           /\ ContentsOf(N) = ContentsOf(S)
<1>0. PICK n \in Nat : n = Len(S.data_location[p]) /\ DOMAIN S.data_location[p] = 1 .. n
  BY PagesMeaning
<1>1. /\ ContentsOf(N) = ContentsOf(S)
      /\ \A r \in Pids : \A v \in DOMAIN S.data_location[r] :
           /\ KindOf(N, <<r, v>>) = KindOf(S, <<r, v>>)
           /\ HeldIn(N, <<r, v>>) = HeldIn(S, <<r, v>>)
  BY SameRows DEF PageShown, SoundStep
<1>2. /\ \A r \in Pids : r # p => DOMAIN N.data_location[r] = DOMAIN S.data_location[r]
      /\ DOMAIN N.data_location[p] = 1 .. n + 1
      /\ KindOf(N, <<p, n + 1>>) = kind
      /\ kind = Private => HeldIn(N, <<p, n + 1>>) = 0
  BY <1>0 DEF PageShown, NextPage
<1>3. /\ \A r \in Pids : r # p => ArenaOf(N)[r] = ArenaOf(S)[r]
      /\ \A r \in Pids : r # p => PrivateOf(N)[r] = PrivateOf(S)[r]
  BY <1>1, <1>2 DEF ArenaOf, PrivateOf
<1> DEFINE f == ArenaOf(S)[p]
           g == ArenaOf(N)[p]
           old == PrivateOf(S)[p]
           new == PrivateOf(N)[p]
<1>4. n + 1 \in 1 .. n + 1 /\ 1 .. n \subseteq 1 .. n + 1
  OBVIOUS
<1>5. g = Append(f, kind)
  <2>1. f = [v \in 1 .. n |-> f[v]]
    BY <1>0 DEF ArenaOf
  <2>2. g = [v \in 1 .. n + 1 |-> g[v]] /\ g[n + 1] = kind
    BY <1>2, <1>4 DEF ArenaOf
  <2>3. \A v \in 1 .. n : g[v] = f[v]
    BY <1>0, <1>1, <1>2, <1>4 DEF ArenaOf
  <2>4. Extends(f, g, n)
    BY <2>1, <2>2, <2>3 DEF Extends
  <2> HIDE DEF f, g
  <2>5. g = Append(f, g[n + 1])
    BY <2>4, FunAppend
  <2> QED
    BY <2>2, <2>5
<1>6. new = Append(old, 0)
  <2>1. old = [v \in 1 .. n |-> old[v]]
    BY <1>0 DEF PrivateOf
  <2>2. new = [v \in 1 .. n + 1 |-> new[v]] /\ new[n + 1] = 0
    BY <1>2, <1>4 DEF PrivateOf
  <2>3. \A v \in 1 .. n : new[v] = old[v]
    BY <1>0, <1>1, <1>2, <1>4 DEF PrivateOf
  <2>4. Extends(old, new, n)
    BY <2>1, <2>2, <2>3 DEF Extends
  <2> HIDE DEF f, g, old, new
  <2>5. new = Append(old, new[n + 1])
    BY <2>4, FunAppend
  <2> QED
    BY <2>2, <2>5
<1>7. ArenaOf(N) = [ArenaOf(S) EXCEPT ![p] = Append(@, kind)]
  BY <1>3, <1>5 DEF ArenaOf
<1>8. PrivateOf(N) = [PrivateOf(S) EXCEPT ![p] = Append(@, 0)]
  BY <1>3, <1>6 DEF PrivateOf
<1> QED
  BY <1>1, <1>7, <1>8

LEMMA StoredView ==
    ASSUME NEW S, NEW N, Shape(S), NEW p, NEW v, NEW d, Stored(S, N, <<p, v>>, d)
    PROVE  /\ p \in Pids /\ v \in DOMAIN S.data_location[p]
           /\ ArenaOf(N) = ArenaOf(S)
           /\ ArenaOf(S)[p][v] = Private =>
                /\ PrivateOf(N) = [PrivateOf(S) EXCEPT ![p][v] = d]
                /\ ContentsOf(N) = ContentsOf(S)
           /\ ArenaOf(S)[p][v] # Private =>
                /\ PrivateOf(N) = PrivateOf(S)
                /\ ContentsOf(N) = [ContentsOf(S) EXCEPT ![ArenaOf(S)[p][v]] = d]
<1> DEFINE pg == <<p, v>>
<1>1. /\ N.data_location = S.data_location /\ pg \in PagesIn(S)
      /\ \A r \in PagesIn(S) : KindOf(N, r) = KindOf(S, r)
      /\ HeldIn(N, pg) = d
      /\ \A r \in PagesIn(S) \ {pg} : KindOf(S, r) = Private => HeldIn(N, r) = HeldIn(S, r)
      /\ \A k \in FileKeys : ContentOf(N, k) = IF k = KindOf(S, pg) THEN d ELSE ContentOf(S, k)
  BY DEF Stored
<1>2. p \in Pids /\ v \in DOMAIN S.data_location[p]
  BY <1>1 DEF PagesIn
<1>3. \A r \in Pids : \A u \in DOMAIN S.data_location[r] : <<r, u>> \in PagesIn(S)
  BY PagesMeaning
<1>4. ArenaOf(N) = ArenaOf(S)
  BY <1>1, <1>3 DEF ArenaOf
<1>5. ArenaOf(S)[p][v] = KindOf(S, pg)
  BY <1>2 DEF ArenaOf
<1>6. CASE KindOf(S, pg) = Private
  <2>1. ContentsOf(N) = ContentsOf(S)
    BY <1>1, <1>6, PagerAssumption DEF ContentsOf
  <2>2. \A r \in Pids : r # p => PrivateOf(N)[r] = PrivateOf(S)[r]
    BY <1>1, <1>3 DEF PrivateOf
  <2>3. PrivateOf(N)[p] = [PrivateOf(S)[p] EXCEPT ![v] = d]
    BY <1>1, <1>2, <1>3, <1>6 DEF PrivateOf
  <2>4. PrivateOf(N) = [PrivateOf(S) EXCEPT ![p][v] = d]
    BY <2>2, <2>3 DEF PrivateOf
  <2> QED
    BY <1>2, <1>4, <1>5, <1>6, <2>1, <2>4
<1>7. CASE KindOf(S, pg) # Private
  <2>1. PrivateOf(N) = PrivateOf(S)
    BY <1>1, <1>3, <1>7 DEF PrivateOf
  <2>2. ContentsOf(N) = [ContentsOf(S) EXCEPT ![KindOf(S, pg)] = d]
    BY <1>1 DEF ContentsOf
  <2> QED
    BY <1>2, <1>4, <1>5, <1>7, <2>1, <2>2
<1> QED
  BY <1>6, <1>7

(* The variables of VirtualMemory, as Pager substitutes them *)
AbsArena == [p \in Pids |-> [v \in DOMAIN data_location[p] |-> Shows(p, v)]]
AbsPrivate == [p \in Pids |-> [v \in DOMAIN data_location[p] |->
                 IF Shows(p, v) = Private THEN Datum(Pager, p, v) ELSE 0]]
AbsContent == [k \in FileKeys |->
                 IF \E b \in file_mapping_table : FileKey(mem_block[b]) = k
                 THEN DatumOf(Pager, mem_block[CHOOSE b \in file_mapping_table :
                                                 FileKey(mem_block[b]) = k])
                 ELSE files[k]]

MappedIs == /\ AbsArena = ArenaOf(Pager)
            /\ AbsPrivate = PrivateOf(Pager)
            /\ AbsContent = ContentsOf(Pager)

LEMMA Mapped == MappedIs
<1>0. /\ Pager.data_location = data_location /\ Pager.mem_block = mem_block
      /\ Pager.file_mapping_table = file_mapping_table /\ Pager.files = files
  BY DEF Pager
<1> DEFINE S == Pager
<1>1. \A p, v : KindOf(S, <<p, v>>) = Shows(p, v) /\ HeldIn(S, <<p, v>>) = Datum(S, p, v)
  BY <1>0 DEF KindOf, HeldIn, BlockIn, Shows, Datum
<1> HIDE DEF S
<1>2. AbsArena = ArenaOf(S)
  BY <1>0, <1>1 DEF AbsArena, ArenaOf, S
<1>3. AbsPrivate = PrivateOf(S)
  BY <1>0, <1>1 DEF AbsPrivate, PrivateOf, S
<1>4. AbsContent = ContentsOf(S)
  BY <1>0 DEF AbsContent, ContentsOf, ContentOf, S
<1> QED
  BY <1>2, <1>3, <1>4 DEF MappedIs, S

LEMMA MappedNext == MappedIs'
BY Mapped, PTL

(* What the actions of VirtualMemory ask for *)
AbsSame == AbsArena' = AbsArena /\ AbsPrivate' = AbsPrivate /\ AbsContent' = AbsContent

LEMMA VMStutter ==
    ASSUME AbsSame, alive' = alive
    PROVE  UNCHANGED VM!vmVars
BY DEF AbsSame, AbsArena, AbsPrivate, AbsContent, VM!vmVars

LEMMA VMStart ==
    ASSUME NEW p \in Pids, p \notin alive, alive' = alive \cup {p}, AbsSame
    PROVE  VM!Next
<1>1. VM!Start(p)
  BY DEF AbsSame, AbsArena, AbsPrivate, AbsContent, VM!Start
<1> QED
  BY <1>1 DEF VM!Next

AbsPrivatePages(p) == {v \in DOMAIN AbsArena[p] : AbsArena[p][v] = Private}
AbsReserved == Cardinality({pg \in Pids \X (1 .. num_virt_addr) : pg[2] \in AbsPrivatePages(pg[1])})

LEMMA VMCardinality == \A s : VM!Cardinality(s) = Cardinality(s)
BY DEF VM!Cardinality, Cardinality

LEMMA VMReserved ==
    /\ \A p : VM!PrivatePages(p) = AbsPrivatePages(p)
    /\ VM!Reserved = AbsReserved
<1>1. \A p : VM!PrivatePages(p) = AbsPrivatePages(p)
  BY DEF VM!PrivatePages, AbsPrivatePages, AbsArena
<1>2. {pg \in Pids \X (1 .. num_virt_addr) : pg[2] \in VM!PrivatePages(pg[1])}
        = {pg \in Pids \X (1 .. num_virt_addr) : pg[2] \in AbsPrivatePages(pg[1])}
  BY <1>1
<1> QED
  BY <1>1, <1>2, VMCardinality DEF VM!Reserved, AbsReserved

LEMMA VMFork ==
    ASSUME NEW p \in alive, NEW q \in Pids \ alive, p \in Pids, alive' = alive \cup {q},
           AbsReserved + Cardinality(AbsPrivatePages(p)) <= swap_blocks,
           AbsArena' = [AbsArena EXCEPT ![q] = AbsArena[p]],
           AbsPrivate' = [AbsPrivate EXCEPT ![q] = AbsPrivate[p]],
           AbsContent' = AbsContent
    PROVE  VM!Next
<1>0. VM!Reserved + Cardinality(VM!PrivatePages(p)) <= swap_blocks
  BY VMReserved
<1>1. VM!Fork(p, q)
  BY <1>0, VMCardinality DEF AbsArena, AbsPrivate, AbsContent, VM!Fork
<1> QED
  BY <1>1 DEF VM!Next

LEMMA VMMapPrivate ==
    ASSUME NEW p \in alive, p \in Pids, alive' = alive, Len(AbsArena[p]) < num_virt_addr,
           AbsReserved < swap_blocks,
           AbsArena' = [AbsArena EXCEPT ![p] = Append(@, Private)],
           AbsPrivate' = [AbsPrivate EXCEPT ![p] = Append(@, 0)],
           AbsContent' = AbsContent
    PROVE  VM!Next
<1>0. VM!Reserved < swap_blocks
  BY VMReserved
<1>1. VM!MapPrivate(p)
  BY <1>0 DEF AbsArena, AbsPrivate, AbsContent, VM!MapPrivate
<1> QED
  BY <1>1 DEF VM!Next

LEMMA VMMapFile ==
    ASSUME NEW p \in alive, p \in Pids, alive' = alive, Len(AbsArena[p]) < num_virt_addr,
           NEW v \in VPages, NEW w \in VPages, NEW b \in FileBlocks, NEW name,
           v <= w, w <= v + 1, {v, w} \subseteq DOMAIN AbsArena[p],
           v = w \/ VM!Value(p, v) # 0,
           name = IF v = w THEN <<VM!Value(p, v)>> ELSE <<VM!Value(p, v), VM!Value(p, w)>>,
           AbsArena' = [AbsArena EXCEPT ![p] = Append(@, <<name, b>>)],
           AbsPrivate' = [AbsPrivate EXCEPT ![p] = Append(@, 0)],
           AbsContent' = AbsContent
    PROVE  VM!Next
<1>1. VM!MapFile(p, v, w, b)
  BY DEF AbsArena, AbsPrivate, AbsContent, VM!MapFile
<1> QED
  BY <1>1 DEF VM!Next, VPages

LEMMA VMStore ==
    ASSUME NEW p \in alive, p \in Pids, alive' = alive, NEW v \in VPages, NEW d \in Data,
           v \in DOMAIN AbsArena[p], AbsArena' = AbsArena,
           AbsArena[p][v] = Private => /\ AbsPrivate' = [AbsPrivate EXCEPT ![p][v] = d]
                                       /\ AbsContent' = AbsContent,
           AbsArena[p][v] # Private => /\ AbsPrivate' = AbsPrivate
                                       /\ AbsContent' = [AbsContent EXCEPT ![AbsArena[p][v]] = d]
    PROVE  VM!Next
<1>1. VM!Store(p, v, d)
  BY DEF AbsArena, AbsPrivate, AbsContent, VM!Store
<1> QED
  BY <1>1 DEF VM!Next, VPages

LEMMA VMExit ==
    ASSUME NEW p \in alive, p \in Pids, alive' = alive \ {p},
           AbsArena' = [AbsArena EXCEPT ![p] = <<>>],
           AbsPrivate' = [AbsPrivate EXCEPT ![p] = <<>>],
           AbsContent' = AbsContent
    PROVE  VM!Next
<1>1. VM!Exit(p)
  BY DEF AbsArena, AbsPrivate, AbsContent, VM!Exit
<1> QED
  BY <1>1 DEF VM!Next

LEMMA PrivateAre ==
    ASSUME PagerInv
    PROVE  /\ AbsReserved = Cardinality(SwapPages(Pager, {}))
           /\ \A p \in Pids : AbsPrivatePages(p) = SwapPagesOf(Pager, p)
<1> DEFINE S == Pager
<1>0. Whole(S, {}, {}) /\ Shape(S) /\ FilesInv(S) /\ AbsArena = ArenaOf(S)
  BY Mapped DEF PagerInv, Whole, MappedIs
<1> HIDE DEF S
<1>1. ASSUME NEW p \in Pids, NEW v \in DOMAIN S.data_location[p]
      PROVE  KindOf(S, <<p, v>>) = Private <=> S.mem_block[S.data_location[p][v]].is_swap
  <2> DEFINE b == S.data_location[p][v]
  <2>1. <<p, v>> \in PagesIn(S) /\ BlockIn(S, <<p, v>>) = b
    BY <1>0, PagesMeaning
  <2>2. b \in Referenced(S)
    BY <1>0, <2>1, ReferencedMeaning
  <2>3. ~S.mem_block[b].is_swap => FileKey(S.mem_block[b]) # Private
    BY <1>0, <2>2, PagerAssumption DEF FilesInv, NamedOK, FileKey, FileKeys
  <2> QED
    BY <2>1, <2>3 DEF KindOf
<1>2. ASSUME NEW p \in Pids PROVE AbsPrivatePages(p) = SwapPagesOf(S, p)
  BY <1>0, <1>1 DEF AbsPrivatePages, ArenaOf, SwapPagesOf
<1>3. {pg \in Pids \X (1 .. num_virt_addr) : pg[2] \in AbsPrivatePages(pg[1])} = SwapPages(S, {})
  <2>1. \A pg \in Pids \X VPages :
          pg[2] \in AbsPrivatePages(pg[1]) <=>
            pg \in PagesIn(S) /\ S.mem_block[BlockIn(S, pg)].is_swap
    BY <1>2 DEF SwapPagesOf, PagesIn, BlockIn
  <2>2. SwapPages(S, {}) \subseteq Pids \X VPages
    BY DEF SwapPages, PagesIn
  <2> QED
    BY <2>1, <2>2 DEF SwapPages, VPages
<1> QED
  BY <1>2, <1>3 DEF AbsReserved, S

(* Lengths *)
LEMMA ArenaLength ==
    ASSUME PagerInv, NEW p \in Pids
    PROVE  /\ DOMAIN AbsArena[p] = DOMAIN data_location[p]
           /\ Len(AbsArena[p]) = Len(data_location[p])
<1> DEFINE f == AbsArena[p]
<1>0. Shape(Pager) /\ Pager.data_location = data_location
  BY DEF PagerInv, Whole, Pager
<1>1. PICK n \in Nat : n = Len(data_location[p]) /\ DOMAIN data_location[p] = 1 .. n
  BY <1>0, PagesMeaning
<1>2. f = [v \in 1 .. n |-> f[v]]
  BY <1>1 DEF AbsArena
<1> HIDE DEF f
<1>3. DOMAIN f = 1 .. n /\ f \in [1 .. n -> {f[v] : v \in 1 .. n}]
  BY <1>2
<1>4. Len(f) = n
  BY <1>3
<1> QED
  BY <1>1, <1>3, <1>4 DEF f

(* The swap blocks, counted *)
SwapCount(f, r) ==
    /\ f \in Nat /\ f = Len(free_swap_blocks) /\ (free_swap_blocks # <<>> => f # 0)
    /\ r \in Nat /\ r = AbsReserved /\ f + r = swap_blocks
PageCount(p, k, n) ==
    k \in Nat /\ k = Cardinality(AbsPrivatePages(p)) /\ n \in Nat /\ n = num_swap_blocks[p] /\ k <= n

LEMMA SwapTotal ==
    ASSUME PagerInv
    PROVE  SwapCount(Len(free_swap_blocks), AbsReserved)
<1>1. Shape(Pager) /\ SwapInv(Pager, {}) /\ Pager.free_swap_blocks = free_swap_blocks
  BY DEF PagerInv, Whole, Pager
<1>2. free_swap_blocks \in Seq(SwapBlocks)
  BY <1>1, Fields DEF Shape
<1>3. Len(free_swap_blocks) \in Nat /\ (free_swap_blocks # <<>> => Len(free_swap_blocks) # 0)
  BY <1>2, EmptySeq
<1>4. AbsReserved = Cardinality(SwapPages(Pager, {}))
  BY PrivateAre
<1>5. Len(free_swap_blocks) + AbsReserved = swap_blocks
  BY <1>1, <1>4 DEF SwapInv
<1>6. AbsReserved \in Nat
  BY <1>4, ShowingFinite
<1> QED
  BY <1>3, <1>5, <1>6 DEF SwapCount

LEMMA SwapHeld ==
    ASSUME PagerInv, NEW p \in alive
    PROVE  PageCount(p, Cardinality(AbsPrivatePages(p)), num_swap_blocks[p])
<1>1. Shape(Pager) /\ ProcInv
  BY DEF PagerInv, Whole
<1>2. p \in Pids /\ num_swap_blocks[p] \in Nat
      /\ Cardinality(SwapPagesOf(Pager, p)) <= num_swap_blocks[p]
  BY <1>1 DEF ProcInv, Counts
<1>3. SwapPagesOf(Pager, p) \subseteq VPages
  BY <1>1, <1>2, PagesMeaning DEF SwapPagesOf
<1>4. Cardinality(SwapPagesOf(Pager, p)) \in Nat
  <2>1. IsFiniteSet(VPages)
    BY PagerAssumption, FS_Interval DEF VPages
  <2> QED
    BY <1>3, <2>1, FS_Subset, FS_CardinalityType
<1>5. AbsPrivatePages(p) = SwapPagesOf(Pager, p)
  BY <1>2, PrivateAre
<1> QED
  BY <1>2, <1>4, <1>5 DEF PageCount

(* What the steps of the pager are, seen as steps of VirtualMemory *)
Goal == VM!Next \/ UNCHANGED VM!vmVars

LEMMA NothingMaps ==
    ASSUME DataCorrect, NothingShown(Pager, Pager')
    PROVE  AbsSame
<1> DEFINE P == Pager
           N == Pager'
<1>0. Shape(P)
  BY DEF DataCorrect, PagerInv, Whole
<1>1. /\ AbsArena = ArenaOf(P) /\ AbsPrivate = PrivateOf(P) /\ AbsContent = ContentsOf(P)
      /\ AbsArena' = ArenaOf(N) /\ AbsPrivate' = PrivateOf(N) /\ AbsContent' = ContentsOf(N)
  BY Mapped, MappedNext DEF MappedIs
<1>2. NothingShown(P, N)
  OBVIOUS
<1> HIDE DEF P, N
<1>3. ArenaOf(N) = ArenaOf(P) /\ PrivateOf(N) = PrivateOf(P) /\ ContentsOf(N) = ContentsOf(P)
  BY <1>0, <1>2, NothingView
<1> QED
  BY <1>1, <1>3 DEF AbsSame

LEMMA CreateMaps ==
    ASSUME DataCorrect, NEW p \in Pids \cup {NoPid}, NEW c \in Pids, Create(p, c)
    PROVE  Goal
<1> DEFINE P == Pager
           N == Pager'
<1>0. PagerInv /\ Sound(P, {}) /\ Shape(P) /\ ProcInv
  BY DEF DataCorrect, PagerInv, Whole
<1>1. /\ AbsArena = ArenaOf(P) /\ AbsPrivate = PrivateOf(P) /\ AbsContent = ContentsOf(P)
      /\ AbsArena' = ArenaOf(N) /\ AbsPrivate' = PrivateOf(N) /\ AbsContent' = ContentsOf(N)
  BY Mapped, MappedNext DEF MappedIs
<1>2. c \notin alive /\ (alive' = alive \cup {c} \/ alive' = alive)
  BY DEF Create
<1>3. CASE NothingShown(P, N)
  BY <1>2, <1>3, NothingMaps, VMStart, VMStutter DEF Goal
<1>4. CASE /\ p \in alive /\ c \notin alive /\ alive' = alive \cup {c}
           /\ ~(num_swap_blocks[p] > Len(free_swap_blocks)) /\ PagesCopied(P, N, p, c)
  <2>1. p \in Pids
    BY <1>0, <1>4 DEF ProcInv
  <2>2. AbsReserved + Cardinality(AbsPrivatePages(p)) <= swap_blocks
    <3>1. PICK f, r, k, n : SwapCount(f, r) /\ PageCount(p, k, n)
      BY <1>0, <1>4, SwapTotal, SwapHeld
    <3>2. ~(n > f)
      BY <1>4, <3>1 DEF SwapCount, PageCount
    <3>3. r + k <= swap_blocks
      BY <3>1, <3>2 DEF SwapCount, PageCount
    <3> QED
      BY <3>1, <3>3 DEF SwapCount, PageCount
  <2> HIDE DEF P, N
  <2>3. /\ ArenaOf(N) = [ArenaOf(P) EXCEPT ![c] = ArenaOf(P)[p]]
        /\ PrivateOf(N) = [PrivateOf(P) EXCEPT ![c] = PrivateOf(P)[p]]
        /\ ContentsOf(N) = ContentsOf(P)
    BY <1>0, <1>4, <2>1, CopiedView
  <2>4. /\ AbsArena' = [AbsArena EXCEPT ![c] = AbsArena[p]]
        /\ AbsPrivate' = [AbsPrivate EXCEPT ![c] = AbsPrivate[p]]
        /\ AbsContent' = AbsContent
    BY <1>1, <2>3
  <2> QED
    BY <1>4, <2>1, <2>2, <2>4, VMFork DEF Goal
<1> QED
  BY <1>0, <1>3, <1>4, CreateData

LEMMA DestroyMaps ==
    ASSUME DataCorrect, Destroy
    PROVE  Goal
<1> DEFINE P == Pager
           N == Pager'
           p == curr_pid
<1>0. PagerInv /\ Sound(P, {}) /\ Shape(P) /\ ProcInv
  BY DEF DataCorrect, PagerInv, Whole
<1>1. /\ AbsArena = ArenaOf(P) /\ AbsPrivate = PrivateOf(P) /\ AbsContent = ContentsOf(P)
      /\ AbsArena' = ArenaOf(N) /\ AbsPrivate' = PrivateOf(N) /\ AbsContent' = ContentsOf(N)
  BY Mapped, MappedNext DEF MappedIs
<1>2. p \in alive /\ p \in Pids /\ alive' = alive \ {p}
  BY <1>0 DEF Destroy, ProcInv
<1>3. PagesLost(P, N, p)
  BY <1>0, DestroyData
<1> HIDE DEF P, N, p
<1>4. /\ ArenaOf(N) = [ArenaOf(P) EXCEPT ![p] = <<>>]
      /\ PrivateOf(N) = [PrivateOf(P) EXCEPT ![p] = <<>>]
      /\ ContentsOf(N) = ContentsOf(P)
  BY <1>0, <1>2, <1>3, LostView
<1>5. /\ AbsArena' = [AbsArena EXCEPT ![p] = <<>>]
      /\ AbsPrivate' = [AbsPrivate EXCEPT ![p] = <<>>]
      /\ AbsContent' = AbsContent
  BY <1>1, <1>4
<1> QED
  BY <1>2, <1>5, VMExit DEF Goal

LEMMA StoreMaps ==
    ASSUME DataCorrect, NEW v \in VPages, NEW d \in Data, Store(v, d)
    PROVE  Goal
<1> DEFINE P == Pager
           N == Pager'
           p == curr_pid
<1>0. PagerInv /\ MmuInv(P, {}) /\ Sound(P, {}) /\ Shape(P) /\ ProcInv
  BY DEF DataCorrect, PagerInv, Whole
<1>1. /\ AbsArena = ArenaOf(P) /\ AbsPrivate = PrivateOf(P) /\ AbsContent = ContentsOf(P)
      /\ AbsArena' = ArenaOf(N) /\ AbsPrivate' = PrivateOf(N) /\ AbsContent' = ContentsOf(N)
  BY Mapped, MappedNext DEF MappedIs
<1>2. p \in alive /\ p \in Pids /\ alive' = alive /\ v \in DOMAIN AbsArena[p]
  <2>1. p \in alive /\ p \in Pids /\ alive' = alive /\ v \in DOMAIN data_location[p]
    BY <1>0 DEF Store, ProcInv, procVars
  <2> QED
    BY <1>0, <2>1, ArenaLength
<1>3. Stored(P, N, <<p, v>>, d)
  BY <1>0, StoreData
<1> HIDE DEF P, N, p
<1>4. /\ ArenaOf(N) = ArenaOf(P)
      /\ ArenaOf(P)[p][v] = Private =>
           /\ PrivateOf(N) = [PrivateOf(P) EXCEPT ![p][v] = d]
           /\ ContentsOf(N) = ContentsOf(P)
      /\ ArenaOf(P)[p][v] # Private =>
           /\ PrivateOf(N) = PrivateOf(P)
           /\ ContentsOf(N) = [ContentsOf(P) EXCEPT ![ArenaOf(P)[p][v]] = d]
  BY <1>0, <1>3, StoredView
<1>5. /\ AbsArena' = AbsArena
      /\ AbsArena[p][v] = Private => /\ AbsPrivate' = [AbsPrivate EXCEPT ![p][v] = d]
                                     /\ AbsContent' = AbsContent
      /\ AbsArena[p][v] # Private => /\ AbsPrivate' = AbsPrivate
                                     /\ AbsContent' = [AbsContent EXCEPT ![AbsArena[p][v]] = d]
  BY <1>1, <1>4
<1> QED
  BY <1>2, <1>5, VMStore DEF Goal

(* A vm_map that gives a page of this kind *)
LEMMA ShownMaps ==
    ASSUME DataCorrect, NEW p \in Pids, NEW kind, PageShown(Pager, Pager', p, kind)
    PROVE  /\ AbsArena' = [AbsArena EXCEPT ![p] = Append(@, kind)]
           /\ AbsPrivate' = [AbsPrivate EXCEPT ![p] = Append(@, 0)]
           /\ AbsContent' = AbsContent
<1> DEFINE P == Pager
           N == Pager'
<1>0. Shape(P)
  BY DEF DataCorrect, PagerInv, Whole
<1>1. /\ AbsArena = ArenaOf(P) /\ AbsPrivate = PrivateOf(P) /\ AbsContent = ContentsOf(P)
      /\ AbsArena' = ArenaOf(N) /\ AbsPrivate' = PrivateOf(N) /\ AbsContent' = ContentsOf(N)
  BY Mapped, MappedNext DEF MappedIs
<1>2. PageShown(P, N, p, kind)
  OBVIOUS
<1> HIDE DEF P, N
<1>3. /\ ArenaOf(N) = [ArenaOf(P) EXCEPT ![p] = Append(@, kind)]
      /\ PrivateOf(N) = [PrivateOf(P) EXCEPT ![p] = Append(@, 0)]
      /\ ContentsOf(N) = ContentsOf(P)
  BY <1>0, <1>2, ShownView
<1> QED
  BY <1>1, <1>3

LEMMA MapSwapMaps ==
    ASSUME DataCorrect, MapSwap
    PROVE  Goal
<1> DEFINE p == curr_pid
<1>0. PagerInv /\ Sound(Pager, {}) /\ Shape(Pager) /\ ProcInv
  BY DEF DataCorrect, PagerInv, Whole
<1>1. p \in alive /\ p \in Pids /\ alive' = alive
      /\ Len(data_location[p]) + 1 <= num_virt_addr /\ free_swap_blocks # <<>>
  BY <1>0 DEF MapSwap, ProcInv
<1>2. Len(AbsArena[p]) < num_virt_addr
  <2>1. PICK n \in Nat : n = Len(data_location[p])
    BY <1>0, <1>1, PagesMeaning DEF Pager
  <2> QED
    BY <1>0, <1>1, <2>1, ArenaLength, PagerAssumption
<1>3. AbsReserved < swap_blocks
  <2>1. PICK f, r : SwapCount(f, r)
    BY <1>0, SwapTotal
  <2> QED
    BY <1>1, <2>1 DEF SwapCount
<1>4. PageShown(Pager, Pager', p, Private)
  BY <1>0, MapSwapData
<1> HIDE DEF p
<1>5. /\ AbsArena' = [AbsArena EXCEPT ![p] = Append(@, Private)]
      /\ AbsPrivate' = [AbsPrivate EXCEPT ![p] = Append(@, 0)]
      /\ AbsContent' = AbsContent
  BY <1>1, <1>4, ShownMaps
<1> QED
  BY <1>1, <1>2, <1>3, <1>5, VMMapPrivate DEF Goal

(* The name is what VirtualMemory says the pages hold. *)
LEMMA NameIs ==
    ASSUME DataCorrect, NEW p \in Pids, NEW v, NEW w, {v, w} \subseteq DOMAIN data_location[p]
    PROVE  /\ NameWasRead(Pager, p, v, w) =>
                filename_str(p, v, w) = IF v = w THEN <<VM!Value(p, v)>>
                                        ELSE <<VM!Value(p, v), VM!Value(p, w)>>
           /\ WasRead(Touched(Pager, p, v), p, v) =>
                ByteOf(Touched(Pager, p, v), p, v) = VM!Value(p, v)
<1> DEFINE P == Pager
           A == Touched(P, p, v)
           B == ReadName(P, p, v, w)
<1>1. /\ Whole(P, {}, {}) /\ Shape(P) /\ Sound(P, {}) /\ P.data_location = data_location
  BY DEF DataCorrect, PagerInv, Whole, Pager
<1>2. ASSUME NEW u \in {v, w}
      PROVE  HeldIn(P, <<p, u>>) = VM!Value(p, u)
  <2>1. ValuesAre
    BY ValuesHeld
  <2>2. <<p, u>> \in PagesIn(P)
    BY <1>1, PagesMeaning
  <2> QED
    BY <2>1, <2>2 DEF ValuesAre
<1>3. filename_str(p, v, w) = IF v = w THEN <<ByteOf(A, p, v)>>
                              ELSE <<ByteOf(A, p, v), ByteOf(B, p, w)>>
  BY DEF filename_str
<1>4. NameWasRead(P, p, v, w) => WasRead(A, p, v) /\ WasRead(B, p, w)
  BY DEF NameWasRead
<1> HIDE DEF P
<1>5. /\ SoundStep(P, A, {}) /\ SoundStep(P, B, {}) /\ Settled(P, A) /\ Settled(P, B)
  BY <1>1, ReadNameData
<1> HIDE DEF A, B
<1>6. WasRead(A, p, v) => ByteOf(A, p, v) = VM!Value(p, v)
  BY <1>1, <1>2, <1>5, ByteIs
<1>7. WasRead(B, p, w) => ByteOf(B, p, w) = VM!Value(p, w)
  BY <1>1, <1>2, <1>5, ByteIs
<1> QED
  BY <1>3, <1>4, <1>6, <1>7 DEF A, P

LEMMA MapFileMaps ==
    ASSUME DataCorrect, NEW v \in VPages, NEW w \in VPages, NEW blk \in FileBlocks,
           MapFile(v, w, blk)
    PROVE  Goal
<1> DEFINE p == curr_pid
           name == filename_str(p, v, w)
           A == Touched(Pager, p, v)
<1>0. PagerInv /\ Sound(Pager, {}) /\ Shape(Pager) /\ ProcInv
  BY DEF DataCorrect, PagerInv, Whole
<1>1. p \in alive /\ p \in Pids /\ alive' = alive
      /\ Len(data_location[p]) + 1 <= num_virt_addr
      /\ v <= w /\ w <= v + 1 /\ {v, w} \subseteq DOMAIN data_location[p]
      /\ (v = w \/ (WasRead(A, p, v) /\ ByteOf(A, p, v) # 0))
  BY <1>0 DEF MapFile, ProcInv, procVars
<1>2. Len(AbsArena[p]) < num_virt_addr /\ {v, w} \subseteq DOMAIN AbsArena[p]
  <2>1. PICK n \in Nat : n = Len(data_location[p])
    BY <1>0, <1>1, PagesMeaning DEF Pager
  <2> QED
    BY <1>0, <1>1, <2>1, ArenaLength, PagerAssumption
<1>3. v = w \/ VM!Value(p, v) # 0
  BY <1>1, NameIs
<1>4. CASE NothingShown(Pager, Pager')
  BY <1>1, <1>4, NothingMaps, VMStutter DEF Goal
<1>5. CASE NameWasRead(Pager, p, v, w) /\ PageShown(Pager, Pager', p, <<name, blk>>)
  <2>1. name = IF v = w THEN <<VM!Value(p, v)>> ELSE <<VM!Value(p, v), VM!Value(p, w)>>
    BY <1>1, <1>5, NameIs
  <2> HIDE DEF p, name
  <2>2. /\ AbsArena' = [AbsArena EXCEPT ![p] = Append(@, <<name, blk>>)]
        /\ AbsPrivate' = [AbsPrivate EXCEPT ![p] = Append(@, 0)]
        /\ AbsContent' = AbsContent
    BY <1>1, <1>5, ShownMaps
  <2> QED
    BY <1>1, <1>2, <1>3, <2>1, <2>2, VMMapFile DEF Goal
<1> QED
  BY <1>0, <1>4, <1>5, MapFileData

LEMMA InitMaps == Init => VM!Init
<1> SUFFICES ASSUME Init PROVE VM!Init
  OBVIOUS
<1>0. /\ data_location = [p \in Pids |-> <<>>] /\ file_mapping_table = {}
      /\ files = [k \in FileKeys |-> 0] /\ alive = {}
  BY DEF Init
<1>1. ASSUME NEW p \in Pids
      PROVE  AbsArena[p] = <<>> /\ AbsPrivate[p] = <<>>
  <2> DEFINE f == AbsArena[p]
             g == AbsPrivate[p]
  <2>1. DOMAIN data_location[p] = {}
    BY <1>0
  <2>2. DOMAIN f = {} /\ f = [v \in DOMAIN f |-> f[v]]
    BY <2>1 DEF AbsArena
  <2>3. DOMAIN g = {} /\ g = [v \in DOMAIN g |-> g[v]]
    BY <2>1 DEF AbsPrivate
  <2> HIDE DEF f, g
  <2>4. f = <<>> /\ g = <<>>
    BY <2>2, <2>3, FunEmpty
  <2> QED
    BY <2>4 DEF f, g
<1>2. AbsArena = [p \in Pids |-> <<>>]
  BY <1>1 DEF AbsArena
<1>3. AbsPrivate = [p \in Pids |-> <<>>]
  BY <1>1 DEF AbsPrivate
<1>4. AbsContent = [k \in FileKeys |-> 0]
  BY <1>0 DEF AbsContent
<1>5. VM!FileKeys = FileKeys
  BY DEF VM!FileKeys, FileKeys, VM!Names, Names
<1> QED
  BY <1>0, <1>2, <1>3, <1>4, <1>5 DEF VM!Init, AbsArena, AbsPrivate, AbsContent

LEMMA StepMaps == DataCorrect /\ [Next]_vars => [VM!Next]_(VM!vmVars)
<1> SUFFICES ASSUME DataCorrect, [Next]_vars PROVE Goal
  BY DEF Goal
<1>0. PagerInv /\ Sound(Pager, {}) /\ Shape(Pager)
  BY DEF DataCorrect, PagerInv, Whole
<1>1. CASE \E p \in Pids \cup {NoPid}, c \in Pids : Create(p, c)
  BY <1>1, CreateMaps
<1>2. CASE \E v \in VPages, d \in Data : Store(v, d)
  BY <1>2, StoreMaps
<1>3. CASE Destroy
  BY <1>3, DestroyMaps
<1>4. CASE MapSwap
  BY <1>4, MapSwapMaps
<1>5. CASE \E v, w \in VPages, blk \in FileBlocks : MapFile(v, w, blk)
  BY <1>5, MapFileMaps
<1>6. CASE (\E v \in VPages : \E write_flag \in BOOLEAN : Fault(v, write_flag)) \/ MapFileInvalid
  <2>1. SoundStep(Pager, Pager', {}) /\ PagesIn(Pager') = PagesIn(Pager)
    BY <1>0, <1>6, FaultData, MapFileInvalidData
  <2>2. Shape(Pager')
    BY NextData DEF DataCorrect, PagerInv, Whole
  <2>3. NothingShown(Pager, Pager')
    BY <1>0, <2>1, <2>2, SamePagesShown
  <2>4. alive' = alive
    BY <1>6 DEF Fault, MapFileInvalid, procVars
  <2> QED
    BY <2>3, <2>4, NothingMaps, VMStutter DEF Goal
<1>7. CASE \/ \E p \in Pids : Switch(p)
           \/ \E k \in FileKeys : FileAppears(k)
           \/ UNCHANGED vars
  <2>1. UNCHANGED pagerVars /\ alive' = alive
    BY <1>7 DEF Switch, FileAppears, vars, procVars
  <2>2. NothingShown(Pager, Pager')
    BY <1>0, <2>1, NothingHappens
  <2> QED
    BY <2>1, <2>2, NothingMaps, VMStutter DEF Goal
<1> QED
  BY <1>1, <1>2, <1>3, <1>4, <1>5, <1>6, <1>7 DEF Next

(* The pager implements VirtualMemory: for any numbers of frames, swap     *)
(* blocks, pages and processes, every vm_create, vm_map, vm_destroy and    *)
(* store is a step of the abstract memory, and every fault, eviction,      *)
(* switch and failed call changes nothing a process can see.  A private    *)
(* page holds what its process last stored, or its parent before the fork; *)
(* a page of a file block what anybody last stored to that block.          *)
THEOREM PagerImplementsVM == CountsFit /\ Spec => ImplementsVM
<1>1. Init => VM!Init
  BY InitMaps
<1>2. DataCorrect /\ [Next]_vars => [VM!Next]_(VM!vmVars)
  BY StepMaps
<1> QED
  BY <1>1, <1>2, DataIsCorrect, PTL DEF Spec, ImplementsVM, VM!Spec
=============================================================================
