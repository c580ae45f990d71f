------------------------------- MODULE Allocator -------------------------------
(***************************************************************************)
(* base/base_allocator.cpp: an arena of one block that runs destructors.   *)
(* Objects grow from the bottom of the block, and one Destructor record    *)
(* for each object that needs one grows down from its top, on pages the    *)
(* allocator commits itself.  Clearing runs the records from the last to   *)
(* the first and pops every object.                                        *)
(***************************************************************************)
EXTENDS Arena

CONSTANTS Stride,      \* size of a Destructor record
          MaxObjects   \* bound: objects placed between two clears

VARIABLES destructor_pos,      \* arena->destructor_pos
          destructor_cmt_pos,
          destructor_count,
          base_pos,            \* arena_pos behind the Allocator itself
          records,             \* the memory of the records: position -> object
          objects,             \* objects alive, in the order they were placed
          destroyed,           \* objects destroyed by the last clear, in order
          mapped               \* the lower pages never reached the records'

allocVars == <<destructor_pos, destructor_cmt_pos, destructor_count, base_pos,
               records, objects, destroyed, mapped>>
allVars == <<vars, allocVars>>

Block == arena[1]

\* Allocator::create: the allocator is the first object of its own arena.
AllocatorInit ==
  LET block == arena_alloc(ReserveSize, CommitSize, 0)
      pos == Header + Stride
      cmt == CommitTo(block, pos)
  IN  /\ arena = <<[block EXCEPT !.pos = pos, !.cmt = cmt]>>
      /\ committed = os_commit(1, 0, cmt)
      /\ live = <<>> /\ temps = <<>> /\ aborted = FALSE
      /\ destructor_pos = block.res
      /\ destructor_cmt_pos = block.res
      /\ destructor_count = 0
      /\ base_pos = pos
      /\ records = << >>
      /\ objects = <<>> /\ destroyed = <<>>
      /\ mapped = TRUE

\* Allocator::push: the objects must stay below the records, or the process aborts.
Push(size, align, object) ==
  LET pos_pre == align_pow2(Block.pos, align)
      pos_pst == pos_pre + size
      cmt == CommitTo(Block, pos_pst)
  IN  /\ pos_pst <= destructor_pos
      /\ arena' = <<[Block EXCEPT !.pos = pos_pst, !.cmt = cmt]>>
      /\ live' = Append(live, [block |-> 1, from |-> pos_pre, to |-> pos_pst,
                               align |-> align, object |-> object])

\* _allocator_push_destructor and _push_only_destructor
PushRecord(object, pos) ==
  LET pos_pst == destructor_pos - Stride
      cmt_pos == pos_pst - (pos_pst % PageSize)
      grows == cmt_pos < destructor_cmt_pos
  IN  /\ pos <= pos_pst
      /\ destructor_pos' = pos_pst
      /\ destructor_cmt_pos' = IF grows THEN cmt_pos ELSE destructor_cmt_pos
      /\ committed' = committed \cup os_commit(1, Block.cmt, arena'[1].cmt)
                        \cup (IF grows THEN os_commit(1, cmt_pos, destructor_cmt_pos) ELSE {})
      /\ records' = [p \in DOMAIN records \cup {pos_pst} |->
                       IF p = pos_pst THEN object ELSE records[p]]
      /\ destructor_count' = destructor_count + 1

NextObject == Len(objects) + 1

\* place<T> of a type that is trivially destructible ...
PlaceTrivial(size, align) ==
  /\ Len(objects) < MaxObjects
  /\ Push(size, align, 0)
  /\ committed' = committed \cup os_commit(1, Block.cmt, arena'[1].cmt)
  /\ mapped' = (mapped /\ arena'[1].cmt <= destructor_cmt_pos)
  /\ UNCHANGED <<temps, aborted, destructor_pos, destructor_cmt_pos, destructor_count,
                 base_pos, records, objects, destroyed>>

\* ... and of one that is not.
Place(size, align) ==
  /\ Len(objects) < MaxObjects
  /\ Push(size, align, NextObject)
  /\ PushRecord(NextObject, arena'[1].pos)
  /\ objects' = Append(objects, NextObject)
  /\ mapped' = (mapped /\ arena'[1].cmt <= destructor_cmt_pos')
  /\ UNCHANGED <<temps, aborted, base_pos, destroyed>>

\* place<T>(mem): the record of an object that lives elsewhere.
PlaceAt ==
  /\ Len(objects) < MaxObjects
  /\ UNCHANGED <<arena, live>>
  /\ PushRecord(NextObject, Block.pos)
  /\ objects' = Append(objects, NextObject)
  /\ mapped' = (mapped /\ Block.cmt <= destructor_cmt_pos')
  /\ UNCHANGED <<temps, aborted, base_pos, destroyed>>

\* Mutant: the records are not given back.
MutantClear ==
  /\ destroyed' = [i \in 1 .. destructor_count |-> records[destructor_pos + (i - 1) * Stride]]
  /\ objects' = <<>>
  /\ destructor_count' = 0
  /\ arena_pop_to(base_pos, <<>>)
  /\ UNCHANGED <<temps, destructor_pos, records, destructor_cmt_pos, base_pos, mapped>>

\* _allocator_destroy_all, then arena_pop_to.
clear ==
  /\ destroyed' = [i \in 1 .. destructor_count |-> records[destructor_pos + (i - 1) * Stride]]
  /\ objects' = <<>>
  /\ destructor_count' = 0
  /\ destructor_pos' = Block.res
  /\ records' = << >>
  /\ arena_pop_to(base_pos, <<>>)
  /\ UNCHANGED <<temps, destructor_cmt_pos, base_pos, mapped>>

\* pop_to a position get_usage returned, of an allocator that holds no record.
PopTo(n) ==
  /\ destructor_count = 0
  /\ arena_pop_to(live[n].to, SubSeq(live, 1, n))
  /\ UNCHANGED <<temps, allocVars>>

AllocatorNext ==
  \/ \E size \in Sizes, align \in Aligns : PlaceTrivial(size, align) \/ Place(size, align)
  \/ PlaceAt
  \/ clear
  \/ \E n \in 1 .. Len(live) : PopTo(n)

-----------------------------------------------------------------------------
\* Sizes the allocator is right for: alignments, pages and what is committed at once are
\* powers of two, a commit fills pages, the block has room for what is committed at first
\* and for the Allocator, and no position overflows.
AllocatorFits ==
  /\ Width \in Nat /\ Header \in Nat \ {0} /\ Stride \in Nat \ {0} /\ Sizes \subseteq Nat
  /\ LET Powers == {Power[n] : n \in 0 .. Width} IN
       PageSize \in Powers /\ CommitSize \in Powers /\ Aligns \subseteq Powers
  /\ ReserveSize \in Nat /\ Header + Stride <= ReserveSize
  /\ PageSize <= CommitSize /\ CommitSize <= ReserveSize
  /\ ReserveSize + PageSize + CommitSize <= Power[Width]
  /\ \A align \in Aligns : ReserveSize + PageSize + align <= Power[Width]

-----------------------------------------------------------------------------
RecordPages(p) == PagesOf(1, p, p + Stride)

\* The records lie one after another up to the top of the block, the last object's
\* lowest, and no object reaches into them.
RecordsMatchObjects ==
  /\ Len(objects) = destructor_count
  /\ Block.pos <= destructor_pos
  /\ destructor_pos + destructor_count * Stride = Block.res
  /\ \A i \in 1 .. destructor_count : records[Block.res - i * Stride] = objects[i]

\* As long as the pages of the objects have never met those of the records, a record
\* is on backed memory.  Afterwards it need not be: a pop decommits pages that
\* destructor_cmt_pos still counts as committed (base_allocator.cpp:100-114), and the
\* next record that goes there is written to memory the system took back.
RecordsBacked == mapped => \A p \in DOMAIN records : RecordPages(p) \subseteq committed

\* A clear destroyed what was placed, once each, the last first.
DestroyedInReverse == \A i \in 1 .. Len(destroyed) : destroyed[i] = Len(destroyed) + 1 - i

\* However placing, popping and clearing are mixed (Allocator::place, clear,
\* pop_to), each object alive is on backed memory and has its own destructor record,
\* clear of the objects, and a clear runs all of them in the reverse order.  That the
\* records are on backed memory too is said only of an allocator whose objects have
\* not grown into the records' pages since it was created.
DestructorsSound == ~aborted /\ RegionsUsable /\ RecordsMatchObjects /\ RecordsBacked
                      /\ DestroyedInReverse
=============================================================================
