--------------------------------- MODULE Arena ---------------------------------
(***************************************************************************)
(* base/base_arena.cpp: a chain of reserved blocks used as one stack of    *)
(* memory.  A push takes the next aligned bytes of the last block, commits *)
(* pages for them, and starts a new block when they do not fit; a Temp     *)
(* remembers a position and popping to it gives back everything after it:  *)
(* the blocks that start there are released and the pages beyond it        *)
(* decommitted.  ARENA_FREE_LIST is not built and is left out.             *)
(*                                                                         *)
(* One unit of memory stands for the smallest alignment.  What the         *)
(* operating system did with the pages is kept apart from what the arena   *)
(* believes (cmt).                                                         *)
(***************************************************************************)
EXTENDS Integers, Sequences

CONSTANTS Header,       \* ARENA_HEADER_SIZE
          Windows,      \* the system: Windows or Linux
          PageSize,     \* page_size of the system
          ReserveSize,  \* reserve_size the arena is created with
          CommitSize,   \* commit_size the arena is created with
          Sizes,        \* sizes pushed
          Aligns,       \* alignments pushed with, powers of two dividing Header
          Pops,         \* amounts popped off the last region
          Width,        \* bits of a U64
          MaxBlocks,    \* bound: blocks in the chain
          MaxTemps,     \* bound: nested temporary scopes
          MaxLive       \* bound: regions in use

VARIABLES arena,      \* the chain, first block first: the last is arena->current
          committed,  \* <<block, page>> the system has backed with memory
          live,       \* regions in use, in the order of their pushes
          temps,      \* the open Temp scopes, outermost first
          aborted     \* an AssertAlways failed

vars == <<arena, committed, live, temps, aborted>>

LastOf(s) == s[Len(s)]
AtMost(x, top) == IF x < top THEN x ELSE top
AtLeast(x, bottom) == IF x > bottom THEN x ELSE bottom

Power[n \in 0 .. Width] == IF n = 0 THEN 1 ELSE 2 * Power[n - 1]
Bit(x, i) == (x \div Power[i]) % 2

\* align_pow2, as the mask it is: b need not be a power of two.  Of the bits of
\* x + b - 1 those remain that b - 1 lacks.
align_pow2(x, b) ==
  LET kept[i \in 0 .. Width] ==
        IF i = 0 THEN 0
        ELSE kept[i - 1] + Power[i - 1] * (Bit(x + b - 1, i - 1) * (1 - Bit(b - 1, i - 1)))
  IN  kept[Width]

\* arena_alloc: the header of a new block.
arena_alloc(reserve_size, commit_size, base_pos) ==
  [base_pos |-> base_pos, pos |-> Header,
   cmt |-> align_pow2(commit_size, PageSize),
   res |-> align_pow2(reserve_size, PageSize),
   cmt_size |-> commit_size, res_size |-> reserve_size]

PagesOf(k, from, to) ==
  IF from >= to THEN {} ELSE {k} \X (from \div PageSize .. (to - 1) \div PageSize)

\* Windows takes every page touched; mprotect and madvise refuse an address inside
\* a page, and the refusal is ignored.
PagesMoved(k, from, to) ==
  IF Windows \/ from % PageSize = 0 THEN PagesOf(k, from, to) ELSE {}

os_commit(k, from, to) == PagesMoved(k, from, to)
os_decommit(k, from, to) == PagesMoved(k, from, to)

Init ==
  /\ arena = <<arena_alloc(ReserveSize, CommitSize, 0)>>
  /\ committed = os_commit(1, 0, align_pow2(CommitSize, PageSize))
  /\ live = <<>>
  /\ temps = <<>>
  /\ aborted = FALSE

\* Mutant: the position within the last block.
MutantPos(a) == LastOf(a).pos

arena_pos(a) == LastOf(a).base_pos + LastOf(a).pos

\* The block arena_push chains when the push does not fit.
ChainBlock(current, size, align) ==
  LET big == size + Header > current.res_size
      own == align_pow2(size + Header, align)
  IN  arena_alloc(IF big THEN own ELSE current.res_size,
                  IF big THEN own ELSE current.cmt_size,
                  current.base_pos + current.res)

\* The commit position after a push that ends at pos_pst.
CommitTo(b, pos_pst) ==
  LET up == pos_pst + b.cmt_size - 1
  IN  IF b.cmt < pos_pst THEN AtMost(up - (up % b.cmt_size), b.res) ELSE b.cmt

arena_push(size, align) ==
  LET current == LastOf(arena)
      chains == current.res < align_pow2(current.pos, align) + size
      block == IF chains THEN ChainBlock(current, size, align) ELSE current
      k == IF chains THEN Len(arena) + 1 ELSE Len(arena)
      pos_pre == align_pow2(block.pos, align)
      pos_pst == pos_pre + size
      cmt == CommitTo(block, pos_pst)
  IN  /\ ~aborted /\ Len(live) < MaxLive /\ k <= MaxBlocks
      /\ arena' = SubSeq(arena, 1, k - 1)
                    \o <<[block EXCEPT !.cmt = cmt, !.pos = IF cmt >= pos_pst THEN pos_pst ELSE @]>>
      /\ committed' = committed \cup os_commit(k, block.cmt, cmt)
                        \cup (IF chains THEN os_commit(k, 0, block.cmt) ELSE {})
      /\ live' = Append(live, [block |-> k, from |-> pos_pre, to |-> pos_pst, align |-> align])
      /\ UNCHANGED <<temps, aborted>>

\* arena_pop_to; rest is what the caller still counts on.
arena_pop_to(pos, rest) ==
  LET big_pos == AtLeast(pos, Header)
      k == CHOOSE i \in 1 .. Len(arena) :
             /\ arena[i].base_pos < big_pos
             /\ \A j \in i + 1 .. Len(arena) : arena[j].base_pos >= big_pos
      current == arena[k]
      new_pos == big_pos - current.base_pos
      decommit_pos == align_pow2(new_pos, current.cmt_size)
      cmt == AtMost(current.cmt, decommit_pos)
  IN  /\ ~aborted
      /\ aborted' = (new_pos > current.pos)
      /\ arena' = SubSeq(arena, 1, k - 1) \o <<[current EXCEPT !.pos = new_pos, !.cmt = cmt]>>
      /\ committed' = {p \in committed : p[1] <= k} \ os_decommit(k, cmt, current.cmt)
      /\ live' = rest

arena_clear ==
  /\ temps = <<>>
  /\ arena_pop_to(0, <<>>)
  /\ UNCHANGED temps

\* The string builders reserve for the worst case and pop what they did not use.
arena_pop(amt) ==
  /\ live # <<>>
  /\ temps # <<>> => Len(live) > LastOf(temps).live
  /\ LET last == LastOf(live)
         pos_old == arena_pos(arena)
     IN  /\ amt <= last.to - last.from
         /\ arena_pop_to(IF amt < pos_old THEN pos_old - amt ELSE pos_old,
                         Append(SubSeq(live, 1, Len(live) - 1), [last EXCEPT !.to = @ - amt]))
  /\ UNCHANGED temps

temp_begin ==
  /\ ~aborted /\ Len(temps) < MaxTemps
  /\ temps' = Append(temps, [pos |-> arena_pos(arena), live |-> Len(live)])
  /\ UNCHANGED <<arena, committed, live, aborted>>

temp_end ==
  /\ temps # <<>>
  /\ arena_pop_to(LastOf(temps).pos, SubSeq(live, 1, LastOf(temps).live))
  /\ temps' = SubSeq(temps, 1, Len(temps) - 1)

Next ==
  \/ \E size \in Sizes, align \in Aligns : arena_push(size, align)
  \/ arena_clear
  \/ \E amt \in Pops : arena_pop(amt)
  \/ temp_begin
  \/ temp_end

Spec == Init /\ [][Next]_vars

-----------------------------------------------------------------------------
\* What arena_alloc may be asked for: the arena's own sizes, and for each push that does
\* not fit them the size of a block of its own.
OwnSizes == {align_pow2(p[1] + Header, p[2]) : p \in {q \in Sizes \X Aligns : q[1] + Header > ReserveSize}}
BlockParams == {<<ReserveSize, CommitSize>>} \cup {<<n, n>> : n \in OwnSizes}

\* Sizes the arena is right for: alignments, pages and what is committed at once are
\* powers of two, of which the header keeps every alignment and a commit fills pages, a
\* block has room for its header, and no sum of sizes and positions overflows.
ArenaFits ==
  /\ Width \in Nat /\ Header \in Nat \ {0} /\ Sizes \subseteq Nat /\ Pops \subseteq Nat
  /\ LET Powers == {Power[n] : n \in 0 .. Width} IN
       /\ PageSize \in Powers /\ Aligns \subseteq Powers
       /\ \A p \in BlockParams :
            /\ p[1] \in Nat /\ p[2] \in Powers
            /\ Header <= p[1] /\ p[2] <= p[1] /\ PageSize <= p[2]
            /\ p[1] + PageSize + p[2] <= Power[Width]
            /\ \A align \in Aligns : p[1] + PageSize + align <= Power[Width]
  /\ \A size \in Sizes, align \in Aligns :
       Header % align = 0 /\ size + Header + align <= Power[Width]

-----------------------------------------------------------------------------
RegionPages(r) == PagesOf(r.block, r.from, r.to)

\* Regions of one block never overlap, stay behind the header, inside the
\* reservation, aligned, and on pages the system has backed.
RegionsUsable ==
  \A i \in 1 .. Len(live) :
    LET r == live[i] IN
      /\ r.block \in 1 .. Len(arena)
      /\ Header <= r.from /\ r.to <= arena[r.block].pos
      /\ arena[r.block].pos <= arena[r.block].res
      /\ r.from % r.align = 0
      /\ RegionPages(r) \subseteq committed
      /\ \A j \in 1 .. i - 1 : live[j].block = r.block => live[j].to <= r.from

\* Every open scope can still be popped to: its position names the same
\* place it named when it was opened.
TempsReachable ==
  \A i \in 1 .. Len(temps) :
    LET keep == temps[i].live IN
      /\ temps[i].pos <= arena_pos(arena)
      /\ \A j \in 1 .. keep : arena[live[j].block].base_pos + live[j].to <= temps[i].pos
      /\ \A j \in keep + 1 .. Len(live) : arena[live[j].block].base_pos + live[j].from >= temps[i].pos

\* The arena keeps no block that nothing lives in.
NoBlockLeaks == \A k \in 2 .. Len(arena) : \E i \in 1 .. Len(live) : live[i].block = k

\* Memory the arena hands out (arena_push) is backed, private and aligned until
\* it is popped, however pushes, chained blocks and nested scopes (temp_begin,
\* temp_end) are mixed; no scope's end fails its assertion or frees older
\* memory, and a chain is released with the last region in it.
ArenaSound == ~aborted /\ RegionsUsable /\ TempsReachable /\ NoBlockLeaks
=============================================================================
