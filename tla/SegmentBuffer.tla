----------------------------- MODULE SegmentBuffer -----------------------------
(***************************************************************************)
(* async/segment_buffer.cpp: an array that grows without moving, as        *)
(* segments of 2^Shift, 2^(Shift + 1), ... slots.  An index names a slot   *)
(* of a segment, and memory maps the slots of the segments allocated so    *)
(* far to what they hold.                                                  *)
(***************************************************************************)
EXTENDS Integers, Sequences, FiniteSets

CONSTANTS Shift,  \* SEGMENT_BUFFER_SHIFT
          Zero    \* what fresh memory holds

MaxSegments == 26 \* SEGMENT_BUFFER_MAX_SEGMENT_COUNT

Pow2[n \in 0 .. 63] == IF n = 0 THEN 1 ELSE 2 * Pow2[n - 1]

segment_buffer_capacity(segment_index) == Pow2[Shift + segment_index]

segment_buffer_capacity_from_segment_count(segment_count) ==
  Pow2[Shift + segment_count] - Pow2[Shift]

\* The index of the highest bit of (index >> Shift) + 1.
segment_buffer_segment_index(index) ==
  LET shifted_index == index \div Pow2[Shift] + 1
  IN  CHOOSE s \in 0 .. MaxSegments - 1 : Pow2[s] <= shifted_index /\ shifted_index < Pow2[s + 1]

SlotOf(index) ==
  LET s == segment_buffer_segment_index(index)
  IN  <<s, index - segment_buffer_capacity_from_segment_count(s)>>

Segment(s) == {s} \X (0 .. segment_buffer_capacity(s) - 1)

\* Memory with the segments up to s: those it lacks are allocated, zeroed.
segment_buffer_ensure_size(memory, s) ==
  [p \in DOMAIN memory \cup UNION {Segment(i) : i \in 0 .. s} |->
     IF p \in DOMAIN memory THEN memory[p] ELSE Zero]

\* segment_buffer_insert
segment_buffer_insert(memory, v, index) ==
  [segment_buffer_ensure_size(memory, SlotOf(index)[1]) EXCEPT ![SlotOf(index)] = v]
=============================================================================
