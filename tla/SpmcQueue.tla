------------------------------- MODULE SpmcQueue -------------------------------
(***************************************************************************)
(* async/spmc_queue.cpp: a deque of one owner, who pushes and pops at the  *)
(* bottom, and thieves who steal at the top.  Only top is changed by a     *)
(* compare-and-swap, and only for the last value do owner and thieves meet *)
(* there; what keeps them apart otherwise is that the owner's lowered      *)
(* bottom is visible before it reads top.                                  *)
(*                                                                         *)
(* The owner's stores are relaxed, so they reach the thieves late: they    *)
(* queue in its store buffer, and the fence of spmc_queue_pop waits for    *)
(* the buffer to drain.                                                    *)
(***************************************************************************)
EXTENDS SegmentBuffer

CONSTANTS Thieves,
          MaxPushes,  \* bound: values pushed
          MaxPops     \* bound: pops started

VARIABLES top,
          memory,     \* bottom and the segments as the thieves see them
          stores,     \* the owner's store buffer, oldest first
          own_bottom, \* bottom as the owner sees it
          own_segments,
          owner,      \* where the owner is
          thief,      \* where each thief is
          expected,   \* the top each thread loaded
          read,       \* the value each thread read from a slot
          pushed, pops,
          taken       \* how often each value was taken

spmcVars == <<top, memory, stores, own_bottom, own_segments, owner, thief, expected,
              read, pushed, pops, taken>>

\* The segments have room for all that is pushed.
QueueFits ==
  /\ Shift \in 0 .. 37
  /\ MaxPushes \in Nat /\ MaxPushes <= segment_buffer_capacity_from_segment_count(MaxSegments)
  /\ "owner" \notin Thieves

Values == 1 .. MaxPushes

\* spmc_queue_slot_get
SlotGet(m, index) == m.slots[SlotOf(index)]

\* spmc_queue_create, reserving one segment
SpmcInit ==
  /\ top = 0
  /\ memory = [bottom |-> 0, slots |-> segment_buffer_ensure_size(<<>>, 0)]
  /\ stores = <<>>
  /\ own_bottom = 0
  /\ own_segments = 1
  /\ owner = "idle"
  /\ thief = [t \in Thieves |-> "idle"]
  /\ expected = [t \in Thieves \cup {"owner"} |-> 0]
  /\ read = [t \in Thieves \cup {"owner"} |-> Zero]
  /\ pushed = 0 /\ pops = 0
  /\ taken = [v \in Values |-> 0]

Apply(m, s) ==
  IF s.kind = "bottom" THEN [m EXCEPT !.bottom = s.to]
  ELSE IF s.kind = "slot" THEN [m EXCEPT !.slots[s.at] = s.to]
  ELSE [m EXCEPT !.slots = segment_buffer_ensure_size(@, s.to)]

Bottom(b) == [kind |-> "bottom", to |-> b]

\* Memory as the owner reads it: as it will be once its stores have drained.
Settled ==
  LET after[n \in 0 .. Len(stores)] ==
        IF n = 0 THEN memory ELSE Apply(after[n - 1], stores[n])
  IN  after[Len(stores)]

Drain ==
  /\ stores # <<>>
  /\ memory' = Apply(memory, Head(stores))
  /\ stores' = Tail(stores)
  /\ UNCHANGED <<top, own_bottom, own_segments, owner, thief, expected, read, pushed, pops, taken>>

\* spmc_queue_push: segment, slot and bottom are stored in this order.
spmc_queue_push ==
  LET segment == segment_buffer_segment_index(own_bottom)
      grow == IF own_segments <= segment THEN <<[kind |-> "segment", to |-> segment]>> ELSE <<>>
  IN  /\ owner = "idle" /\ pushed < MaxPushes
      /\ stores' = stores \o grow
                     \o <<[kind |-> "slot", at |-> SlotOf(own_bottom), to |-> pushed + 1],
                          Bottom(own_bottom + 1)>>
      /\ own_segments' = own_segments + Len(grow)
      /\ own_bottom' = own_bottom + 1
      /\ pushed' = pushed + 1
      /\ UNCHANGED <<top, memory, owner, thief, expected, read, pops, taken>>

\* spmc_queue_pop up to its fence
PopLower ==
  /\ owner = "idle" /\ own_bottom > 0 /\ pops < MaxPops
  /\ stores' = Append(stores, Bottom(own_bottom - 1))
  /\ own_bottom' = own_bottom - 1
  /\ pops' = pops + 1
  /\ owner' = "fence"
  /\ UNCHANGED <<top, memory, own_segments, thief, expected, read, pushed, taken>>

\* Mutant: no fence between bottom's store and top's load.
MutantFencePassed == TRUE

FencePassed == stores = <<>>

\* ... and from the fence: empty, more than one value, or the last one.
PopLoadTop ==
  /\ owner = "fence" /\ FencePassed
  /\ expected' = [expected EXCEPT !["owner"] = top]
  /\ \/ /\ top > own_bottom
        /\ own_bottom' = own_bottom + 1
        /\ stores' = Append(stores, Bottom(own_bottom + 1))
        /\ owner' = "idle"
        /\ UNCHANGED <<read, taken>>
     \/ /\ top < own_bottom
        /\ LET v == SlotGet(Settled, own_bottom) IN taken' = [taken EXCEPT ![v] = @ + 1]
        /\ owner' = "idle"
        /\ UNCHANGED <<own_bottom, stores, read>>
     \/ /\ top = own_bottom
        /\ read' = [read EXCEPT !["owner"] = SlotGet(Settled, own_bottom)]
        /\ owner' = "cas"
        /\ UNCHANGED <<own_bottom, stores, taken>>
  /\ UNCHANGED <<top, memory, own_segments, thief, pushed, pops>>

\* A compare-and-swap drains the buffer as well.
PopCas ==
  /\ owner = "cas" /\ stores = <<>>
  /\ IF top = expected["owner"]
       THEN /\ top' = top + 1
            /\ taken' = [taken EXCEPT ![read["owner"]] = @ + 1]
       ELSE UNCHANGED <<top, taken>>
  /\ own_bottom' = own_bottom + 1
  /\ stores' = Append(stores, Bottom(own_bottom + 1))
  /\ owner' = "idle"
  /\ UNCHANGED <<memory, own_segments, thief, expected, read, pushed, pops>>

-----------------------------------------------------------------------------
\* spmc_queue_steal: top, then bottom, then the slot, then the swap.
StealLoadTop(t) ==
  /\ thief[t] = "idle"
  /\ expected' = [expected EXCEPT ![t] = top]
  /\ thief' = [thief EXCEPT ![t] = "bottom"]
  /\ UNCHANGED <<top, memory, stores, own_bottom, own_segments, owner, read, pushed, pops, taken>>

StealLoadBottom(t) ==
  /\ thief[t] = "bottom"
  /\ thief' = [thief EXCEPT ![t] = IF expected[t] >= memory.bottom THEN "idle" ELSE "slot"]
  /\ UNCHANGED <<top, memory, stores, own_bottom, own_segments, owner, expected, read, pushed,
                 pops, taken>>

StealRead(t) ==
  /\ thief[t] = "slot"
  /\ read' = [read EXCEPT ![t] = SlotGet(memory, expected[t])]
  /\ thief' = [thief EXCEPT ![t] = "cas"]
  /\ UNCHANGED <<top, memory, stores, own_bottom, own_segments, owner, expected, pushed, pops, taken>>

StealCas(t) ==
  /\ thief[t] = "cas"
  /\ IF top = expected[t]
       THEN /\ top' = top + 1
            /\ taken' = [taken EXCEPT ![read[t]] = @ + 1]
       ELSE UNCHANGED <<top, taken>>
  /\ thief' = [thief EXCEPT ![t] = "idle"]
  /\ UNCHANGED <<memory, stores, own_bottom, own_segments, owner, expected, read, pushed, pops>>

SpmcNext ==
  \/ Drain \/ spmc_queue_push \/ PopLower \/ PopLoadTop \/ PopCas
  \/ \E t \in Thieves : StealLoadTop(t) \/ StealLoadBottom(t) \/ StealRead(t) \/ StealCas(t)

-----------------------------------------------------------------------------
\* The slots that hold values nobody took; a pop under way still holds its own.
Waiting == {SlotGet(Settled, i) :
              i \in top .. (IF owner = "idle" THEN own_bottom - 1 ELSE own_bottom)}

\* A value pushed is taken once, by the owner (spmc_queue_pop) or by one thief
\* (spmc_queue_steal), and waits in its slot until then, although the owner and
\* the thieves read top and bottom one after another and the owner's stores
\* arrive late.
EachValueTakenOnce ==
  /\ \A v \in Values : taken[v] <= 1
  /\ Waiting = {v \in 1 .. pushed : taken[v] = 0}
=============================================================================
