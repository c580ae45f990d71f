--------------------------- MODULE StructureProofs ---------------------------
(***************************************************************************)
(* Proofs about the data structures: the ring of MpmcQueue, for every set  *)
(* of items and every size, the pool of ArrayResourcePool, for every       *)
(* capacity, and on the segment buffer the deque of one owner and its      *)
(* thieves (SpmcQueue) and the timer heap (MinHeap).                       *)
(***************************************************************************)
EXTENDS MpmcQueue, ArrayResourcePool, SpmcQueue, MinHeap, SequenceFacts

-----------------------------------------------------------------------------
(***************************************************************************)
(* Every index the ring computes is a slot plus at most the size, so the   *)
(* remainder is one conditional subtraction.                               *)
(***************************************************************************)
LEMMA WrapValue ==
  ASSUME NEW n \in Nat \ {0}, NEW x \in 0 .. n - 1, NEW i \in 0 .. n
  PROVE  (x + i) % n = IF x + i < n THEN x + i ELSE x + i - n
<1>1. CASE x + i < n
  BY <1>1
<1>2. CASE ~(x + i < n)
  BY <1>2
<1>3. QED BY <1>1, <1>2

(***************************************************************************)
(* Where the i-th item is: the value of Slot without the remainder.        *)
(***************************************************************************)
LEMMA SlotValue ==
  ASSUME TypeOK, NEW i \in 0 .. queue_size
  PROVE  /\ Slot(i) = IF next_index + i < queue_size
                        THEN next_index + i ELSE next_index + i - queue_size
         /\ Slot(i) \in 0 .. queue_size - 1
<1>1. queue_size \in Nat \ {0} /\ next_index \in 0 .. queue_size - 1
  BY DEF TypeOK
<1>2. Slot(i) = IF next_index + i < queue_size
                  THEN next_index + i ELSE next_index + i - queue_size
  BY <1>1, WrapValue DEF Slot
<1>3. QED BY <1>1, <1>2

(***************************************************************************)
(* The array _queue_grow allocates is larger and keeps every item.         *)
(***************************************************************************)
LEMMA GrownFits ==
  ASSUME TypeOK
  PROVE  /\ GrownSize \in Nat \ {0}
         /\ GrownSize > queue_size
         /\ GrownItems \in [0 .. GrownSize - 1 -> Items \cup {NoItem}]
<1>1. GrownSize \in Nat \ {0} /\ GrownSize > queue_size
  BY DEF GrownSize, ClampBot, TypeOK
<1>2. ASSUME NEW s \in 0 .. GrownSize - 1, s < items_in_queue_count
      PROVE  items[Slot(s)] \in Items \cup {NoItem}
  <2>1. s \in 0 .. queue_size
    BY <1>1, <1>2 DEF TypeOK
  <2>2. QED BY <2>1, SlotValue DEF TypeOK
<1>3. QED BY <1>1, <1>2 DEF GrownItems

-----------------------------------------------------------------------------
(***************************************************************************)
(* queue_alloc builds a ring that satisfies the invariant.                 *)
(***************************************************************************)
LEMMA InitRing == Init => RingInv
<1> SUFFICES ASSUME Init PROVE RingInv
  OBVIOUS
<1>1. queue_size \in Nat \ {0}
  BY MpmcAssumption DEF Init, ClampBot
<1>2. TypeOK
  BY <1>1 DEF Init, TypeOK
<1>3. FillFollowsCount
  BY <1>2, SlotValue DEF FillFollowsCount, Init, TypeOK
<1>4. OccupiedSlotsFilled
  BY DEF Init, OccupiedSlotsFilled
<1>5. QED BY <1>2, <1>3, <1>4 DEF RingInv

(***************************************************************************)
(* Inserting into a free slot keeps the invariant: the slot written is the *)
(* one after the last occupied slot, and no occupied slot changes.         *)
(***************************************************************************)
LEMMA InsertKeepsRing ==
  ASSUME RingInv, NEW x \in Items, InsertValue(x)
  PROVE  RingInv'
<1> USE DEF RingInv, InsertValue
<1>1. TypeOK'
  <2>1. fill_index' \in 0 .. queue_size - 1
    BY DEF TypeOK
  <2>2. QED BY <2>1 DEF TypeOK
<1>2. \A i \in 0 .. queue_size : Slot(i)' = Slot(i)
  BY DEF Slot
<1>3. fill_index = Slot(items_in_queue_count)
  BY DEF FillFollowsCount
<1>4. FillFollowsCount'
  <2>1. fill_index' = Slot(items_in_queue_count + 1)
    <3>1. items_in_queue_count \in 0 .. queue_size /\ items_in_queue_count + 1 \in 0 .. queue_size
      BY DEF TypeOK
    <3>2. queue_size \in Nat \ {0} /\ fill_index \in 0 .. queue_size - 1
      BY DEF TypeOK
    <3>3. (fill_index + 1) % queue_size
            = IF fill_index + 1 < queue_size THEN fill_index + 1 ELSE fill_index + 1 - queue_size
      BY <3>2, WrapValue
    <3>4. Slot(items_in_queue_count)
            = IF next_index + items_in_queue_count < queue_size
                THEN next_index + items_in_queue_count
                ELSE next_index + items_in_queue_count - queue_size
      BY <3>1, SlotValue
    <3>5. Slot(items_in_queue_count + 1)
            = IF next_index + (items_in_queue_count + 1) < queue_size
                THEN next_index + (items_in_queue_count + 1)
                ELSE next_index + (items_in_queue_count + 1) - queue_size
      BY <3>1, SlotValue
    <3>6. QED BY <1>3, <3>1, <3>3, <3>4, <3>5 DEF TypeOK
  <2>2. Slot(items_in_queue_count)' = (next_index + (items_in_queue_count + 1)) % queue_size
    BY DEF Slot
  <2>3. QED BY <2>1, <2>2 DEF FillFollowsCount, Slot
<1>5. OccupiedSlotsFilled'
  <2> SUFFICES ASSUME NEW i \in 0 .. items_in_queue_count
               PROVE  items'[Slot(i)] \in Items
    BY <1>2 DEF OccupiedSlotsFilled, TypeOK
  <2>1. i \in 0 .. queue_size
    BY DEF TypeOK
  <2>2. CASE i = items_in_queue_count
    BY <2>2, <1>3 DEF TypeOK
  <2>3. CASE i < items_in_queue_count
    <3>1. Slot(i) # fill_index
      <4>1. Slot(i) = IF next_index + i < queue_size
                        THEN next_index + i ELSE next_index + i - queue_size
        BY <2>1, SlotValue
      <4>2. Slot(items_in_queue_count)
              = IF next_index + items_in_queue_count < queue_size
                  THEN next_index + items_in_queue_count
                  ELSE next_index + items_in_queue_count - queue_size
        <5>1. items_in_queue_count \in 0 .. queue_size
          BY DEF TypeOK
        <5>2. QED BY <5>1, SlotValue
      <4>3. QED BY <2>3, <1>3, <4>1, <4>2 DEF TypeOK
    <3>2. items'[Slot(i)] = items[Slot(i)]
      BY <2>1, <3>1, SlotValue DEF TypeOK
    <3>3. QED BY <2>3, <3>2 DEF OccupiedSlotsFilled, TypeOK
  <2>4. QED BY <2>2, <2>3 DEF TypeOK
<1>6. QED BY <1>1, <1>4, <1>5

(***************************************************************************)
(* Growing a full ring keeps the invariant: the items are moved to the     *)
(* front of the new array, oldest first.                                   *)
(***************************************************************************)
LEMMA GrowKeepsRing ==
  ASSUME RingInv, NEW x \in Items, PushGrowing(x)
  PROVE  RingInv'
<1> USE DEF RingInv, PushGrowing
<1>1. items_in_queue_count = queue_size /\ items_in_queue_count \in Nat \ {0}
  BY DEF TypeOK
<1>2. GrownSize \in Nat \ {0} /\ GrownSize > queue_size
  BY GrownFits
<1>3. TypeOK'
  <2>2. (items_in_queue_count + 1) % GrownSize \in 0 .. GrownSize - 1
    BY <1>1, <1>2
  <2>3. items' \in [0 .. GrownSize - 1 -> Items \cup {NoItem}]
    BY GrownFits, <1>1
  <2>4. QED BY <1>1, <1>2, <2>2, <2>3 DEF TypeOK
<1>4. FillFollowsCount'
  BY <1>1, <1>2 DEF FillFollowsCount, Slot
<1>5. OccupiedSlotsFilled'
  <2> SUFFICES ASSUME NEW i \in 0 .. items_in_queue_count
               PROVE  items'[Slot(i)'] \in Items
    BY <1>1 DEF OccupiedSlotsFilled
  <2>1. Slot(i)' = i
    <3>1. Slot(i)' = (0 + i) % GrownSize
      BY DEF Slot
    <3>2. i \in Nat /\ i < GrownSize
      BY <1>1, <1>2
    <3>3. (0 + i) % GrownSize = i
      BY <1>2, <3>2
    <3>4. QED BY <3>1, <3>3
  <2>2. CASE i = items_in_queue_count
    BY <2>1, <2>2, <1>1, <1>2, GrownFits
  <2>3. CASE i < items_in_queue_count
    <3>1. items'[i] = items[Slot(i)]
      BY <2>3, <1>1, <1>2 DEF GrownItems
    <3>2. QED BY <2>1, <2>3, <3>1, <1>1 DEF OccupiedSlotsFilled
  <2>4. QED BY <2>2, <2>3, <1>1
<1>6. QED BY <1>3, <1>4, <1>5

(***************************************************************************)
(* Reading keeps the invariant: the occupied slots lose the oldest one.    *)
(***************************************************************************)
LEMMA ReadKeepsRing ==
  ASSUME RingInv, TryRead
  PROVE  RingInv'
<1> USE DEF RingInv, TryRead
<1>1. next_index' = IF next_index + 1 < queue_size THEN next_index + 1 ELSE 0
  <2>1. queue_size \in Nat \ {0} /\ next_index \in 0 .. queue_size - 1 /\ 1 \in 0 .. queue_size
    BY DEF TypeOK
  <2>2. (next_index + 1) % queue_size
          = IF next_index + 1 < queue_size THEN next_index + 1 ELSE next_index + 1 - queue_size
    BY <2>1, WrapValue
  <2>3. QED BY <2>1, <2>2
<1>2. TypeOK'
  BY <1>1 DEF TypeOK
<1>3. ASSUME NEW i \in 0 .. queue_size - 1
      PROVE  Slot(i)' = Slot(i + 1)
  <2>1. /\ queue_size \in Nat \ {0} /\ next_index' \in 0 .. queue_size - 1
        /\ i \in 0 .. queue_size /\ queue_size' = queue_size
    BY <1>1 DEF TypeOK
  <2>2. Slot(i)' = IF next_index' + i < queue_size
                     THEN next_index' + i ELSE next_index' + i - queue_size
    BY <2>1, WrapValue DEF Slot
  <2>3. Slot(i + 1) = IF next_index + (i + 1) < queue_size
                        THEN next_index + (i + 1) ELSE next_index + (i + 1) - queue_size
    <3>1. i + 1 \in 0 .. queue_size
      BY DEF TypeOK
    <3>2. QED BY <3>1, SlotValue
  <2>4. QED BY <2>2, <2>3, <1>1 DEF TypeOK
<1>4. FillFollowsCount'
  BY <1>3 DEF FillFollowsCount, TypeOK
<1>5. OccupiedSlotsFilled'
  BY <1>3 DEF OccupiedSlotsFilled, TypeOK
<1>6. QED BY <1>2, <1>4, <1>5

(***************************************************************************)
(* In every reachable state both indices name a slot, the count fits, the  *)
(* write position follows from the read position and the count, and every  *)
(* occupied slot holds an item somebody pushed.                            *)
(***************************************************************************)
THEOREM RingSafe == Spec => []RingInv
<1>1. RingInv /\ [Next]_vars => RingInv'
  <2> SUFFICES ASSUME RingInv, [Next]_vars PROVE RingInv'
    OBVIOUS
  <2>1. ASSUME NEW x \in Items, PushGrowing(x) PROVE RingInv'
    BY <2>1, GrowKeepsRing
  <2>2. ASSUME NEW x \in Items, PushInPlace(x) PROVE RingInv'
    BY <2>2, InsertKeepsRing DEF PushInPlace
  <2>3. ASSUME NEW x \in Items, TryPush(x) PROVE RingInv'
    BY <2>3, InsertKeepsRing DEF TryPush
  <2>4. CASE TryRead
    BY <2>4, ReadKeepsRing
  <2>5. ASSUME UNCHANGED <<items, next_index, fill_index, items_in_queue_count, queue_size>>
        PROVE  RingInv'
    BY <2>5 DEF RingInv, TypeOK, FillFollowsCount, OccupiedSlotsFilled, Slot
  <2>6. QED
    BY <2>1, <2>2, <2>3, <2>4, <2>5 DEF Next, TryPushFull, TryReadEmpty, vars
<1>2. QED BY InitRing, <1>1, PTL DEF Spec

-----------------------------------------------------------------------------
(***************************************************************************)
(* A function on 1..n with values in S is the sequence its values list.    *)
(***************************************************************************)
LEMMA EqualToSeq ==
  ASSUME NEW S, NEW t \in Seq(S), NEW n \in Nat, Len(t) = n,
         NEW f, f = [i \in 1 .. n |-> f[i]], \A i \in 1 .. n : f[i] = t[i]
  PROVE  f = t
<1>1. \A i \in 1 .. n : f[i] \in S
  BY ElementOfSeq
<1>2. f \in Seq(S) /\ Len(f) = n
  BY <1>1
<1>3. QED BY <1>2, SeqEqual

(***************************************************************************)
(* The abstract queue of a ring: as many items as the count says, each one *)
(* of Items.                                                               *)
(***************************************************************************)
LEMMA ContentsType ==
  ASSUME RingInv
  PROVE  /\ Contents \in Seq(Items)
         /\ Len(Contents) = items_in_queue_count
         /\ \A i \in 1 .. items_in_queue_count : Contents[i] = items[Slot(i - 1)]
<1>1. items_in_queue_count \in Nat
  BY DEF RingInv, TypeOK
<1>2. ASSUME NEW i \in 1 .. items_in_queue_count PROVE items[Slot(i - 1)] \in Items
  BY <1>1 DEF RingInv, OccupiedSlotsFilled
<1>3. QED BY <1>1, <1>2 DEF Contents

(***************************************************************************)
(* An insertion into a free slot appends to the abstract queue.            *)
(***************************************************************************)
LEMMA InsertAppends ==
  ASSUME RingInv, NEW x \in Items, InsertValue(x)
  PROVE  Contents' = Append(Contents, x)
<1>1. RingInv'
  BY InsertKeepsRing
<1>2. items_in_queue_count \in Nat /\ items_in_queue_count' = items_in_queue_count + 1
  BY DEF RingInv, TypeOK, InsertValue
<1>3. ASSUME NEW i \in 1 .. items_in_queue_count + 1
      PROVE  items'[Slot(i - 1)'] = Append(Contents, x)[i]
  <2>1. Slot(i - 1)' = Slot(i - 1)
    BY DEF Slot, InsertValue
  <2>2. i - 1 \in 0 .. queue_size /\ items_in_queue_count \in 0 .. queue_size
    BY <1>2 DEF RingInv, TypeOK, InsertValue
  <2>3. fill_index = Slot(items_in_queue_count)
    BY DEF RingInv, FillFollowsCount
  <2>4. /\ Slot(i - 1) = IF next_index + (i - 1) < queue_size
                           THEN next_index + (i - 1) ELSE next_index + (i - 1) - queue_size
        /\ Slot(i - 1) \in 0 .. queue_size - 1
        /\ Slot(items_in_queue_count)
              = IF next_index + items_in_queue_count < queue_size
                  THEN next_index + items_in_queue_count
                  ELSE next_index + items_in_queue_count - queue_size
    BY <2>2, SlotValue DEF RingInv
  <2>5. CASE i = items_in_queue_count + 1
    <3>1. Slot(i - 1) = fill_index
      BY <1>2, <2>3, <2>5
    <3>2. items'[fill_index] = x
      BY <2>3, <2>4, <3>1 DEF InsertValue, RingInv, TypeOK
    <3>3. Append(Contents, x)[i] = x
      BY <1>2, <2>5, ContentsType, AppendAt
    <3>4. QED BY <2>1, <3>1, <3>2, <3>3
  <2>6. CASE i \in 1 .. items_in_queue_count
    <3>1. Slot(i - 1) # fill_index
      BY <1>2, <2>2, <2>3, <2>4, <2>6 DEF RingInv, TypeOK, InsertValue
    <3>2. items'[Slot(i - 1)] = items[Slot(i - 1)]
      BY <2>4, <3>1 DEF InsertValue, RingInv, TypeOK
    <3>3. Append(Contents, x)[i] = items[Slot(i - 1)]
      <4>1. Append(Contents, x)[i] = Contents[i]
        BY <1>2, <2>6, ContentsType, AppendAt
      <4>2. Contents[i] = items[Slot(i - 1)]
        BY <2>6, ContentsType
      <4>3. QED BY <4>1, <4>2
    <3>4. QED BY <2>1, <3>2, <3>3
  <2>7. i = items_in_queue_count + 1 \/ i \in 1 .. items_in_queue_count
    BY <1>2
  <2>8. QED BY <2>5, <2>6, <2>7
<1>4. Contents' = [i \in 1 .. items_in_queue_count + 1 |-> items'[Slot(i - 1)']]
  BY <1>2 DEF Contents
<1>5. /\ Append(Contents, x) \in Seq(Items)
      /\ Len(Append(Contents, x)) = items_in_queue_count + 1
  BY ContentsType, AppendAt
<1>6. /\ Contents' = [i \in 1 .. items_in_queue_count + 1 |-> Contents'[i]]
      /\ \A i \in 1 .. items_in_queue_count + 1 : Contents'[i] = Append(Contents, x)[i]
  BY <1>3, <1>4
<1>7. items_in_queue_count + 1 \in Nat
  BY <1>2
<1>8. QED BY <1>5, <1>6, <1>7, EqualToSeq

(***************************************************************************)
(* A push that grows the ring appends to the abstract queue too.           *)
(***************************************************************************)
LEMMA GrowAppends ==
  ASSUME RingInv, NEW x \in Items, PushGrowing(x)
  PROVE  Contents' = Append(Contents, x)
<1>1. /\ items_in_queue_count \in Nat /\ items_in_queue_count = queue_size
      /\ items_in_queue_count' = items_in_queue_count + 1
      /\ GrownSize \in Nat \ {0} /\ GrownSize > queue_size
  BY GrownFits DEF RingInv, TypeOK, PushGrowing
<1>2. ASSUME NEW i \in 1 .. items_in_queue_count + 1
      PROVE  items'[Slot(i - 1)'] = Append(Contents, x)[i]
  <2>1. Slot(i - 1)' = i - 1
    <3>1. Slot(i - 1)' = (0 + (i - 1)) % GrownSize
      BY DEF Slot, PushGrowing
    <3>2. i - 1 \in Nat /\ i - 1 < GrownSize
      BY <1>1
    <3>3. (0 + (i - 1)) % GrownSize = i - 1
      BY <1>1, <3>2
    <3>4. QED BY <3>1, <3>3
  <2>2. items' = [GrownItems EXCEPT ![items_in_queue_count] = x]
    BY DEF PushGrowing
  <2>3. CASE i = items_in_queue_count + 1
    <3>1. items'[i - 1] = x
      BY <1>1, <2>2, <2>3, GrownFits DEF RingInv
    <3>2. Append(Contents, x)[i] = x
      BY <1>1, <2>3, ContentsType, AppendAt
    <3>3. QED BY <2>1, <3>1, <3>2
  <2>4. CASE i \in 1 .. items_in_queue_count
    <3>1. items'[i - 1] = items[Slot(i - 1)]
      BY <1>1, <2>2, <2>4 DEF GrownItems
    <3>2. Append(Contents, x)[i] = items[Slot(i - 1)]
      <4>1. Append(Contents, x)[i] = Contents[i]
        BY <1>1, <2>4, ContentsType, AppendAt
      <4>2. Contents[i] = items[Slot(i - 1)]
        BY <2>4, ContentsType
      <4>3. QED BY <4>1, <4>2
    <3>3. QED BY <2>1, <3>1, <3>2
  <2>5. i = items_in_queue_count + 1 \/ i \in 1 .. items_in_queue_count
    BY <1>1
  <2>6. QED BY <2>3, <2>4, <2>5
<1>3. Contents' = [i \in 1 .. items_in_queue_count + 1 |-> items'[Slot(i - 1)']]
  BY <1>1 DEF Contents
<1>4. /\ Append(Contents, x) \in Seq(Items)
      /\ Len(Append(Contents, x)) = items_in_queue_count + 1
  BY ContentsType, AppendAt
<1>5. /\ Contents' = [i \in 1 .. items_in_queue_count + 1 |-> Contents'[i]]
      /\ \A i \in 1 .. items_in_queue_count + 1 : Contents'[i] = Append(Contents, x)[i]
  BY <1>2, <1>3
<1>6. items_in_queue_count + 1 \in Nat
  BY <1>1
<1>7. QED BY <1>4, <1>5, <1>6, EqualToSeq

(***************************************************************************)
(* A read returns the head of the abstract queue and leaves its tail.      *)
(***************************************************************************)
LEMMA ReadTakesHead ==
  ASSUME RingInv, TryRead
  PROVE  /\ Contents # <<>>
         /\ items[next_index] = Head(Contents)
         /\ Contents' = Tail(Contents)
<1>1. /\ items_in_queue_count \in Nat \ {0} /\ items_in_queue_count <= queue_size
      /\ items_in_queue_count' = items_in_queue_count - 1
      /\ queue_size \in Nat \ {0} /\ queue_size' = queue_size
      /\ next_index \in 0 .. queue_size - 1
  BY DEF RingInv, TypeOK, TryRead
<1>2. Slot(0) = next_index
  BY <1>1, SlotValue DEF RingInv
<1>3. next_index' = IF next_index + 1 < queue_size THEN next_index + 1 ELSE 0
  <2>1. 1 \in 0 .. queue_size
    BY <1>1
  <2>2. (next_index + 1) % queue_size
          = IF next_index + 1 < queue_size THEN next_index + 1 ELSE next_index + 1 - queue_size
    BY <1>1, <2>1, WrapValue
  <2>3. QED BY <1>1, <2>2 DEF TryRead
<1>4. ASSUME NEW i \in 1 .. items_in_queue_count - 1
      PROVE  items'[Slot(i - 1)'] = Tail(Contents)[i]
  <2>1. Slot(i - 1)' = Slot(i)
    <3>1. next_index' \in 0 .. queue_size - 1 /\ i - 1 \in 0 .. queue_size /\ i \in 0 .. queue_size
      BY <1>1, <1>3
    <3>2. Slot(i - 1)' = IF next_index' + (i - 1) < queue_size
                           THEN next_index' + (i - 1) ELSE next_index' + (i - 1) - queue_size
      BY <1>1, <3>1, WrapValue DEF Slot
    <3>3. Slot(i) = IF next_index + i < queue_size
                      THEN next_index + i ELSE next_index + i - queue_size
      BY <3>1, SlotValue DEF RingInv
    <3>4. QED BY <1>1, <1>3, <3>1, <3>2, <3>3
  <2>2. Tail(Contents)[i] = Contents[i + 1]
    BY <1>1, ContentsType
  <2>3. Contents[i + 1] = items[Slot((i + 1) - 1)]
    BY <1>1, ContentsType
  <2>4. (i + 1) - 1 = i
    BY <1>1
  <2>5. QED BY <2>1, <2>2, <2>3, <2>4 DEF TryRead
<1>5. Contents' = [i \in 1 .. items_in_queue_count - 1 |-> items'[Slot(i - 1)']]
  BY <1>1 DEF Contents
<1>6. Tail(Contents) \in Seq(Items) /\ Len(Tail(Contents)) = items_in_queue_count - 1
  BY <1>1, ContentsType
<1>7. Contents # <<>> /\ Head(Contents) = items[next_index]
  BY <1>1, <1>2, ContentsType
<1>8. /\ Contents' = [i \in 1 .. items_in_queue_count - 1 |-> Contents'[i]]
      /\ \A i \in 1 .. items_in_queue_count - 1 : Contents'[i] = Tail(Contents)[i]
  BY <1>4, <1>5
<1>9. items_in_queue_count - 1 \in Nat
  BY <1>1
<1>10. Contents' = Tail(Contents)
  BY <1>6, <1>8, <1>9, EqualToSeq
<1>11. QED BY <1>7, <1>10

(***************************************************************************)
(* The ring of mpmc_queue.cpp is a FIFO queue: growing, wrapping and       *)
(* refusing included, each of its steps is a step of Fifo.                 *)
(***************************************************************************)
THEOREM RingIsFifo == Spec => ImplementsFifo
<1>1. Init => Queue!Init
  <2> SUFFICES ASSUME Init PROVE Queue!Init
    OBVIOUS
  <2>1. RingInv
    BY InitRing
  <2>2. Contents = <<>>
    BY <2>1, ContentsType DEF Init
  <2>3. QED BY <2>1, <2>2 DEF Init, RingInv, TypeOK, Queue!Init, Outcome, Queue!Outcome
<1>2. RingInv /\ [Next]_vars => [Queue!Next]_Queue!vars
  <2> SUFFICES ASSUME RingInv, [Next]_vars PROVE [Queue!Next]_Queue!vars
    OBVIOUS
  <2>0. /\ Len(Contents) = items_in_queue_count
        /\ items_in_queue_count \in Nat /\ queue_size \in Nat \ {0}
    BY ContentsType DEF RingInv, TypeOK
  <2>1. ASSUME NEW x \in Items, PushGrowing(x) PROVE Queue!Push(x)
    <3>1. GrownSize \in Nat /\ GrownSize > queue_size /\ Contents' = Append(Contents, x)
      BY <2>1, GrowAppends, GrownFits DEF RingInv
    <3>2. ~(Len(Contents) < queue_size) /\ queue_size' = GrownSize
      BY <2>0, <2>1 DEF PushGrowing
    <3>3. QED BY <2>1, <3>1, <3>2 DEF PushGrowing, Queue!Push, Outcome, Queue!Outcome
  <2>2. ASSUME NEW x \in Items, PushInPlace(x) PROVE Queue!Push(x)
    BY <2>0, <2>2, InsertAppends DEF PushInPlace, InsertValue, Queue!Push, Outcome, Queue!Outcome
  <2>3. ASSUME NEW x \in Items, TryPush(x) PROVE Queue!TryPush(x)
    BY <2>0, <2>3, InsertAppends DEF TryPush, InsertValue, Queue!TryPush, Outcome, Queue!Outcome
  <2>4. ASSUME UNCHANGED <<items, next_index, fill_index, items_in_queue_count, queue_size>>
        PROVE  Contents' = Contents
    BY <2>4 DEF Contents, Slot
  <2>5. ASSUME NEW x \in Items, TryPushFull(x) PROVE Queue!TryPush(x)
    BY <2>0, <2>4, <2>5 DEF TryPushFull, Queue!TryPush, Outcome, Queue!Outcome
  <2>6. CASE TryRead
    BY <2>6, ReadTakesHead DEF TryRead, Queue!Next, Queue!TryRead, Outcome, Queue!Outcome
  <2>7. CASE TryReadEmpty
    <3>1. Contents = <<>>
      BY <2>0, <2>7, ContentsType DEF TryReadEmpty
    <3>2. QED BY <3>1, <2>4, <2>7 DEF TryReadEmpty, Queue!Next, Queue!TryRead, Outcome, Queue!Outcome
  <2>8. CASE UNCHANGED vars
    BY <2>4, <2>8 DEF vars, Queue!vars
  <2>9. QED
    BY <2>1, <2>2, <2>3, <2>5, <2>6, <2>7, <2>8 DEF Next, Queue!Next
<1>3. QED BY <1>1, <1>2, RingSafe, PTL DEF Spec, Queue!Spec, ImplementsFifo

-----------------------------------------------------------------------------
(***************************************************************************)
(* A handle of an ArrayResourcePool finds its item exactly while it is     *)
(* held, for every capacity.                                               *)
(*                                                                         *)
(* The step that matters is handle_get: the item it takes must not be in   *)
(* use, and what is left of the list must not contain it.  Neither follows *)
(* from the handles alone, so the invariant says of the links what a       *)
(* reader of a linked list takes for granted, without ever walking it: the *)
(* head is unused, links lead from unused to unused items, nothing links   *)
(* to the head, and no two items link to the same one.                     *)
(***************************************************************************)
PoolSpec == PoolInit /\ [][PoolNext]_poolVars

Free(i) == ~in_use[i]

LinksWellFormed ==
  /\ free_list # 0 => Free(free_list)
  /\ \A i \in PoolItems : Free(i) /\ next[i] # 0 => Free(next[i])
  /\ \A i \in PoolItems : Free(i) /\ next[i] # 0 => next[i] # free_list
  /\ \A i, j \in PoolItems : Free(i) /\ Free(j) /\ next[i] # 0 /\ next[i] = next[j] => i = j

StaleHandlesOld == \A h \in stale : h.idx \in PoolItems => h.gen_id < gen_id[h.idx]

HeldResolve == \A h \in held : Resolves(h)

PoolInv == PoolTypeOK /\ LinksWellFormed /\ StaleHandlesOld /\ HeldResolve

\* Getting a handle keeps the types.
LEMMA GetKeepsTypes == PoolTypeOK /\ handle_get => PoolTypeOK'
<1> SUFFICES ASSUME PoolTypeOK, handle_get PROVE PoolTypeOK'
  OBVIOUS
<1>1. free_list \in PoolItems /\ next[free_list] \in 0 .. Capacity
  BY SMT DEF handle_get, PoolTypeOK, PoolItems
<1>2. in_use' \in [PoolItems -> BOOLEAN]
  BY Zenon DEF handle_get, PoolTypeOK
<1>3. next' \in [PoolItems -> 0 .. Capacity]
  <2>1. 0 \in 0 .. Capacity
    BY PoolAssumption, SMT
  <2> QED BY <2>1, Zenon DEF handle_get, PoolTypeOK
<1>4. held' \subseteq Handles
  BY <1>1, SMT DEF handle_get, PoolTypeOK, PoolItems, Handles
<1> QED BY <1>1, <1>2, <1>3, <1>4 DEF handle_get, PoolTypeOK

\* Freeing a handle keeps the types.
LEMMA FreeKeepsTypes ==
  ASSUME PoolTypeOK, NEW h \in held \cup stale, item_free(h) PROVE PoolTypeOK'
<1>1. h.idx \in PoolItems /\ h \in Handles
  <2>1. h \in Handles
    BY DEF PoolTypeOK
  <2> QED BY <2>1, SMT DEF item_free, Handles, PoolItems
<1>2. in_use' \in [PoolItems -> BOOLEAN]
  BY Zenon DEF item_free, PoolTypeOK
<1>3. next' \in [PoolItems -> 0 .. Capacity]
  BY Zenon DEF item_free, PoolTypeOK
<1>4. gen_id' \in [PoolItems -> Nat]
  BY <1>1, SMT DEF item_free, PoolTypeOK
<1>5. free_list' \in 0 .. Capacity
  BY <1>1, SMT DEF item_free, PoolItems
<1>6. held' \subseteq Handles /\ stale' \subseteq Handles
  BY <1>1 DEF item_free, PoolTypeOK
<1> QED BY <1>2, <1>3, <1>4, <1>5, <1>6 DEF PoolTypeOK

\* The variables keep their types: links and the head stay inside the array.
THEOREM PoolTypeCorrect == PoolSpec => []PoolTypeOK
<1>1. PoolInit => PoolTypeOK
  BY PoolAssumption, SMT DEF PoolInit, PoolTypeOK, PoolItems, Handles
<1>2. PoolTypeOK /\ [PoolNext]_poolVars => PoolTypeOK'
  <2> SUFFICES ASSUME PoolTypeOK, [PoolNext]_poolVars PROVE PoolTypeOK'
    OBVIOUS
  <2>1. CASE handle_get
    BY <2>1, GetKeepsTypes
  <2>2. ASSUME NEW h \in held \cup stale, item_free(h) PROVE PoolTypeOK'
    BY <2>2, FreeKeepsTypes
  <2>3. CASE UNCHANGED poolVars
    BY <2>3 DEF poolVars, PoolTypeOK
  <2> QED BY <2>1, <2>2, <2>3 DEF PoolNext
<1> QED BY <1>1, <1>2, PTL DEF PoolSpec

\* A fresh pool satisfies the invariant.
LEMMA InvInit == PoolInit => PoolInv
<1> SUFFICES ASSUME PoolInit PROVE PoolInv
  OBVIOUS
<1>1. PoolTypeOK
  BY PoolAssumption, SMT DEF PoolInit, PoolTypeOK, PoolItems, Handles
<1>2. LinksWellFormed
  BY PoolAssumption, SMT DEF PoolInit, LinksWellFormed, Free, PoolItems
<1> QED BY <1>1, <1>2, SMT DEF PoolInit, PoolInv, StaleHandlesOld, HeldResolve

\* The head of the list is a fresh item: its handle resolves, and the rest of
\* the list is a list of its own.
LEMMA GetKeepsInv == PoolInv /\ PoolTypeOK' /\ handle_get => PoolInv'
<1> SUFFICES ASSUME PoolInv, PoolTypeOK', handle_get PROVE PoolInv'
  OBVIOUS
<1> USE DEF PoolInv, PoolTypeOK
<1>1. free_list \in PoolItems /\ Free(free_list)
  BY SMT DEF handle_get, LinksWellFormed, PoolItems
<1>2. in_use'[free_list] /\ \A i \in PoolItems : i # free_list => in_use'[i] = in_use[i]
  BY <1>1, Zenon DEF handle_get
<1>3. \A i \in PoolItems : i # free_list => next'[i] = next[i]
  BY <1>1, SMT DEF handle_get
<1>4. LinksWellFormed'
  BY <1>1, <1>2, <1>3, SMT DEF handle_get, LinksWellFormed, Free, PoolItems
<1>5. StaleHandlesOld'
  BY SMT DEF handle_get, StaleHandlesOld
<1>6. HeldResolve'
  BY <1>1, <1>2, SMT DEF handle_get, HeldResolve, Resolves, PoolItems, Handles
<1> QED BY <1>4, <1>5, <1>6

\* Only a held handle has its item's generation, so the item was in use and no
\* link leads to it yet.
LEMMA FreeKeepsInv ==
  ASSUME PoolInv, PoolTypeOK', NEW h \in held \cup stale, item_free(h),
         \A g, k \in held : g.idx = k.idx => g = k
  PROVE  PoolInv'
<1> USE DEF PoolInv, PoolTypeOK
<1>1. h.idx \in PoolItems /\ h \in Handles
  BY SMT DEF item_free, PoolItems
<1>2. h \in held
  BY <1>1, SMT DEF item_free, StaleHandlesOld, PoolItems, Handles
<1>3. in_use[h.idx]
  BY <1>2 DEF HeldResolve, Resolves
<1>4. ~in_use'[h.idx] /\ \A i \in PoolItems : i # h.idx => in_use'[i] = in_use[i]
  BY <1>1, Zenon DEF item_free
<1>5. /\ \A i \in PoolItems : i # h.idx => next'[i] = next[i]
      /\ next'[h.idx] = free_list
      /\ free_list' = h.idx
  BY <1>1, SMT DEF item_free
<1>6. LinksWellFormed'
  <2>1. /\ free_list # 0 => free_list \in PoolItems /\ free_list # h.idx
        /\ \A i \in PoolItems : Free(i) => next[i] # h.idx
    BY <1>1, <1>3, SMT DEF LinksWellFormed, Free, PoolItems
  <2>2. Free(h.idx)' /\ \A i \in PoolItems : i # h.idx => (Free(i)' <=> Free(i))
    BY <1>4 DEF Free
  <2>3. \A i \in PoolItems : next[i] \in 0 .. Capacity
    OBVIOUS
  <2>4. free_list' # 0 => Free(free_list)'
    BY <1>5, <2>2 DEF Free
  <2>6. ASSUME NEW i \in PoolItems, Free(i)', next'[i] # 0 PROVE Free(next[i])'
    <3>1. CASE i = h.idx
      BY <1>5, <2>1, <2>2, <2>6, <3>1, SMT DEF LinksWellFormed, Free
    <3>2. CASE i # h.idx
      <4>1. Free(i) /\ next'[i] = next[i] /\ next[i] # h.idx /\ next[i] \in PoolItems
        BY <1>5, <2>1, <2>2, <2>3, <2>6, <3>2, SMT DEF PoolItems
      <4>2. Free(next[i])
        BY <2>6, <4>1 DEF LinksWellFormed
      <4> QED BY <1>4, <4>1, <4>2 DEF Free
    <3> QED BY <3>1, <3>2
  <2>7. \A i \in PoolItems : Free(i)' /\ next'[i] # 0 => next'[i] # free_list'
    BY <1>5, <2>1, <2>2, SMT DEF LinksWellFormed
  <2>8. \A i, j \in PoolItems :
          Free(i)' /\ Free(j)' /\ next'[i] # 0 /\ next'[i] = next'[j] => i = j
    BY <1>5, <2>1, <2>2, SMT DEF LinksWellFormed
  <2> QED BY <2>4, <2>6, <2>7, <2>8 DEF LinksWellFormed
<1>7. StaleHandlesOld'
  BY <1>1, SMT DEF item_free, StaleHandlesOld, PoolItems, Handles
<1>8. HeldResolve'
  BY <1>1, <1>2, SMT DEF item_free, HeldResolve, Resolves, PoolItems, Handles
<1> QED BY <1>6, <1>7, <1>8

\* Two held handles of one item have the item's one generation.
LEMMA HeldDistinct == PoolInv => \A g, k \in held : g.idx = k.idx => g = k
  BY SMT DEF PoolInv, PoolTypeOK, HeldResolve, Resolves, Handles

\* A handle finds its item exactly while it is held: the areas' tileset handles,
\* kept after streaming_end, never find the renderer of a later area.
THEOREM HandlesExactAlways == PoolSpec => []HandlesExact
<1>1. PoolInv /\ [PoolNext]_poolVars => PoolInv'
  <2> SUFFICES ASSUME PoolInv, [PoolNext]_poolVars PROVE PoolInv'
    OBVIOUS
  <2>1. CASE handle_get
    <3>1. PoolTypeOK'
      BY <2>1, GetKeepsTypes DEF PoolInv
    <3> QED BY <2>1, <3>1, GetKeepsInv
  <2>2. ASSUME NEW h \in held \cup stale, item_free(h) PROVE PoolInv'
    <3>1. PoolTypeOK'
      BY <2>2, FreeKeepsTypes DEF PoolInv
    <3> QED BY <2>2, <3>1, FreeKeepsInv, HeldDistinct
  <2>3. CASE UNCHANGED poolVars
    BY <2>3 DEF poolVars, PoolInv, PoolTypeOK, LinksWellFormed, Free, StaleHandlesOld,
                HeldResolve, Resolves
  <2> QED BY <2>1, <2>2, <2>3 DEF PoolNext
<1>2. PoolInv => HandlesExact
  <2> SUFFICES ASSUME PoolInv PROVE HandlesExact
    OBVIOUS
  <2>1. \A h \in stale : ~Resolves(h)
    BY SMT DEF PoolInv, PoolTypeOK, StaleHandlesOld, Resolves, PoolItems, Handles
  <2> QED BY <2>1, HeldDistinct DEF PoolInv, HeldResolve, HandlesExact
<1> QED BY <1>1, <1>2, InvInit, PTL DEF PoolSpec

-----------------------------------------------------------------------------
(***************************************************************************)
(* SegmentBuffer.                                                          *)
(***************************************************************************)
\* Pow2 holds the powers of two.
LEMMA Pow2IsPowers == Doubles(Pow2, 63)
  BY PowersDefined DEF Pow2

Room == segment_buffer_capacity_from_segment_count(MaxSegments)

\* The room is a number, so that a count is either less or not.
LEMMA RoomIsNumber == ASSUME Shift \in 0 .. 37 PROVE Room \in Int
<1>1. \A n \in 0 .. 63 : Pow2[n] \in Int
  BY Pow2IsPowers, PowersGrow
<1>2. Shift \in 0 .. 63 /\ Shift + 26 \in 0 .. 63
  OBVIOUS
<1>3. Pow2[Shift] \in Int /\ Pow2[Shift + 26] \in Int
  BY <1>1, <1>2
<1> QED BY <1>3 DEF Room, segment_buffer_capacity_from_segment_count, MaxSegments

\* An index has one segment, and its place lies in it.
LEMMA SlotFacts ==
  ASSUME Shift \in 0 .. 37, NEW i \in Nat, i < Room
  PROVE  LET s == segment_buffer_segment_index(i)
         IN  /\ s \in 0 .. MaxSegments - 1
             /\ SlotOf(i) = <<s, i - segment_buffer_capacity_from_segment_count(s)>>
             /\ SlotOf(i) \in Segment(s)
             /\ segment_buffer_capacity_from_segment_count(s) \in Int
<1> DEFINE w == Pow2[Shift]
           q == i \div w
           x == q + 1
           s == segment_buffer_segment_index(i)
           Reached == {k \in Nat : k <= 25 /\ x < Pow2[k + 1]}
<1>1. /\ \A n \in 0 .. 63 : Pow2[n] \in Nat \ {0}
      /\ \A n \in 0 .. 26 : Pow2[Shift + n] = w * Pow2[n] /\ n \in 0 .. 63
  <2>1. \A n \in 0 .. 26 : n \in 0 .. 63 /\ Shift \in 0 .. 63 /\ Shift + n <= 63
    OBVIOUS
  <2>2. \A j, n \in 0 .. 63 : j + n <= 63 => Pow2[j + n] = Pow2[j] * Pow2[n]
    BY Pow2IsPowers, PowersGrow
  <2>3. \A n \in 0 .. 63 : Pow2[n] \in Nat \ {0}
    BY Pow2IsPowers, PowersGrow
  <2> QED BY <2>1, <2>2, <2>3
<1>2. Pow2[0] = 1 /\ \A n \in 0 .. 25 : Pow2[n + 1] = 2 * Pow2[n]
  <2>1. \A n \in 0 .. 25 : n + 1 \in 0 .. 63 /\ n + 1 # 0 /\ (n + 1) - 1 = n
    OBVIOUS
  <2> QED BY <2>1, Pow2IsPowers DEF Doubles
<1>3. w \in Nat \ {0}
  <2>1. Shift \in 0 .. 63
    OBVIOUS
  <2> QED BY <1>1, <2>1
<1>4. /\ i < w * Pow2[26] - w /\ Pow2[26] \in Nat /\ w * Pow2[26] \in Nat
  BY <1>1, <1>3 DEF Room, segment_buffer_capacity_from_segment_count, MaxSegments
<1> HIDE DEF w
<1>5. q \in Nat /\ w * q <= i /\ i < w * q + w /\ w * q \in Nat
  BY <1>3, DivFacts
<1> HIDE DEF q
<1>6. 25 \in Reached
  <2>1. ~(Pow2[26] <= q + 1)
    <3> SUFFICES ASSUME Pow2[26] <= q + 1 PROVE FALSE
      OBVIOUS
    <3>1. PICK d \in Nat : q + 1 = Pow2[26] + d
      <4>1. q + 1 \in Nat
        BY <1>5
      <4> QED BY <1>4, <4>1, Difference
    <3>2. w * (q + 1) = w * Pow2[26] + w * d /\ w * (q + 1) = w * q + w /\ w * d \in Nat
      BY <1>3, <1>4, <1>5, <3>1
    <3> QED BY <1>3, <1>4, <1>5, <3>2
  <2> QED BY <1>4, <1>5, <2>1
<1>7. PICK k \in Reached : \A y \in Reached : k <= y
  <2>1. Reached \subseteq Nat
    OBVIOUS
  <2> HIDE DEF Reached
  <2> QED BY <1>6, <2>1, LeastNumber
<1>8. k \in 0 .. 25 /\ x < Pow2[k + 1] /\ Pow2[k] <= x
  <2>1. CASE k = 0
    BY <1>2, <1>5, <2>1
  <2>2. CASE k # 0
    <3>1. k - 1 \in Nat /\ k - 1 <= 25 /\ ~(k <= k - 1) /\ (k - 1) + 1 = k /\ k \in 0 .. 63
      BY <2>2
    <3>2. k - 1 \notin Reached
      <4> HIDE DEF Reached
      <4> QED BY <1>7, <3>1
    <3>3. ~(x < Pow2[k])
      BY <3>1, <3>2
    <3> QED BY <1>1, <1>5, <3>1, <3>3
  <2> QED BY <2>1, <2>2
<1>9. s = CHOOSE n \in 0 .. 25 : Pow2[n] <= x /\ x < Pow2[n + 1]
  BY DEF segment_buffer_segment_index, MaxSegments, q, w
<1>10. s \in 0 .. 25 /\ Pow2[s] <= x /\ x < Pow2[s + 1]
  BY <1>8, <1>9
<1> HIDE DEF s
<1> DEFINE c == segment_buffer_capacity_from_segment_count(s)
<1>11. /\ s \in 0 .. 26 /\ s \in 0 .. 63
       /\ Pow2[s] \in Nat \ {0} /\ Pow2[s + 1] = 2 * Pow2[s] /\ Pow2[Shift + s] = w * Pow2[s]
  BY <1>1, <1>2, <1>10
<1>12. c = w * Pow2[s] - w /\ segment_buffer_capacity(s) = w * Pow2[s]
  BY <1>11 DEF segment_buffer_capacity_from_segment_count, segment_buffer_capacity, w
<1> HIDE DEF c
<1>13. c <= i /\ i - c < w * Pow2[s] /\ w * Pow2[s] \in Nat
  <2>1. PICK p \in Nat : p = Pow2[s]
    BY <1>11
  <2>2. p <= q + 1 /\ q + 1 < 2 * p
    BY <1>10, <1>11, <2>1
  <2>3. w * p \in Nat
    BY <1>3
  <2>4. PICK d \in Nat : q + 1 = p + d
    BY <1>5, <2>2
  <2>5. PICK b \in Nat : 2 * p = (q + 2) + b
    <3>1. q + 2 \in Nat /\ 2 * p \in Nat /\ q + 2 <= 2 * p
      BY <1>5, <2>1, <2>2
    <3> QED BY <3>1, Difference
  <2>6. w * q + w = w * p + w * d /\ w * d \in Nat
    <3>1. w * (q + 1) = w * (p + d)
      BY <2>4
    <3> QED BY <1>3, <1>5, <3>1
  <2>7. 2 * (w * p) = w * q + 2 * w + w * b /\ w * b \in Nat
    <3>1. w * (2 * p) = w * (q + 2 + b)
      BY <2>5
    <3> QED BY <1>3, <1>5, <3>1
  <2> QED BY <1>3, <1>5, <1>12, <2>1, <2>3, <2>6, <2>7
<1>14. c \in Int /\ i - c \in 0 .. segment_buffer_capacity(s) - 1
  BY <1>3, <1>11, <1>12, <1>13
<1>15. SlotOf(i) = <<s, i - c>>
  BY DEF SlotOf, s, c
<1>16. SlotOf(i) \in Segment(s)
  BY <1>14, <1>15 DEF Segment
<1> QED BY <1>10, <1>14, <1>15, <1>16 DEF s, c, MaxSegments

\* Different indices have different places.
LEMMA SlotsApart ==
  ASSUME Shift \in 0 .. 37, NEW i \in Nat, NEW j \in Nat, i < Room, j < Room,
         SlotOf(i) = SlotOf(j)
  PROVE  i = j
<1> DEFINE s == segment_buffer_segment_index(i)
           r == segment_buffer_segment_index(j)
           c(n) == segment_buffer_capacity_from_segment_count(n)
<1>1. SlotOf(i) = <<s, i - c(s)>> /\ c(s) \in Int
  BY SlotFacts
<1>2. SlotOf(j) = <<r, j - c(r)>>
  BY SlotFacts
<1> HIDE DEF s, r, c
<1>3. <<s, i - c(s)>> = <<r, j - c(r)>>
  BY <1>1, <1>2
<1>4. s = r /\ i - c(s) = j - c(r)
  BY <1>3
<1> QED BY <1>1, <1>4

-----------------------------------------------------------------------------
(***************************************************************************)
(* SpmcQueue.  What the owner's stores make of memory, one after another.  *)
(***************************************************************************)
Trace(f, m, st) ==
  f = [n \in 0 .. Len(st) |-> IF n = 0 THEN m ELSE Apply(f[n - 1], st[n])]

\* The memory before the first store, and after each one that leaves the buffer.
LEMMA TraceFacts ==
  ASSUME NEW f, NEW m, NEW S, NEW st \in Seq(S), Trace(f, m, st)
  PROVE  /\ DOMAIN f = 0 .. Len(st) /\ f[0] = m
         /\ \A n \in 1 .. Len(st) : f[n] = Apply(f[n - 1], st[n])
<1> DEFINE F == [n \in 0 .. Len(st) |-> IF n = 0 THEN m ELSE Apply(f[n - 1], st[n])]
<1>1. f = F
  BY DEF Trace
<1>2. Len(st) \in Nat
  OBVIOUS
<1>3. DOMAIN F = 0 .. Len(st) /\ \A n \in 0 .. Len(st) : F[n] = IF n = 0 THEN m ELSE Apply(f[n - 1], st[n])
  OBVIOUS
<1> HIDE DEF F
<1>4. 0 \in 0 .. Len(st) /\ \A n \in 1 .. Len(st) : n \in 0 .. Len(st) /\ n # 0
  BY <1>2
<1> QED BY <1>1, <1>3, <1>4

\* The trace is what Settled defines.
LEMMA SettledIsLast ==
  ASSUME NEW S, stores \in Seq(S), NEW f, Trace(f, memory, stores)
  PROVE  Settled = f[Len(stores)]
<1> DEFINE F(g) == [n \in 0 .. Len(stores) |-> IF n = 0 THEN memory ELSE Apply(g[n - 1], stores[n])]
           after == CHOOSE g : g = F(g)
<1>1. f = F(f)
  BY DEF Trace
<1>2. after = F(after)
  BY <1>1
<1>3. Len(stores) \in Nat
  OBVIOUS
<1>4. Settled = after[Len(stores)]
  BY DEF Settled
<1>5. /\ \A n \in 0 .. Len(stores) :
           /\ f[n] = IF n = 0 THEN memory ELSE Apply(f[n - 1], stores[n])
           /\ after[n] = IF n = 0 THEN memory ELSE Apply(after[n - 1], stores[n])
  <2> HIDE DEF after
  <2>1. \A g : \A n \in 0 .. Len(stores) :
          F(g)[n] = IF n = 0 THEN memory ELSE Apply(g[n - 1], stores[n])
    OBVIOUS
  <2> HIDE DEF F
  <2> QED BY <1>1, <1>2, <2>1
<1> HIDE DEF after
<1> DEFINE P == {n \in Nat : n <= Len(stores) => f[n] = after[n]}
<1>6. 0 \in P
  BY <1>3, <1>5
<1>7. ASSUME NEW n \in Nat, n \in P PROVE n + 1 \in P
  <2>1. CASE n + 1 <= Len(stores)
    <3>1. n + 1 \in 0 .. Len(stores) /\ n + 1 # 0 /\ (n + 1) - 1 = n /\ n <= Len(stores)
      BY <1>3, <2>1
    <3> QED BY <1>5, <1>7, <3>1
  <2> QED BY <2>1
<1>8. \A n \in Nat : n \in P
  <2> HIDE DEF P
  <2> QED BY <1>6, <1>7, NumberInduction
<1> QED BY <1>3, <1>4, <1>8

\* One store more.
LEMMA AppendTrace ==
  ASSUME NEW f, NEW m, NEW S, NEW st \in Seq(S), Trace(f, m, st), NEW s \in S
  PROVE  LET g == [n \in 0 .. Len(st) + 1 |->
                     IF n = Len(st) + 1 THEN Apply(f[Len(st)], s) ELSE f[n]]
         IN  /\ Trace(g, m, Append(st, s))
             /\ Append(st, s) \in Seq(S) /\ Len(Append(st, s)) = Len(st) + 1
             /\ \A n \in 0 .. Len(st) : g[n] = f[n]
             /\ g[Len(st) + 1] = Apply(f[Len(st)], s)
             /\ g[Len(Append(st, s))] = Apply(f[Len(st)], s)
<1> DEFINE N == Len(st)
           r == Append(st, s)
           g == [n \in 0 .. N + 1 |-> IF n = N + 1 THEN Apply(f[N], s) ELSE f[n]]
<1>1. /\ N \in Nat /\ r \in Seq(S) /\ Len(r) = N + 1
      /\ \A n \in 1 .. N : r[n] = st[n]
      /\ r[N + 1] = s
  OBVIOUS
<1>2. f[0] = m /\ \A n \in 1 .. N : f[n] = Apply(f[n - 1], st[n])
  BY TraceFacts
<1> HIDE DEF N, r
<1>3. /\ N + 1 \in 0 .. N + 1 /\ 0 \in 0 .. N + 1 /\ 0 # N + 1
      /\ \A n \in 0 .. N + 1 : n = N + 1 \/ n \in 0 .. N
      /\ \A n \in 0 .. N : n \in 0 .. N + 1 /\ n # N + 1
      /\ \A n \in 0 .. N : n = 0 \/ (n \in 1 .. N /\ n - 1 \in 0 .. N)
      /\ N + 1 - 1 = N /\ N \in 0 .. N /\ N + 1 # 0
  BY <1>1
<1>4. g[N + 1] = Apply(f[N], s) /\ \A n \in 0 .. N : g[n] = f[n]
  BY <1>3
<1>5. ASSUME NEW n \in 0 .. N + 1
      PROVE  g[n] = IF n = 0 THEN m ELSE Apply(g[n - 1], r[n])
  <2> HIDE DEF g
  <2>1. CASE n = N + 1
    BY <1>1, <1>3, <1>4, <2>1
  <2>2. CASE n \in 0 .. N
    BY <1>1, <1>2, <1>3, <1>4, <2>2
  <2> QED BY <1>3, <2>1, <2>2
<1>6. Trace(g, m, r)
  BY <1>1, <1>5 DEF Trace
<1> QED BY <1>1, <1>4, <1>6 DEF N, r

\* The first store has reached memory.
LEMMA DrainTrace ==
  ASSUME NEW f, NEW m, NEW S, NEW st \in Seq(S), Trace(f, m, st), st # <<>>
  PROVE  LET g == [n \in 0 .. Len(st) - 1 |-> f[n + 1]]
         IN  /\ Trace(g, Apply(m, Head(st)), Tail(st))
             /\ Tail(st) \in Seq(S) /\ Len(Tail(st)) = Len(st) - 1 /\ Len(st) - 1 \in Nat
             /\ \A n \in 0 .. Len(st) - 1 : g[n] = f[n + 1]
<1> DEFINE N == Len(st)
           r == Tail(st)
           h == Head(st)
           g == [n \in 0 .. N - 1 |-> f[n + 1]]
<1>1. /\ N \in Nat /\ N > 0 /\ r \in Seq(S) /\ Len(r) = N - 1
      /\ \A n \in 1 .. N - 1 : r[n] = st[n + 1]
      /\ st[1] = h
  OBVIOUS
<1>2. f[0] = m /\ \A n \in 1 .. N : f[n] = Apply(f[n - 1], st[n])
  BY TraceFacts
<1> HIDE DEF N, r, h
<1>3. /\ N - 1 \in Nat /\ 0 \in 0 .. N - 1 /\ 0 + 1 = 1 /\ 1 \in 1 .. N /\ 1 - 1 = 0
      /\ \A n \in 0 .. N - 1 : /\ n + 1 \in 1 .. N /\ (n + 1) - 1 = n
                               /\ n = 0 \/ (n \in 1 .. N - 1 /\ n - 1 \in 0 .. N - 1 /\ (n - 1) + 1 = n)
  BY <1>1
<1>4. \A n \in 0 .. N - 1 : g[n] = f[n + 1]
  OBVIOUS
<1>5. ASSUME NEW n \in 0 .. N - 1
      PROVE  g[n] = IF n = 0 THEN Apply(m, h) ELSE Apply(g[n - 1], r[n])
  <2> HIDE DEF g
  <2>1. CASE n = 0
    BY <1>1, <1>2, <1>3, <1>4, <2>1
  <2>2. CASE n # 0
    <3>1. n \in 1 .. N - 1 /\ n - 1 \in 0 .. N - 1 /\ (n - 1) + 1 = n /\ n + 1 \in 1 .. N
          /\ (n + 1) - 1 = n
      BY <1>3, <2>2
    <3>2. g[n - 1] = f[n] /\ g[n] = f[n + 1] /\ f[n + 1] = Apply(f[n], st[n + 1])
      BY <1>2, <1>4, <3>1
    <3> QED BY <1>1, <2>2, <3>1, <3>2
  <2> QED BY <2>1, <2>2
<1>6. Trace(g, Apply(m, h), r)
  BY <1>1, <1>5 DEF Trace
<1> QED BY <1>1, <1>3, <1>4, <1>6 DEF N, r, h

\* Without stores under way, memory is settled.
LEMMA EmptyTrace ==
  ASSUME NEW m
  PROVE  Trace([n \in 0 .. 0 |-> m], m, <<>>)
<1> DEFINE g == [n \in 0 .. 0 |-> m]
<1>1. Len(<<>>) = 0 /\ \A n \in 0 .. 0 : n = 0 /\ g[n] = m
  OBVIOUS
<1>2. g = [n \in 0 .. 0 |-> IF n = 0 THEN m ELSE Apply(g[n - 1], <<>>[n])]
  BY <1>1
<1> QED BY <1>1, <1>2 DEF Trace

IsMemory(m) ==
  /\ m = [bottom |-> m.bottom, slots |-> m.slots] /\ m.bottom \in Nat
  /\ m.slots = [p \in DOMAIN m.slots |-> m.slots[p]]

Stores == [kind : {"bottom", "segment"}, to : Nat]
            \cup [kind : {"slot"}, at : Nat \X Nat, to : Nat]

\* A new bottom.
LEMMA BottomApplied ==
  ASSUME NEW m, IsMemory(m), NEW b \in Nat, NEW r, r = Apply(m, Bottom(b))
  PROVE  IsMemory(r) /\ r.bottom = b /\ r.slots = m.slots
<1>1. r = [m EXCEPT !.bottom = b]
  BY DEF Apply, Bottom
<1>2. r = [bottom |-> b, slots |-> m.slots]
  BY <1>1 DEF IsMemory
<1> QED BY <1>2 DEF IsMemory

\* A value in its slot.
LEMMA SlotApplied ==
  ASSUME NEW m, IsMemory(m), NEW v, NEW p,
         NEW r, r = Apply(m, [kind |-> "slot", at |-> p, to |-> v])
  PROVE  /\ IsMemory(r) /\ r.bottom = m.bottom /\ DOMAIN r.slots = DOMAIN m.slots
         /\ p \in DOMAIN m.slots => r.slots[p] = v
         /\ \A q : q # p /\ q \in DOMAIN m.slots => r.slots[q] = m.slots[q]
<1>1. r = [m EXCEPT !.slots[p] = v]
  BY DEF Apply
<1>2. r = [bottom |-> m.bottom, slots |-> [m.slots EXCEPT ![p] = v]]
  BY <1>1 DEF IsMemory
<1>3. r.slots = [q \in DOMAIN m.slots |-> IF q = p THEN v ELSE m.slots[q]]
  BY <1>2 DEF IsMemory
<1> QED BY <1>2, <1>3 DEF IsMemory

\* Segments that were missing.
LEMMA SegmentApplied ==
  ASSUME NEW m, IsMemory(m), NEW s, NEW r, r = Apply(m, [kind |-> "segment", to |-> s])
  PROVE  /\ IsMemory(r) /\ r.bottom = m.bottom
         /\ DOMAIN r.slots = DOMAIN m.slots \cup UNION {Segment(i) : i \in 0 .. s}
         /\ \A q \in DOMAIN m.slots : r.slots[q] = m.slots[q]
<1>1. r = [m EXCEPT !.slots = segment_buffer_ensure_size(@, s)]
  BY DEF Apply
<1>2. r = [bottom |-> m.bottom, slots |-> segment_buffer_ensure_size(m.slots, s)]
  BY <1>1 DEF IsMemory
<1>3. r.slots = [q \in DOMAIN m.slots \cup UNION {Segment(i) : i \in 0 .. s} |->
                   IF q \in DOMAIN m.slots THEN m.slots[q] ELSE Zero]
  BY <1>2 DEF segment_buffer_ensure_size
<1> QED BY <1>2, <1>3 DEF IsMemory

-----------------------------------------------------------------------------
\* Above the window lies nothing that is not somebody's; a pop under way has
\* lowered bottom and not yet decided.
Limit == IF owner = "idle" THEN own_bottom ELSE own_bottom + 1

DequeTypeOK ==
  /\ top \in Nat /\ own_bottom \in Nat /\ own_segments \in Nat
  /\ stores \in Seq(Stores)
  /\ owner \in {"idle", "fence", "cas"}
  /\ thief \in [Thieves -> {"idle", "bottom", "slot", "cas"}]
  /\ expected \in [Thieves \cup {"owner"} -> Nat]
  /\ read = [t \in Thieves \cup {"owner"} |-> read[t]]
  /\ pushed \in 0 .. MaxPushes /\ pops \in Nat
  /\ taken \in [Values -> 0 .. 1]

MemoriesOf(f) ==
  /\ Trace(f, memory, stores)
  /\ \A n \in 0 .. Len(stores) : IsMemory(f[n]) /\ f[n].bottom <= Limit
  /\ f[Len(stores)].bottom = own_bottom
  /\ UNION {Segment(i) : i \in 0 .. own_segments - 1} \subseteq DOMAIN f[Len(stores)].slots

\* Where bottom is above a slot that nobody took, its value is there, and stays.
Published(f) ==
  \A n, k \in 0 .. Len(stores) : n <= k =>
    \A j \in Nat : top <= j /\ j < f[n].bottom =>
      f[k].slots[SlotOf(j)] = f[Len(stores)].slots[SlotOf(j)]

\* The slots from lo up to hi hold what was pushed and not taken, once each.
Held(slots, lo, hi, n, tk) ==
  /\ lo <= hi /\ hi <= n
  /\ \A j \in lo .. hi - 1 :
       SlotOf(j) \in DOMAIN slots /\ slots[SlotOf(j)] \in 1 .. n /\ tk[slots[SlotOf(j)]] = 0
  /\ \A i, j \in lo .. hi - 1 : slots[SlotOf(i)] = slots[SlotOf(j)] => i = j
  /\ \A v \in Values : tk[v] = 0 /\ v <= n => \E j \in lo .. hi - 1 : slots[SlotOf(j)] = v
  /\ \A v \in Values : tk[v] = 1 => v <= n

Window(f) == Held(f[Len(stores)].slots, top, Limit, pushed, taken)

\* A thief whose swap will succeed has the value of the slot at top.
ThievesRight(f) ==
  \A t \in Thieves :
    /\ expected[t] <= top
    /\ thief[t] \in {"slot", "cas"} /\ expected[t] = top => top < Limit
    /\ thief[t] = "slot" /\ expected[t] = top =>
         \A n \in 0 .. Len(stores) :
           f[n].slots[SlotOf(top)] = f[Len(stores)].slots[SlotOf(top)]
    /\ thief[t] = "cas" /\ expected[t] = top =>
         read[t] = f[Len(stores)].slots[SlotOf(top)]

OwnerRight(f) ==
  owner = "cas" => /\ expected["owner"] = own_bottom
                   /\ read["owner"] = f[Len(stores)].slots[SlotOf(own_bottom)]

DequeBody(f) == MemoriesOf(f) /\ Published(f) /\ Window(f) /\ ThievesRight(f) /\ OwnerRight(f)
DequeInv == DequeTypeOK /\ \E f : DequeBody(f)

\* The segments have room for what was pushed.
LEMMA PushedFits ==
  ASSUME QueueFits, DequeTypeOK
  PROVE  pushed \in Nat /\ MaxPushes \in Nat /\ pushed <= MaxPushes /\ MaxPushes <= Room /\ Room \in Int
<1>1. Pow2[Shift + 26] \in Nat /\ Pow2[Shift] \in Nat
  <2>1. Shift + 26 \in 0 .. 63 /\ Shift \in 0 .. 63
    BY DEF QueueFits
  <2>2. \A n \in 0 .. 63 : Pow2[n] \in Nat \ {0}
    BY Pow2IsPowers, PowersGrow
  <2> QED BY <2>1, <2>2
<1>2. Room \in Int
  BY <1>1 DEF Room, segment_buffer_capacity_from_segment_count, MaxSegments
<1>3. MaxPushes \in Nat /\ MaxPushes <= Room
  BY DEF QueueFits, Room
<1>4. pushed \in 0 .. MaxPushes
  BY DEF DequeTypeOK
<1> QED BY <1>2, <1>3, <1>4

\* The window is what the property calls waiting.
LEMMA InvMeansTakenOnce ==
  ASSUME QueueFits, DequeInv PROVE EachValueTakenOnce
<1>1. PICK f : DequeBody(f)
  BY DEF DequeInv
<1>2. DequeTypeOK
  BY DEF DequeInv
<1> DEFINE latest == f[Len(stores)].slots
<1>3. Settled.slots = latest
  BY <1>1, <1>2, SettledIsLast DEF DequeBody, MemoriesOf, DequeTypeOK
<1>4. /\ \A j \in top .. Limit - 1 : latest[SlotOf(j)] \in 1 .. pushed /\ taken[latest[SlotOf(j)]] = 0
      /\ \A v \in Values : taken[v] = 0 /\ v <= pushed =>
           \E j \in top .. Limit - 1 : latest[SlotOf(j)] = v
  BY <1>1 DEF DequeBody, Window, Held
<1> HIDE DEF latest
<1>5. (IF owner = "idle" THEN own_bottom - 1 ELSE own_bottom) = Limit - 1
  BY <1>2 DEF Limit, DequeTypeOK
<1>6. Waiting = {latest[SlotOf(j)] : j \in top .. Limit - 1}
  BY <1>3, <1>5 DEF Waiting, SlotGet
<1>7. \A v \in 1 .. pushed : v \in Values /\ v <= pushed
  <2>1. pushed \in Nat /\ MaxPushes \in Nat /\ pushed <= MaxPushes
    BY <1>2, PushedFits
  <2> QED BY <2>1 DEF Values
<1>8. Waiting = {v \in 1 .. pushed : taken[v] = 0}
  BY <1>4, <1>6, <1>7
<1>9. \A v \in Values : taken[v] <= 1
  BY <1>2 DEF DequeTypeOK
<1> QED BY <1>8, <1>9 DEF EachValueTakenOnce

\* Indices that are used have places of their own.
LEMMA PlacesApart ==
  ASSUME QueueFits, DequeTypeOK, NEW i \in Nat, NEW j \in Nat, i < pushed, j < pushed, i # j
  PROVE  SlotOf(i) # SlotOf(j)
<1>1. pushed \in Nat /\ MaxPushes \in Nat /\ MaxPushes <= Room /\ pushed <= MaxPushes /\ Room \in Int
  BY PushedFits
<1>2. i < Room /\ j < Room
  BY <1>1
<1> QED BY <1>2, SlotsApart DEF QueueFits

\* An empty deque satisfies the invariant.
LEMMA InitialDeque ==
  ASSUME QueueFits, SpmcInit PROVE DequeInv
<1>0. PICK m : m = memory
  OBVIOUS
<1> DEFINE f == [n \in 0 .. 0 |-> m]
<1>1. Trace(f, memory, <<>>) /\ stores = <<>> /\ Len(stores) = 0 /\ f[0] = memory
  <2>1. Trace(f, m, <<>>)
    BY EmptyTrace
  <2>2. f[0] = m
    OBVIOUS
  <2> HIDE DEF f
  <2> QED BY <1>0, <2>1, <2>2 DEF SpmcInit
<1>2. /\ memory = [bottom |-> 0, slots |-> segment_buffer_ensure_size(<<>>, 0)]
      /\ top = 0 /\ own_bottom = 0 /\ own_segments = 1 /\ owner = "idle" /\ pushed = 0 /\ pops = 0
      /\ thief = [t \in Thieves |-> "idle"]
      /\ expected = [t \in Thieves \cup {"owner"} |-> 0]
      /\ read = [t \in Thieves \cup {"owner"} |-> Zero]
      /\ taken = [v \in Values |-> 0]
  BY DEF SpmcInit
<1>3. IsMemory(memory) /\ memory.bottom = 0
      /\ UNION {Segment(i) : i \in 0 .. 0} \subseteq DOMAIN memory.slots
  <2>1. memory.slots = [p \in DOMAIN <<>> \cup UNION {Segment(i) : i \in 0 .. 0} |->
                          IF p \in DOMAIN <<>> THEN <<>>[p] ELSE Zero]
    BY <1>2 DEF segment_buffer_ensure_size
  <2> QED BY <1>2, <2>1 DEF IsMemory
<1>4. DequeTypeOK
  <2>1. stores \in Seq(Stores) /\ 0 \in 0 .. MaxPushes
    BY <1>1 DEF QueueFits
  <2> QED BY <1>2, <2>1 DEF DequeTypeOK
<1>5. Limit = 0
  BY <1>2 DEF Limit
<1> HIDE DEF f
<1>6. MemoriesOf(f)
  <2>1. \A n \in 0 .. 0 : n = 0
    OBVIOUS
  <2> QED BY <1>1, <1>2, <1>3, <1>5, <2>1 DEF MemoriesOf
<1>7. Published(f) /\ ThievesRight(f) /\ OwnerRight(f)
  <2>1. \A n \in 0 .. 0 : n = 0
    OBVIOUS
  <2> QED BY <1>1, <1>2, <1>3, <2>1 DEF Published, ThievesRight, OwnerRight
<1>8. Window(f)
  <2>1. top .. Limit - 1 = {} /\ \A v \in Values : taken[v] = 0 /\ ~(v <= pushed)
    BY <1>2, <1>5 DEF Values
  <2> QED BY <1>2, <1>5, <2>1 DEF Window, Held
<1>9. DequeBody(f)
  BY <1>6, <1>7, <1>8 DEF DequeBody
<1> QED BY <1>4, <1>9 DEF DequeInv

-----------------------------------------------------------------------------
\* Taking the first value, or the last.
LEMMA TakeEnd ==
  ASSUME NEW slots, NEW lo \in Nat, NEW hi \in Nat, NEW n \in Nat, n <= MaxPushes, MaxPushes \in Nat,
         NEW tk \in [Values -> 0 .. 1], Held(slots, lo, hi, n, tk), lo < hi,
         NEW at \in {lo, hi - 1}, NEW v, v = slots[SlotOf(at)]
  PROVE  LET tk2 == [tk EXCEPT ![v] = @ + 1]
         IN  /\ v \in Values /\ tk[v] = 0 /\ tk2 \in [Values -> 0 .. 1]
             /\ at = lo => Held(slots, lo + 1, hi, n, tk2)
             /\ at = hi - 1 => Held(slots, lo, hi - 1, n, tk2)
<1> DEFINE tk2 == [tk EXCEPT ![v] = @ + 1]
           V(j) == slots[SlotOf(j)]
<1>1. /\ lo <= hi /\ hi <= n
      /\ \A j \in lo .. hi - 1 : SlotOf(j) \in DOMAIN slots /\ V(j) \in 1 .. n /\ tk[V(j)] = 0
      /\ \A i, j \in lo .. hi - 1 : V(i) = V(j) => i = j
      /\ \A w \in Values : tk[w] = 0 /\ w <= n => \E j \in lo .. hi - 1 : V(j) = w
      /\ \A w \in Values : tk[w] = 1 => w <= n
  BY DEF Held
<1>2. at \in lo .. hi - 1 /\ at \in Nat
  OBVIOUS
<1>3. V(at) = v
  OBVIOUS
<1> HIDE DEF V
<1>4. v \in 1 .. n /\ v \in Values /\ tk[v] = 0
  BY <1>1, <1>2, <1>3 DEF Values
<1>5. /\ tk2 \in [Values -> 0 .. 1] /\ tk2[v] = 1
      /\ \A w \in Values : w # v => tk2[w] = tk[w]
  BY <1>4
<1> HIDE DEF tk2
<1>6. ASSUME NEW l \in Nat, NEW h \in Int, l <= h, h <= hi, lo <= l,
             l .. h - 1 = (lo .. hi - 1) \ {at}
      PROVE  Held(slots, l, h, n, tk2)
  <2>1. h <= n
    BY <1>1, <1>6
  <2>2. ASSUME NEW j \in l .. h - 1
        PROVE  SlotOf(j) \in DOMAIN slots /\ V(j) \in 1 .. n /\ tk2[V(j)] = 0
    <3>1. j \in lo .. hi - 1 /\ j # at
      BY <1>6
    <3>2. V(j) # v /\ V(j) \in Values
      BY <1>1, <1>2, <1>3, <3>1 DEF Values
    <3> QED BY <1>1, <1>5, <3>1, <3>2
  <2>3. \A i, j \in l .. h - 1 : V(i) = V(j) => i = j
    BY <1>1, <1>6
  <2>4. ASSUME NEW w \in Values, tk2[w] = 0, w <= n PROVE \E j \in l .. h - 1 : V(j) = w
    <3>1. w # v /\ tk[w] = 0
      BY <1>5, <2>4
    <3>2. PICK j \in lo .. hi - 1 : V(j) = w
      BY <1>1, <2>4, <3>1
    <3>3. j # at
      BY <1>3, <3>1, <3>2
    <3> QED BY <1>6, <3>2, <3>3
  <2>5. \A w \in Values : tk2[w] = 1 => w <= n
    BY <1>1, <1>4, <1>5
  <2> QED BY <1>6, <2>1, <2>2, <2>3, <2>4, <2>5 DEF Held, V
<1>7. at = lo => Held(slots, lo + 1, hi, n, tk2)
  <2>1. lo + 1 <= hi /\ lo + 1 \in Nat /\ lo <= lo + 1 /\ hi <= hi
    OBVIOUS
  <2>2. lo + 1 .. hi - 1 = (lo .. hi - 1) \ {lo}
    OBVIOUS
  <2> QED BY <1>6, <2>1, <2>2
<1>8. at = hi - 1 => Held(slots, lo, hi - 1, n, tk2)
  <2>1. lo <= hi - 1 /\ hi - 1 \in Int /\ hi - 1 <= hi /\ lo <= lo
    OBVIOUS
  <2>2. lo .. (hi - 1) - 1 = (lo .. hi - 1) \ {hi - 1}
    OBVIOUS
  <2> QED BY <1>6, <2>1, <2>2
<1> QED BY <1>4, <1>5, <1>7, <1>8 DEF tk2

\* A step that leaves memory, the stores and the owner's place alone.
LEMMA QuietKeepsMemories ==
  ASSUME NEW f, DequeBody(f), UNCHANGED <<memory, stores, own_bottom, own_segments>>,
         Limit' = Limit
  PROVE  MemoriesOf(f)'
  BY DEF DequeBody, MemoriesOf, Trace

\* A store reaches memory: the trace begins one place later.
LEMMA DrainKeepsDeque ==
  ASSUME DequeInv, Drain PROVE DequeInv'
<1>1. DequeTypeOK /\ stores \in Seq(Stores) /\ stores # <<>> /\ \E f : DequeBody(f)
  BY DEF DequeInv, DequeTypeOK, Drain
<1>2. PICK f : DequeBody(f)
  BY <1>1
<1>3. PICK m : m = memory
  OBVIOUS
<1>3a. PICK st \in Seq(Stores) : st = stores
  BY <1>1
<1>3b. PICK g : g = [n \in 0 .. Len(st) - 1 |-> f[n + 1]]
  OBVIOUS
<1>4. MemoriesOf(f) /\ Published(f) /\ Window(f) /\ ThievesRight(f) /\ OwnerRight(f)
  BY <1>2 DEF DequeBody
<1>5. /\ Trace(g, Apply(m, Head(st)), Tail(st))
      /\ Tail(st) \in Seq(Stores) /\ Len(Tail(st)) = Len(st) - 1 /\ Len(st) - 1 \in Nat
      /\ \A n \in 0 .. Len(st) - 1 : g[n] = f[n + 1]
  <2>1. Trace(f, m, st) /\ st # <<>>
    BY <1>1, <1>3, <1>3a, <1>4 DEF MemoriesOf
  <2> QED BY <1>3b, <2>1, DrainTrace
<1>6. /\ memory' = Apply(m, Head(st)) /\ stores' = Tail(st) /\ Len(stores') = Len(stores) - 1
      /\ UNCHANGED <<top, own_bottom, own_segments, owner, thief, expected, read, pushed, pops, taken>>
      /\ Limit' = Limit
  BY <1>3, <1>3a, <1>5 DEF Drain, Limit
<1>7. DequeTypeOK'
  BY <1>1, <1>5, <1>6 DEF DequeTypeOK
<1>8. PICK N \in Nat : N + 1 = Len(stores) /\ Len(stores') = N /\ N = Len(st) - 1
  <2>1. Len(st) = Len(stores) /\ Len(stores') = Len(st) - 1 /\ Len(st) \in Nat
    BY <1>3a, <1>5, <1>6
  <2> QED BY <1>5, <2>1
<1>9. /\ \A n \in 0 .. N : n + 1 \in 0 .. Len(stores) /\ g[n] = f[n + 1]
      /\ N \in 0 .. N /\ g[N] = f[Len(stores)]
  BY <1>5, <1>8
<1>10. MemoriesOf(g)'
  <2>1. Trace(g, memory', stores')
    BY <1>5, <1>6
  <2>2. \A n \in 0 .. N : IsMemory(g[n]) /\ g[n].bottom <= Limit
    BY <1>4, <1>9 DEF MemoriesOf
  <2>3. g[N].bottom = own_bottom
        /\ UNION {Segment(i) : i \in 0 .. own_segments - 1} \subseteq DOMAIN g[N].slots
    BY <1>4, <1>9 DEF MemoriesOf
  <2> QED BY <1>6, <1>8, <2>1, <2>2, <2>3 DEF MemoriesOf
<1>11. Published(g)'
  <2>1. ASSUME NEW n \in 0 .. N, NEW k \in 0 .. N, n <= k,
               NEW j \in Nat, top <= j, j < g[n].bottom
        PROVE  g[k].slots[SlotOf(j)] = g[N].slots[SlotOf(j)]
    <3>1. n + 1 \in 0 .. Len(stores) /\ k + 1 \in 0 .. Len(stores) /\ n + 1 <= k + 1
      BY <1>9, <2>1
    <3>2. g[k] = f[k + 1] /\ g[n] = f[n + 1] /\ g[N] = f[Len(stores)]
      BY <1>9
    <3>3. j < f[n + 1].bottom
      BY <2>1, <3>2
    <3>4. f[k + 1].slots[SlotOf(j)] = f[Len(stores)].slots[SlotOf(j)]
      BY <1>4, <2>1, <3>1, <3>3, Zenon DEF Published
    <3> QED BY <3>2, <3>4
  <2>2. \A n, k \in 0 .. N : n <= k =>
          \A j \in Nat : top <= j /\ j < g[n].bottom => g[k].slots[SlotOf(j)] = g[N].slots[SlotOf(j)]
    BY <2>1
  <2>3. top' = top /\ Len(stores') = N
    BY <1>6, <1>8
  <2> QED BY <2>2, <2>3 DEF Published
<1>12. Window(g)'
  BY <1>4, <1>6, <1>8, <1>9 DEF Window
<1>13. ThievesRight(g)'
  <2>1. \A t \in Thieves : thief[t] = "slot" /\ expected[t] = top =>
          \A n \in 0 .. N : g[n].slots[SlotOf(top)] = g[N].slots[SlotOf(top)]
    BY <1>4, <1>9 DEF ThievesRight
  <2>2. \A t \in Thieves :
          /\ expected[t] <= top
          /\ thief[t] \in {"slot", "cas"} /\ expected[t] = top => top < Limit
          /\ thief[t] = "cas" /\ expected[t] = top => read[t] = g[N].slots[SlotOf(top)]
    BY <1>4, <1>9 DEF ThievesRight
  <2> QED BY <1>6, <1>8, <2>1, <2>2 DEF ThievesRight
<1>14. OwnerRight(g)'
  BY <1>4, <1>6, <1>8, <1>9 DEF OwnerRight
<1> QED BY <1>7, <1>10, <1>11, <1>12, <1>13, <1>14 DEF DequeInv, DequeBody

\* A thief's steps change no store, and top only if it is as the thief expects.
LEMMA StealKeepsDeque ==
  ASSUME QueueFits, DequeInv, NEW t \in Thieves,
         StealLoadTop(t) \/ StealLoadBottom(t) \/ StealRead(t) \/ StealCas(t)
  PROVE  DequeInv'
<1>1. DequeTypeOK /\ stores \in Seq(Stores) /\ \E f : DequeBody(f)
  BY DEF DequeInv, DequeTypeOK
<1>2. PICK f : DequeBody(f)
  BY <1>1
<1>3. MemoriesOf(f) /\ Published(f) /\ Window(f) /\ ThievesRight(f) /\ OwnerRight(f)
  BY <1>2 DEF DequeBody
<1>4. t # "owner" /\ t \in Thieves \cup {"owner"} /\ "owner" \in Thieves \cup {"owner"}
  BY DEF QueueFits
<1>5. Len(stores) \in Nat /\ 0 \in 0 .. Len(stores) /\ Len(stores) \in 0 .. Len(stores) /\ f[0] = memory
  BY <1>1, <1>3, TraceFacts DEF MemoriesOf
<1>6. /\ UNCHANGED <<memory, stores, own_bottom, own_segments, owner, pushed, pops>>
      /\ Limit' = Limit
  BY DEF StealLoadTop, StealLoadBottom, StealRead, StealCas, Limit
<1>7. MemoriesOf(f)'
  BY <1>2, <1>6, QuietKeepsMemories
<1> DEFINE latest == f[Len(stores)].slots
<1>8. CASE StealLoadTop(t)
  <2>1. /\ expected' = [expected EXCEPT ![t] = top] /\ thief' = [thief EXCEPT ![t] = "bottom"]
        /\ UNCHANGED <<top, read, taken>>
    BY <1>8 DEF StealLoadTop
  <2>2. /\ expected' \in [Thieves \cup {"owner"} -> Nat] /\ expected'[t] = top
        /\ \A u \in Thieves \cup {"owner"} : u # t => expected'[u] = expected[u]
        /\ thief' \in [Thieves -> {"idle", "bottom", "slot", "cas"}] /\ thief'[t] = "bottom"
        /\ \A u \in Thieves : u # t => thief'[u] = thief[u]
    BY <1>1, <1>4, <2>1 DEF DequeTypeOK
  <2>3. DequeTypeOK'
    BY <1>1, <1>6, <2>1, <2>2 DEF DequeTypeOK
  <2>4. Published(f)' /\ Window(f)'
    BY <1>3, <1>6, <2>1 DEF Published, Window
  <2>5. ThievesRight(f)'
    <3>1. top <= top
      BY <1>1 DEF DequeTypeOK
    <3> QED BY <1>3, <1>6, <2>1, <2>2, <3>1 DEF ThievesRight
  <2>6. OwnerRight(f)'
    BY <1>3, <1>4, <1>6, <2>1, <2>2 DEF OwnerRight
  <2> QED BY <1>7, <2>3, <2>4, <2>5, <2>6 DEF DequeInv, DequeBody
<1>9. CASE StealLoadBottom(t)
  <2>1. /\ thief' = [thief EXCEPT ![t] = IF expected[t] >= memory.bottom THEN "idle" ELSE "slot"]
        /\ UNCHANGED <<top, expected, read, taken>>
    BY <1>9 DEF StealLoadBottom
  <2>2. /\ thief' \in [Thieves -> {"idle", "bottom", "slot", "cas"}]
        /\ thief'[t] = IF expected[t] >= memory.bottom THEN "idle" ELSE "slot"
        /\ \A u \in Thieves : u # t => thief'[u] = thief[u]
    BY <1>1, <2>1 DEF DequeTypeOK
  <2>3. DequeTypeOK'
    BY <1>1, <1>6, <2>1, <2>2 DEF DequeTypeOK
  <2>4. Published(f)' /\ Window(f)'
    BY <1>3, <1>6, <2>1 DEF Published, Window
  <2>5. ASSUME thief'[t] = "slot", expected[t] = top
        PROVE  /\ top < Limit
               /\ \A n \in 0 .. Len(stores) : f[n].slots[SlotOf(top)] = latest[SlotOf(top)]
    <3>1. /\ memory.bottom \in Nat /\ memory.bottom <= Limit /\ top \in Nat /\ Limit \in Nat
          /\ expected[t] \in Nat
      <4>1. memory.bottom \in Nat /\ memory.bottom <= Limit
        BY <1>3, <1>5 DEF MemoriesOf, IsMemory
      <4>2. top \in Nat /\ Limit \in Nat /\ expected[t] \in Nat
        BY <1>1, <1>4 DEF DequeTypeOK, Limit
      <4> QED BY <4>1, <4>2
    <3>2. top < memory.bottom
      BY <2>2, <2>5, <3>1
    <3>3. ASSUME NEW n \in 0 .. Len(stores) PROVE f[n].slots[SlotOf(top)] = latest[SlotOf(top)]
      <4>1. 0 <= n /\ top <= top /\ top < f[0].bottom
        BY <1>5, <3>1, <3>2
      <4> QED BY <1>3, <1>5, <3>1, <4>1 DEF Published
    <3> QED BY <3>1, <3>2, <3>3
  <2>6. ThievesRight(f)'
    <3>1. thief'[t] # "cas"
      BY <2>2
    <3> QED BY <1>3, <1>6, <2>1, <2>2, <2>5, <3>1 DEF ThievesRight
  <2>7. OwnerRight(f)'
    BY <1>3, <1>6, <2>1 DEF OwnerRight
  <2> QED BY <1>7, <2>3, <2>4, <2>6, <2>7 DEF DequeInv, DequeBody
<1>10. CASE StealRead(t)
  <2>1. /\ thief[t] = "slot" /\ read' = [read EXCEPT ![t] = memory.slots[SlotOf(expected[t])]]
        /\ thief' = [thief EXCEPT ![t] = "cas"]
        /\ UNCHANGED <<top, expected, taken>>
    BY <1>10 DEF StealRead, SlotGet
  <2>2. /\ thief' \in [Thieves -> {"idle", "bottom", "slot", "cas"}] /\ thief'[t] = "cas"
        /\ \A u \in Thieves : u # t => thief'[u] = thief[u]
    BY <1>1, <2>1 DEF DequeTypeOK
  <2>3. /\ read' = [u \in Thieves \cup {"owner"} |-> read'[u]]
        /\ read'[t] = memory.slots[SlotOf(expected[t])]
        /\ \A u \in Thieves \cup {"owner"} : u # t => read'[u] = read[u]
    <3>1. read = [u \in Thieves \cup {"owner"} |-> read[u]]
      BY <1>1 DEF DequeTypeOK
    <3> QED BY <1>4, <2>1, <3>1
  <2>4. DequeTypeOK'
    BY <1>1, <1>6, <2>1, <2>2, <2>3 DEF DequeTypeOK
  <2>5. Published(f)' /\ Window(f)'
    BY <1>3, <1>6, <2>1 DEF Published, Window
  <2>6. expected[t] = top => top < Limit /\ memory.slots[SlotOf(top)] = latest[SlotOf(top)]
    BY <1>3, <1>5, <2>1 DEF ThievesRight
  <2>7. ThievesRight(f)'
    BY <1>3, <1>6, <2>1, <2>2, <2>3, <2>6 DEF ThievesRight
  <2>8. OwnerRight(f)'
    BY <1>3, <1>4, <1>6, <2>1, <2>3 DEF OwnerRight
  <2> QED BY <1>7, <2>4, <2>5, <2>7, <2>8 DEF DequeInv, DequeBody
<1>11. CASE StealCas(t)
  <2>1. /\ thief[t] = "cas" /\ thief' = [thief EXCEPT ![t] = "idle"]
        /\ UNCHANGED <<expected, read>>
    BY <1>11 DEF StealCas
  <2>2. /\ thief' \in [Thieves -> {"idle", "bottom", "slot", "cas"}] /\ thief'[t] = "idle"
        /\ \A u \in Thieves : u # t => thief'[u] = thief[u]
    BY <1>1, <2>1 DEF DequeTypeOK
  <2>3. /\ top' \in Nat /\ top <= top' /\ taken' \in [Values -> 0 .. 1] /\ Window(f)'
        /\ top' = top \/ top' = top + 1
    <3>1. CASE top # expected[t]
      <4>1. top' = top /\ taken' = taken /\ top \in Nat
        BY <1>1, <1>11, <3>1 DEF StealCas, DequeTypeOK
      <4> QED BY <1>1, <1>3, <1>6, <4>1 DEF Window, DequeTypeOK
    <3>2. CASE top = expected[t]
      <4>1. top' = top + 1 /\ taken' = [taken EXCEPT ![read[t]] = @ + 1]
        BY <1>11, <3>2 DEF StealCas
      <4>2. read[t] = latest[SlotOf(top)] /\ top < Limit
        BY <1>3, <2>1, <3>2 DEF ThievesRight
      <4>3. PICK lo \in Nat, hi \in Nat, n \in Nat, tk \in [Values -> 0 .. 1], v \in {read[t]} :
              lo = top /\ hi = Limit /\ n = pushed /\ tk = taken /\ v = read[t]
        BY <1>1 DEF DequeTypeOK, Limit
      <4>4. n <= MaxPushes /\ MaxPushes \in Nat
        BY <1>1, <4>3, PushedFits
      <4>5. PICK slots : slots = latest
        OBVIOUS
      <4>6. Held(slots, lo, hi, n, tk) /\ lo < hi /\ v = slots[SlotOf(lo)] /\ lo \in {lo, hi - 1}
        BY <1>3, <4>2, <4>3, <4>5 DEF Window
      <4>7. [tk EXCEPT ![v] = @ + 1] \in [Values -> 0 .. 1]
            /\ Held(slots, lo + 1, hi, n, [tk EXCEPT ![v] = @ + 1])
        BY <4>4, <4>6, TakeEnd
      <4>8. taken' = [tk EXCEPT ![v] = @ + 1]
        BY <4>1, <4>3
      <4>9. Window(f)'
        BY <1>6, <4>1, <4>3, <4>5, <4>7, <4>8 DEF Window
      <4>10. top' \in Nat /\ top <= top'
        BY <4>1, <4>3
      <4> QED BY <4>1, <4>7, <4>8, <4>9, <4>10
    <3> QED BY <3>1, <3>2
  <2>4. DequeTypeOK'
    BY <1>1, <1>6, <2>1, <2>2, <2>3 DEF DequeTypeOK
  <2>5. top \in Nat /\ Limit \in Nat /\ \A u \in Thieves : expected[u] \in Nat /\ expected[u] <= top
    BY <1>1, <1>3 DEF DequeTypeOK, Limit, ThievesRight
  <2>6. Published(f)'
    <3>1. \A j \in Nat : top' <= j => top <= j
      BY <2>3, <2>5
    <3> QED BY <1>3, <1>6, <2>3, <3>1 DEF Published
  <2>7. ThievesRight(f)'
    <3>1. ASSUME NEW u \in Thieves
          PROVE  /\ expected[u] <= top' /\ (expected[u] = top' => top' = top /\ expected[u] = top)
      BY <2>3, <2>5
    <3> QED BY <1>3, <1>6, <2>1, <2>2, <3>1 DEF ThievesRight
  <2>8. OwnerRight(f)'
    BY <1>3, <1>6, <2>1 DEF OwnerRight
  <2> QED BY <1>7, <2>3, <2>4, <2>6, <2>7, <2>8 DEF DequeInv, DequeBody
<1> QED BY <1>8, <1>9, <1>10, <1>11

-----------------------------------------------------------------------------
\* MemoriesOf and Published, of any memory and stores.
Line(f, m, st, lo, hi) ==
  /\ Trace(f, m, st)
  /\ \A n \in 0 .. Len(st) : IsMemory(f[n]) /\ f[n].bottom <= hi
  /\ \A n, k \in 0 .. Len(st) : n <= k =>
       \A j \in Nat : lo <= j /\ j < f[n].bottom =>
         f[k].slots[SlotOf(j)] = f[Len(st)].slots[SlotOf(j)]

\* After a step that leaves these stores, the row is published.
LEMMA LinePublished ==
  ASSUME NEW CONSTANT f, NEW CONSTANT m, NEW CONSTANT st, NEW CONSTANT lo, NEW CONSTANT hi,
         Line(f, m, st, lo, hi), stores' = st, top' = lo
  PROVE  Published(f)'
<1>1. \A n, k \in 0 .. Len(st) : n <= k =>
        \A j \in Nat : lo <= j /\ j < f[n].bottom =>
          f[k].slots[SlotOf(j)] = f[Len(st)].slots[SlotOf(j)]
  BY Zenon DEF Line
<1> QED BY <1>1, Zenon DEF Published

\* No store under way changes slot j.
Stays(f, st, j) ==
  \A n \in 0 .. Len(st) : f[n].slots[SlotOf(j)] = f[Len(st)].slots[SlotOf(j)]

\* One store more, that leaves the window alone.
LEMMA LineGrows ==
  ASSUME NEW f, NEW m, NEW st \in Seq(Stores), NEW lo \in Nat, NEW hi \in Nat, NEW hi2 \in Nat,
         hi <= hi2, Line(f, m, st, lo, hi), NEW s \in Stores,
         NEW a, a = Apply(f[Len(st)], s), IsMemory(a), a.bottom <= hi2,
         \A j \in Nat : lo <= j /\ j < hi => a.slots[SlotOf(j)] = f[Len(st)].slots[SlotOf(j)]
  PROVE  /\ Append(st, s) \in Seq(Stores) /\ Len(Append(st, s)) = Len(st) + 1
         /\ \E g : /\ Line(g, m, Append(st, s), lo, hi2) /\ g[Len(st) + 1] = a
                   /\ \A j \in Nat : lo <= j /\ j < hi =>
                        (Stays(f, st, j) => Stays(g, Append(st, s), j))
<1>1. PICK L \in Nat : L = Len(st)
  OBVIOUS
<1>2. PICK r : r = Append(st, s)
  OBVIOUS
<1>3. PICK g : g = [n \in 0 .. Len(st) + 1 |->
                      IF n = Len(st) + 1 THEN Apply(f[Len(st)], s) ELSE f[n]]
  OBVIOUS
<1>4. /\ Trace(f, m, st)
      /\ \A n \in 0 .. L : IsMemory(f[n]) /\ f[n].bottom <= hi
      /\ \A n, k \in 0 .. L : n <= k =>
           \A j \in Nat : lo <= j /\ j < f[n].bottom =>
             f[k].slots[SlotOf(j)] = f[L].slots[SlotOf(j)]
  BY <1>1 DEF Line
<1>5. /\ Trace(g, m, r) /\ r \in Seq(Stores) /\ Len(r) = L + 1
      /\ \A n \in 0 .. L : g[n] = f[n]
      /\ g[L + 1] = a
  BY <1>1, <1>2, <1>3, <1>4, AppendTrace
<1>6. \A n \in 0 .. L + 1 : n = L + 1 \/ n \in 0 .. L
  OBVIOUS
<1>7. \A n \in 0 .. L : f[n].bottom \in Nat /\ f[n].bottom <= hi
  BY <1>4 DEF IsMemory
<1>8. \A n \in 0 .. L + 1 : IsMemory(g[n]) /\ g[n].bottom <= hi2
  <2>1. \A n \in 0 .. L : IsMemory(g[n]) /\ g[n].bottom <= hi2
    BY <1>4, <1>5, <1>7
  <2> QED BY <1>5, <1>6, <2>1
<1>9. ASSUME NEW n \in 0 .. L + 1, NEW k \in 0 .. L + 1, n <= k,
             NEW j \in Nat, lo <= j, j < g[n].bottom
      PROVE  g[k].slots[SlotOf(j)] = g[L + 1].slots[SlotOf(j)]
  <2>1. CASE k = L + 1
    BY <2>1
  <2>2. CASE k # L + 1
    <3>1. n \in 0 .. L /\ k \in 0 .. L
      BY <1>9, <2>2
    <3>2. g[n] = f[n] /\ g[k] = f[k] /\ j < f[n].bottom
      BY <1>5, <1>9, <3>1
    <3>3. f[k].slots[SlotOf(j)] = f[L].slots[SlotOf(j)]
      BY <1>4, <1>9, <3>1, <3>2, Zenon
    <3>4. j < hi
      BY <1>7, <3>1, <3>2
    <3> QED BY <1>1, <1>5, <1>9, <3>2, <3>3, <3>4
  <2> QED BY <2>1, <2>2
<1>10. Line(g, m, r, lo, hi2)
  <2>1. \A n, k \in 0 .. L + 1 : n <= k =>
          \A j \in Nat : lo <= j /\ j < g[n].bottom => g[k].slots[SlotOf(j)] = g[L + 1].slots[SlotOf(j)]
    BY <1>9
  <2> QED BY <1>5, <1>8, <2>1 DEF Line
<1>11. ASSUME NEW j \in Nat, lo <= j, j < hi, Stays(f, st, j) PROVE Stays(g, r, j)
  <2>1. g[L + 1].slots[SlotOf(j)] = f[L].slots[SlotOf(j)]
    BY <1>1, <1>5, <1>11
  <2>2. \A n \in 0 .. L : f[n].slots[SlotOf(j)] = f[L].slots[SlotOf(j)]
    BY <1>1, <1>11 DEF Stays
  <2>3. \A n \in 0 .. L + 1 : g[n].slots[SlotOf(j)] = g[L + 1].slots[SlotOf(j)]
    <3>1. \A n \in 0 .. L : g[n].slots[SlotOf(j)] = g[L + 1].slots[SlotOf(j)]
      BY <1>5, <2>1, <2>2
    <3> QED BY <1>6, <3>1
  <2> QED BY <1>5, <2>3 DEF Stays
<1> QED BY <1>1, <1>2, <1>5, <1>10, <1>11

\* The invariant in these terms.
LEMMA BodyIsLine ==
  ASSUME DequeTypeOK, NEW f
  PROVE  DequeBody(f) <=>
           /\ Line(f, memory, stores, top, Limit)
           /\ f[Len(stores)].bottom = own_bottom
           /\ UNION {Segment(i) : i \in 0 .. own_segments - 1} \subseteq DOMAIN f[Len(stores)].slots
           /\ Held(f[Len(stores)].slots, top, Limit, pushed, taken)
           /\ \A t \in Thieves :
                /\ expected[t] <= top
                /\ thief[t] \in {"slot", "cas"} /\ expected[t] = top => top < Limit
                /\ thief[t] = "slot" /\ expected[t] = top => Stays(f, stores, top)
                /\ thief[t] = "cas" /\ expected[t] = top =>
                     read[t] = f[Len(stores)].slots[SlotOf(top)]
           /\ OwnerRight(f)
<1>1. MemoriesOf(f) /\ Published(f) <=>
        /\ Line(f, memory, stores, top, Limit)
        /\ f[Len(stores)].bottom = own_bottom
        /\ UNION {Segment(i) : i \in 0 .. own_segments - 1} \subseteq DOMAIN f[Len(stores)].slots
  BY Zenon DEF MemoriesOf, Published, Line
<1>2. Window(f) <=> Held(f[Len(stores)].slots, top, Limit, pushed, taken)
  BY DEF Window
<1>3. ThievesRight(f) <=>
        \A t \in Thieves :
          /\ expected[t] <= top
          /\ thief[t] \in {"slot", "cas"} /\ expected[t] = top => top < Limit
          /\ thief[t] = "slot" /\ expected[t] = top => Stays(f, stores, top)
          /\ thief[t] = "cas" /\ expected[t] = top =>
               read[t] = f[Len(stores)].slots[SlotOf(top)]
  BY Zenon DEF ThievesRight, Stays
<1> QED BY <1>1, <1>2, <1>3 DEF DequeBody

\* The owner stores a new bottom, and the window's upper end stays.
LEMMA BottomStored ==
  ASSUME QueueFits, DequeTypeOK, DequeTypeOK', NEW f, DequeBody(f), NEW b \in Nat,
         stores' = Append(stores, Bottom(b)),
         UNCHANGED <<memory, own_segments, thief, read, pushed>>,
         own_bottom' = b, b <= Limit, Limit' = Limit, owner' # "cas",
         \A t \in Thieves : expected'[t] = expected[t],
         top' = top \/ top' = top + 1,
         Held(f[Len(stores)].slots, top', Limit, pushed, taken')
  PROVE  DequeInv'
<1>1. PICK st \in Seq(Stores) : st = stores
  BY DEF DequeTypeOK
<1>2. PICK lo \in Nat, hi \in Nat, m \in {memory} : lo = top /\ hi = Limit /\ m = memory
  BY DEF DequeTypeOK, Limit
<1>3. /\ Line(f, m, st, lo, hi)
      /\ f[Len(st)].bottom = own_bottom
      /\ UNION {Segment(i) : i \in 0 .. own_segments - 1} \subseteq DOMAIN f[Len(st)].slots
      /\ \A t \in Thieves :
           /\ expected[t] <= lo
           /\ thief[t] \in {"slot", "cas"} /\ expected[t] = lo => lo < hi
           /\ thief[t] = "slot" /\ expected[t] = lo => Stays(f, st, lo)
           /\ thief[t] = "cas" /\ expected[t] = lo =>
                read[t] = f[Len(st)].slots[SlotOf(lo)]
  BY <1>1, <1>2, BodyIsLine
<1>4. PICK a : a = Apply(f[Len(st)], Bottom(b))
  OBVIOUS
<1>5. IsMemory(a) /\ a.bottom = b /\ a.slots = f[Len(st)].slots
  <2>1. IsMemory(f[Len(st)])
    <3>1. Len(st) \in 0 .. Len(st)
      OBVIOUS
    <3> QED BY <1>3, <3>1 DEF Line
  <2>2. PICK y : y = f[Len(st)]
    OBVIOUS
  <2>3. IsMemory(y) /\ a = Apply(y, Bottom(b)) /\ b \in Nat
    BY <1>4, <2>1, <2>2
  <2>4. IsMemory(a) /\ a.bottom = b /\ a.slots = y.slots
    BY <2>3, BottomApplied
  <2> QED BY <2>2, <2>4
<1>6. Bottom(b) \in Stores
  BY DEF Bottom, Stores
<1>7. PICK r \in Seq(Stores) : r = Append(st, Bottom(b)) /\ Len(r) = Len(st) + 1
  BY <1>6, AppendAt
<1>8. PICK g : /\ Line(g, m, r, lo, hi) /\ g[Len(st) + 1] = a
               /\ \A j \in Nat : lo <= j /\ j < hi => (Stays(f, st, j) => Stays(g, r, j))
  <2>1. hi <= hi /\ a.bottom <= hi
    BY <1>2, <1>5
  <2> QED BY <1>3, <1>4, <1>5, <1>6, <1>7, <2>1, LineGrows
<1>9. stores' = r /\ Len(stores') = Len(r) /\ g[Len(r)] = a /\ memory' = m /\ Limit' = hi
  BY <1>1, <1>2, <1>7, <1>8
<1>10. PICK lo2 \in Nat : lo2 = top' /\ (lo2 = lo \/ lo2 = lo + 1)
  BY <1>2
<1>11. Line(g, m, r, lo2, hi)
  <2>1. \A n, k \in 0 .. Len(r) : n <= k =>
          \A j \in Nat : lo2 <= j /\ j < g[n].bottom => g[k].slots[SlotOf(j)] = g[Len(r)].slots[SlotOf(j)]
    <3>1. \A j \in Nat : lo2 <= j => lo <= j
      BY <1>10
    <3> QED BY <1>8, <3>1 DEF Line
  <2> QED BY <1>8, <2>1 DEF Line
<1>12. ASSUME NEW t \in Thieves
       PROVE  /\ expected'[t] <= lo2
              /\ thief'[t] \in {"slot", "cas"} /\ expected'[t] = lo2 => lo2 < hi
              /\ thief'[t] = "slot" /\ expected'[t] = lo2 => Stays(g, r, lo2)
              /\ thief'[t] = "cas" /\ expected'[t] = lo2 => read'[t] = a.slots[SlotOf(lo2)]
  <2>1. expected[t] \in Nat /\ expected[t] <= lo /\ expected'[t] = expected[t]
        /\ thief'[t] = thief[t] /\ read'[t] = read[t]
    BY <1>3 DEF DequeTypeOK
  <2>2. CASE expected[t] # lo2
    BY <1>10, <2>1, <2>2
  <2>3. CASE expected[t] = lo2
    <3>1. lo2 = lo
      BY <1>10, <2>1, <2>3
    <3> QED BY <1>3, <1>5, <1>8, <2>1, <2>3, <3>1
  <2> QED BY <2>2, <2>3
<1>13. DequeBody(g)'
  <2>1. Held(a.slots, lo2, hi, pushed', taken')
    BY <1>1, <1>2, <1>5, <1>10
  <2>2. a.bottom = own_bottom'
        /\ UNION {Segment(i) : i \in 0 .. own_segments' - 1} \subseteq DOMAIN a.slots
    BY <1>3, <1>5
  <2>3. OwnerRight(g)'
    BY DEF OwnerRight
  <2>4. Line(g, memory', stores', top', Limit') /\ Len(stores') = Len(r) /\ g[Len(r)] = a
    BY <1>9, <1>10, <1>11
  <2>5. MemoriesOf(g)' /\ Published(g)'
    <3>1. MemoriesOf(g)'
      BY <1>5, <1>9, <2>2, <2>4 DEF MemoriesOf, Line
    <3>2. Published(g)'
      BY <2>4, Zenon DEF Published, Line
    <3> QED BY <3>1, <3>2
  <2>6. Window(g)'
    BY <1>9, <1>10, <2>1, <2>4 DEF Window
  <2>7. ThievesRight(g)'
    <3>1. \A t \in Thieves : Stays(g, r, lo2) =>
            \A n \in 0 .. Len(r) : g[n].slots[SlotOf(lo2)] = a.slots[SlotOf(lo2)]
      BY <2>4 DEF Stays
    <3>2. top' = lo2 /\ Limit' = hi /\ stores' = r
      BY <1>9, <1>10
    <3> QED BY <1>12, <2>4, <3>1, <3>2 DEF ThievesRight
  <2> QED BY <2>3, <2>5, <2>6, <2>7 DEF DequeBody
<1> QED BY <1>13 DEF DequeInv

\* The owner's store of the lowered bottom keeps the invariant.
LEMMA PopLowerKeepsDeque ==
  ASSUME QueueFits, DequeInv, PopLower PROVE DequeInv'
<1>1. DequeTypeOK
  BY DEF DequeInv
<1>2. PICK f : DequeBody(f)
  BY DEF DequeInv
<1>3. /\ owner = "idle" /\ own_bottom > 0 /\ owner' = "fence"
      /\ stores' = Append(stores, Bottom(own_bottom - 1)) /\ own_bottom' = own_bottom - 1
      /\ pops' = pops + 1
      /\ UNCHANGED <<top, memory, own_segments, thief, expected, read, pushed, taken>>
  BY DEF PopLower
<1>4. PICK b \in Nat : b = own_bottom - 1 /\ own_bottom' = b /\ b <= Limit /\ Limit' = Limit
  BY <1>1, <1>3 DEF DequeTypeOK, Limit
<1>5. DequeTypeOK'
  <2>1. stores' \in Seq(Stores)
    BY <1>1, <1>3, <1>4 DEF DequeTypeOK, Bottom, Stores
  <2> QED BY <1>1, <1>3, <1>4, <2>1 DEF DequeTypeOK
<1>6. Held(f[Len(stores)].slots, top', Limit, pushed, taken')
  BY <1>2, <1>3 DEF DequeBody, Window
<1> QED BY <1>1, <1>2, <1>3, <1>4, <1>5, <1>6, BottomStored

\* The owner's exchange on top for the last value keeps the invariant.
LEMMA PopCasKeepsDeque ==
  ASSUME QueueFits, DequeInv, PopCas PROVE DequeInv'
<1>1. DequeTypeOK
  BY DEF DequeInv
<1>2. PICK f : DequeBody(f)
  BY DEF DequeInv
<1>3. /\ owner = "cas" /\ owner' = "idle"
      /\ stores' = Append(stores, Bottom(own_bottom + 1)) /\ own_bottom' = own_bottom + 1
      /\ UNCHANGED <<memory, own_segments, thief, expected, read, pushed, pops>>
  BY DEF PopCas
<1>4. PICK b \in Nat : b = own_bottom + 1 /\ own_bottom' = b /\ b <= Limit /\ Limit' = Limit
  BY <1>1, <1>3 DEF DequeTypeOK, Limit
<1>5. stores' \in Seq(Stores)
  BY <1>1, <1>3, <1>4 DEF DequeTypeOK, Bottom, Stores
<1>6. /\ top' = top \/ top' = top + 1
      /\ top' \in Nat /\ taken' \in [Values -> 0 .. 1]
      /\ Held(f[Len(stores)].slots, top', Limit, pushed, taken')
  <2>1. Held(f[Len(stores)].slots, top, Limit, pushed, taken)
    BY <1>2 DEF DequeBody, Window
  <2>2. CASE top # expected["owner"]
    BY <1>1, <2>1, <2>2 DEF PopCas, DequeTypeOK
  <2>3. CASE top = expected["owner"]
    <3>1. top' = top + 1 /\ taken' = [taken EXCEPT ![read["owner"]] = @ + 1]
      BY <2>3 DEF PopCas
    <3>2. expected["owner"] = own_bottom
          /\ read["owner"] = f[Len(stores)].slots[SlotOf(own_bottom)]
      BY <1>2, <1>3 DEF DequeBody, OwnerRight
    <3>3. PICK lo \in Nat, hi \in Nat, n \in Nat, tk \in [Values -> 0 .. 1],
              v \in {read["owner"]}, slots \in {f[Len(stores)].slots} :
            /\ lo = top /\ hi = Limit /\ n = pushed /\ tk = taken /\ v = read["owner"]
            /\ slots = f[Len(stores)].slots
      BY <1>1 DEF DequeTypeOK, Limit
    <3>4. n <= MaxPushes /\ MaxPushes \in Nat
      BY <1>1, <3>3, PushedFits
    <3>5. lo < hi
      BY <1>3, <1>4, <2>3, <3>2, <3>3
    <3>6. v = slots[SlotOf(lo)] /\ lo \in {lo, hi - 1} /\ Held(slots, lo, hi, n, tk)
      BY <2>1, <2>3, <3>2, <3>3
    <3>7. [tk EXCEPT ![v] = @ + 1] \in [Values -> 0 .. 1]
          /\ Held(slots, lo + 1, hi, n, [tk EXCEPT ![v] = @ + 1])
      BY <3>4, <3>5, <3>6, TakeEnd
    <3>8. taken' = [tk EXCEPT ![v] = @ + 1] /\ top' = lo + 1
      BY <3>1, <3>3
    <3>9. top' \in Nat /\ top' = top + 1
      BY <3>3, <3>8
    <3> QED BY <3>3, <3>7, <3>8, <3>9
  <2> QED BY <2>2, <2>3
<1>7. DequeTypeOK'
  BY <1>1, <1>3, <1>4, <1>5, <1>6 DEF DequeTypeOK
<1>8. owner' # "cas"
  BY <1>3
<1> QED BY <1>1, <1>2, <1>3, <1>4, <1>6, <1>7, <1>8, BottomStored

\* The owner's load of top keeps the invariant.
LEMMA PopLoadTopKeepsDeque ==
  ASSUME QueueFits, DequeInv, PopLoadTop PROVE DequeInv'
<1>1. DequeTypeOK
  BY DEF DequeInv
<1>2. PICK f : DequeBody(f)
  BY DEF DequeInv
<1>3. MemoriesOf(f) /\ Published(f) /\ Window(f) /\ ThievesRight(f)
  BY <1>2 DEF DequeBody
<1>4. /\ owner = "fence" /\ stores = <<>> /\ expected' = [expected EXCEPT !["owner"] = top]
      /\ UNCHANGED <<top, memory, own_segments, thief, pushed, pops>>
  BY DEF PopLoadTop, FencePassed
<1>5. /\ expected' \in [Thieves \cup {"owner"} -> Nat] /\ expected'["owner"] = top
      /\ \A t \in Thieves : expected'[t] = expected[t] /\ t # "owner"
  BY <1>1, <1>4 DEF DequeTypeOK, QueueFits
<1>6. /\ top \in Nat /\ own_bottom \in Nat /\ Limit = own_bottom + 1 /\ top <= Limit
      /\ Len(stores) = 0
  BY <1>1, <1>3, <1>4 DEF DequeTypeOK, Limit, Window, Held
<1>7. f[0].bottom = own_bottom /\ \A n \in 0 .. 0 : n = 0
  BY <1>3, <1>6 DEF MemoriesOf
<1>8. Settled.slots = f[0].slots
  <2>1. stores \in Seq(Stores)
    BY <1>1 DEF DequeTypeOK
  <2> QED BY <1>3, <1>6, <2>1, SettledIsLast DEF MemoriesOf
<1>9. CASE top > own_bottom
  <2>1. /\ own_bottom' = own_bottom + 1 /\ stores' = Append(stores, Bottom(own_bottom + 1))
        /\ owner' = "idle" /\ UNCHANGED <<read, taken>>
    BY <1>6, <1>9 DEF PopLoadTop
  <2>2. PICK b \in Nat : b = own_bottom + 1 /\ own_bottom' = b /\ b <= Limit /\ Limit' = Limit
    BY <1>6, <2>1 DEF Limit
  <2>3. DequeTypeOK'
    <3>1. stores' \in Seq(Stores)
      BY <1>1, <2>1, <2>2 DEF DequeTypeOK, Bottom, Stores
    <3> QED BY <1>1, <1>4, <1>5, <2>1, <2>2, <3>1 DEF DequeTypeOK
  <2>4. Held(f[Len(stores)].slots, top', Limit, pushed, taken') /\ owner' # "cas"
    BY <1>3, <1>4, <2>1 DEF Window
  <2> QED BY <1>1, <1>2, <1>4, <1>5, <2>1, <2>2, <2>3, <2>4, BottomStored
<1>10. CASE top < own_bottom
  <2>1. /\ UNCHANGED <<own_bottom, stores, read>> /\ owner' = "idle"
        /\ taken' = [taken EXCEPT ![Settled.slots[SlotOf(own_bottom)]] = @ + 1]
    BY <1>6, <1>10 DEF PopLoadTop, SlotGet
  <2>2. Limit' = own_bottom /\ Len(stores') = 0
    BY <1>6, <2>1 DEF Limit
  <2>3. PICK lo \in Nat, hi \in Nat, n \in Nat, tk \in [Values -> 0 .. 1],
            v \in {Settled.slots[SlotOf(own_bottom)]}, slots \in {f[0].slots} :
          /\ lo = top /\ hi = Limit /\ n = pushed /\ tk = taken
          /\ v = Settled.slots[SlotOf(own_bottom)] /\ slots = f[0].slots
    BY <1>1, <1>6 DEF DequeTypeOK
  <2>4. n <= MaxPushes /\ MaxPushes \in Nat
    BY <1>1, <2>3, PushedFits
  <2>5. /\ lo < hi /\ hi - 1 = own_bottom /\ hi - 1 \in {lo, hi - 1}
        /\ v = slots[SlotOf(hi - 1)] /\ Held(slots, lo, hi, n, tk)
    BY <1>3, <1>6, <1>8, <1>10, <2>3 DEF Window
  <2>6. [tk EXCEPT ![v] = @ + 1] \in [Values -> 0 .. 1]
        /\ Held(slots, lo, hi - 1, n, [tk EXCEPT ![v] = @ + 1])
    BY <2>4, <2>5, TakeEnd
  <2>7. taken' \in [Values -> 0 .. 1] /\ Held(f[0].slots, top, own_bottom, pushed, taken')
    BY <2>1, <2>3, <2>5, <2>6
  <2>8. DequeTypeOK'
    BY <1>1, <1>4, <1>5, <2>1, <2>7 DEF DequeTypeOK
  <2>9. MemoriesOf(f)'
    BY <1>3, <1>4, <1>6, <1>7, <2>1, <2>2 DEF MemoriesOf, Trace
  <2>10. Published(f)'
    BY <1>3, <1>4, <2>1 DEF Published
  <2>11. Window(f)'
    BY <1>4, <2>2, <2>7 DEF Window
  <2>12. ThievesRight(f)'
    BY <1>3, <1>4, <1>5, <1>6, <1>10, <2>1, <2>2 DEF ThievesRight
  <2>13. OwnerRight(f)'
    BY <2>1 DEF OwnerRight
  <2> QED BY <2>8, <2>9, <2>10, <2>11, <2>12, <2>13 DEF DequeInv, DequeBody
<1>11. CASE top = own_bottom
  <2>1. /\ UNCHANGED <<own_bottom, stores, taken>> /\ owner' = "cas"
        /\ read' = [read EXCEPT !["owner"] = Settled.slots[SlotOf(own_bottom)]]
    BY <1>6, <1>11 DEF PopLoadTop, SlotGet
  <2>2. Limit' = Limit /\ Len(stores') = 0
    BY <1>4, <1>6, <2>1 DEF Limit
  <2>3. /\ read' = [t \in Thieves \cup {"owner"} |-> read'[t]]
        /\ read'["owner"] = f[0].slots[SlotOf(own_bottom)]
        /\ \A t \in Thieves : read'[t] = read[t]
    <3>1. read = [t \in Thieves \cup {"owner"} |-> read[t]]
      BY <1>1 DEF DequeTypeOK
    <3> QED BY <1>5, <1>8, <2>1, <3>1
  <2>4. DequeTypeOK'
    BY <1>1, <1>4, <1>5, <2>1, <2>3 DEF DequeTypeOK
  <2>5. MemoriesOf(f)'
    BY <1>3, <1>4, <2>1, <2>2 DEF MemoriesOf, Trace
  <2>6. Published(f)' /\ Window(f)'
    BY <1>3, <1>4, <2>1, <2>2 DEF Published, Window
  <2>7. ThievesRight(f)'
    BY <1>3, <1>4, <1>5, <2>1, <2>2, <2>3 DEF ThievesRight
  <2>8. OwnerRight(f)'
    BY <1>5, <1>11, <2>1, <2>2, <2>3 DEF OwnerRight
  <2> QED BY <2>4, <2>5, <2>6, <2>7, <2>8 DEF DequeInv, DequeBody
<1> QED BY <1>6, <1>9, <1>10, <1>11

-----------------------------------------------------------------------------
\* One value more, above the others.
LEMMA HeldGrows ==
  ASSUME NEW slots, NEW slots2, NEW lo \in Nat, NEW hi \in Nat, NEW n \in Nat,
         n < MaxPushes, MaxPushes \in Nat, NEW tk \in [Values -> 0 .. 1],
         Held(slots, lo, hi, n, tk),
         SlotOf(hi) \in DOMAIN slots2, slots2[SlotOf(hi)] = n + 1,
         \A j \in lo .. hi - 1 :
           SlotOf(j) \in DOMAIN slots2 /\ slots2[SlotOf(j)] = slots[SlotOf(j)]
  PROVE  Held(slots2, lo, hi + 1, n + 1, tk)
<1> DEFINE V(j) == slots[SlotOf(j)]
           W(j) == slots2[SlotOf(j)]
<1>1. /\ lo <= hi /\ hi <= n
      /\ \A j \in lo .. hi - 1 : V(j) \in 1 .. n /\ tk[V(j)] = 0
      /\ \A i, j \in lo .. hi - 1 : V(i) = V(j) => i = j
      /\ \A w \in Values : tk[w] = 0 /\ w <= n => \E j \in lo .. hi - 1 : V(j) = w
      /\ \A w \in Values : tk[w] = 1 => w <= n
  BY DEF Held
<1>2. W(hi) = n + 1 /\ \A j \in lo .. hi - 1 : W(j) = V(j)
  OBVIOUS
<1> HIDE DEF V, W
<1>3. n + 1 \in Values /\ tk[n + 1] = 0
  <2>1. n + 1 \in Values
    BY DEF Values
  <2>2. tk[n + 1] \in 0 .. 1 /\ ~(n + 1 <= n)
    BY <2>1
  <2> QED BY <1>1, <2>1, <2>2
<1>4. /\ hi \in lo .. (hi + 1) - 1
      /\ \A j \in lo .. (hi + 1) - 1 : j = hi \/ j \in lo .. hi - 1
      /\ \A j \in lo .. hi - 1 : j \in lo .. (hi + 1) - 1
  BY <1>1
<1>5. ASSUME NEW j \in lo .. (hi + 1) - 1
      PROVE  SlotOf(j) \in DOMAIN slots2 /\ W(j) \in 1 .. n + 1 /\ tk[W(j)] = 0
  <2>1. CASE j = hi
    BY <1>2, <1>3, <2>1
  <2>2. CASE j \in lo .. hi - 1
    BY <1>1, <1>2, <2>2
  <2> QED BY <1>4, <2>1, <2>2
<1>6. ASSUME NEW i \in lo .. (hi + 1) - 1, NEW j \in lo .. (hi + 1) - 1, W(i) = W(j)
      PROVE  i = j
  <2>1. \A k \in lo .. hi - 1 : W(k) # n + 1
    BY <1>1, <1>2
  <2> QED BY <1>1, <1>2, <1>4, <1>6, <2>1
<1>7. ASSUME NEW w \in Values, tk[w] = 0, w <= n + 1
      PROVE  \E j \in lo .. (hi + 1) - 1 : W(j) = w
  <2>1. CASE w = n + 1
    BY <1>2, <1>4, <2>1
  <2>2. CASE w # n + 1
    <3>1. w <= n
      BY <1>7, <2>2 DEF Values
    <3> QED BY <1>1, <1>2, <1>4, <1>7, <3>1
  <2> QED BY <2>1, <2>2
<1>8. \A w \in Values : tk[w] = 1 => w <= n + 1
  BY <1>1 DEF Values
<1>9. lo <= hi + 1 /\ hi + 1 <= n + 1
  BY <1>1
<1> QED BY <1>5, <1>6, <1>7, <1>8, <1>9 DEF Held, W

\* Elements appended one by one.
LEMMA OneMore ==
  ASSUME NEW S, NEW s \in Seq(S), NEW e \in S
  PROVE  s \o <<e>> = Append(s, e) /\ Len(<<e>>) = 1
OBVIOUS

\* Two stores put in the buffer together are two put in one after the other.
LEMMA TwoMore ==
  ASSUME NEW S, NEW s \in Seq(S), NEW e \in S, NEW b \in S
  PROVE  s \o <<e, b>> = Append(Append(s, e), b)
OBVIOUS

\* What the owner's last stores leave behind: bottom, its segments and the window.
Ready(f, m, st, lo, hi, os) ==
  /\ Line(f, m, st, lo, hi) /\ f[Len(st)].bottom = hi
  /\ UNION {Segment(i) : i \in 0 .. os - 1} \subseteq DOMAIN f[Len(st)].slots
  /\ \A j \in lo .. hi - 1 : SlotOf(j) \in DOMAIN f[Len(st)].slots

\* The store of a segment that is missing.
Grow(os, s) == IF os <= s THEN <<[kind |-> "segment", to |-> s]>> ELSE <<>>

\* Memory a, the last of trace g, has the slot of hi.
RoomFor(g, st, a, hi, os) ==
  /\ a = g[Len(st)] /\ a.bottom = hi /\ SlotOf(hi) \in DOMAIN a.slots
  /\ UNION {Segment(i) : i \in 0 .. os - 1} \subseteq DOMAIN a.slots

\* It has what the last memory of trace f had.
Keeps(f, st, g, st2, a, lo, hi) ==
  /\ \A q \in DOMAIN f[Len(st)].slots : q \in DOMAIN a.slots /\ a.slots[q] = f[Len(st)].slots[q]
  /\ \A j \in Nat : lo <= j /\ j < hi => (Stays(f, st, j) => Stays(g, st2, j))

\* The owner reserves the segment of the slot above the window.
LEMMA Reserved ==
  ASSUME QueueFits, NEW f, NEW m, NEW st \in Seq(Stores), NEW lo \in Nat, NEW hi \in Nat,
         NEW os \in Nat, hi < Room, Ready(f, m, st, lo, hi, os),
         NEW s, s = segment_buffer_segment_index(hi),
         NEW grow, grow = Grow(os, s)
  PROVE  /\ os + Len(grow) \in Nat
         /\ st \o grow \in Seq(Stores)
         /\ \E g, a : /\ Line(g, m, st \o grow, lo, hi)
                      /\ RoomFor(g, st \o grow, a, hi, os + Len(grow))
                      /\ Keeps(f, st, g, st \o grow, a, lo, hi)
<1>0. /\ Line(f, m, st, lo, hi) /\ f[Len(st)].bottom = hi
      /\ UNION {Segment(i) : i \in 0 .. os - 1} \subseteq DOMAIN f[Len(st)].slots
      /\ \A j \in lo .. hi - 1 : SlotOf(j) \in DOMAIN f[Len(st)].slots
  BY DEF Ready
<1>1. s \in 0 .. MaxSegments - 1 /\ SlotOf(hi) \in Segment(s)
  <2>1. Shift \in 0 .. 37
    BY DEF QueueFits
  <2> QED BY <2>1, SlotFacts
<1>2. s \in Nat
  <2>1. MaxSegments - 1 = 25
    BY DEF MaxSegments
  <2>2. \A i \in 0 .. 25 : i \in Nat
    OBVIOUS
  <2> QED BY <1>1, <2>1, <2>2, Zenon
<1>3. CASE ~(os <= s)
  <2>1. grow = <<>> /\ Len(grow) = 0 /\ st \o grow = st
    <3>1. grow = <<>>
      BY <1>3 DEF Grow
    <3> QED BY <3>1
  <2>2. s \in 0 .. os - 1
    BY <1>2, <1>3
  <2>3. SlotOf(hi) \in DOMAIN f[Len(st)].slots
    BY <1>0, <1>1, <2>2
  <2>4. os + Len(grow) = os
    BY <2>1
  <2>5. Line(f, m, st, lo, hi)
    BY <1>0
  <2>6. RoomFor(f, st, f[Len(st)], hi, os)
    BY <1>0, <2>3 DEF RoomFor
  <2>7. Keeps(f, st, f, st, f[Len(st)], lo, hi)
    BY DEF Keeps
  <2> QED BY <2>1, <2>4, <2>5, <2>6, <2>7
<1>4. CASE os <= s
  <2>1. PICK e \in Stores : e = [kind |-> "segment", to |-> s]
    BY <1>2 DEF Stores
  <2>2. grow = <<e>> /\ Len(grow) = 1 /\ st \o grow = Append(st, e)
    <3>1. grow = <<e>>
      BY <1>4, <2>1 DEF Grow
    <3> QED BY <3>1, OneMore
  <2>3. PICK y : y = f[Len(st)]
    OBVIOUS
  <2>4. IsMemory(y) /\ y.bottom = hi
    <3>1. Len(st) \in 0 .. Len(st)
      OBVIOUS
    <3> QED BY <1>0, <2>3, <3>1 DEF Line
  <2>5. PICK a : a = Apply(y, [kind |-> "segment", to |-> s])
    OBVIOUS
  <2>6. /\ IsMemory(a) /\ a.bottom = hi
        /\ DOMAIN a.slots = DOMAIN y.slots \cup UNION {Segment(i) : i \in 0 .. s}
        /\ \A q \in DOMAIN y.slots : a.slots[q] = y.slots[q]
    BY <2>4, <2>5, SegmentApplied
  <2>7. \A j \in Nat : lo <= j /\ j < hi => a.slots[SlotOf(j)] = f[Len(st)].slots[SlotOf(j)]
    <3>1. \A j \in Nat : lo <= j /\ j < hi => j \in lo .. hi - 1
      OBVIOUS
    <3> QED BY <1>0, <2>3, <2>6, <3>1
  <2>8. PICK g : /\ Line(g, m, Append(st, e), lo, hi) /\ g[Len(st) + 1] = a
                 /\ \A j \in Nat : lo <= j /\ j < hi =>
                      (Stays(f, st, j) => Stays(g, Append(st, e), j))
    <3>1. a = Apply(f[Len(st)], e) /\ a.bottom <= hi /\ hi <= hi
      BY <2>1, <2>3, <2>5, <2>6
    <3>2. Line(f, m, st, lo, hi) /\ IsMemory(a)
      BY <1>0, <2>6
    <3> QED BY <2>7, <3>1, <3>2, LineGrows
  <2>9. Append(st, e) \in Seq(Stores) /\ Len(Append(st, e)) = Len(st) + 1
    BY AppendAt
  <2>10. os + Len(grow) \in Nat /\ (os + Len(grow)) - 1 = os /\ os \in 0 .. s
    BY <1>2, <1>4, <2>2
  <2>11. /\ UNION {Segment(i) : i \in 0 .. os} \subseteq DOMAIN a.slots
         /\ SlotOf(hi) \in DOMAIN a.slots
    <3>1. s \in 0 .. s /\ \A i \in 0 .. os : i \in 0 .. s
      BY <1>2, <1>4
    <3> QED BY <1>1, <2>6, <3>1
  <2>12. \A q \in DOMAIN f[Len(st)].slots : q \in DOMAIN a.slots /\ a.slots[q] = f[Len(st)].slots[q]
    BY <2>3, <2>6
  <2>13. g[Len(st \o grow)] = a
    BY <2>2, <2>8, <2>9
  <2>14. RoomFor(g, st \o grow, a, hi, os + Len(grow))
    BY <2>6, <2>10, <2>11, <2>13 DEF RoomFor
  <2>15. Keeps(f, st, g, st \o grow, a, lo, hi)
    BY <2>2, <2>8, <2>12 DEF Keeps
  <2>16. Line(g, m, st \o grow, lo, hi)
    BY <2>2, <2>8
  <2>17. st \o grow \in Seq(Stores)
    BY <2>2, <2>9
  <2> QED BY <2>10, <2>14, <2>15, <2>16, <2>17
<1> QED BY <1>3, <1>4

\* A push of the owner keeps the invariant.
LEMMA PushKeepsDeque ==
  ASSUME QueueFits, DequeInv, spmc_queue_push PROVE DequeInv'
<1>1. DequeTypeOK
  BY DEF DequeInv
<1>2. PICK f : DequeBody(f)
  BY DEF DequeInv
<1>3. PICK st \in Seq(Stores), m \in {memory} : st = stores /\ m = memory
  BY <1>1 DEF DequeTypeOK
<1>4. PICK lo \in Nat, hi \in Nat, n \in Nat, os \in Nat :
        lo = top /\ hi = own_bottom /\ n = pushed /\ os = own_segments
  BY <1>1, PushedFits DEF DequeTypeOK
<1>5. PICK tk \in [Values -> 0 .. 1] : tk = taken
  BY <1>1 DEF DequeTypeOK
<1>6. PICK s, grow : s = segment_buffer_segment_index(hi) /\ grow = Grow(os, s)
  OBVIOUS
<1>7. PICK e, b : /\ e = [kind |-> "slot", at |-> SlotOf(hi), to |-> n + 1]
                  /\ b = Bottom(hi + 1)
  OBVIOUS
<1>8. /\ owner = "idle" /\ pushed < MaxPushes
      /\ stores' = st \o grow \o <<e, b>>
      /\ own_segments' = os + Len(grow) /\ own_bottom' = hi + 1 /\ pushed' = n + 1
      /\ UNCHANGED <<top, memory, owner, thief, expected, read, pops, taken>>
  BY <1>3, <1>4, <1>6, <1>7 DEF spmc_queue_push, Grow
<1>9. Limit = hi /\ Limit' = hi + 1
  BY <1>4, <1>8 DEF Limit
<1>10. /\ Line(f, m, st, lo, hi) /\ f[Len(st)].bottom = hi
       /\ UNION {Segment(i) : i \in 0 .. os - 1} \subseteq DOMAIN f[Len(st)].slots
       /\ Held(f[Len(st)].slots, lo, hi, n, tk)
       /\ \A t \in Thieves :
            /\ expected[t] <= lo
            /\ thief[t] \in {"slot", "cas"} /\ expected[t] = lo => lo < hi
            /\ thief[t] = "slot" /\ expected[t] = lo => Stays(f, st, lo)
            /\ thief[t] = "cas" /\ expected[t] = lo =>
                 read[t] = f[Len(st)].slots[SlotOf(lo)]
  BY <1>1, <1>2, <1>3, <1>4, <1>5, <1>9, BodyIsLine
<1>11. /\ n < MaxPushes /\ MaxPushes \in Nat /\ hi <= n /\ hi < Room
       /\ \A j \in Nat : j < hi => j < Room
  <2>1. MaxPushes \in Nat /\ MaxPushes <= Room /\ Room \in Int
    BY <1>1, PushedFits
  <2>2. hi <= n
    BY <1>10 DEF Held
  <2> QED BY <1>4, <1>8, <2>1, <2>2
<1>12. Ready(f, m, st, lo, hi, os)
  BY <1>10 DEF Ready, Held
<1>13. PICK st1 : st1 = st \o grow
  OBVIOUS
<1>14. os + Len(grow) \in Nat /\ st1 \in Seq(Stores)
  BY <1>6, <1>11, <1>12, <1>13, Reserved
<1>15. PICK f1, y : /\ Line(f1, m, st1, lo, hi) /\ RoomFor(f1, st1, y, hi, os + Len(grow))
                    /\ Keeps(f, st, f1, st1, y, lo, hi)
  BY <1>6, <1>11, <1>12, <1>13, Reserved
<1>16. PICK x : x = f[Len(st)].slots
  OBVIOUS
<1>16a. y = f1[Len(st1)] /\ y.bottom = hi /\ SlotOf(hi) \in DOMAIN y.slots
  BY <1>15 DEF RoomFor
<1>16b. /\ UNION {Segment(i) : i \in 0 .. (os + Len(grow)) - 1} \subseteq DOMAIN y.slots
        /\ \A q \in DOMAIN x : q \in DOMAIN y.slots /\ y.slots[q] = x[q]
  BY <1>15, <1>16 DEF RoomFor, Keeps
<1>17. IsMemory(y)
  <2>1. Len(st1) \in 0 .. Len(st1)
    BY <1>14
  <2> QED BY <1>15, <1>16a, <2>1 DEF Line
\* The value is stored,
<1>18. PICK y2 : y2 = Apply(y, e)
  OBVIOUS
<1>19. /\ IsMemory(y2) /\ y2.bottom = hi /\ DOMAIN y2.slots = DOMAIN y.slots
       /\ y2.slots[SlotOf(hi)] = n + 1
       /\ \A q : q # SlotOf(hi) /\ q \in DOMAIN y.slots => y2.slots[q] = y.slots[q]
  BY <1>7, <1>16a, <1>17, <1>18, SlotApplied
<1>20. \A j \in Nat : lo <= j /\ j < hi =>
         /\ SlotOf(j) \in DOMAIN y.slots /\ SlotOf(j) # SlotOf(hi)
         /\ y.slots[SlotOf(j)] = x[SlotOf(j)] /\ y2.slots[SlotOf(j)] = y.slots[SlotOf(j)]
  <2>1. ASSUME NEW j \in Nat, lo <= j, j < hi
        PROVE  /\ SlotOf(j) \in DOMAIN y.slots /\ SlotOf(j) # SlotOf(hi)
               /\ y.slots[SlotOf(j)] = x[SlotOf(j)] /\ y2.slots[SlotOf(j)] = y.slots[SlotOf(j)]
    <3>1. j \in lo .. hi - 1 /\ j < Room /\ j # hi
      BY <1>11, <2>1
    <3>2. SlotOf(j) \in DOMAIN x
      BY <1>10, <1>16, <3>1 DEF Held
    <3>3. SlotOf(j) # SlotOf(hi)
      BY <1>11, <3>1, SlotsApart DEF QueueFits
    <3> QED BY <1>16b, <1>19, <3>2, <3>3
  <2> QED BY <2>1
<1>21. e \in Stores
  <2>1. s \in 0 .. MaxSegments - 1 /\ SlotOf(hi) \in Segment(s)
    BY <1>6, <1>11, SlotFacts DEF QueueFits
  <2>2. SlotOf(hi) \in Nat \X Nat
    BY <2>1 DEF Segment, MaxSegments
  <2> QED BY <1>7, <2>2 DEF Stores
<1>22. PICK st2 \in Seq(Stores) : st2 = Append(st1, e) /\ Len(st2) = Len(st1) + 1
  BY <1>14, <1>21, AppendAt
<1>23. PICK f2 : /\ Line(f2, m, st2, lo, hi) /\ f2[Len(st2)] = y2
                 /\ \A j \in Nat : lo <= j /\ j < hi => (Stays(f1, st1, j) => Stays(f2, st2, j))
  <2>1. hi <= hi /\ y2.bottom <= hi
    BY <1>19
  <2>2. y2 = Apply(f1[Len(st1)], e) /\ Line(f1, m, st1, lo, hi) /\ IsMemory(y2)
    BY <1>15, <1>16a, <1>18, <1>19
  <2>3. \A j \in Nat : lo <= j /\ j < hi => y2.slots[SlotOf(j)] = f1[Len(st1)].slots[SlotOf(j)]
    BY <1>16a, <1>20
  <2>4. \E f2 : /\ Line(f2, m, Append(st1, e), lo, hi) /\ f2[Len(st1) + 1] = y2
                /\ \A j \in Nat : lo <= j /\ j < hi =>
                     (Stays(f1, st1, j) => Stays(f2, Append(st1, e), j))
    BY <1>14, <1>21, <2>1, <2>2, <2>3, LineGrows
  <2> QED BY <1>22, <2>4
\* and then bottom.
<1>24. PICK h \in Nat : h = hi + 1
  OBVIOUS
<1>25. PICK y3 : y3 = Apply(y2, b)
  OBVIOUS
<1>26. IsMemory(y3) /\ y3.bottom = h /\ y3.slots = y2.slots
  <2>1. b = Bottom(h)
    BY <1>7, <1>24
  <2>2. IsMemory(y2) /\ y3 = Apply(y2, Bottom(h)) /\ h \in Nat
    BY <1>19, <1>25, <2>1
  <2> QED BY <2>2, BottomApplied, SMTT(60)
<1>27. b \in Stores
  BY <1>7 DEF Bottom, Stores
<1>28. PICK st3 \in Seq(Stores) : st3 = Append(st2, b) /\ Len(st3) = Len(st2) + 1
  BY <1>27, AppendAt
<1>29. PICK g : /\ Line(g, m, st3, lo, h) /\ g[Len(st3)] = y3
                /\ \A j \in Nat : lo <= j /\ j < hi => (Stays(f2, st2, j) => Stays(g, st3, j))
  <2>1. hi <= h /\ y3.bottom <= h
    BY <1>24, <1>26
  <2>2. y3 = Apply(f2[Len(st2)], b) /\ Line(f2, m, st2, lo, hi) /\ IsMemory(y3)
    BY <1>23, <1>25, <1>26
  <2>3. \A j \in Nat : lo <= j /\ j < hi => y3.slots[SlotOf(j)] = f2[Len(st2)].slots[SlotOf(j)]
    BY <1>23, <1>26
  <2>4. \E g : /\ Line(g, m, Append(st2, b), lo, h) /\ g[Len(st2) + 1] = y3
               /\ \A j \in Nat : lo <= j /\ j < hi =>
                    (Stays(f2, st2, j) => Stays(g, Append(st2, b), j))
    BY <1>27, <2>1, <2>2, <2>3, LineGrows
  <2> QED BY <1>28, <2>4
<1>30. stores' = st3 /\ memory' = m /\ Limit' = h /\ own_bottom' = h /\ top' = lo
  <2>1. st1 \o <<e, b>> = Append(Append(st1, e), b)
    BY <1>14, <1>21, <1>27, TwoMore
  <2> QED BY <1>3, <1>4, <1>8, <1>9, <1>13, <1>22, <1>24, <1>28, <2>1
<1>31. DequeTypeOK'
  <2>1. pushed' \in 0 .. MaxPushes
    BY <1>8, <1>11
  <2>2. stores' \in Seq(Stores) /\ own_segments' \in Nat /\ own_bottom' \in Nat
    BY <1>8, <1>14, <1>30
  <2> QED BY <1>1, <1>8, <2>1, <2>2 DEF DequeTypeOK
<1>32. Held(y3.slots, lo, h, n + 1, tk)
  <2>1. \A j \in lo .. hi - 1 : SlotOf(j) \in DOMAIN y3.slots /\ y3.slots[SlotOf(j)] = x[SlotOf(j)]
    <3>1. \A j \in lo .. hi - 1 : j \in Nat /\ lo <= j /\ j < hi
      OBVIOUS
    <3> QED BY <1>19, <1>20, <1>26, <3>1
  <2>2. SlotOf(hi) \in DOMAIN y3.slots /\ y3.slots[SlotOf(hi)] = n + 1
    BY <1>16a, <1>19, <1>26
  <2>3. Held(x, lo, hi, n, tk)
    BY <1>10, <1>16
  <2> QED BY <1>11, <1>24, <2>1, <2>2, <2>3, HeldGrows
<1>33. ASSUME NEW t \in Thieves
       PROVE  /\ expected[t] <= lo
              /\ thief[t] \in {"slot", "cas"} /\ expected[t] = lo => lo < h
              /\ thief[t] = "slot" /\ expected[t] = lo =>
                   \A k \in 0 .. Len(st3) : g[k].slots[SlotOf(lo)] = y3.slots[SlotOf(lo)]
              /\ thief[t] = "cas" /\ expected[t] = lo => read[t] = y3.slots[SlotOf(lo)]
  <2>1. lo < hi => lo < h /\ y3.slots[SlotOf(lo)] = x[SlotOf(lo)]
    BY <1>20, <1>24, <1>26
  <2>2. lo < hi /\ Stays(f, st, lo) => Stays(g, st3, lo)
    BY <1>15, <1>23, <1>29 DEF Keeps
  <2>3. Stays(g, st3, lo) => \A k \in 0 .. Len(st3) : g[k].slots[SlotOf(lo)] = y3.slots[SlotOf(lo)]
    BY <1>29 DEF Stays
  <2> QED BY <1>10, <1>16, <2>1, <2>2, <2>3
<1>34. MemoriesOf(g)'
  <2>1. UNION {Segment(i) : i \in 0 .. own_segments' - 1} \subseteq DOMAIN y3.slots
    BY <1>8, <1>16b, <1>19, <1>26
  <2> QED BY <1>26, <1>29, <1>30, <2>1 DEF MemoriesOf, Line
<1>35. Published(g)'
  BY <1>29, <1>30, LinePublished
<1>36. Window(g)'
  BY <1>5, <1>8, <1>29, <1>30, <1>32 DEF Window
<1>37. ThievesRight(g)'
  BY <1>8, <1>29, <1>30, <1>33 DEF ThievesRight
<1>38. OwnerRight(g)'
  BY <1>8 DEF OwnerRight
<1> QED BY <1>31, <1>34, <1>35, <1>36, <1>37, <1>38 DEF DequeInv, DequeBody

-----------------------------------------------------------------------------
\* A value pushed into the deque is taken once, by its owner or by one thief,
\* and waits in its slot until then, however late the owner's stores arrive
\* (spmc_queue_push, spmc_queue_pop, spmc_queue_steal).
THEOREM ValuesTakenOnce ==
  ASSUME QueueFits
  PROVE  SpmcInit /\ [][SpmcNext]_spmcVars => []EachValueTakenOnce
<1>1. SpmcInit => DequeInv
  BY InitialDeque
<1>2. DequeInv /\ [SpmcNext]_spmcVars => DequeInv'
  <2>1. SUFFICES ASSUME DequeInv, [SpmcNext]_spmcVars PROVE DequeInv'
    OBVIOUS
  <2>2. CASE Drain
    BY <2>1, <2>2, DrainKeepsDeque
  <2>3. CASE spmc_queue_push
    BY <2>1, <2>3, PushKeepsDeque
  <2>4. CASE PopLower
    BY <2>1, <2>4, PopLowerKeepsDeque
  <2>5. CASE PopLoadTop
    BY <2>1, <2>5, PopLoadTopKeepsDeque
  <2>6. CASE PopCas
    BY <2>1, <2>6, PopCasKeepsDeque
  <2>7. ASSUME NEW t \in Thieves,
               StealLoadTop(t) \/ StealLoadBottom(t) \/ StealRead(t) \/ StealCas(t)
        PROVE  DequeInv'
    BY <2>1, <2>7, StealKeepsDeque
  <2>8. CASE UNCHANGED spmcVars
    <3>1. UNCHANGED <<top, memory, stores, own_bottom, own_segments, owner, thief, expected,
                      read, pushed, pops, taken>>
      BY <2>8 DEF spmcVars
    <3>2. DequeTypeOK'
      BY <2>1, <3>1 DEF DequeInv, DequeTypeOK
    <3>3. PICK f : DequeBody(f)
      BY <2>1 DEF DequeInv
    <3>4. Limit' = Limit
      BY <3>1 DEF Limit
    <3>5. MemoriesOf(f)'
      BY <3>1, <3>3, <3>4, QuietKeepsMemories
    <3>6. Published(f)' /\ Window(f)'
      BY <3>1, <3>3, <3>4 DEF DequeBody, Published, Window
    <3>7. ThievesRight(f)' /\ OwnerRight(f)'
      BY <3>1, <3>3, <3>4 DEF DequeBody, ThievesRight, OwnerRight
    <3> QED BY <3>2, <3>5, <3>6, <3>7 DEF DequeInv, DequeBody
  <2> QED BY <2>1, <2>2, <2>3, <2>4, <2>5, <2>6, <2>7, <2>8 DEF SpmcNext
<1>3. DequeInv => EachValueTakenOnce
  BY InvMeansTakenOnce
<1> QED BY <1>1, <1>2, <1>3, PTL

-----------------------------------------------------------------------------
(***************************************************************************)
(* MinHeap.  The first n slots hold the items of a set, once each; the     *)
(* loops of push and pop swap items of them until the order of parents and *)
(* children, which one item breaks, is there again.                        *)
(***************************************************************************)
Parent(i) == (i - 1) \div 2

Holds(b, n, E) ==
  /\ \A i \in 0 .. n - 1 : SlotOf(i) \in DOMAIN b
  /\ {At(b, i) : i \in 0 .. n - 1} = E
  /\ \A i, j \in 0 .. n - 1 : At(b, i) = At(b, j) => i = j

Keyed(E) == \A e \in E : e.k \in Int

\* Each item but the root is no earlier than its parent.
Ordered(b, n) == \A i \in 1 .. n - 1 : At(b, Parent(i)).k <= At(b, i).k

\* The item at c may be too early for where it is, ...
OrderedAbove(b, c, n) ==
  /\ c \in 0 .. n - 1
  /\ \A i \in 1 .. n - 1 : i # c => At(b, Parent(i)).k <= At(b, i).k
  /\ \A i \in 1 .. n - 1 : c > 0 /\ Parent(i) = c => At(b, Parent(c)).k <= At(b, i).k

\* ... or too late.
OrderedBelow(b, c, n) ==
  /\ c \in Nat
  /\ \A i \in 1 .. n - 1 : Parent(i) # c => At(b, Parent(i)).k <= At(b, i).k
  /\ \A i \in 1 .. n - 1 : c > 0 /\ Parent(i) = c => At(b, Parent(c)).k <= At(b, i).k

\* Every item has one parent, before it, and a parent at most two children.
LEMMA ParentFacts ==
  ASSUME NEW i \in Nat, i > 0
  PROVE  /\ Parent(i) \in Nat /\ Parent(i) < i
         /\ i = 2 * Parent(i) + 1 \/ i = 2 * Parent(i) + 2
<1>1. i - 1 \in Nat
  OBVIOUS
<1> QED BY <1>1, DivFacts DEF Parent

\* segment_buffer_insert stores at its own slot only.
LEMMA InsertFacts ==
  ASSUME Shift \in 0 .. 37, NEW x \in Nat, x < Room, NEW n \in Nat, n <= Room, NEW v, NEW b,
         \A i \in 0 .. n - 1 : SlotOf(i) \in DOMAIN b,
         NEW c, c = segment_buffer_insert(b, v, x)
  PROVE  /\ SlotOf(x) \in DOMAIN c /\ At(c, x) = v
         /\ \A i \in 0 .. n - 1 : SlotOf(i) \in DOMAIN c /\ (i # x => At(c, i) = At(b, i))
<1> DEFINE s == SlotOf(x)[1]
           e == segment_buffer_ensure_size(b, s)
<1>1. s \in 0 .. MaxSegments - 1 /\ SlotOf(x) \in Segment(s)
  BY SlotFacts
<1>2. /\ DOMAIN e = DOMAIN b \cup UNION {Segment(i) : i \in 0 .. s}
      /\ \A q \in DOMAIN b : e[q] = b[q]
  BY DEF segment_buffer_ensure_size
<1>3. c = [e EXCEPT ![SlotOf(x)] = v]
  BY DEF segment_buffer_insert
<1>4. s \in 0 .. s
  BY <1>1 DEF MaxSegments
<1>5. SlotOf(x) \in DOMAIN e
  BY <1>1, <1>2, <1>4
<1> HIDE DEF e, s
<1>6. DOMAIN c = DOMAIN e /\ c[SlotOf(x)] = v /\ \A q \in DOMAIN e : q # SlotOf(x) => c[q] = e[q]
  BY <1>3, <1>5
<1>7. ASSUME NEW i \in 0 .. n - 1 PROVE i # x => SlotOf(i) # SlotOf(x)
  <2>1. Room \in Int
    BY RoomIsNumber
  <2>2. i \in Nat /\ i < Room
    BY <2>1
  <2> QED BY <2>2, SlotsApart
<1>8. ASSUME NEW i \in 0 .. n - 1 PROVE SlotOf(i) \in DOMAIN c /\ (i # x => c[SlotOf(i)] = b[SlotOf(i)])
  BY <1>2, <1>6, <1>7
<1> QED BY <1>5, <1>6, <1>8 DEF At

\* heap_index_swap exchanges two items.
LEMMA SwapFacts ==
  ASSUME Shift \in 0 .. 37, NEW n \in Nat, n <= Room, NEW b, NEW E, Holds(b, n, E),
         NEW x \in 0 .. n - 1, NEW y \in 0 .. n - 1, NEW c, c = heap_index_swap(b, x, y)
  PROVE  /\ Holds(c, n, E)
         /\ At(c, x) = At(b, y) /\ At(c, y) = At(b, x)
         /\ \A i \in 0 .. n - 1 : i # x /\ i # y => At(c, i) = At(b, i)
<1>1. Room \in Int
  BY RoomIsNumber
<1>2. x \in Nat /\ y \in Nat /\ x < Room /\ y < Room
  BY <1>1
<1>3. PICK d : d = segment_buffer_insert(b, At(b, y), x)
  OBVIOUS
<1>4. \A i \in 0 .. n - 1 : SlotOf(i) \in DOMAIN b
  BY DEF Holds
<1>5. /\ At(d, x) = At(b, y)
      /\ \A i \in 0 .. n - 1 : SlotOf(i) \in DOMAIN d /\ (i # x => At(d, i) = At(b, i))
  BY <1>2, <1>3, <1>4, InsertFacts
<1>6. c = segment_buffer_insert(d, At(b, x), y)
  BY <1>3 DEF heap_index_swap
<1>7. /\ At(c, y) = At(b, x)
      /\ \A i \in 0 .. n - 1 : SlotOf(i) \in DOMAIN c /\ (i # y => At(c, i) = At(d, i))
  BY <1>2, <1>5, <1>6, InsertFacts
<1>8. /\ At(c, x) = At(b, y) /\ At(c, y) = At(b, x)
      /\ \A i \in 0 .. n - 1 : i # x /\ i # y => At(c, i) = At(b, i)
  BY <1>5, <1>7
<1>9. \A i \in 0 .. n - 1 : \E j \in 0 .. n - 1 : At(c, i) = At(b, j) /\ At(c, j) = At(b, i)
  BY <1>8
<1>10. {At(c, i) : i \in 0 .. n - 1} = {At(b, i) : i \in 0 .. n - 1}
  BY <1>9
<1>11. ASSUME NEW i \in 0 .. n - 1, NEW j \in 0 .. n - 1, At(c, i) = At(c, j) PROVE i = j
  <2>1. \A k, l \in 0 .. n - 1 : At(b, k) = At(b, l) => k = l
    BY DEF Holds
  <2> QED BY <1>8, <1>11, <2>1, SMT
<1>12. Holds(c, n, E)
  BY <1>7, <1>10, <1>11, Zenon DEF Holds
<1> QED BY <1>8, <1>12

\* The keys in the array of a heap are numbers.
LEMMA HeldKeys ==
  ASSUME NEW b, NEW n, NEW E, Holds(b, n, E), Keyed(E)
  PROVE  \A i \in 0 .. n - 1 : At(b, i).k \in Int
BY DEF Holds, Keyed

\* Without an item out of place all are in order.
LEMMA TopIsOrdered ==
  ASSUME NEW b, NEW c, NEW n \in Nat, OrderedAbove(b, c, n),
         c = 0 \/ At(b, c).k >= At(b, Parent(c)).k,
         \A i \in 0 .. n - 1 : At(b, i).k \in Int
  PROVE  Ordered(b, n)
<1> SUFFICES ASSUME NEW i \in 1 .. n - 1 PROVE At(b, Parent(i)).k <= At(b, i).k
  BY DEF Ordered
<1>1. CASE i # c
  BY <1>1 DEF OrderedAbove
<1>2. CASE i = c
  <2>1. /\ At(b, c).k >= At(b, Parent(c)).k /\ c \in 0 .. n - 1 /\ c \in Nat /\ c > 0
    BY <1>2
  <2>2. Parent(c) \in 0 .. n - 1
    BY <2>1, ParentFacts
  <2>3. At(b, c).k \in Int /\ At(b, Parent(c)).k \in Int
    BY <2>1, <2>2
  <2> QED BY <1>2, <2>1, <2>3
<1> QED BY <1>1, <1>2

\* A swap with a later parent leaves at most the parent's place too early.
LEMMA SwapUp ==
  ASSUME NEW n \in Nat, NEW b, NEW c, OrderedAbove(b, c, n), c > 0,
         \A i \in 0 .. n - 1 : At(b, i).k \in Int,
         At(b, c).k < At(b, Parent(c)).k,
         NEW d, At(d, Parent(c)) = At(b, c), At(d, c) = At(b, Parent(c)),
         \A i \in 0 .. n - 1 : i # Parent(c) /\ i # c => At(d, i) = At(b, i)
  PROVE  OrderedAbove(d, Parent(c), n)
<1>1. /\ c \in 1 .. n - 1 /\ \A i \in 1 .. n - 1 : i # c => At(b, Parent(i)).k <= At(b, i).k
      /\ \A i \in 1 .. n - 1 : Parent(i) = c => At(b, Parent(c)).k <= At(b, i).k
  BY DEF OrderedAbove
<1>2. \A i \in 1 .. n - 1 : /\ Parent(i) \in 0 .. n - 1 /\ Parent(i) < i /\ i \in 0 .. n - 1
                            /\ i \in Nat
  <2> SUFFICES ASSUME NEW i \in 1 .. n - 1
               PROVE  /\ Parent(i) \in 0 .. n - 1 /\ Parent(i) < i /\ i \in 0 .. n - 1 /\ i \in Nat
    OBVIOUS
  <2>1. i \in Nat /\ i > 0
    OBVIOUS
  <2>2. Parent(i) \in Nat /\ Parent(i) < i
    BY <2>1, ParentFacts
  <2> QED BY <2>2
<1>3. PICK p \in 0 .. n - 1 : p = Parent(c) /\ p < c
  BY <1>1, <1>2
<1> DEFINE h(i) == At(b, i).k
           g(i) == At(d, i).k
<1>4. /\ g(p) = h(c) /\ g(c) = h(p) /\ h(c) < h(p)
      /\ \A i \in 0 .. n - 1 : h(i) \in Int /\ (i # p /\ i # c => g(i) = h(i))
      /\ \A i \in 1 .. n - 1 : i # c => h(Parent(i)) <= h(i)
      /\ \A i \in 1 .. n - 1 : Parent(i) = c => h(p) <= h(i)
  BY <1>1, <1>3
<1> HIDE DEF h, g
<1>5. ASSUME NEW i \in 1 .. n - 1, i # p PROVE g(Parent(i)) <= g(i)
  <2>1. i = c => Parent(i) = p
    BY <1>3
  <2>2. Parent(i) \in 0 .. n - 1 /\ i \in 0 .. n - 1 /\ Parent(i) < i
    BY <1>2
  <2>3. h(i) \in Int /\ h(p) \in Int /\ h(c) \in Int /\ h(Parent(i)) \in Int
    BY <1>1, <1>3, <1>4, <2>2
  <2>4. CASE i = c
    BY <1>4, <2>1, <2>3, <2>4
  <2>5. CASE i # c /\ Parent(i) = p
    BY <1>4, <1>5, <2>2, <2>3, <2>5
  <2>6. CASE i # c /\ Parent(i) = c
    BY <1>4, <1>5, <2>2, <2>3, <2>6
  <2>7. CASE i # c /\ Parent(i) # c /\ Parent(i) # p
    <3>1. g(Parent(i)) = h(Parent(i)) /\ g(i) = h(i)
      BY <1>4, <1>5, <2>2, <2>7
    <3> QED BY <1>4, <2>7, <3>1
  <2> QED BY <2>4, <2>5, <2>6, <2>7
<1>6. ASSUME NEW i \in 1 .. n - 1, p > 0, Parent(i) = p PROVE g(Parent(p)) <= g(i)
  <2>1. /\ p \in 1 .. n - 1 /\ Parent(p) \in 0 .. n - 1 /\ Parent(p) # p /\ Parent(p) # c
    BY <1>1, <1>2, <1>3, <1>6
  <2>2. g(Parent(p)) = h(Parent(p)) /\ h(Parent(p)) <= h(p) /\ h(Parent(p)) \in Int /\ h(p) \in Int
    BY <1>3, <1>4, <2>1
  <2>3. CASE i = c
    BY <1>4, <2>2, <2>3
  <2>4. CASE i # c
    <3>1. i \in 0 .. n - 1 /\ i # p
      BY <1>2, <1>6
    <3>2. g(i) = h(i) /\ h(p) <= h(i) /\ h(i) \in Int
      BY <1>4, <1>6, <2>4, <3>1
    <3> QED BY <2>2, <3>2
  <2> QED BY <2>3, <2>4
<1> QED BY <1>3, <1>5, <1>6 DEF OrderedAbove, g

\* A swap with the earlier child leaves at most the child's place too late.
LEMMA SwapDown ==
  ASSUME NEW n \in Nat, NEW b, NEW c, OrderedBelow(b, c, n),
         \A i \in 0 .. n - 1 : At(b, i).k \in Int,
         NEW e \in 1 .. n - 1, Parent(e) = c, At(b, e).k < At(b, c).k,
         \A i \in 1 .. n - 1 : Parent(i) = c => At(b, e).k <= At(b, i).k,
         NEW d, At(d, e) = At(b, c), At(d, c) = At(b, e),
         \A i \in 0 .. n - 1 : i # e /\ i # c => At(d, i) = At(b, i)
  PROVE  OrderedBelow(d, e, n)
<1>1. /\ c \in Nat
      /\ \A i \in 1 .. n - 1 : Parent(i) # c => At(b, Parent(i)).k <= At(b, i).k
      /\ \A i \in 1 .. n - 1 : c > 0 /\ Parent(i) = c => At(b, Parent(c)).k <= At(b, i).k
  BY DEF OrderedBelow
<1>2. \A i \in 1 .. n - 1 : /\ Parent(i) \in 0 .. n - 1 /\ Parent(i) < i /\ i \in 0 .. n - 1
                            /\ i \in Nat
  <2> SUFFICES ASSUME NEW i \in 1 .. n - 1
               PROVE  /\ Parent(i) \in 0 .. n - 1 /\ Parent(i) < i /\ i \in 0 .. n - 1 /\ i \in Nat
    OBVIOUS
  <2>1. i \in Nat /\ i > 0
    OBVIOUS
  <2>2. Parent(i) \in Nat /\ Parent(i) < i
    BY <2>1, ParentFacts
  <2> QED BY <2>2
<1>3. c \in 0 .. n - 1 /\ c < e /\ e \in 0 .. n - 1 /\ e # 0
  BY <1>2
<1> DEFINE h(i) == At(b, i).k
           g(i) == At(d, i).k
<1>4. /\ g(e) = h(c) /\ g(c) = h(e) /\ h(e) < h(c) /\ h(c) \in Int /\ h(e) \in Int
      /\ \A i \in 0 .. n - 1 : h(i) \in Int /\ (i # e /\ i # c => g(i) = h(i))
      /\ \A i \in 1 .. n - 1 : Parent(i) # c => h(Parent(i)) <= h(i)
      /\ \A i \in 1 .. n - 1 : c > 0 /\ Parent(i) = c => h(Parent(c)) <= h(i)
      /\ \A i \in 1 .. n - 1 : Parent(i) = c => h(e) <= h(i)
  BY <1>1, <1>3
<1> HIDE DEF h, g
<1>5. ASSUME NEW i \in 1 .. n - 1, Parent(i) # e PROVE g(Parent(i)) <= g(i)
  <2>2. Parent(i) \in 0 .. n - 1 /\ i \in 0 .. n - 1 /\ Parent(i) < i
    BY <1>2
  <2>3. h(i) \in Int /\ h(Parent(i)) \in Int
    BY <1>4, <2>2
  <2>4. CASE Parent(i) = c /\ i = e
    BY <1>4, <2>4
  <2>5. CASE Parent(i) = c /\ i # e
    <3>1. i # c /\ g(i) = h(i)
      BY <1>4, <2>2, <2>5
    <3> QED BY <1>4, <2>5, <3>1
  <2>6. CASE Parent(i) # c /\ i = c
    <3>1. /\ c > 0 /\ g(i) = h(e) /\ g(Parent(i)) = h(Parent(i))
      BY <1>1, <1>4, <1>5, <2>2, <2>6
    <3>2. h(Parent(c)) <= h(e)
      BY <1>4, <3>1
    <3> QED BY <2>6, <3>1, <3>2
  <2>7. CASE Parent(i) # c /\ i # c
    <3>1. i # e
      BY <2>7
    <3>2. g(Parent(i)) = h(Parent(i)) /\ g(i) = h(i)
      BY <1>4, <1>5, <2>2, <2>7, <3>1
    <3> QED BY <1>4, <2>7, <3>2
  <2> QED BY <2>4, <2>5, <2>6, <2>7
<1>6. ASSUME NEW i \in 1 .. n - 1, Parent(i) = e PROVE g(Parent(e)) <= g(i)
  <2>1. i \in 0 .. n - 1 /\ i # e /\ i # c /\ e # c
    BY <1>2, <1>3, <1>6
  <2>2. g(i) = h(i) /\ h(e) <= h(i)
    BY <1>4, <1>6, <2>1
  <2> QED BY <1>4, <2>2
<1> QED BY <1>3, <1>5, <1>6 DEF OrderedBelow, g

\* The states of the two loops.
Rising(s, n, E) == Holds(s.buffer, n, E) /\ OrderedAbove(s.buffer, s.cur_idx, n)
Sinking(s, n, E) == Holds(s.buffer, n, E) /\ OrderedBelow(s.buffer, s.cur_idx, n)

\* A round of push's loop ends it, with all in order, or goes one level up.
LEMMA ClimbStep ==
  ASSUME Shift \in 0 .. 37, NEW n \in Nat, n <= Room, NEW E, Keyed(E), NEW s, Rising(s, n, E),
         NEW t, t = Climb(s)
  PROVE  /\ Rising(t, n, E)
         /\ (t = s /\ Ordered(s.buffer, n)) \/ t.cur_idx < s.cur_idx
<1>1. PICK b, c : b = s.buffer /\ c = s.cur_idx
  OBVIOUS
<1>2. Holds(b, n, E) /\ OrderedAbove(b, c, n) /\ c \in 0 .. n - 1
  BY <1>1 DEF Rising, OrderedAbove
<1>3. \A i \in 0 .. n - 1 : At(b, i).k \in Int
  BY <1>2, HeldKeys
<1>4. t = IF c = 0 \/ At(b, c).k >= At(b, Parent(c)).k
            THEN s ELSE [buffer |-> heap_index_swap(b, Parent(c), c), cur_idx |-> Parent(c)]
  BY <1>1 DEF Climb, Parent
<1>5. CASE c = 0 \/ At(b, c).k >= At(b, Parent(c)).k
  <2>1. Ordered(b, n)
    BY <1>2, <1>3, <1>5, TopIsOrdered
  <2> QED BY <1>1, <1>4, <1>5, <2>1
<1>6. CASE ~(c = 0 \/ At(b, c).k >= At(b, Parent(c)).k)
  <2>1. c \in Nat /\ c > 0
    BY <1>2, <1>6
  <2>2. Parent(c) \in 0 .. n - 1 /\ Parent(c) < c
    BY <1>2, <2>1, ParentFacts
  <2>3. At(b, c).k < At(b, Parent(c)).k
    BY <1>2, <1>3, <1>6, <2>2
  <2>4. PICK d : d = heap_index_swap(b, Parent(c), c)
    OBVIOUS
  <2>5. /\ Holds(d, n, E) /\ At(d, Parent(c)) = At(b, c) /\ At(d, c) = At(b, Parent(c))
        /\ \A i \in 0 .. n - 1 : i # Parent(c) /\ i # c => At(d, i) = At(b, i)
    BY <1>2, <2>2, <2>4, SwapFacts
  <2>6. OrderedAbove(d, Parent(c), n)
    BY <1>2, <1>3, <2>1, <2>3, <2>5, SwapUp
  <2>7. t = [buffer |-> d, cur_idx |-> Parent(c)]
    BY <1>4, <1>6, <2>4
  <2> QED BY <1>1, <2>2, <2>5, <2>6, <2>7 DEF Rising
<1> QED BY <1>5, <1>6

\* A round of pop's loop ends it, with all in order, or goes one level down.
LEMMA SinkStep ==
  ASSUME Shift \in 0 .. 37, NEW n \in Nat, n <= Room, NEW E, Keyed(E), NEW s, Sinking(s, n, E),
         NEW t, t = Sink(s, n)
  PROVE  /\ Sinking(t, n, E)
         /\ (t = s /\ Ordered(s.buffer, n)) \/ t.cur_idx > s.cur_idx
<1>1. PICK b, c : b = s.buffer /\ c = s.cur_idx
  OBVIOUS
<1>2. Holds(b, n, E) /\ OrderedBelow(b, c, n) /\ c \in Nat
  BY <1>1 DEF Sinking, OrderedBelow
<1>3. \A i \in 0 .. n - 1 : At(b, i).k \in Int
  BY <1>2, HeldKeys
<1>4. PICK e : e = SmallestChild(b, n, c)
  OBVIOUS
<1>5. t = IF c * 2 + 1 >= n \/ At(b, c).k <= At(b, e).k
            THEN s ELSE [buffer |-> heap_index_swap(b, c, e), cur_idx |-> e]
  BY <1>1, <1>4 DEF Sink
<1>6. \A i \in 1 .. n - 1 : Parent(i) = c => i = c * 2 + 1 \/ i = c * 2 + 2
  <2> SUFFICES ASSUME NEW i \in 1 .. n - 1, Parent(i) = c PROVE i = c * 2 + 1 \/ i = c * 2 + 2
    OBVIOUS
  <2>1. i \in Nat /\ i > 0
    OBVIOUS
  <2> QED BY <1>2, <2>1, ParentFacts
<1>7. CASE c * 2 + 1 >= n
  <2>1. \A i \in 1 .. n - 1 : Parent(i) # c
    BY <1>2, <1>6, <1>7
  <2>2. Ordered(b, n)
    BY <1>2, <2>1 DEF Ordered, OrderedBelow
  <2> QED BY <1>1, <1>5, <1>7, <2>2
<1>8. CASE ~(c * 2 + 1 >= n)
  <2>1. /\ c * 2 + 1 \in 1 .. n - 1 /\ c * 2 + 1 \in Nat /\ c * 2 + 1 > 0
        /\ c * 2 + 2 \in Nat /\ c * 2 + 2 > 0 /\ c \in 0 .. n - 1
        /\ (c * 2 + 1) + 1 = c * 2 + 2 /\ (c * 2 + 2 < n => c * 2 + 2 \in 1 .. n - 1)
    BY <1>2, <1>8
  <2>2. Parent(c * 2 + 1) = c /\ Parent(c * 2 + 2) = c
    <3>1. /\ Parent(c * 2 + 1) \in Nat
          /\ c * 2 + 1 = 2 * Parent(c * 2 + 1) + 1 \/ c * 2 + 1 = 2 * Parent(c * 2 + 1) + 2
      BY <2>1, ParentFacts
    <3>2. /\ Parent(c * 2 + 2) \in Nat
          /\ c * 2 + 2 = 2 * Parent(c * 2 + 2) + 1 \/ c * 2 + 2 = 2 * Parent(c * 2 + 2) + 2
      BY <2>1, ParentFacts
    <3>3. \A x, y \in Nat : x * 2 + 1 = 2 * y + 1 \/ x * 2 + 1 = 2 * y + 2 => y = x
      OBVIOUS
    <3>4. \A x, y \in Nat : x * 2 + 2 = 2 * y + 1 \/ x * 2 + 2 = 2 * y + 2 => y = x
      OBVIOUS
    <3> QED BY <1>2, <3>1, <3>2, <3>3, <3>4
  <2>3. /\ e = IF c * 2 + 2 < n /\ At(b, c * 2 + 2).k < At(b, c * 2 + 1).k
                 THEN c * 2 + 2 ELSE c * 2 + 1
    BY <1>4, <2>1 DEF SmallestChild
  <2>4. e \in 1 .. n - 1 /\ Parent(e) = c /\ e > c
    BY <1>2, <2>1, <2>2, <2>3
  <2>5. ASSUME NEW i \in 1 .. n - 1, Parent(i) = c PROVE At(b, e).k <= At(b, i).k
    <3>1. At(b, i).k \in Int /\ At(b, e).k \in Int /\ At(b, c * 2 + 1).k \in Int
      BY <1>3, <2>1, <2>4
    <3>2. CASE i = c * 2 + 1
      BY <2>3, <3>1, <3>2
    <3>3. CASE i = c * 2 + 2
      BY <2>3, <3>1, <3>3
    <3> QED BY <1>6, <2>5, <3>2, <3>3
  <2>6. At(b, c).k \in Int /\ At(b, e).k \in Int
    BY <1>3, <2>1, <2>4
  <2>7. CASE At(b, c).k <= At(b, e).k
    <3>1. ASSUME NEW i \in 1 .. n - 1 PROVE At(b, Parent(i)).k <= At(b, i).k
      <4>1. CASE Parent(i) = c
        <5>1. At(b, e).k <= At(b, i).k /\ At(b, i).k \in Int
          BY <1>3, <2>5, <4>1
        <5> QED BY <2>6, <2>7, <4>1, <5>1
      <4>2. CASE Parent(i) # c
        BY <1>2, <4>2 DEF OrderedBelow
      <4> QED BY <4>1, <4>2
    <3>2. Ordered(b, n)
      BY <3>1 DEF Ordered
    <3> QED BY <1>1, <1>5, <2>7, <3>2
  <2>8. CASE ~(At(b, c).k <= At(b, e).k)
    <3>1. PICK d : d = heap_index_swap(b, c, e)
      OBVIOUS
    <3>2. /\ Holds(d, n, E) /\ At(d, c) = At(b, e) /\ At(d, e) = At(b, c)
          /\ \A i \in 0 .. n - 1 : i # c /\ i # e => At(d, i) = At(b, i)
      <4>1. e \in 0 .. n - 1
        BY <2>4
      <4> QED BY <1>2, <2>1, <3>1, <4>1, SwapFacts
    <3>3. At(b, e).k < At(b, c).k
      BY <2>6, <2>8
    <3>4. OrderedBelow(d, e, n)
      BY <1>2, <1>3, <2>4, <2>5, <3>2, <3>3, SwapDown
    <3>5. t = [buffer |-> d, cur_idx |-> e]
      BY <1>5, <1>8, <2>8, <3>1
    <3> QED BY <1>1, <2>4, <3>2, <3>4, <3>5 DEF Sinking
  <2> QED BY <2>7, <2>8
<1> QED BY <1>7, <1>8

\* The loops have as many rounds as asked for.
ClimbRun(f, s, m) == f = [r \in 0 .. m |-> IF r = 0 THEN s ELSE Climb(f[r - 1])]
SinkRun(f, s, n, m) == f = [r \in 0 .. m |-> IF r = 0 THEN s ELSE Sink(f[r - 1], n)]

\* Any number of rounds of the climb can be tabulated.
LEMMA ClimbRounds ==
  ASSUME NEW s, NEW m \in Nat
  PROVE  \E f : ClimbRun(f, s, m)
<1> DEFINE P == {l \in Nat : \E f : ClimbRun(f, s, l)}
<1>1. 0 \in P
  <2>1. ClimbRun([r \in 0 .. 0 |-> s], s, 0)
    BY DEF ClimbRun
  <2> QED BY <2>1
<1>2. ASSUME NEW l \in Nat, l \in P PROVE l + 1 \in P
  <2>1. PICK f : ClimbRun(f, s, l)
    BY <1>2
  <2> DEFINE g == [r \in 0 .. l + 1 |-> IF r = l + 1 THEN Climb(f[l]) ELSE f[r]]
  <2>2. /\ l + 1 # 0 /\ (l + 1) - 1 = l /\ l \in 0 .. l /\ l # l + 1 /\ l \in 0 .. l + 1
        /\ \A r \in 0 .. l + 1 : /\ r = l + 1 \/ r \in 0 .. l
                                 /\ r # 0 /\ r # l + 1
                                      => /\ r - 1 \in 0 .. l
                                         /\ r - 1 \in 0 .. l + 1
                                         /\ r - 1 # l + 1
    OBVIOUS
  <2>3. \A r \in 0 .. l : f[r] = IF r = 0 THEN s ELSE Climb(f[r - 1])
    BY <2>1 DEF ClimbRun
  <2>4. ASSUME NEW r \in 0 .. l + 1 PROVE g[r] = IF r = 0 THEN s ELSE Climb(g[r - 1])
    <3>1. CASE r = l + 1
      BY <2>2, <3>1
    <3>2. CASE r # l + 1
      <4>1. r \in 0 .. l /\ g[r] = f[r] /\ (r # 0 => g[r - 1] = f[r - 1])
        BY <2>2, <3>2
      <4> QED BY <2>3, <4>1
    <3> QED BY <3>1, <3>2
  <2>5. ClimbRun(g, s, l + 1)
    <3>1. g = [r \in 0 .. l + 1 |-> g[r]]
      OBVIOUS
    <3>2. [r \in 0 .. l + 1 |-> g[r]] = [r \in 0 .. l + 1 |-> IF r = 0 THEN s ELSE Climb(g[r - 1])]
      <4> HIDE DEF g
      <4> QED BY <2>4
    <3> HIDE DEF g
    <3> QED BY <3>1, <3>2, Zenon DEF ClimbRun
  <2> HIDE DEF g
  <2> QED BY <2>5
<1>3. \A l \in Nat : l \in P
  <2> HIDE DEF P
  <2> QED BY <1>1, <1>2, NumberInduction
<1> QED BY <1>3

\* Any number of rounds of the descent can be tabulated.
LEMMA SinkRounds ==
  ASSUME NEW s, NEW n, NEW m \in Nat
  PROVE  \E f : SinkRun(f, s, n, m)
<1> DEFINE P == {l \in Nat : \E f : SinkRun(f, s, n, l)}
<1>1. 0 \in P
  <2>1. SinkRun([r \in 0 .. 0 |-> s], s, n, 0)
    BY DEF SinkRun
  <2> QED BY <2>1
<1>2. ASSUME NEW l \in Nat, l \in P PROVE l + 1 \in P
  <2>1. PICK f : SinkRun(f, s, n, l)
    BY <1>2
  <2> DEFINE g == [r \in 0 .. l + 1 |-> IF r = l + 1 THEN Sink(f[l], n) ELSE f[r]]
  <2>2. /\ l + 1 # 0 /\ (l + 1) - 1 = l /\ l \in 0 .. l /\ l # l + 1 /\ l \in 0 .. l + 1
        /\ \A r \in 0 .. l + 1 : /\ r = l + 1 \/ r \in 0 .. l
                                 /\ r # 0 /\ r # l + 1
                                      => /\ r - 1 \in 0 .. l
                                         /\ r - 1 \in 0 .. l + 1
                                         /\ r - 1 # l + 1
    OBVIOUS
  <2>3. \A r \in 0 .. l : f[r] = IF r = 0 THEN s ELSE Sink(f[r - 1], n)
    BY <2>1 DEF SinkRun
  <2>4. ASSUME NEW r \in 0 .. l + 1 PROVE g[r] = IF r = 0 THEN s ELSE Sink(g[r - 1], n)
    <3>1. CASE r = l + 1
      BY <2>2, <3>1
    <3>2. CASE r # l + 1
      <4>1. r \in 0 .. l /\ g[r] = f[r] /\ (r # 0 => g[r - 1] = f[r - 1])
        BY <2>2, <3>2
      <4> QED BY <2>3, <4>1
    <3> QED BY <3>1, <3>2
  <2>5. SinkRun(g, s, n, l + 1)
    <3>1. g = [r \in 0 .. l + 1 |-> g[r]]
      OBVIOUS
    <3>2. [r \in 0 .. l + 1 |-> g[r]] = [r \in 0 .. l + 1 |-> IF r = 0 THEN s ELSE Sink(g[r - 1], n)]
      <4> HIDE DEF g
      <4> QED BY <2>4
    <3> HIDE DEF g
    <3> QED BY <3>1, <3>2, Zenon DEF SinkRun
  <2> HIDE DEF g
  <2> QED BY <2>5
<1>3. \A l \in Nat : l \in P
  <2> HIDE DEF P
  <2> QED BY <1>1, <1>2, NumberInduction
<1> QED BY <1>3

\* push's loop restores the order.
LEMMA SiftUpFacts ==
  ASSUME Shift \in 0 .. 37, NEW n \in Nat, n <= Room, NEW E, Keyed(E), NEW b, Holds(b, n, E),
         NEW c, OrderedAbove(b, c, n)
  PROVE  Holds(SiftUp(b, c), n, E) /\ Ordered(SiftUp(b, c), n)
<1>1. c \in Nat /\ c <= n - 1
  BY DEF OrderedAbove
<1> DEFINE s == [buffer |-> b, cur_idx |-> c]
<1>2. PICK f : f = CHOOSE g : ClimbRun(g, s, c)
  OBVIOUS
<1>3. SiftUp(b, c) = f[c].buffer
  BY <1>2 DEF ClimbRun, SiftUp
<1>4. ClimbRun(f, s, c)
  <2>1. \E g : ClimbRun(g, s, c)
    BY <1>1, ClimbRounds
  <2> QED BY <1>2, <2>1
<1>5. f[0] = s /\ \A r \in 0 .. c : r # 0 => f[r] = Climb(f[r - 1])
  BY <1>1, <1>4 DEF ClimbRun
<1> DEFINE Done(r) == Climb(f[r]) = f[r] /\ Ordered(f[r].buffer, n)
           P == {r \in Nat : r <= c => /\ Rising(f[r], n, E)
                                       /\ Done(r) \/ f[r].cur_idx <= c - r}
<1>6. 0 \in P
  <2>1. f[0].buffer = b /\ f[0].cur_idx = c /\ c <= c - 0
    BY <1>1, <1>5
  <2> QED BY <2>1 DEF Rising
<1> HIDE DEF s
<1>7. ASSUME NEW r \in Nat, r \in P PROVE r + 1 \in P
  <2> SUFFICES ASSUME r + 1 <= c
               PROVE  Rising(f[r + 1], n, E) /\ (Done(r + 1) \/ f[r + 1].cur_idx <= c - (r + 1))
    OBVIOUS
  <2>1. r <= c /\ r + 1 \in 0 .. c /\ r + 1 # 0 /\ (r + 1) - 1 = r
    BY <1>1
  <2>2. f[r + 1] = Climb(f[r])
    BY <1>5, <2>1
  <2>3. Rising(f[r], n, E) /\ (Done(r) \/ f[r].cur_idx <= c - r)
    BY <1>7, <2>1
  <2>4. Rising(f[r + 1], n, E) /\ (Done(r) \/ f[r + 1].cur_idx < f[r].cur_idx)
    <3>1. /\ Rising(f[r + 1], n, E)
          /\ (f[r + 1] = f[r] /\ Ordered(f[r].buffer, n)) \/ f[r + 1].cur_idx < f[r].cur_idx
      BY <2>2, <2>3, ClimbStep
    <3> QED BY <2>2, <3>1
  <2>5. Done(r) => Done(r + 1)
    BY <2>2
  <2>6. f[r].cur_idx \in Int /\ f[r + 1].cur_idx \in Int
    BY <2>3, <2>4 DEF Rising, OrderedAbove
  <2> HIDE DEF Done
  <2>7. CASE f[r].cur_idx <= c - r /\ f[r + 1].cur_idx < f[r].cur_idx
    <3>1. f[r + 1].cur_idx <= c - (r + 1)
      BY <1>1, <2>6, <2>7
    <3> QED BY <2>4, <3>1
  <2> QED BY <2>3, <2>4, <2>5, <2>7
<1>8. \A r \in Nat : r \in P
  <2> HIDE DEF P
  <2> QED BY <1>6, <1>7, NumberInduction
<1>9. Rising(f[c], n, E) /\ (Done(c) \/ f[c].cur_idx <= 0)
  BY <1>1, <1>8
<1>10. CASE f[c].cur_idx <= 0
  <2>1. OrderedAbove(f[c].buffer, f[c].cur_idx, n) /\ f[c].cur_idx = 0
    BY <1>9, <1>10 DEF Rising, OrderedAbove
  <2>2. \A i \in 1 .. n - 1 : At(f[c].buffer, Parent(i)).k <= At(f[c].buffer, i).k
    BY <2>1 DEF OrderedAbove
  <2> QED BY <1>3, <1>9, <2>2 DEF Ordered, Rising
<1> QED BY <1>3, <1>9, <1>10 DEF Rising

\* pop's loop restores the order.
LEMMA SiftDownFacts ==
  ASSUME Shift \in 0 .. 37, NEW n \in Nat, n <= Room, NEW E, Keyed(E), NEW b, Holds(b, n, E),
         OrderedBelow(b, 0, n)
  PROVE  Holds(SiftDown(b, n), n, E) /\ Ordered(SiftDown(b, n), n)
<1> DEFINE s == [buffer |-> b, cur_idx |-> 0]
<1>2. PICK f : f = CHOOSE g : SinkRun(g, s, n, n)
  OBVIOUS
<1>3. SiftDown(b, n) = f[n].buffer
  BY <1>2 DEF SinkRun, SiftDown
<1>4. SinkRun(f, s, n, n)
  <2>1. \E g : SinkRun(g, s, n, n)
    BY SinkRounds
  <2> QED BY <1>2, <2>1
<1>5. f[0] = s /\ \A r \in 0 .. n : r # 0 => f[r] = Sink(f[r - 1], n)
  BY <1>4 DEF SinkRun
<1> DEFINE Done(r) == Sink(f[r], n) = f[r] /\ Ordered(f[r].buffer, n)
           P == {r \in Nat : r <= n => /\ Sinking(f[r], n, E)
                                       /\ Done(r) \/ f[r].cur_idx >= r}
<1>6. 0 \in P
  <2>1. f[0].buffer = b /\ f[0].cur_idx = 0
    BY <1>5
  <2> QED BY <2>1 DEF Sinking
<1> HIDE DEF s
<1>7. ASSUME NEW r \in Nat, r \in P PROVE r + 1 \in P
  <2> SUFFICES ASSUME r + 1 <= n
               PROVE  Sinking(f[r + 1], n, E) /\ (Done(r + 1) \/ f[r + 1].cur_idx >= r + 1)
    OBVIOUS
  <2>1. r <= n /\ r + 1 \in 0 .. n /\ r + 1 # 0 /\ (r + 1) - 1 = r
    OBVIOUS
  <2>2. f[r + 1] = Sink(f[r], n)
    BY <1>5, <2>1
  <2>3. Sinking(f[r], n, E) /\ (Done(r) \/ f[r].cur_idx >= r)
    BY <1>7, <2>1
  <2>4. Sinking(f[r + 1], n, E) /\ (Done(r) \/ f[r + 1].cur_idx > f[r].cur_idx)
    <3>1. /\ Sinking(f[r + 1], n, E)
          /\ (f[r + 1] = f[r] /\ Ordered(f[r].buffer, n)) \/ f[r + 1].cur_idx > f[r].cur_idx
      BY <2>2, <2>3, SinkStep
    <3> QED BY <2>2, <3>1
  <2>5. Done(r) => Done(r + 1)
    BY <2>2
  <2>6. f[r].cur_idx \in Int /\ f[r + 1].cur_idx \in Int
    BY <2>3, <2>4 DEF Sinking, OrderedBelow
  <2> HIDE DEF Done
  <2>7. CASE f[r].cur_idx >= r /\ f[r + 1].cur_idx > f[r].cur_idx
    <3>1. f[r + 1].cur_idx >= r + 1
      BY <2>6, <2>7
    <3> QED BY <2>4, <3>1
  <2> QED BY <2>3, <2>4, <2>5, <2>7
<1>8. \A r \in Nat : r \in P
  <2> HIDE DEF P
  <2> QED BY <1>6, <1>7, NumberInduction
<1>9. Sinking(f[n], n, E) /\ (Done(n) \/ f[n].cur_idx >= n)
  BY <1>8
<1>10. CASE f[n].cur_idx >= n
  <2>1. OrderedBelow(f[n].buffer, f[n].cur_idx, n) /\ f[n].cur_idx \in Nat
    BY <1>9 DEF Sinking, OrderedBelow
  <2>2. ASSUME NEW i \in 1 .. n - 1 PROVE Parent(i) # f[n].cur_idx
    <3>1. i \in Nat /\ i > 0
      OBVIOUS
    <3>2. Parent(i) \in Nat /\ Parent(i) < i
      BY <3>1, ParentFacts
    <3> QED BY <1>10, <2>1, <3>2
  <2>3. \A i \in 1 .. n - 1 : At(f[n].buffer, Parent(i)).k <= At(f[n].buffer, i).k
    BY <2>1, <2>2 DEF OrderedBelow
  <2> QED BY <1>3, <1>9, <2>3 DEF Ordered, Sinking
<1> QED BY <1>3, <1>9, <1>10 DEF Sinking

HeapInv ==
  /\ size \in Nat /\ count \in Nat /\ size <= count /\ count <= MaxHeap
  /\ entries \subseteq [k : Int, v : 1 .. count]
  /\ Holds(buffer, size, entries)
  /\ Ordered(buffer, size)
  /\ \A x \in popped, y \in entries : x.k <= y.k

\* In order, the root is the earliest.
LEMMA RootIsEarliest ==
  ASSUME NEW b, NEW n \in Nat, NEW E, Holds(b, n, E), Keyed(E), Ordered(b, n)
  PROVE  \A y \in E : At(b, 0).k <= y.k
<1> DEFINE P == {l \in Nat : l < n => \A i \in 0 .. l : At(b, 0).k <= At(b, i).k}
<1>1. \A i \in 0 .. n - 1 : At(b, i).k \in Int
  BY HeldKeys
<1>2. 0 \in P
  <2>1. 0 < n => At(b, 0).k \in Int
    BY <1>1
  <2> QED BY <2>1
<1>3. ASSUME NEW l \in Nat, l \in P PROVE l + 1 \in P
  <2> SUFFICES ASSUME l + 1 < n, NEW i \in 0 .. l + 1 PROVE At(b, 0).k <= At(b, i).k
    OBVIOUS
  <2>1. \A j \in 0 .. l : At(b, 0).k <= At(b, j).k
    BY <1>3
  <2>2. CASE i = l + 1
    <3>1. i \in Nat /\ i > 0 /\ i \in 1 .. n - 1 /\ i \in 0 .. n - 1 /\ 0 \in 0 .. n - 1
      BY <2>2
    <3>2. Parent(i) \in 0 .. l /\ Parent(i) \in 0 .. n - 1
      BY <2>2, <3>1, ParentFacts
    <3>3. At(b, 0).k <= At(b, Parent(i)).k /\ At(b, Parent(i)).k <= At(b, i).k
      BY <2>1, <3>1, <3>2 DEF Ordered
    <3> QED BY <1>1, <3>1, <3>2, <3>3
  <2>3. CASE i # l + 1
    BY <2>1, <2>3
  <2> QED BY <2>2, <2>3
<1>4. \A l \in Nat : l \in P
  <2> HIDE DEF P
  <2> QED BY <1>2, <1>3, NumberInduction
<1>5. ASSUME NEW i \in 0 .. n - 1 PROVE At(b, 0).k <= At(b, i).k
  <2>1. n - 1 \in Nat /\ n - 1 < n
    OBVIOUS
  <2> QED BY <1>4, <2>1
<1> QED BY <1>5 DEF Holds

\* As many slots as items.
LEMMA HoldsAsMany ==
  ASSUME NEW b, NEW n \in Nat, NEW E, Holds(b, n, E)
  PROVE  Cardinality(E) = n
<1> DEFINE f == [i \in 0 .. n - 1 |-> At(b, i)]
<1>1. /\ {At(b, i) : i \in 0 .. n - 1} = E
      /\ \A i, j \in 0 .. n - 1 : At(b, i) = At(b, j) => i = j
  BY DEF Holds
<1>2. f \in Injection(0 .. n - 1, E)
  <2>1. f \in [0 .. n - 1 -> E]
    BY <1>1
  <2>2. \A i, j \in 0 .. n - 1 : f[i] = f[j] => i = j
    BY <1>1
  <2> HIDE DEF f
  <2> QED BY <2>1, <2>2 DEF Injection, IsInjective
<1>3. f \in Surjection(0 .. n - 1, E)
  <2>1. f \in [0 .. n - 1 -> E]
    BY <1>1
  <2>2. \A e \in E : \E i \in 0 .. n - 1 : f[i] = e
    BY <1>1
  <2> HIDE DEF f
  <2> QED BY <2>1, <2>2 DEF Surjection
<1> HIDE DEF f
<1>4. ExistsBijection(0 .. n - 1, E)
  BY <1>2, <1>3 DEF ExistsBijection, Bijection
<1>5. IsFiniteSet(0 .. n - 1) /\ Cardinality(0 .. n - 1) = n
  <2>1. /\ 0 \in Int /\ n - 1 \in Int
        /\ (IF 0 > n - 1 THEN 0 ELSE (n - 1) - 0 + 1) = n
    OBVIOUS
  <2> QED BY <2>1, FS_Interval
<1> QED BY <1>4, <1>5, FS_Bijection

\* A push keeps the heap.
LEMMA PushKeepsHeap ==
  ASSUME HeapFits, HeapInv, NEW k \in Keys, async_min_heap_push(k)
  PROVE  HeapInv'
<1>1. PICK n \in Nat, m \in Nat, b \in {buffer}, E \in {entries} : n = size /\ m = count
  BY DEF HeapInv
<1>2. PICK item : item = [k |-> k, v |-> m + 1]
  OBVIOUS
<1>3. PICK b1 : b1 = segment_buffer_insert(b, item, n)
  OBVIOUS
<1>4. /\ n <= m /\ m < MaxHeap /\ MaxHeap <= Room /\ MaxHeap \in Nat /\ Room \in Int
      /\ Shift \in 0 .. 37 /\ k \in Int
  <2>1. Shift \in 0 .. 37
    BY DEF HeapFits
  <2>2. Room \in Int
    BY <2>1, RoomIsNumber
  <2> QED BY <1>1, <2>1, <2>2 DEF HeapInv, HeapFits, async_min_heap_push, Room
<1>5. /\ E \subseteq [k : Int, v : 1 .. m] /\ Holds(b, n, E) /\ Ordered(b, n)
  BY <1>1 DEF HeapInv
<1>6. /\ buffer' = SiftUp(b1, n) /\ size' = n + 1 /\ entries' = E \cup {item}
      /\ count' = m + 1 /\ popped' = {}
  BY <1>1, <1>2, <1>3 DEF async_min_heap_push
<1>7. E \cup {item} \subseteq [k : Int, v : 1 .. m + 1] /\ item \notin E
  <2>1. item \in [k : Int, v : 1 .. m + 1]
    BY <1>2, <1>4
  <2>2. [k : Int, v : 1 .. m] \subseteq [k : Int, v : 1 .. m + 1]
    OBVIOUS
  <2>3. item.v = m + 1
    BY <1>2
  <2>4. \A e \in E : e.v # m + 1
    BY <1>5
  <2> QED BY <1>5, <2>1, <2>2, <2>3, <2>4
<1>8. /\ SlotOf(n) \in DOMAIN b1 /\ At(b1, n) = item
      /\ \A i \in 0 .. n - 1 : SlotOf(i) \in DOMAIN b1 /\ At(b1, i) = At(b, i)
  <2>1. n < Room /\ n <= Room
    BY <1>4
  <2>2. \A i \in 0 .. n - 1 : SlotOf(i) \in DOMAIN b /\ i # n
    BY <1>5 DEF Holds
  <2> QED BY <1>3, <1>4, <2>1, <2>2, InsertFacts
<1>9. \A i \in 0 .. n : i = n \/ i \in 0 .. n - 1
  OBVIOUS
<1>10. Holds(b1, n + 1, E \cup {item})
  <2>1. (n + 1) - 1 = n /\ n \in 0 .. n /\ \A i \in 0 .. n - 1 : i \in 0 .. n
    OBVIOUS
  <2>2. \A i \in 0 .. n : SlotOf(i) \in DOMAIN b1
    BY <1>8, <1>9
  <2>3. /\ {At(b, i) : i \in 0 .. n - 1} = E
        /\ \A i, j \in 0 .. n - 1 : At(b, i) = At(b, j) => i = j
    BY <1>5 DEF Holds
  <2>4. {At(b1, i) : i \in 0 .. n} = E \cup {item}
    BY <1>8, <1>9, <2>1, <2>3
  <2>5. ASSUME NEW i \in 0 .. n, NEW j \in 0 .. n, At(b1, i) = At(b1, j) PROVE i = j
    <3>1. \A l \in 0 .. n - 1 : At(b1, l) \in E
      BY <1>8, <2>3
    <3> QED BY <1>7, <1>8, <1>9, <2>3, <2>5, <3>1
  <2> QED BY <2>1, <2>2, <2>4, <2>5 DEF Holds
<1>11. OrderedAbove(b1, n, n + 1)
  <2>1. ASSUME NEW i \in 1 .. (n + 1) - 1, i # n PROVE At(b1, Parent(i)).k <= At(b1, i).k
    <3>1. i \in 1 .. n - 1 /\ i \in Nat /\ i > 0 /\ i \in 0 .. n - 1
      BY <2>1
    <3>2. Parent(i) \in 0 .. n - 1
      BY <3>1, ParentFacts
    <3> QED BY <1>5, <1>8, <3>1, <3>2 DEF Ordered
  <2>2. ASSUME NEW i \in 1 .. (n + 1) - 1 PROVE Parent(i) # n
    <3>1. i \in Nat /\ i > 0 /\ i <= n
      OBVIOUS
    <3>2. Parent(i) \in Nat /\ Parent(i) < i
      BY <3>1, ParentFacts
    <3> QED BY <3>1, <3>2
  <2>3. n \in 0 .. (n + 1) - 1
    OBVIOUS
  <2> QED BY <2>1, <2>2, <2>3 DEF OrderedAbove
<1>12. Keyed(E \cup {item})
  BY <1>7 DEF Keyed
<1>13. Holds(buffer', n + 1, E \cup {item}) /\ Ordered(buffer', n + 1)
  <2>1. n + 1 \in Nat /\ n + 1 <= Room
    BY <1>4
  <2> QED BY <1>4, <1>6, <1>10, <1>11, <1>12, <2>1, SiftUpFacts
<1>14. n + 1 \in Nat /\ m + 1 \in Nat /\ n + 1 <= m + 1 /\ m + 1 <= MaxHeap
  BY <1>4
<1> QED BY <1>6, <1>7, <1>13, <1>14 DEF HeapInv

\* Taking the root keeps the heap.
LEMMA PopKeepsHeap ==
  ASSUME HeapFits, HeapInv, PopRoot
  PROVE  HeapInv'
<1>1. PICK n \in Nat, m \in Nat, b \in {buffer}, E \in {entries} : n + 1 = size /\ m = count
  <2>1. size - 1 \in Nat /\ (size - 1) + 1 = size /\ count \in Nat
    BY DEF HeapInv, PopRoot
  <2> QED BY <2>1
<1>2. PICK b1 : b1 = heap_index_swap(b, 0, n)
  OBVIOUS
<1>3. PICK b2 : b2 = segment_buffer_insert(b1, Zero, n)
  OBVIOUS
<1>4. PICK root : root = At(b, 0)
  OBVIOUS
<1>5. /\ n + 1 <= m /\ m <= MaxHeap /\ MaxHeap <= Room /\ MaxHeap \in Nat /\ Room \in Int
      /\ Shift \in 0 .. 37
  <2>1. Shift \in 0 .. 37
    BY DEF HeapFits
  <2>2. Room \in Int
    BY <2>1, RoomIsNumber
  <2> QED BY <1>1, <2>1, <2>2 DEF HeapInv, HeapFits, Room
<1>6. /\ E \subseteq [k : Int, v : 1 .. m] /\ Holds(b, n + 1, E) /\ Ordered(b, n + 1)
  BY <1>1 DEF HeapInv
<1>7. /\ buffer' = SiftDown(b2, n) /\ size' = n /\ popped' = {root} /\ entries' = E \ {root}
      /\ count' = IF n = 0 THEN 0 ELSE m
  <2>1. size - 1 = n
    BY <1>1
  <2> QED BY <1>1, <1>2, <1>3, <1>4, <2>1 DEF PopRoot
<1>8. /\ 0 \in 0 .. n /\ n \in 0 .. n /\ (n + 1) - 1 = n /\ n + 1 \in Nat /\ n + 1 <= Room
      /\ n < Room /\ n <= Room
  BY <1>5
<1>9. /\ Holds(b1, n + 1, E) /\ At(b1, 0) = At(b, n) /\ At(b1, n) = root
      /\ \A i \in 0 .. n : i # 0 /\ i # n => At(b1, i) = At(b, i)
  BY <1>2, <1>4, <1>5, <1>6, <1>8, SwapFacts
<1>10. /\ \A i \in 0 .. n : SlotOf(i) \in DOMAIN b1
       /\ {At(b1, i) : i \in 0 .. n} = E
       /\ \A i, j \in 0 .. n : At(b1, i) = At(b1, j) => i = j
  BY <1>8, <1>9 DEF Holds
<1>11. \A i \in 0 .. n - 1 : SlotOf(i) \in DOMAIN b2 /\ At(b2, i) = At(b1, i)
  <2>1. \A i \in 0 .. n - 1 : SlotOf(i) \in DOMAIN b1 /\ i # n
    BY <1>10
  <2> QED BY <1>3, <1>5, <1>8, <2>1, InsertFacts
<1>12. \A i \in 0 .. n : i = n \/ i \in 0 .. n - 1
  OBVIOUS
<1>13. Holds(b2, n, E \ {root})
  <2>1. \A i \in 0 .. n - 1 : i \in 0 .. n /\ i # n
    OBVIOUS
  <2>2. {At(b2, i) : i \in 0 .. n - 1} = E \ {root}
    <3>1. \A i \in 0 .. n - 1 : At(b2, i) \in E \ {root}
      <4> SUFFICES ASSUME NEW i \in 0 .. n - 1 PROVE At(b2, i) \in E \ {root}
        OBVIOUS
      <4>1. At(b2, i) = At(b1, i) /\ i \in 0 .. n /\ i # n
        BY <1>11, <2>1
      <4> QED BY <1>8, <1>9, <1>10, <4>1
    <3>2. \A e \in E \ {root} : \E i \in 0 .. n - 1 : At(b2, i) = e
      <4> SUFFICES ASSUME NEW e \in E \ {root} PROVE \E i \in 0 .. n - 1 : At(b2, i) = e
        OBVIOUS
      <4>1. PICK i \in 0 .. n : At(b1, i) = e
        BY <1>10
      <4>2. i # n
        BY <1>9, <4>1
      <4> QED BY <1>11, <1>12, <4>1, <4>2
    <3> QED BY <3>1, <3>2
  <2>3. \A i, j \in 0 .. n - 1 : At(b2, i) = At(b2, j) => i = j
    BY <1>10, <1>11, <2>1
  <2> QED BY <1>11, <2>2, <2>3, Zenon DEF Holds
<1>14. OrderedBelow(b2, 0, n)
  <2>1. ASSUME NEW i \in 1 .. n - 1, Parent(i) # 0 PROVE At(b2, Parent(i)).k <= At(b2, i).k
    <3>1. i \in Nat /\ i > 0 /\ i \in 0 .. n - 1 /\ i \in 0 .. n /\ i # n /\ i \in 1 .. (n + 1) - 1
      OBVIOUS
    <3>2. /\ Parent(i) \in 0 .. n - 1 /\ Parent(i) \in 0 .. n /\ Parent(i) # n
      BY <3>1, ParentFacts
    <3>3. At(b2, i) = At(b, i) /\ At(b2, Parent(i)) = At(b, Parent(i))
      BY <1>9, <1>11, <2>1, <3>1, <3>2
    <3> QED BY <1>6, <3>1, <3>3 DEF Ordered
  <2> QED BY <2>1 DEF OrderedBelow
<1>15. Keyed(E) /\ Keyed(E \ {root}) /\ root.k \in Int
  <2>1. root \in E
    BY <1>8, <1>9, <1>10
  <2> QED BY <1>6, <2>1 DEF Keyed
<1>16. Holds(buffer', n, E \ {root}) /\ Ordered(buffer', n)
  BY <1>5, <1>7, <1>8, <1>13, <1>14, <1>15, SiftDownFacts
<1>17. \A x \in popped', y \in entries' : x.k <= y.k
  <2>1. \A y \in E : root.k <= y.k
    BY <1>4, <1>6, <1>8, <1>15, RootIsEarliest
  <2> QED BY <1>7, <2>1
<1>18. entries' \subseteq [k : Int, v : 1 .. count'] /\ count' \in Nat /\ n <= count' /\ count' <= MaxHeap
  <2>1. CASE n = 0
    <3>1. \A i \in 0 .. n - 1 : FALSE
      BY <2>1
    <3>2. E \ {root} = {}
      BY <1>13, <3>1 DEF Holds
    <3> QED BY <1>5, <1>7, <2>1, <3>2
  <2>2. CASE n # 0
    BY <1>5, <1>6, <1>7, <2>2
  <2> QED BY <2>1, <2>2
<1> QED BY <1>7, <1>16, <1>17, <1>18 DEF HeapInv

(***************************************************************************)
(* For any deadlines and any number of items the segments have room for,   *)
(* the tree is the set of (deadline, task) pairs that ThreadPool takes it  *)
(* for, and a pop hands out an earliest one.                               *)
(***************************************************************************)
THEOREM HeapStaysASet ==
  ASSUME HeapFits
  PROVE  HeapInit /\ [][HeapNext]_heapVars => []HeapIsASet
<1>1. HeapInit => HeapInv
  <2> SUFFICES ASSUME HeapInit PROVE HeapInv
    OBVIOUS
  <2>1. size = 0 /\ entries = {} /\ count = 0 /\ popped = {} /\ 0 <= MaxHeap
    BY DEF HeapInit, HeapFits
  <2>2. \A i \in 0 .. 0 - 1 : FALSE
    OBVIOUS
  <2>3. \A i \in 1 .. 0 - 1 : FALSE
    OBVIOUS
  <2>4. Holds(buffer, 0, {})
    BY <2>2 DEF Holds
  <2>5. Ordered(buffer, 0)
    BY <2>3 DEF Ordered
  <2> QED BY <2>1, <2>4, <2>5 DEF HeapInv
<1>2. HeapInv /\ [HeapNext]_heapVars => HeapInv'
  <2> SUFFICES ASSUME HeapInv, [HeapNext]_heapVars PROVE HeapInv'
    OBVIOUS
  <2>1. CASE UNCHANGED heapVars
    BY <2>1 DEF HeapInv, heapVars
  <2>2. ASSUME NEW k \in Keys, async_min_heap_push(k) PROVE HeapInv'
    BY <2>2, PushKeepsHeap
  <2>3. CASE PopRoot
    BY <2>3, PopKeepsHeap
  <2> QED BY <2>1, <2>2, <2>3 DEF HeapNext, async_min_heap_pop_ready
<1>3. HeapInv => HeapIsASet
  <2> SUFFICES ASSUME HeapInv PROVE HeapIsASet
    OBVIOUS
  <2>1. PICK n \in Nat : n = size
    BY DEF HeapInv
  <2>2. Holds(buffer, n, entries) /\ Ordered(buffer, n) /\ Keyed(entries)
    BY <2>1 DEF HeapInv, Keyed
  <2>3. {At(buffer, i) : i \in 0 .. n - 1} = entries
    BY <2>2 DEF Holds
  <2>4. Cardinality(entries) = n
    BY <2>2, HoldsAsMany
  <2>5. \A y \in entries : At(buffer, 0).k <= y.k
    BY <2>2, RootIsEarliest
  <2> QED BY <2>1, <2>3, <2>4, <2>5 DEF HeapInv, HeapIsASet, async_min_heap_peek
<1> QED BY <1>1, <1>2, <1>3, PTL
=============================================================================
