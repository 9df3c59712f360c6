-------------------------- MODULE SlottedPageProofs --------------------------
(***************************************************************************)
(* For every page size below 2^16, every directory entry size and every    *)
(* set of records: the layout of SlottedPage is type correct, directory    *)
(* and cells never meet, live cells are disjoint, and, when no record is   *)
(* empty, the page implements HeapPage.                                    *)
(***************************************************************************)
EXTENDS SlottedPage, SequenceTheorems, TLAPS

\* The inductive invariant: neither LayoutOK nor CellsDisjoint is inductive
\* without the other two conjuncts.
PageInv == TypeOK /\ LayoutOK /\ CellsDisjoint

Apart(s, o, n) == slots[s].offset + slots[s].len <= o \/ o + n <= slots[s].offset

\* Storing a value as u16 is the identity on the offsets of a page.
LEMMA U16Identity ==
  ASSUME NEW n \in 0..PAGE_SIZE
  PROVE  U16(n) = n
  BY PageAssumption DEF U16

\* Directory arithmetic: one more entry takes SLOT_SIZE more bytes.
LEMMA DirectoryGrows ==
  ASSUME NEW n \in Nat
  PROVE  /\ n * SLOT_SIZE \in Nat
         /\ (n + 1) * SLOT_SIZE = n * SLOT_SIZE + SLOT_SIZE
         /\ n <= n * SLOT_SIZE
<1>1. SLOT_SIZE \in Nat /\ SLOT_SIZE >= 1
  BY PageAssumption
<1>2. n * SLOT_SIZE \in Nat /\ (n + 1) * SLOT_SIZE = n * SLOT_SIZE + SLOT_SIZE
  BY <1>1
<1>3. n * SLOT_SIZE = n + n * (SLOT_SIZE - 1) /\ n * (SLOT_SIZE - 1) \in Nat
  BY <1>1
<1>. QED  BY <1>1, <1>2, <1>3

\* A larger directory takes at least as many bytes.
LEMMA DirectoryMonotone ==
  ASSUME NEW m \in Nat, NEW n \in Nat, m <= n
  PROVE  m * SLOT_SIZE <= n * SLOT_SIZE
<1>1. SLOT_SIZE \in Nat
  BY PageAssumption
<1>2. PICK d \in Nat : n = m + d
  <2>1. n - m \in Nat /\ n = m + (n - m)
    OBVIOUS
  <2>. QED  BY <2>1
<1>3. n * SLOT_SIZE = m * SLOT_SIZE + d * SLOT_SIZE /\ d * SLOT_SIZE \in Nat
  BY <1>1, <1>2
<1>4. m * SLOT_SIZE \in Nat
  BY <1>1
<1>. QED  BY <1>3, <1>4

\* Every slot in use has a directory entry.
LEMMA SlotInUse ==
  ASSUME TypeOK, LayoutOK, NEW s \in 0..(slotCount - 1)
  PROVE  s \in SlotIds
<1>1. slotCount \in Nat /\ s \in Nat /\ s + 1 \in Nat /\ s + 1 <= slotCount
  BY PageAssumption DEF TypeOK
<1>2. (s + 1) * SLOT_SIZE <= slotCount * SLOT_SIZE
  BY <1>1, DirectoryMonotone
<1>3. (s + 1) * SLOT_SIZE \in Nat /\ slotCount * SLOT_SIZE \in Nat
  BY <1>1, DirectoryGrows
<1>4. HEADER_SIZE + slotCount * SLOT_SIZE <= PAGE_SIZE
  BY <1>3, PageAssumption DEF TypeOK, LayoutOK, SlotDirEnd
<1>5. s \in 0..PAGE_SIZE
  BY <1>1, PageAssumption DEF TypeOK
<1>. QED  BY <1>2, <1>3, <1>4, <1>5, PageAssumption DEF SlotIds

\* When insert finds room, the next slot has a directory entry below the cell.
LEMMA NextSlotFits ==
  ASSUME TypeOK, LayoutOK, NEW n \in Nat, n + SLOT_SIZE <= FreeSpace
  PROVE  /\ slotCount \in SlotIds
         /\ slotCount + 1 \in 0..PAGE_SIZE
         /\ HEADER_SIZE + (slotCount + 1) * SLOT_SIZE <= freePtr - n
         /\ freePtr - n \in 0..PAGE_SIZE
<1>1. slotCount \in Nat /\ freePtr \in 0..PAGE_SIZE
  BY PageAssumption DEF TypeOK
<1>2. /\ slotCount * SLOT_SIZE \in Nat
      /\ (slotCount + 1) * SLOT_SIZE = slotCount * SLOT_SIZE + SLOT_SIZE
      /\ slotCount + 1 <= (slotCount + 1) * SLOT_SIZE
  BY <1>1, DirectoryGrows
<1>3. HEADER_SIZE + (slotCount + 1) * SLOT_SIZE <= freePtr - n
  BY <1>1, <1>2, PageAssumption DEF FreeSpace, SlotDirEnd
<1>. QED  BY <1>1, <1>2, <1>3, PageAssumption DEF SlotIds

\* copy_from_slice changes the bytes of the cell and no other.
LEMMA WriteEffect ==
  ASSUME TypeOK, NEW r \in Seq(Byte), NEW o \in Nat, o + Len(r) <= PAGE_SIZE
  PROVE  /\ Write(o, r) \in [Offsets -> Byte]
         /\ \A i \in 1..Len(r) : Write(o, r)[o + i - 1] = r[i]
         /\ \A a \in Offsets : a < o \/ o + Len(r) <= a => Write(o, r)[a] = bytes[a]
<1>1. Len(r) \in Nat /\ \A i \in 1..Len(r) : r[i] \in Byte
  BY LenProperties, ElementOfSeq
<1>2. ASSUME NEW a \in Offsets, a \in o..(o + Len(r) - 1)
      PROVE  a - o + 1 \in 1..Len(r)
  BY <1>1, <1>2, PageAssumption DEF Offsets
<1>3. Write(o, r) \in [Offsets -> Byte]
  BY <1>1, <1>2 DEF Write, TypeOK
<1>4. ASSUME NEW i \in 1..Len(r)
      PROVE  Write(o, r)[o + i - 1] = r[i]
  <2>1. o + i - 1 \in Offsets /\ o + i - 1 \in o..(o + Len(r) - 1)
    BY <1>1, PageAssumption DEF Offsets
  <2>2. (o + i - 1) - o + 1 = i
    BY <1>1
  <2>. QED  BY <2>1, <2>2 DEF Write
<1>5. ASSUME NEW a \in Offsets, a < o \/ o + Len(r) <= a
      PROVE  Write(o, r)[a] = bytes[a]
  BY <1>1, <1>5, PageAssumption DEF Offsets, Write
<1>. QED  BY <1>3, <1>4, <1>5

\* A step that stores record r at offset o for slot s, away from the live cells
\* of the other slots: what get returns afterwards, for s and for the others.
LEMMA StoreEffect ==
  ASSUME PageInv, NEW r \in Seq(Byte), NEW s \in SlotIds,
         NEW o \in Nat, o + Len(r) <= PAGE_SIZE,
         \A t \in 0..(slotCount - 1) : t # s /\ Live(t) => Apart(t, o, Len(r)),
         bytes' = Write(o, r),
         slots' = SetSlot(s, o, Len(r))
  PROVE  /\ bytes' \in [Offsets -> Byte]
         /\ slots' \in [SlotIds -> [offset : 0..PAGE_SIZE, len : 0..PAGE_SIZE]]
         /\ slots'[s] = [offset |-> o, len |-> Len(r)]
         /\ \A t \in SlotIds : t # s => slots'[t] = slots[t]
         /\ \A i \in 1..Len(r) : bytes'[o + i - 1] = r[i]
         /\ \A t \in 0..(slotCount - 1) : t # s /\ Live(t) =>
              \A i \in 1..slots[t].len :
                bytes'[slots[t].offset + i - 1] = bytes[slots[t].offset + i - 1]
<1>1. Len(r) \in 0..PAGE_SIZE /\ o \in 0..PAGE_SIZE
  BY LenProperties, PageAssumption
<1>2. U16(o) = o /\ U16(Len(r)) = Len(r)
  BY <1>1, U16Identity
<1>3. slots' = [slots EXCEPT ![s] = [offset |-> o, len |-> Len(r)]]
  BY <1>2 DEF SetSlot
<1>4. slots \in [SlotIds -> [offset : 0..PAGE_SIZE, len : 0..PAGE_SIZE]] /\ TypeOK
  BY DEF PageInv, TypeOK
<1>5. ASSUME NEW t \in 0..(slotCount - 1), t # s, Live(t), NEW i \in 1..slots[t].len
      PROVE  bytes'[slots[t].offset + i - 1] = bytes[slots[t].offset + i - 1]
  <2>1. t \in SlotIds
    BY SlotInUse DEF PageInv
  <2>2. /\ slots[t].offset \in 0..PAGE_SIZE
        /\ slots[t].len \in 0..PAGE_SIZE
        /\ slots[t].offset + slots[t].len <= PAGE_SIZE
    BY <2>1, <1>4 DEF PageInv, LayoutOK
  <2>3. slots[t].offset + i - 1 \in Offsets
    BY SMTT(30), <2>2, PageAssumption DEF Offsets
  <2>4. Apart(t, o, Len(r))
    BY <1>5
  <2>5. slots[t].offset + i - 1 < o \/ o + Len(r) <= slots[t].offset + i - 1
    BY <2>2, <2>4, <1>1, PageAssumption DEF Apart
  <2>. QED  BY <2>3, <2>5, <1>4, WriteEffect
<1>6. /\ bytes' \in [Offsets -> Byte]
      /\ \A i \in 1..Len(r) : bytes'[o + i - 1] = r[i]
  BY <1>4, WriteEffect
<1>7. /\ slots' \in [SlotIds -> [offset : 0..PAGE_SIZE, len : 0..PAGE_SIZE]]
      /\ slots'[s] = [offset |-> o, len |-> Len(r)]
      /\ \A t \in SlotIds : t # s => slots'[t] = slots[t]
  BY <1>1, <1>3, <1>4
<1>. QED  BY <1>5, <1>6, <1>7
-----------------------------------------------------------------------------
\* What holds of a slot in use, in the form the arithmetic steps want it.
LEMMA SlotShape ==
  ASSUME PageInv, NEW t \in 0..(slotCount - 1)
  PROVE  /\ t \in SlotIds /\ t < slotCount
         /\ slots[t].offset \in 0..PAGE_SIZE
         /\ slots[t].len \in 0..PAGE_SIZE
         /\ freePtr <= slots[t].offset
         /\ slots[t].offset + slots[t].len <= PAGE_SIZE
<1>1. t \in SlotIds
  BY SlotInUse DEF PageInv
<1>2. slotCount \in Nat /\ t < slotCount
  BY PageAssumption DEF PageInv, TypeOK
<1>. QED  BY <1>1, <1>2 DEF PageInv, TypeOK, LayoutOK

\* A new page satisfies the invariant.
LEMMA InitInv == Init => PageInv
<1>. SUFFICES ASSUME Init PROVE PageInv
  OBVIOUS
<1>1. freePtr = PAGE_SIZE
  BY U16Identity, PageAssumption DEF Init
<1>2. TypeOK
  BY <1>1, PageAssumption, ByteAssumption DEF Init, TypeOK
<1>3. slotCount * SLOT_SIZE = 0 /\ 0..(slotCount - 1) = {}
  BY PageAssumption DEF Init
<1>4. LayoutOK
  BY <1>1, <1>3, PageAssumption DEF LayoutOK, SlotDirEnd
<1>5. CellsDisjoint
  BY <1>3 DEF CellsDisjoint
<1>. QED  BY <1>2, <1>4, <1>5 DEF PageInv

\* insert keeps the invariant: the new cell ends where free space did.
LEMMA InsertInv ==
  ASSUME PageInv, NEW r \in Records, Insert(r)
  PROVE  PageInv'
<1>1. CASE Len(r) + SLOT_SIZE > FreeSpace
  BY <1>1 DEF Insert, Return, PageInv, TypeOK, LayoutOK, CellsDisjoint, SlotDirEnd, Live, InRange
<1>2. CASE ~(Len(r) + SLOT_SIZE > FreeSpace)
  <2>. DEFINE o == freePtr - Len(r)
  <2>1. r \in Seq(Byte) /\ Len(r) \in Nat
    BY RecordsAssumption, LenProperties
  <2>2. /\ slotCount \in 0..PAGE_SIZE /\ freePtr \in 0..PAGE_SIZE
        /\ slotCount * SLOT_SIZE \in Nat
    BY PageAssumption DEF PageInv, TypeOK
  <2>3. Len(r) + SLOT_SIZE <= FreeSpace
    BY <1>2, <2>1, <2>2, PageAssumption DEF FreeSpace, SlotDirEnd
  <2>4. /\ slotCount \in SlotIds
        /\ slotCount + 1 \in 0..PAGE_SIZE
        /\ HEADER_SIZE + (slotCount + 1) * SLOT_SIZE <= o
        /\ o \in 0..PAGE_SIZE
    BY <2>1, <2>3, NextSlotFits DEF PageInv
  <2>5. /\ bytes' = Write(o, r)
        /\ slots' = SetSlot(slotCount, o, Len(r))
        /\ freePtr' = o
        /\ slotCount' = slotCount + 1
    BY <1>2, <2>4, U16Identity DEF Insert
  <2>6. o + Len(r) = freePtr /\ o \in Nat
    BY <2>1, <2>2, <2>4
  <2>7. \A t \in 0..(slotCount - 1) : t # slotCount /\ Live(t) => Apart(t, o, Len(r))
    BY <2>6, SlotShape DEF Apart
  <2>8. /\ bytes' \in [Offsets -> Byte]
        /\ slots' \in [SlotIds -> [offset : 0..PAGE_SIZE, len : 0..PAGE_SIZE]]
        /\ slots'[slotCount] = [offset |-> o, len |-> Len(r)]
        /\ \A t \in SlotIds : t # slotCount => slots'[t] = slots[t]
    <3>1. o + Len(r) <= PAGE_SIZE
      BY <2>2, <2>6
    <3>. HIDE DEF o
    <3>. QED  BY <2>1, <2>4, <2>5, <2>6, <2>7, <3>1, StoreEffect
  <2>. HIDE DEF o
  <2>9. TypeOK'
    BY <2>4, <2>5, <2>8 DEF TypeOK
  <2>10. ASSUME NEW t \in 0..(slotCount' - 1)
         PROVE  t = slotCount \/ t \in 0..(slotCount - 1)
    <3>1. slotCount \in Int /\ slotCount' - 1 = slotCount
      BY <2>2, <2>5, PageAssumption
    <3>. QED  BY <3>1
  <2>11. \A t \in 0..(slotCount - 1) : slots'[t] = slots[t] /\ t # slotCount
    BY <2>2, <2>8, SlotShape
  <2>12. LayoutOK'
    <3>1. SlotDirEnd' <= freePtr'
      BY <2>4, <2>5 DEF SlotDirEnd
    <3>2. ASSUME NEW t \in 0..(slotCount' - 1)
          PROVE  freePtr' <= slots'[t].offset /\ slots'[t].offset + slots'[t].len <= PAGE_SIZE
      <4>1. CASE t = slotCount
        BY <4>1, <2>2, <2>5, <2>6, <2>8
      <4>2. CASE t \in 0..(slotCount - 1)
        BY SMTT(30), <4>2, <2>1, <2>2, <2>4, <2>5, <2>6, <2>11, SlotShape
      <4>. QED  BY <4>1, <4>2, <2>10
    <3>. QED  BY <3>1, <3>2 DEF LayoutOK
  <2>13. CellsDisjoint'
    <3>. SUFFICES ASSUME NEW t \in 0..(slotCount' - 1), NEW u \in 0..(slotCount' - 1),
                         t # u, slots'[t].len # 0, slots'[u].len # 0
                  PROVE  \/ slots'[t].offset + slots'[t].len <= slots'[u].offset
                         \/ slots'[u].offset + slots'[u].len <= slots'[t].offset
      BY DEF CellsDisjoint, Live, InRange
    <3>1. CASE t = slotCount
      <4>1. u \in 0..(slotCount - 1)
        BY <3>1, <2>10
      <4>2. freePtr <= slots'[u].offset
        BY <4>1, <2>11, SlotShape
      <4>3. slots'[t].offset + slots'[t].len = freePtr
        BY <3>1, <2>6, <2>8
      <4>. QED  BY <4>2, <4>3
    <3>2. CASE u = slotCount
      <4>1. t \in 0..(slotCount - 1)
        BY <3>2, <2>10
      <4>2. freePtr <= slots'[t].offset
        BY <4>1, <2>11, SlotShape
      <4>3. slots'[u].offset + slots'[u].len = freePtr
        BY <3>2, <2>6, <2>8
      <4>. QED  BY <4>2, <4>3
    <3>3. CASE t \in 0..(slotCount - 1) /\ u \in 0..(slotCount - 1)
      BY <3>3, <2>11, SlotShape DEF PageInv, CellsDisjoint, Live, InRange
    <3>. QED  BY <3>1, <3>2, <3>3, <2>10
  <2>. QED  BY <2>9, <2>12, <2>13 DEF PageInv
<1>. QED  BY <1>1, <1>2

\* Moving one slot in use to a cell clear of the other live cells, at or above
\* the new free pointer, keeps the invariant: delete and both forms of update.
LEMMA MoveInv ==
  ASSUME PageInv, NEW s \in 0..(slotCount - 1), NEW o \in Nat, NEW n \in Nat,
         slotCount' = slotCount, freePtr' \in 0..PAGE_SIZE,
         bytes' \in [Offsets -> Byte],
         slots' \in [SlotIds -> [offset : 0..PAGE_SIZE, len : 0..PAGE_SIZE]],
         slots'[s] = [offset |-> o, len |-> n],
         \A t \in SlotIds : t # s => slots'[t] = slots[t],
         SlotDirEnd <= freePtr', freePtr' <= freePtr,
         freePtr' <= o, o + n <= PAGE_SIZE,
         \A t \in 0..(slotCount - 1) : t # s /\ Live(t) => Apart(t, o, n)
  PROVE  PageInv'
<1>0. freePtr \in 0..PAGE_SIZE /\ PAGE_SIZE \in Nat
  BY PageAssumption DEF PageInv, TypeOK
<1>1. TypeOK'
  BY DEF PageInv, TypeOK
<1>2. \A t \in 0..(slotCount - 1) : t # s => slots'[t] = slots[t]
  BY SlotShape
<1>3. LayoutOK'
  <2>1. SlotDirEnd' = SlotDirEnd
    BY DEF SlotDirEnd
  <2>2. ASSUME NEW t \in 0..(slotCount - 1)
        PROVE  freePtr' <= slots'[t].offset /\ slots'[t].offset + slots'[t].len <= PAGE_SIZE
    <3>1. CASE t = s
      BY <3>1
    <3>2. CASE t # s
      BY <3>2, <1>0, <1>2, SlotShape
    <3>. QED  BY <3>1, <3>2
  <2>. QED  BY <2>1, <2>2 DEF LayoutOK
<1>4. CellsDisjoint'
  <2>. SUFFICES ASSUME NEW t \in 0..(slotCount - 1), NEW u \in 0..(slotCount - 1),
                       t # u, slots'[t].len # 0, slots'[u].len # 0
                PROVE  \/ slots'[t].offset + slots'[t].len <= slots'[u].offset
                       \/ slots'[u].offset + slots'[u].len <= slots'[t].offset
    BY DEF CellsDisjoint, Live, InRange
  <2>0. t < slotCount /\ u < slotCount
    BY SlotShape
  <2>1. CASE t = s
    <3>1. slots'[u] = slots[u] /\ Live(u)
      BY <2>0, <2>1, <1>2 DEF Live, InRange
    <3>. QED  BY <3>1, <2>1 DEF Apart
  <2>2. CASE u = s
    <3>1. slots'[t] = slots[t] /\ Live(t)
      BY <2>0, <2>2, <1>2 DEF Live, InRange
    <3>. QED  BY <3>1, <2>2 DEF Apart
  <2>3. CASE t # s /\ u # s
    <3>1. slots'[t] = slots[t] /\ Live(t) /\ slots'[u] = slots[u] /\ Live(u)
      BY <2>0, <2>3, <1>2 DEF Live, InRange
    <3>. QED  BY <3>1 DEF PageInv, CellsDisjoint
  <2>. QED  BY <2>1, <2>2, <2>3
<1>. QED  BY <1>1, <1>3, <1>4 DEF PageInv

\* A live slot is one of the slots in use.
LEMMA LiveInUse ==
  ASSUME PageInv, NEW s \in Nat, Live(s)
  PROVE  s \in 0..(slotCount - 1)
<1>1. slotCount \in Nat
  BY PageAssumption DEF PageInv, TypeOK
<1>. QED  BY <1>1 DEF Live, InRange

\* A shorter cell at the place of a live one is as clear of the other live cells
\* as that one was.
LEMMA ShrunkCell ==
  ASSUME PageInv, NEW s \in 0..(slotCount - 1), Live(s), NEW n \in Nat, n <= slots[s].len
  PROVE  \A t \in 0..(slotCount - 1) : t # s /\ Live(t) => Apart(t, slots[s].offset, n)
<1>. SUFFICES ASSUME NEW t \in 0..(slotCount - 1), t # s, Live(t)
              PROVE  Apart(t, slots[s].offset, n)
  OBVIOUS
<1>1. /\ slots[s].offset \in Nat /\ slots[s].len \in Nat
      /\ slots[t].offset \in Nat /\ slots[t].len \in Nat
  <2>1. PAGE_SIZE \in Nat
    BY PageAssumption
  <2>2. slots[s].offset \in 0..PAGE_SIZE /\ slots[s].len \in 0..PAGE_SIZE
    BY SlotShape
  <2>3. slots[t].offset \in 0..PAGE_SIZE /\ slots[t].len \in 0..PAGE_SIZE
    BY SlotShape
  <2>. QED  BY <2>1, <2>2, <2>3
<1>2. \/ slots[t].offset + slots[t].len <= slots[s].offset
      \/ slots[s].offset + slots[s].len <= slots[t].offset
  BY DEF PageInv, CellsDisjoint
<1>. QED  BY <1>1, <1>2 DEF Apart

\* A call that only replies keeps the invariant.
LEMMA ReturnInv ==
  ASSUME PageInv, NEW v, Return(v)
  PROVE  PageInv'
BY DEF Return, PageInv, TypeOK, LayoutOK, CellsDisjoint, SlotDirEnd, Live, InRange

\* delete keeps the invariant.
LEMMA DeleteInv ==
  ASSUME PageInv, NEW s \in 0..slotCount, Delete(s)
  PROVE  PageInv'
<1>0. slotCount \in Nat /\ s \in Nat
  BY PageAssumption DEF PageInv, TypeOK
<1>1. CASE ~Live(s)
  BY <1>1, ReturnInv DEF Delete
<1>2. CASE Live(s)
  <2>1. s \in 0..(slotCount - 1)
    BY <1>0, <1>2, LiveInUse
  <2>2. /\ s \in SlotIds /\ slots[s].offset \in 0..PAGE_SIZE /\ slots[s].len \in 0..PAGE_SIZE
        /\ freePtr <= slots[s].offset
    BY <2>1, SlotShape
  <2>3. U16(slots[s].offset) = slots[s].offset /\ U16(0) = 0
    <3>1. 0 \in 0..PAGE_SIZE
      BY PageAssumption
    <3>. QED  BY <2>2, <3>1, U16Identity
  <2>4. slots' = [slots EXCEPT ![s] = [offset |-> slots[s].offset, len |-> 0]]
    BY <1>2, <2>3 DEF Delete, SetSlot
  <2>5. slotCount' = slotCount /\ freePtr' = freePtr /\ bytes' = bytes
    BY <1>2 DEF Delete
  <2>6. \A t \in 0..(slotCount - 1) : t # s /\ Live(t) => Apart(t, slots[s].offset, 0)
    BY <1>2, <2>1, <2>2, ShrunkCell
  <2>7. /\ slots \in [SlotIds -> [offset : 0..PAGE_SIZE, len : 0..PAGE_SIZE]]
        /\ bytes \in [Offsets -> Byte] /\ freePtr \in 0..PAGE_SIZE /\ SlotDirEnd <= freePtr
        /\ 0 \in 0..PAGE_SIZE /\ PAGE_SIZE \in Nat
    BY PageAssumption DEF PageInv, TypeOK, LayoutOK
  <2>8. /\ slots' \in [SlotIds -> [offset : 0..PAGE_SIZE, len : 0..PAGE_SIZE]]
        /\ slots'[s] = [offset |-> slots[s].offset, len |-> 0]
        /\ \A t \in SlotIds : t # s => slots'[t] = slots[t]
    BY <2>2, <2>4, <2>7
  <2>9. slots[s].offset \in Nat /\ slots[s].offset + 0 <= PAGE_SIZE /\ freePtr <= freePtr
    BY <2>2, <2>7
  <2>. QED  BY <2>1, <2>2, <2>5, <2>6, <2>7, <2>8, <2>9, MoveInv
<1>. QED  BY <1>1, <1>2

\* update in place: the record is no longer than the cell it overwrites, so it
\* is as clear of the other cells as that cell was.
LEMMA InPlaceCell ==
  ASSUME PageInv, NEW s \in 0..slotCount, NEW r \in Records, UpdateInPlace(s, r)
  PROVE  /\ r \in Seq(Byte) /\ s \in 0..(slotCount - 1)
         /\ slots[s].offset \in Nat /\ slots[s].offset + Len(r) <= PAGE_SIZE
         /\ freePtr <= slots[s].offset
         /\ \A t \in 0..(slotCount - 1) :
              t # s /\ Live(t) => Apart(t, slots[s].offset, Len(r))
<1>1. r \in Seq(Byte) /\ Len(r) \in Nat
  BY RecordsAssumption, LenProperties
<1>2. s \in 0..(slotCount - 1)
  <2>1. s \in Nat
    BY PageAssumption DEF PageInv, TypeOK
  <2>. QED  BY <2>1, LiveInUse DEF UpdateInPlace
<1>3. /\ slots[s].offset \in 0..PAGE_SIZE /\ slots[s].len \in 0..PAGE_SIZE
      /\ slots[s].offset + slots[s].len <= PAGE_SIZE /\ freePtr <= slots[s].offset
  BY <1>2, SlotShape
<1>4. Len(r) <= slots[s].len /\ Live(s) /\ PAGE_SIZE \in Nat
  BY PageAssumption DEF UpdateInPlace
<1>5. \A t \in 0..(slotCount - 1) :
        t # s /\ Live(t) => Apart(t, slots[s].offset, Len(r))
  BY <1>1, <1>2, <1>4, ShrunkCell
<1>. QED  BY <1>1, <1>2, <1>3, <1>4, <1>5

\* update by relocation: the new cell ends where free space did.
LEMMA RelocatedCell ==
  ASSUME PageInv, NEW s \in 0..slotCount, NEW r \in Records, UpdateRelocate(s, r)
  PROVE  /\ r \in Seq(Byte) /\ s \in 0..(slotCount - 1)
         /\ freePtr - Len(r) \in 0..PAGE_SIZE
         /\ freePtr - Len(r) + Len(r) = freePtr
         /\ freePtr \in 0..PAGE_SIZE
         /\ SlotDirEnd <= freePtr - Len(r) /\ freePtr - Len(r) <= freePtr
         /\ \A t \in 0..(slotCount - 1) :
              t # s /\ Live(t) => Apart(t, freePtr - Len(r), Len(r))
<1>1. r \in Seq(Byte) /\ Len(r) \in Nat
  BY RecordsAssumption, LenProperties
<1>2. s \in 0..(slotCount - 1)
  <2>1. s \in Nat
    BY PageAssumption DEF PageInv, TypeOK
  <2>. QED  BY <2>1, LiveInUse DEF UpdateRelocate
<1>3. /\ freePtr \in 0..PAGE_SIZE /\ slotCount \in Nat /\ slotCount * SLOT_SIZE \in Nat
      /\ HEADER_SIZE \in Nat /\ PAGE_SIZE \in Nat
  BY PageAssumption DEF PageInv, TypeOK
<1>4. SlotDirEnd \in Nat /\ Len(r) <= freePtr - SlotDirEnd
  BY <1>3 DEF UpdateRelocate, FreeSpace, SlotDirEnd
<1>5. \A t \in 0..(slotCount - 1) :
        t # s /\ Live(t) => Apart(t, freePtr - Len(r), Len(r))
  <2>1. freePtr - Len(r) + Len(r) = freePtr
    BY <1>1, <1>3
  <2>2. \A t \in 0..(slotCount - 1) : freePtr <= slots[t].offset
    BY SlotShape
  <2>. QED  BY <2>1, <2>2 DEF Apart
<1>. QED  BY <1>1, <1>2, <1>3, <1>4, <1>5

\* update keeps the invariant.
LEMMA UpdateInv ==
  ASSUME PageInv, NEW s \in 0..slotCount, NEW r \in Records, Update(s, r)
  PROVE  PageInv'
<1>0. r \in Seq(Byte) /\ Len(r) \in Nat /\ freePtr \in 0..PAGE_SIZE /\ SlotDirEnd <= freePtr
      /\ PAGE_SIZE \in Nat
  BY RecordsAssumption, LenProperties, PageAssumption DEF PageInv, TypeOK, LayoutOK
<1>1. CASE UpdateInPlace(s, r)
  <2>1. /\ s \in 0..(slotCount - 1) /\ s \in SlotIds
        /\ slots[s].offset \in Nat /\ slots[s].offset + Len(r) <= PAGE_SIZE
        /\ freePtr <= slots[s].offset
        /\ \A t \in 0..(slotCount - 1) :
             t # s /\ Live(t) => Apart(t, slots[s].offset, Len(r))
    BY <1>1, InPlaceCell, SlotShape
  <2>2. /\ bytes' = Write(slots[s].offset, r)
        /\ slots' = SetSlot(s, slots[s].offset, Len(r))
        /\ slotCount' = slotCount /\ freePtr' = freePtr
    BY <1>1 DEF UpdateInPlace
  <2>3. /\ bytes' \in [Offsets -> Byte]
        /\ slots' \in [SlotIds -> [offset : 0..PAGE_SIZE, len : 0..PAGE_SIZE]]
        /\ slots'[s] = [offset |-> slots[s].offset, len |-> Len(r)]
        /\ \A t \in SlotIds : t # s => slots'[t] = slots[t]
    BY <1>0, <2>1, <2>2, StoreEffect
  <2>4. freePtr' \in 0..PAGE_SIZE /\ SlotDirEnd <= freePtr' /\ freePtr' <= freePtr
        /\ freePtr' <= slots[s].offset
    BY <1>0, <2>1, <2>2
  <2>. QED  BY <1>0, <2>1, <2>2, <2>3, <2>4, MoveInv
<1>2. CASE UpdateRelocate(s, r)
  <2>. DEFINE o == freePtr - Len(r)
  <2>1. /\ s \in 0..(slotCount - 1) /\ s \in SlotIds
        /\ o \in 0..PAGE_SIZE /\ o + Len(r) = freePtr
        /\ SlotDirEnd <= o /\ o <= freePtr
        /\ \A t \in 0..(slotCount - 1) : t # s /\ Live(t) => Apart(t, o, Len(r))
    BY <1>2, RelocatedCell, SlotShape
  <2>2. /\ bytes' = Write(o, r)
        /\ slots' = SetSlot(s, o, Len(r))
        /\ slotCount' = slotCount /\ freePtr' = o
    BY <1>2, <2>1, U16Identity DEF UpdateRelocate
  <2>. HIDE DEF o
  <2>3. o \in Nat /\ o + Len(r) <= PAGE_SIZE /\ o <= o
    BY <1>0, <2>1
  <2>4. /\ bytes' \in [Offsets -> Byte]
        /\ slots' \in [SlotIds -> [offset : 0..PAGE_SIZE, len : 0..PAGE_SIZE]]
        /\ slots'[s] = [offset |-> o, len |-> Len(r)]
        /\ \A t \in SlotIds : t # s => slots'[t] = slots[t]
    BY <1>0, <2>1, <2>2, <2>3, StoreEffect
  <2>. QED  BY <1>0, <2>1, <2>2, <2>3, <2>4, MoveInv
<1>3. CASE UpdateRefused(s, r)
  BY <1>3, ReturnInv DEF UpdateRefused
<1>. QED  BY <1>1, <1>2, <1>3 DEF Update

\* Every step keeps the invariant.
LEMMA NextInv == PageInv /\ [Next]_vars => PageInv'
<1>. SUFFICES ASSUME PageInv, [Next]_vars PROVE PageInv'
  OBVIOUS
<1>1. CASE \E r \in Records : Insert(r)
  BY <1>1, InsertInv
<1>2. CASE \E s \in 0..slotCount : Delete(s) \/ \E r \in Records : Update(s, r)
  BY <1>2, DeleteInv, UpdateInv
<1>3. CASE UNCHANGED vars
  BY <1>3 DEF vars, PageInv, TypeOK, LayoutOK, CellsDisjoint, SlotDirEnd, Live, InRange
<1>. QED  BY <1>1, <1>2, <1>3 DEF Next
-----------------------------------------------------------------------------
\* Every reachable page satisfies the inductive invariant.
THEOREM PageInvariance == Spec => []PageInv
BY InitInv, NextInv, PTL DEF Spec

\* The header, directory and bytes of a page always have their types: no u16
\* store ever truncates (src/storage/page.rs, new, insert, update, delete).
THEOREM TypeCorrect == Spec => []TypeOK
<1>1. PageInv => TypeOK
  BY DEF PageInv
<1>. QED  BY <1>1, PageInvariance, PTL

\* Directory and record cells never meet, so free_space never underflows.
THEOREM LayoutSafe == Spec => []LayoutOK
<1>1. PageInv => LayoutOK
  BY DEF PageInv
<1>. QED  BY <1>1, PageInvariance, PTL

\* No two live records ever share a byte.
THEOREM CellsNeverOverlap == Spec => []CellsDisjoint
<1>1. PageInv => CellsDisjoint
  BY DEF PageInv
<1>. QED  BY <1>1, PageInvariance, PTL
-----------------------------------------------------------------------------
Rows == [s \in 0..(slotCount - 1) |-> Get(s)]

\* A live slot holds a record, so get tells live from dead.
LEMMA GetLive ==
  ASSUME PageInv, NEW s \in 0..(slotCount - 1)
  PROVE  Live(s) <=> Get(s) # Dead
<1>1. CASE ~Live(s)
  BY <1>1 DEF Get
<1>2. CASE Live(s)
  <2>1. /\ slots[s].offset \in 0..PAGE_SIZE /\ slots[s].len \in 0..PAGE_SIZE
        /\ slots[s].offset + slots[s].len <= PAGE_SIZE
    BY SlotShape
  <2>2. \A i \in 1..slots[s].len : bytes[slots[s].offset + i - 1] \in Byte
    BY <2>1, PageAssumption DEF Offsets, PageInv, TypeOK
  <2>3. slots[s].len \in Nat /\ Get(s) = [i \in 1..slots[s].len |-> bytes[slots[s].offset + i - 1]]
    BY <1>2, <2>1, PageAssumption DEF Get
  <2>4. Get(s) \in Seq(Byte)
    <3>. DEFINE n == slots[s].len  f == [i \in 1..n |-> bytes[slots[s].offset + i - 1]]
    <3>1. n \in Nat /\ f \in [1..n -> Byte]
      BY <2>2, <2>3
    <3>. HIDE DEF f, n
    <3>2. f \in Seq(Byte)
      BY <3>1, SeqDef
    <3>. QED  BY <3>2, <2>3 DEF f, n
  <2>. QED  BY <1>2, <2>4, DeadAssumption
<1>. QED  BY <1>1, <1>2

\* After a store, get returns the record for its slot and what it did before
\* for every other one.
LEMMA StoreGets ==
  ASSUME PageInv, NEW r \in Seq(Byte), r # <<>>, NEW s \in SlotIds,
         NEW o \in Nat, o + Len(r) <= PAGE_SIZE,
         \A t \in 0..(slotCount - 1) : t # s /\ Live(t) => Apart(t, o, Len(r)),
         bytes' = Write(o, r),
         slots' = SetSlot(s, o, Len(r)),
         slotCount' \in Nat, slotCount <= slotCount', s < slotCount'
  PROVE  /\ Get(s)' = r
         /\ \A t \in 0..(slotCount - 1) : t # s => Get(t)' = Get(t)
<1>1. Len(r) \in Nat /\ Len(r) # 0 /\ r \in [1..Len(r) -> Byte]
  BY LenProperties, EmptySeq
<1>2. /\ slots'[s] = [offset |-> o, len |-> Len(r)]
      /\ \A t \in SlotIds : t # s => slots'[t] = slots[t]
      /\ \A i \in 1..Len(r) : bytes'[o + i - 1] = r[i]
  BY StoreEffect
<1>3. \A t \in 0..(slotCount - 1) : t # s /\ Live(t) =>
        \A i \in 1..slots[t].len :
          bytes'[slots[t].offset + i - 1] = bytes[slots[t].offset + i - 1]
  BY StoreEffect
<1>4. Get(s)' = r
  <2>1. slots'[s].len = Len(r) /\ slots'[s].offset = o
    BY <1>2
  <2>2. Live(s)'
    BY <1>1, <2>1 DEF Live, InRange
  <2>3. Get(s)' = [i \in 1..slots'[s].len |-> bytes'[slots'[s].offset + i - 1]]
    BY <2>2 DEF Get
  <2>4. Get(s)' = [i \in 1..Len(r) |-> r[i]]
    BY <1>2, <2>1, <2>3
  <2>. QED  BY <1>1, <2>4
<1>5. ASSUME NEW t \in 0..(slotCount - 1), t # s
      PROVE  Get(t)' = Get(t)
  <2>1. slots'[t] = slots[t] /\ t < slotCount /\ t < slotCount'
    <3>1. t \in SlotIds /\ t < slotCount /\ slotCount \in Int
      BY SlotShape, PageAssumption DEF PageInv, TypeOK
    <3>. QED  BY <3>1, <1>2, <1>5
  <2>2. Live(t)' <=> Live(t)
    BY <2>1 DEF Live, InRange
  <2>3. CASE ~Live(t)
    BY <2>2, <2>3 DEF Get
  <2>4. CASE Live(t)
    <3>1. Get(t)' = [i \in 1..slots[t].len |-> bytes'[slots[t].offset + i - 1]]
      BY <2>1, <2>2, <2>4 DEF Get
    <3>. QED  BY <1>3, <1>5, <2>4, <3>1 DEF Get
  <2>. QED  BY <2>3, <2>4
<1>. QED  BY <1>4, <1>5

\* A refused call, or one that finds nothing to do, leaves every row alone.
LEMMA ReturnRows ==
  ASSUME NEW v, Return(v)
  PROVE  Rows' = Rows /\ slotCount' = slotCount /\ reply' = v
BY DEF Return, Rows, Get, Live, InRange

\* insert is HeapInsert.
LEMMA InsertRefines ==
  ASSUME PageInv, NEW r \in Records, r # <<>>, Insert(r)
  PROVE  Heap!HeapInsert(r)
<1>1. CASE Len(r) + SLOT_SIZE > FreeSpace
  <2>1. Return(None)
    BY <1>1 DEF Insert
  <2>. QED  BY <2>1, ReturnRows DEF Heap!HeapInsert, Heap!Refuse, Rows
<1>2. CASE ~(Len(r) + SLOT_SIZE > FreeSpace)
  <2>. DEFINE o == freePtr - Len(r)
  <2>1. r \in Seq(Byte) /\ Len(r) \in Nat
    BY RecordsAssumption, LenProperties
  <2>2. /\ slotCount \in 0..PAGE_SIZE /\ freePtr \in 0..PAGE_SIZE
        /\ slotCount * SLOT_SIZE \in Nat /\ slotCount \in Nat
    BY PageAssumption DEF PageInv, TypeOK
  <2>3. Len(r) + SLOT_SIZE <= FreeSpace
    BY <1>2, <2>1, <2>2, PageAssumption DEF FreeSpace, SlotDirEnd
  <2>4. /\ slotCount \in SlotIds /\ slotCount + 1 \in 0..PAGE_SIZE /\ o \in 0..PAGE_SIZE
    BY <2>1, <2>3, NextSlotFits DEF PageInv
  <2>5. /\ bytes' = Write(o, r)
        /\ slots' = SetSlot(slotCount, o, Len(r))
        /\ slotCount' = slotCount + 1
        /\ reply' = slotCount
    BY <1>2, <2>4, U16Identity DEF Insert
  <2>6. o \in Nat /\ o + Len(r) = freePtr /\ o + Len(r) <= PAGE_SIZE
    BY <2>1, <2>2, <2>4
  <2>7. \A t \in 0..(slotCount - 1) : t # slotCount /\ Live(t) => Apart(t, o, Len(r))
    BY <2>6, SlotShape DEF Apart
  <2>. HIDE DEF o
  <2>8. slotCount' \in Nat /\ slotCount <= slotCount' /\ slotCount < slotCount'
    BY <2>2, <2>5
  <2>9. \A t \in 0..(slotCount - 1) : t # slotCount
    BY <2>2
  <2>10. /\ \A s \in SlotIds : s = slotCount => Get(s)' = r
         /\ \A t \in 0..(slotCount - 1) : Get(t)' = Get(t)
    BY <2>1, <2>4, <2>5, <2>6, <2>7, <2>8, <2>9, StoreGets
  <2>11. Rows' = [s \in 0..slotCount |-> IF s = slotCount THEN r ELSE Rows[s]]
    <3>1. 0..(slotCount' - 1) = 0..slotCount
      BY <2>2, <2>5
    <3>2. Rows' = [s \in 0..slotCount |-> Get(s)']
      BY <3>1 DEF Rows
    <3>3. ASSUME NEW s \in 0..slotCount
          PROVE  Get(s)' = IF s = slotCount THEN r ELSE Rows[s]
      <4>1. CASE s = slotCount
        BY <4>1, <2>4, <2>10
      <4>2. CASE s # slotCount
        <5>1. s \in 0..(slotCount - 1)
          BY <4>2, <2>2
        <5>. QED  BY <4>2, <5>1, <2>10 DEF Rows
      <4>. QED  BY <4>1, <4>2
    <3>. QED  BY <3>2, <3>3
  <2>. QED  BY <2>5, <2>11 DEF Heap!HeapInsert, Rows
<1>. QED  BY <1>1, <1>2

\* A step that changes what one slot holds and no other, seen through Rows.
LEMMA RowsExcept ==
  ASSUME PageInv, NEW s \in 0..(slotCount - 1), NEW v,
         slotCount' = slotCount, Get(s)' = v,
         \A t \in 0..(slotCount - 1) : t # s => Get(t)' = Get(t)
  PROVE  Rows' = [Rows EXCEPT ![s] = v]
BY DEF Rows

\* A slot holds a row exactly when it is live.
LEMMA HoldsLive ==
  ASSUME PageInv, NEW s \in 0..slotCount
  PROVE  Heap!Holds(s) <=> Live(s)
<1>1. slotCount \in Nat /\ s \in Nat
  BY PageAssumption DEF PageInv, TypeOK
<1>2. CASE s < slotCount
  <2>1. s \in 0..(slotCount - 1)
    BY <1>1, <1>2
  <2>. QED  BY <1>2, <2>1, GetLive DEF Heap!Holds
<1>3. CASE ~(s < slotCount)
  BY <1>3 DEF Heap!Holds, Live, InRange
<1>. QED  BY <1>2, <1>3

\* delete is HeapDelete.
LEMMA DeleteRefines ==
  ASSUME PageInv, NEW s \in 0..slotCount, Delete(s)
  PROVE  Heap!HeapDelete(s)
<1>1. CASE ~Live(s)
  <2>1. Return(FALSE)
    BY <1>1 DEF Delete
  <2>. QED  BY <1>1, <2>1, ReturnRows, HoldsLive DEF Heap!HeapDelete, Heap!Refuse, Rows
<1>2. CASE Live(s)
  <2>1. s \in 0..(slotCount - 1)
    <3>1. s \in Nat
      BY PageAssumption DEF PageInv, TypeOK
    <3>. QED  BY <1>2, <3>1, LiveInUse
  <2>2. slotCount' = slotCount /\ reply' = TRUE /\ bytes' = bytes
    BY <1>2 DEF Delete
  <2>3. /\ slots'[s].len = 0
        /\ \A t \in 0..(slotCount - 1) : t # s => slots'[t] = slots[t]
    <3>1. /\ slots' = [slots EXCEPT ![s] = [offset |-> U16(slots[s].offset), len |-> U16(0)]]
          /\ slots \in [SlotIds -> [offset : 0..PAGE_SIZE, len : 0..PAGE_SIZE]]
          /\ s \in SlotIds
      BY <1>2, <2>1, SlotShape DEF Delete, SetSlot, PageInv, TypeOK
    <3>2. U16(0) = 0
      BY DEF U16
    <3>. QED  BY <3>1, <3>2, SlotShape
  <2>4. Get(s)' = Dead
    BY <2>3 DEF Get, Live
  <2>5. \A t \in 0..(slotCount - 1) : t # s => Get(t)' = Get(t)
    BY <2>2, <2>3 DEF Get, Live, InRange
  <2>6. Rows' = [Rows EXCEPT ![s] = Dead]
    BY <2>1, <2>2, <2>4, <2>5, RowsExcept
  <2>. QED  BY <1>2, <2>2, <2>6, HoldsLive DEF Heap!HeapDelete, Rows
<1>. QED  BY <1>1, <1>2

\* update, in all its forms, is HeapUpdate.
LEMMA UpdateRefines ==
  ASSUME PageInv, NEW s \in 0..slotCount, NEW r \in Records, r # <<>>, Update(s, r)
  PROVE  Heap!HeapUpdate(s, r)
<1>0. slotCount \in Nat /\ freePtr \in 0..PAGE_SIZE /\ PAGE_SIZE \in Nat
  BY PageAssumption DEF PageInv, TypeOK
<1>1. ASSUME NEW o \in Nat, o + Len(r) <= PAGE_SIZE, Live(s), s \in 0..(slotCount - 1),
             \A t \in 0..(slotCount - 1) : t # s /\ Live(t) => Apart(t, o, Len(r)),
             bytes' = Write(o, r), slots' = SetSlot(s, o, Len(r)),
             slotCount' = slotCount, reply' = TRUE
      PROVE  Heap!HeapUpdate(s, r)
  <2>1. r \in Seq(Byte) /\ s \in SlotIds /\ s < slotCount' /\ slotCount <= slotCount'
        /\ slotCount' \in Nat
    BY <1>0, <1>1, RecordsAssumption, SlotShape
  <2>2. /\ Get(s)' = r
        /\ \A t \in 0..(slotCount - 1) : t # s => Get(t)' = Get(t)
    BY <1>1, <2>1, StoreGets
  <2>3. Rows' = [Rows EXCEPT ![s] = r]
    BY <1>1, <2>2, RowsExcept
  <2>. QED  BY <1>1, <2>3, HoldsLive DEF Heap!HeapUpdate, Rows
<1>2. CASE UpdateInPlace(s, r)
  <2>1. /\ s \in 0..(slotCount - 1)
        /\ slots[s].offset \in Nat /\ slots[s].offset + Len(r) <= PAGE_SIZE
        /\ \A t \in 0..(slotCount - 1) :
             t # s /\ Live(t) => Apart(t, slots[s].offset, Len(r))
    BY <1>2, InPlaceCell
  <2>. QED  BY <1>1, <1>2, <2>1 DEF UpdateInPlace
<1>3. CASE UpdateRelocate(s, r)
  <2>1. /\ s \in 0..(slotCount - 1)
        /\ freePtr - Len(r) \in Nat /\ freePtr - Len(r) + Len(r) <= PAGE_SIZE
        /\ \A t \in 0..(slotCount - 1) :
             t # s /\ Live(t) => Apart(t, freePtr - Len(r), Len(r))
    BY <1>0, <1>3, RelocatedCell
  <2>. QED  BY <1>1, <1>3, <2>1 DEF UpdateRelocate
<1>4. CASE UpdateRefused(s, r)
  <2>1. Return(FALSE)
    BY <1>4 DEF UpdateRefused
  <2>. QED  BY <2>1, ReturnRows DEF Heap!HeapUpdate, Heap!Refuse, Rows
<1>. QED  BY <1>2, <1>3, <1>4 DEF Update

\* Every step of the page is a step of the abstract page, or a stutter.
LEMMA NextRefines ==
  (<<>> \notin Records) /\ PageInv /\ [Next]_vars => [Heap!HeapNext]_(Heap!heapVars)
<1>. SUFFICES ASSUME <<>> \notin Records, PageInv, [Next]_vars
              PROVE  [Heap!HeapNext]_(Heap!heapVars)
  OBVIOUS
<1>1. CASE \E r \in Records : Insert(r)
  BY <1>1, InsertRefines DEF Heap!HeapNext
<1>2. CASE \E s \in 0..slotCount : Delete(s) \/ \E r \in Records : Update(s, r)
  BY <1>2, DeleteRefines, UpdateRefines DEF Heap!HeapNext
<1>3. CASE UNCHANGED vars
  BY <1>3 DEF vars, Heap!heapVars, Get, Live, InRange
<1>. QED  BY <1>1, <1>2, <1>3 DEF Next

\* Provided no record is empty, the bytes of src/storage/page.rs implement a
\* page of slots that each hold the record last stored there: no call changes a
\* slot it does not name, whatever the page size and the history of calls.
\* With an empty record the conclusion fails (run page_empty_record).
THEOREM PageRefinesHeap ==
  ASSUME <<>> \notin Records
  PROVE  Spec => ImplementsHeapPage
<1>1. Init => Heap!HeapInit
  <2>1. Init => 0..(slotCount - 1) = {}
    BY DEF Init
  <2>. QED  BY <2>1 DEF Init, Heap!HeapInit
<1>2. PageInv /\ [Next]_vars => [Heap!HeapNext]_(Heap!heapVars)
  BY NextRefines
<1>. QED  BY <1>1, <1>2, PageInvariance, PTL DEF Spec, ImplementsHeapPage, Heap!HeapSpec
=============================================================================
