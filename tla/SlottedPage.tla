----------------------------- MODULE SlottedPage -----------------------------
(***************************************************************************)
(* src/storage/page.rs: a page of PAGE_SIZE bytes.  A 4-byte header (slot  *)
(* count, free pointer) and the slot directory grow from the front, record *)
(* cells are packed from the back, the gap between them is free space.  A  *)
(* slot whose length is 0 is dead.                                         *)
(*                                                                         *)
(* The header and the directory are kept as the values they decode to      *)
(* (slotCount, freePtr, slots), the cell region byte by byte (bytes), so   *)
(* that two cells that overlap corrupt each other here as in the code;     *)
(* LayoutOK says that the two regions never meet.                          *)
(***************************************************************************)
EXTENDS Integers, Sequences

CONSTANTS
  PAGE_SIZE, HEADER_SIZE, SLOT_SIZE,
  Byte,         \* the values a byte takes, 0 among them
  Records,      \* the records callers store: sequences of bytes
  Dead, None    \* see HeapPage

ASSUME PageAssumption ==
  /\ PAGE_SIZE \in Nat /\ HEADER_SIZE \in Nat /\ SLOT_SIZE \in Nat \ {0}
  /\ HEADER_SIZE <= PAGE_SIZE
  /\ PAGE_SIZE < 65536                 \* offsets are stored as u16

ASSUME ByteAssumption == 0 \in Byte

ASSUME RecordsAssumption == Records \subseteq Seq(Byte)

ASSUME DeadAssumption == Dead \notin Seq(Byte)

VARIABLES slotCount, freePtr, slots, bytes, reply

vars == <<slotCount, freePtr, slots, bytes, reply>>

U16(n) == n % 65536                    \* `as u16`

Offsets == 0..(PAGE_SIZE - 1)

\* The directory entries a page has room for.
SlotIds == {s \in 0..PAGE_SIZE : HEADER_SIZE + (s + 1) * SLOT_SIZE <= PAGE_SIZE}

SlotDirEnd == HEADER_SIZE + slotCount * SLOT_SIZE

FreeSpace == freePtr - SlotDirEnd

\* copy_from_slice of record r at offset o.
Write(o, r) ==
  [a \in Offsets |-> IF a \in o..(o + Len(r) - 1) THEN r[a - o + 1] ELSE bytes[a]]

SetSlot(s, o, n) == [slots EXCEPT ![s] = [offset |-> U16(o), len |-> U16(n)]]

InRange(s) == s < slotCount

Live(s) == InRange(s) /\ slots[s].len # 0

Get(s) ==
  IF Live(s) THEN [i \in 1..slots[s].len |-> bytes[slots[s].offset + i - 1]]
             ELSE Dead
-----------------------------------------------------------------------------
Init ==
  /\ slotCount = 0
  /\ freePtr = U16(PAGE_SIZE)
  /\ slots = [s \in SlotIds |-> [offset |-> 0, len |-> 0]]
  /\ bytes = [a \in Offsets |-> 0]
  /\ reply = None

Return(v) == reply' = v /\ UNCHANGED <<slotCount, freePtr, slots, bytes>>

\* Mutant: insert forgets that the record also needs a directory entry.
InsertNoSlotRoom(r) ==
  LET offset == freePtr - Len(r) IN
  IF Len(r) > FreeSpace THEN Return(None)
  ELSE /\ bytes' = Write(offset, r)
       /\ slots' = SetSlot(slotCount, offset, Len(r))
       /\ freePtr' = U16(offset)
       /\ slotCount' = U16(slotCount + 1)
       /\ reply' = slotCount

Insert(r) ==
  LET offset == freePtr - Len(r) IN
  IF Len(r) + SLOT_SIZE > FreeSpace THEN Return(None)
  ELSE /\ bytes' = Write(offset, r)
       /\ slots' = SetSlot(slotCount, offset, Len(r))
       /\ freePtr' = U16(offset)
       /\ slotCount' = U16(slotCount + 1)
       /\ reply' = slotCount

\* Mutant: delete marks the slot with u16::MAX where get tests for 0.
DeleteMarksMax(s) ==
  IF ~Live(s) THEN Return(FALSE)
  ELSE /\ slots' = SetSlot(s, slots[s].offset, 65535)
       /\ reply' = TRUE
       /\ UNCHANGED <<slotCount, freePtr, bytes>>

Delete(s) ==
  IF ~Live(s) THEN Return(FALSE)
  ELSE /\ slots' = SetSlot(s, slots[s].offset, 0)
       /\ reply' = TRUE
       /\ UNCHANGED <<slotCount, freePtr, bytes>>

\* Mutant: a shorter record is written over a longer one, whose length stays.
UpdateKeepsLength(s, r) ==
  /\ Live(s)
  /\ Len(r) <= slots[s].len
  /\ bytes' = Write(slots[s].offset, r)
  /\ reply' = TRUE
  /\ UNCHANGED <<slotCount, freePtr, slots>>

UpdateInPlace(s, r) ==
  /\ Live(s)
  /\ Len(r) <= slots[s].len
  /\ bytes' = Write(slots[s].offset, r)
  /\ slots' = SetSlot(s, slots[s].offset, Len(r))
  /\ reply' = TRUE
  /\ UNCHANGED <<slotCount, freePtr>>

\* Mutant: relocation takes the old cell for reclaimed free space.
UpdateReclaimsCell(s, r) ==
  LET offset == freePtr + slots[s].len - Len(r) IN
  /\ Live(s)
  /\ Len(r) > slots[s].len
  /\ Len(r) <= FreeSpace
  /\ bytes' = Write(offset, r)
  /\ slots' = SetSlot(s, offset, Len(r))
  /\ freePtr' = U16(offset)
  /\ reply' = TRUE
  /\ UNCHANGED slotCount

UpdateRelocate(s, r) ==
  /\ Live(s)
  /\ Len(r) > slots[s].len
  /\ Len(r) <= FreeSpace
  /\ bytes' = Write(freePtr - Len(r), r)
  /\ slots' = SetSlot(s, freePtr - Len(r), Len(r))
  /\ freePtr' = U16(freePtr - Len(r))
  /\ reply' = TRUE
  /\ UNCHANGED slotCount

UpdateRefused(s, r) ==
  /\ Live(s) => Len(r) > slots[s].len /\ Len(r) > FreeSpace
  /\ Return(FALSE)

Update(s, r) == UpdateInPlace(s, r) \/ UpdateRelocate(s, r) \/ UpdateRefused(s, r)

\* Callers name slots freely: one past the directory stands for "out of range".
Next ==
  \/ \E r \in Records : Insert(r)
  \/ \E s \in 0..slotCount : Delete(s) \/ \E r \in Records : Update(s, r)

Spec == Init /\ [][Next]_vars
-----------------------------------------------------------------------------
TypeOK ==
  /\ slotCount \in 0..PAGE_SIZE
  /\ freePtr \in 0..PAGE_SIZE
  /\ slots \in [SlotIds -> [offset : 0..PAGE_SIZE, len : 0..PAGE_SIZE]]
  /\ bytes \in [Offsets -> Byte]

\* Directory and cells never meet: every slot in use has its directory entry
\* below the free pointer and its cell between the free pointer and the end.
LayoutOK ==
  /\ SlotDirEnd <= freePtr
  /\ \A s \in 0..(slotCount - 1) :
       /\ freePtr <= slots[s].offset
       /\ slots[s].offset + slots[s].len <= PAGE_SIZE

\* No two live records share a byte, whatever mixture of in-place shrinking,
\* relocation and deletion came before (update writes at the old offset).
CellsDisjoint ==
  \A s, t \in 0..(slotCount - 1) :
    s # t /\ Live(s) /\ Live(t) =>
      \/ slots[s].offset + slots[s].len <= slots[t].offset
      \/ slots[t].offset + slots[t].len <= slots[s].offset

\* Through get, the page is the HeapPage its comments describe: a call changes
\* the slot it names and no other, and its reply says what it did.
Heap == INSTANCE HeapPage
          WITH count <- slotCount, rows <- [s \in 0..(slotCount - 1) |-> Get(s)]

ImplementsHeapPage == Heap!HeapSpec
=============================================================================
