------------------------------ MODULE HeapPage ------------------------------
(***************************************************************************)
(* What a data page promises its caller: a growing directory of slots,     *)
(* each holding the record last written to it or nothing once deleted.     *)
(* Slot numbers are handed out in order and never handed out again.        *)
(* A page may refuse a record for lack of room, and then nothing changes.  *)
(* Nothing is said here about bytes, offsets or free space: that is        *)
(* SlottedPage, which is checked and proved to implement this module.      *)
(***************************************************************************)
EXTENDS Naturals

CONSTANTS
  Records,      \* the records callers store
  Dead,         \* what a deleted slot holds
  None          \* the reply of an insert that found no room

VARIABLES
  count,        \* number of slots handed out; the next insert gets this one
  rows,         \* rows[s]: the record in slot s, or Dead
  reply         \* what the last call returned

heapVars == <<count, rows, reply>>

Holds(s) == s < count /\ rows[s] # Dead

HeapInit == count = 0 /\ rows = [s \in {} |-> Dead] /\ reply = None

Refuse(r) == UNCHANGED <<count, rows>> /\ reply' = r

HeapInsert(r) ==
  \/ /\ count' = count + 1
     /\ rows'  = [s \in 0..count |-> IF s = count THEN r ELSE rows[s]]
     /\ reply' = count
  \/ Refuse(None)

HeapUpdate(s, r) ==
  \/ /\ Holds(s)
     /\ rows'  = [rows EXCEPT ![s] = r]
     /\ reply' = TRUE
     /\ UNCHANGED count
  \/ Refuse(FALSE)

HeapDelete(s) ==
  \/ /\ Holds(s)
     /\ rows'  = [rows EXCEPT ![s] = Dead]
     /\ reply' = TRUE
     /\ UNCHANGED count
  \/ ~Holds(s) /\ Refuse(FALSE)

\* A caller may name the slot past the last one, which holds nothing.
HeapNext ==
  \/ \E r \in Records : HeapInsert(r)
  \/ \E s \in 0..count, r \in Records : HeapUpdate(s, r)
  \/ \E s \in 0..count : HeapDelete(s)

HeapSpec == HeapInit /\ [][HeapNext]_heapVars
=============================================================================
