------------------------------ MODULE IndexMap ------------------------------
(***************************************************************************)
(* What a primary-key index promises its table: find returns, for each     *)
(* key, the row id of the last insert of that key that returned.           *)
(* MapSpec says just that as long as there are no faults.  When a call     *)
(* fails halfway or the process dies, an entry may be forgotten, and the   *)
(* entry of the interrupted insert may or may not be there, but a          *)
(* superseded row id never comes back.  A process that dies between two    *)
(* inserts, none of which failed since it opened the file, forgets nothing.*)
(***************************************************************************)
EXTENDS Integers

CONSTANTS
  Keys,
  NoRid         \* the reply of find when the key has no entry

VARIABLES
  found,        \* found[k]: what find(k) returns between two inserts
  pending,      \* the insert in progress, <<key, rid>>, or <<>>
  failed,       \* an insert has failed since the file was last opened
  faults        \* the failed inserts and process deaths so far

mapVars == <<found, pending, failed, faults>>

MapInit ==
  /\ found = [k \in Keys |-> NoRid]
  /\ pending = <<>>
  /\ failed = FALSE
  /\ faults = 0

Begin ==
  /\ pending = <<>> /\ pending' # <<>>
  /\ pending'[1] \in Keys
  /\ UNCHANGED <<found, failed, faults>>

Return ==
  /\ pending # <<>> /\ pending' = <<>>
  /\ found' = [found EXCEPT ![pending[1]] = pending[2]]
  /\ UNCHANGED <<failed, faults>>

\* Entries that may be visible once the insert in progress was interrupted.
Interrupted(k) ==
  {found[k], NoRid} \cup (IF pending # <<>> /\ pending[1] = k THEN {pending[2]} ELSE {})

Lose == DOMAIN found' = Keys /\ \A k \in Keys : found'[k] \in Interrupted(k)

Fail ==
  /\ pending # <<>> /\ pending' = <<>>
  /\ faults' = faults + 1 /\ failed' = TRUE
  /\ Lose

Crash ==
  /\ pending' = <<>>
  /\ faults' = faults + 1 /\ failed' = FALSE
  /\ IF pending = <<>> /\ ~failed THEN UNCHANGED found ELSE Lose

MapSpec == MapInit /\ [][Begin \/ Return \/ Fail \/ Crash]_mapVars
=============================================================================
