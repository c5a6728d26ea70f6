--------------------------- MODULE SnapshotStore ---------------------------
(***************************************************************************)
(* What snapshots and travel promise, with no inode store, no generation   *)
(* and no descriptor: a current state of named values, and a sequence of   *)
(* saved states that only ever grows.  A snapshot saves the current state, *)
(* a travel makes a saved state current and records that it did.           *)
(***************************************************************************)
EXTENDS Integers, Sequences

CONSTANTS Names, Values, Absent,
          Orig   \* the state of the base filesystem

VARIABLES cur, saved

Init == cur = Orig /\ saved = <<Orig>>

\* One name gets a value: a create, a write or a truncation.
Put(n, v) == cur' = [cur EXCEPT ![n] = v] /\ UNCHANGED saved

Remove(n) == cur' = [cur EXCEPT ![n] = Absent] /\ UNCHANGED saved

Move(m, n) ==
  /\ m # n /\ cur[m] # Absent
  /\ cur' = [cur EXCEPT ![n] = cur[m], ![m] = Absent]
  /\ UNCHANGED saved

Snapshot == saved' = Append(saved, cur) /\ UNCHANGED cur

Travel(g) == cur' = saved[g] /\ saved' = Append(saved, saved[g])

Next ==
  \/ \E n \in Names : Remove(n) \/ \E v \in Values : Put(n, v)
  \/ \E m, n \in Names : Move(m, n)
  \/ Snapshot
  \/ \E g \in DOMAIN saved : Travel(g)

Spec == Init /\ [][Next]_<<cur, saved>>
=============================================================================
