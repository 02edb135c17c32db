---------------------------- MODULE SnapshotStore ----------------------------
(***************************************************************************)
(* What leveldb promises its readers: a map from keys to values, and       *)
(* snapshots of it that no later write, flush or compaction changes.       *)
(***************************************************************************)
EXTENDS Naturals

CONSTANTS Keys, NoValue

VARIABLES
  latest,   \* the value of each key, or NoValue
  frozen    \* the map that each open snapshot shows: snapshot -> [Keys -> values]

vars == <<latest, frozen>>

Init == latest = [k \in Keys |-> NoValue] /\ frozen = <<>>

Write(k, value) == latest' = [latest EXCEPT ![k] = value] /\ UNCHANGED frozen

Take(s) ==
  /\ frozen' = [t \in DOMAIN frozen \cup {s} |-> IF t = s THEN latest ELSE frozen[t]]
  /\ UNCHANGED latest

Release(s) ==
  /\ frozen' = [t \in DOMAIN frozen \ {s} |-> frozen[t]]
  /\ UNCHANGED latest

=============================================================================
