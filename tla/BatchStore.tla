----------------------------- MODULE BatchStore -----------------------------
(***************************************************************************)
(* What leveldb's DB::Write promises to its callers: a batch is applied as *)
(* a whole, between its call and its answer; the entries form one history, *)
(* at ever higher positions, which only grows; a write answered OK is in   *)
(* it, one answered with an error is not and never will be.                *)
(***************************************************************************)
EXTENDS Naturals, FiniteSets, Sequences, SequencesExt

CONSTANT Sizes    \* how many entries a batch may have

VARIABLES
  calls,     \* how many calls have begun
  pending,   \* those not yet answered: <<call, size of its batch>>
  history,   \* the entries applied so far, each by its call: <<position, call>>
  last,      \* the last position used
  acked      \* the calls answered OK

vars == <<calls, pending, history, last, acked>>

Init == calls = 0 /\ pending = {} /\ history = {} /\ last = 0 /\ acked = {}

Applied == {entry[2] : entry \in history}

Begin(n) ==
  /\ calls' = calls + 1
  /\ pending' = pending \cup {<<calls + 1, n>>}
  /\ UNCHANGED <<history, last, acked>>

\* The entries of a group's batches, in their order, each as its call.
Entries(group) ==
  FlattenSeq([i \in DOMAIN group |-> [j \in 1..group[i][2] |-> group[i][1]]])

\* The calls of a group are applied together, each as a whole; the first is answered.
Commit(group) ==
  /\ \A i \in DOMAIN group : group[i][1] \notin Applied
  /\ group[1][2] # 0
  /\ history' = history \cup {<<last + k, Entries(group)[k]>> : k \in DOMAIN Entries(group)}
  /\ last' = last + Len(Entries(group))
  /\ pending' = pending \ {group[1]}
  /\ acked' = acked \cup {group[1][1]}
  /\ UNCHANGED calls

\* A call is answered: OK if it was applied. One that failed may leave positions unused.
Answer(p) ==
  /\ pending' = pending \ {p}
  /\ acked' = acked \cup ({p[1]} \cap Applied)
  /\ last' \in Nat /\ last' >= last
  /\ UNCHANGED <<calls, history>>

Next ==
  \/ \E n \in Sizes : Begin(n)
  \/ \E p \in pending : Answer(p)
  \/ \E n \in 1..Cardinality(pending) : \E group \in [1..n -> pending] :
       /\ \A i, j \in 1..n : group[i] = group[j] => i = j
       /\ Commit(group)

Spec == Init /\ [][Next]_vars
=============================================================================
