--------------------------- MODULE SnapshotCursor ---------------------------
(***************************************************************************)
(* What leveldb promises the user of an iterator: a cursor over the map    *)
(* there was when it was created, whatever is written meanwhile, in both   *)
(* directions; after a read error it says so, and then promises nothing.   *)
(***************************************************************************)
EXTENDS Integers

CONSTANT None

VARIABLES
  view,     \* the entries <<key, seq, type>> of the map
  shown,    \* the entry the cursor stands on, or None
  asked,    \* the call under way: <<operation, target key>>, or None
  failed    \* whether status() reports an error

vars == <<view, shown, asked, failed>>

FirstOf(S) == IF S = {} THEN None ELSE CHOOSE e \in S : \A d \in S : e[1] <= d[1]
LastOf(S) == IF S = {} THEN None ELSE CHOOSE e \in S : \A d \in S : d[1] <= e[1]

Moved(call) ==
  CASE call[1] = "SeekToFirst" -> FirstOf(view)
    [] call[1] = "SeekToLast" -> LastOf(view)
    [] call[1] = "Seek" -> FirstOf({e \in view : e[1] >= call[2]})
    [] call[1] = "Next" -> FirstOf({e \in view : e[1] > shown[1]})
    [] call[1] = "Prev" -> LastOf({e \in view : e[1] < shown[1]})

Init == view = {} /\ shown = None /\ asked = None /\ failed = FALSE

Create == shown = None /\ asked = None /\ view' # view /\ UNCHANGED <<shown, asked, failed>>

Ask ==
  /\ asked = None /\ asked' # None
  /\ asked'[1] \in {"Next", "Prev"} => shown # None
  /\ UNCHANGED <<view, shown>> /\ (failed => failed')

Answer ==
  /\ asked # None /\ asked' = None
  /\ shown' = Moved(asked) \/ failed'
  /\ UNCHANGED view /\ (failed => failed')

Fail == failed' /\ UNCHANGED <<view, shown, asked>>

Next == Create \/ Ask \/ Answer \/ Fail

Spec == Init /\ [][Next]_vars
=============================================================================
