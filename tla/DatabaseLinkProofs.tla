------------------------- MODULE DatabaseLinkProofs -------------------------
(***************************************************************************)
(* What each operation on a link does to its queue, position by position.  *)
(* The proofs about the components that write to the database cite these   *)
(* facts and leave the sequences folded.                                   *)
(***************************************************************************)
EXTENDS DatabaseLink, TLAPS

\* A link starts out empty, at launch and after the process ends.
LEMMA IdleLinkFacts ==
    ASSUME NEW Put
    PROVE  /\ IdleLink \in LinkOf(Put)
           /\ IdleLink.done = 0
           /\ DOMAIN IdleLink.puts = {}
           /\ Len(IdleLink.puts) = 0
BY DEF IdleLink, LinkOf

\* A write goes to the end of the queue and moves no other.
LEMMA EnqueueFacts ==
    ASSUME NEW Put, NEW link \in LinkOf(Put), NEW put \in Put
    PROVE  LET n == Len(link.puts) IN
           /\ Enqueue(link, put) \in LinkOf(Put)
           /\ Enqueue(link, put).done = link.done
           /\ Len(Enqueue(link, put).puts) = n + 1
           /\ DOMAIN Enqueue(link, put).puts = 1 .. n + 1
           /\ DOMAIN link.puts = 1 .. n
           /\ Enqueue(link, put).puts[n + 1] = put
           /\ \A i \in 1 .. n : Enqueue(link, put).puts[i] = link.puts[i]
BY DEF Enqueue, LinkOf

\* Applying a put leaves the queue as it is.
LEMMA AppliedFacts ==
    ASSUME NEW Put, NEW link \in LinkOf(Put), CanApply(link)
    PROVE  /\ Applied(link) \in LinkOf(Put)
           /\ Applied(link).puts = link.puts
           /\ Applied(link).done = link.done + 1
           /\ link.done + 1 \in DOMAIN link.puts
           /\ link.done + 1 <= Len(link.puts)
           /\ NextPut(link) = link.puts[link.done + 1]
           /\ NextPut(link) \in Put
BY DEF Applied, CanApply, NextPut, LinkOf

\* An acknowledgement moves every put, and the mark of what is applied, one
\* place forward.
LEMMA AckedFacts ==
    ASSUME NEW Put, NEW link \in LinkOf(Put), CanAck(link),
           link.done <= Len(link.puts)
    PROVE  LET n == Len(link.puts) IN
           /\ Acked(link) \in LinkOf(Put)
           /\ Acked(link).done = link.done - 1
           /\ Len(Acked(link).puts) = n - 1
           /\ DOMAIN Acked(link).puts = 1 .. n - 1
           /\ DOMAIN link.puts = 1 .. n
           /\ n >= 1
           /\ OldestPut(link) = link.puts[1]
           /\ OldestPut(link) \in Put
           /\ \A i \in 1 .. n - 1 : Acked(link).puts[i] = link.puts[i + 1]
BY DEF Acked, CanAck, OldestPut, LinkOf

\* A new connection sends the same queue from its beginning.
LEMMA ResentFacts ==
    ASSUME NEW Put, NEW link \in LinkOf(Put)
    PROVE  /\ Resent(link) \in LinkOf(Put)
           /\ Resent(link).puts = link.puts
           /\ Resent(link).done = 0
BY DEF Resent, LinkOf

=============================================================================
