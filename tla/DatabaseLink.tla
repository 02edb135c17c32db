---------------------------- MODULE DatabaseLink ----------------------------
(***************************************************************************)
(* One device's link to the realtime database, as the client library keeps *)
(* it: the writes the app has issued that the server has not acknowledged  *)
(* yet (`outstandingPuts`, oldest first).  The server applies the puts of  *)
(* one connection in order and acknowledges them in order.  A new          *)
(* connection sends every outstanding put again (restoreState), also those *)
(* the server had applied before the old one dropped: delivery is in       *)
(* order, at least once.  The queue is in memory only (the app never turns *)
(* on disk persistence), so it dies with the process.                      *)
(*                                                                         *)
(* A link is a record: `puts` is the queue and `done` is the number of its *)
(* oldest puts the server has applied in the current connection.           *)
(***************************************************************************)
EXTENDS Naturals, Sequences

LinkOf(Put) == [puts : Seq(Put), done : Nat]

\* A link with nothing outstanding: the state at launch.
IdleLink == [puts |-> <<>>, done |-> 0]

\* Mutant of Enqueue: the write jumps the queue.
EnqueueAtFront(link, put) == [link EXCEPT !.puts = <<put>> \o @]

\* setValue and removeValue: the write is appended, and sent when connected.
Enqueue(link, put) == [link EXCEPT !.puts = Append(@, put)]

\* Mutant of CanApply: the newest put is never sent.
CanApplyMissesNewest(link) == link.done + 1 < Len(link.puts)

\* The server has a put of this link to apply.
CanApply(link) == link.done < Len(link.puts)

NextPut(link) == link.puts[link.done + 1]

Applied(link) == [link EXCEPT !.done = @ + 1]

\* Mutant of CanAck: the completion runs when the put is sent.
CanAckUnapplied(link) == link.puts # <<>>

\* The acknowledgement of the oldest put: it leaves the queue for good.
CanAck(link) == link.done > 0

\* Mutant of OldestPut: the completion of the newest put runs.
AckedPutIsNewest(link) == link.puts[Len(link.puts)]

OldestPut(link) == Head(link.puts)

\* Mutant of Acked: the put is not removed from the queue.
AckedKeepsPut(link) == [link EXCEPT !.done = @ - 1]

Acked(link) == [puts |-> Tail(link.puts), done |-> link.done - 1]

\* Mutant of Resent: the queue is lost with the connection.
ResentLosesQueue(link) == IdleLink

\* The connection drops and comes back: every outstanding put is sent again.
Resent(link) == [link EXCEPT !.done = 0]

=============================================================================
