-------------------------- MODULE PostLikesProofs --------------------------
(***************************************************************************)
(* For every number of phones, accounts and taps, and whatever fails: the  *)
(* two records of a like agree, and the icon shows what they say, once     *)
(* nothing is under way; and the counter is the number of likers recorded, *)
(* give or take the connections dropped and the processes killed.          *)
(***************************************************************************)
EXTENDS PostLikes, DatabaseLinkProofs, SequenceTheorems, FiniteSetTheorems, WellFoundedInduction

Liker == "user_who_liked"
List == "liked_posts"

-----------------------------------------------------------------------------
(* The two records, seen from one link *)

\* The puts of user u's link: pairs of a liker's record and a list's record, the first of
\* which may have lost its liker's record to an acknowledgement.
Pairs(l, u) ==
  /\ l \in LinkOf(Put) /\ l.done <= Len(l.puts)
  /\ \A i \in 1..Len(l.puts) : l.puts[i].user = u
  /\ \A i \in 1..Len(l.puts) : l.puts[i].field = Liker =>
       i + 1 \in 1..Len(l.puts) /\ l.puts[i + 1].field = List /\ l.puts[i + 1].on = l.puts[i].on
  /\ \A i \in 2..Len(l.puts) : l.puts[i].field = List => l.puts[i - 1].field = Liker

\* What the put says of u is what the server has recorded, in users W who liked the post or
\* in users K whose list has it.
Holds(put, u, W, K) == IF put.field = Liker THEN put.on <=> u \in W ELSE put.on <=> u \in K

\* The last two puts applied show on the server; a list's record on its own, too, shows
\* there what its liker's record was.
Recorded(l, u, W, K) ==
  /\ \A i \in 1..Len(l.puts) : i <= l.done /\ l.done <= i + 1 => Holds(l.puts[i], u, W, K)
  /\ Len(l.puts) = 1 => (l.puts[1].on <=> u \in W)

\* What the records will say of u when all puts are applied.
InTheEnd(l, u, W) == IF l.puts = <<>> THEN u \in W ELSE l.puts[Len(l.puts)].on

\* What they will say when the taps of d, too, have had their effect.
Wanted(d) ==
  IF txs[d] # <<>> THEN txs[d][Len(txs[d])] = 1
  ELSE IF reads[d] # <<>> THEN reads[d][Len(reads[d])] = 1
  ELSE InTheEnd(link[d], UserOf[d], who)

-----------------------------------------------------------------------------
(* The invariant *)

Calls ==
  /\ \A d \in Device : Pairs(link[d], UserOf[d]) /\ batch[d] <= Len(txs[d])
  /\ \A d \in Device : kills[d] # 0 => "kill" \in world.faults
  /\ "delete" \notin world.faults => described /\ counted
  /\ asking \subseteq open

Records ==
  \A d \in Device : described /\ OnePhone(d) =>
    /\ Recorded(link[d], UserOf[d], who, liked)
    /\ kills[d] = 0 /\ link[d].puts = <<>> => (UserOf[d] \in who <=> UserOf[d] \in liked)

\* The last tap on an open screen, as long as no answer has replaced its icon.
LastTap(d) ==
  /\ last[d] = "pending" => txs[d] # <<>> \/ reads[d] # <<>>
  /\ last[d] = "committed" => txs[d] = <<>> /\ reads[d] = <<>>
  /\ last[d] \in {"pending", "committed"} /\ described /\ OnePhone(d) =>
       (icon[d] = "like" <=> Wanted(d))

\* When nothing disturbs the users, what an open screen shows.
Shown(d) ==
  Undisturbed /\ OnePhone(d) =>
    IF d \in asking THEN Quiet(d) /\ icon[d] = "unlike" ELSE icon[d] = "like" <=> Wanted(d)

Screens == \A d \in open : LastTap(d) /\ Shown(d)

LikesInv == Calls /\ Records /\ Screens

-----------------------------------------------------------------------------
(* What each operation on a link does to the records *)

LEMMA LinkStarts ==
  ASSUME NEW u, NEW W, NEW K
  PROVE  /\ Pairs(IdleLink, u) /\ Recorded(IdleLink, u, W, K) /\ IdleLink.puts = <<>>
         /\ InTheEnd(IdleLink, u, W) <=> u \in W
<1>1. IdleLink \in LinkOf(Put) /\ IdleLink.done = 0 /\ IdleLink.puts = <<>> /\ Len(IdleLink.puts) = 0
  BY DEF IdleLink, LinkOf
<1> HIDE DEF IdleLink
<1>2. QED
  BY <1>1 DEF Pairs, Recorded, InTheEnd

\* The records of a like or an unlike are queued behind the others.
WithRecords(l, d, step) == Enqueue(Enqueue(l, RecordPuts(d, step)[1]), RecordPuts(d, step)[2])

LEMMA LinkEnqueues ==
  ASSUME NEW d \in Device, NEW step, NEW l, Pairs(l, UserOf[d])
  PROVE  /\ Pairs(WithRecords(l, d, step), UserOf[d]) /\ WithRecords(l, d, step).puts # <<>>
         /\ \A W, K : Recorded(l, UserOf[d], W, K) => Recorded(WithRecords(l, d, step), UserOf[d], W, K)
         /\ \A W : InTheEnd(WithRecords(l, d, step), UserOf[d], W) <=> step = 1
<1> DEFINE m == WithRecords(l, d, step)
           u == UserOf[d]
           p == RecordPuts(d, step)[1]
           q == RecordPuts(d, step)[2]
           k == Enqueue(l, p)
<1>1. /\ p \in Put /\ p.field = Liker /\ p.user = u /\ (p.on <=> step = 1)
      /\ q \in Put /\ q.field = List /\ q.user = u /\ (q.on <=> step = 1) /\ p.on = q.on
  BY UsersAssumption DEF RecordPuts, Put, Liker, List
<1> HIDE DEF p, q
<1>2. PICK n \in Nat : /\ n = Len(l.puts) /\ l.done \in Nat /\ l.done <= n /\ l \in LinkOf(Put)
                       /\ \A i \in 1..n : l.puts[i] \in Put
  BY DEF Pairs, LinkOf
<1>3. /\ k \in LinkOf(Put) /\ k.done = l.done /\ Len(k.puts) = n + 1
      /\ k.puts[n + 1] = p /\ \A i \in 1..n : k.puts[i] = l.puts[i]
  BY <1>1, <1>2, EnqueueFacts
<1>m. m = Enqueue(k, q)
  BY DEF m, k, p, q, WithRecords
<1> HIDE DEF k, m
<1>4. /\ m \in LinkOf(Put) /\ m.done = l.done /\ Len(m.puts) = n + 2
      /\ m.puts[n + 1] = p /\ m.puts[n + 2] = q /\ \A i \in 1..n : m.puts[i] = l.puts[i]
  <2>1. /\ m \in LinkOf(Put) /\ m.done = k.done /\ Len(m.puts) = n + 1 + 1
        /\ m.puts[n + 1 + 1] = q /\ \A i \in 1..n + 1 : m.puts[i] = k.puts[i]
    <3>1. Len(k.puts) = n + 1 /\ k \in LinkOf(Put) /\ q \in Put
      BY <1>1, <1>3
    <3>2. LET c == Len(k.puts) IN
          /\ m \in LinkOf(Put) /\ m.done = k.done /\ Len(m.puts) = c + 1
          /\ m.puts[c + 1] = q /\ \A i \in 1..c : m.puts[i] = k.puts[i]
      BY <1>m, <3>1, EnqueueFacts
    <3>3. QED
      BY <3>1, <3>2
  <2>2. QED
    BY <1>2, <1>3, <2>1
<1>5. /\ \A i \in 1..n : l.puts[i].user = u
      /\ \A i \in 1..n : l.puts[i].field = Liker =>
           i + 1 \in 1..n /\ l.puts[i + 1].field = List /\ l.puts[i + 1].on = l.puts[i].on
      /\ \A i \in 2..n : l.puts[i].field = List => l.puts[i - 1].field = Liker
  BY <1>2 DEF Pairs
<1>6. Liker # List
  BY DEF Liker, List
<1>7. Pairs(m, u)
  <2>1. ASSUME NEW i \in 1..n + 2
        PROVE  m.puts[i].user = u
    <3>1. i \in 1..n \/ i = n + 1 \/ i = n + 2
      BY <1>2
    <3>2. CASE i \in 1..n
      <4>1. m.puts[i] = l.puts[i]
        BY <1>4, <3>2
      <4>2. QED
        BY <1>5, <3>2, <4>1
    <3>3. CASE i = n + 1 \/ i = n + 2
      BY <1>1, <1>4, <3>3
    <3>4. QED
      BY <3>1, <3>2, <3>3
  <2>2. ASSUME NEW i \in 1..n + 2, m.puts[i].field = Liker
        PROVE  i + 1 \in 1..n + 2 /\ m.puts[i + 1].field = List /\ m.puts[i + 1].on = m.puts[i].on
    <3>1. CASE i \in 1..n
      <4>1. m.puts[i] = l.puts[i]
        BY <1>4, <3>1
      <4>2. i + 1 \in 1..n /\ l.puts[i + 1].field = List /\ l.puts[i + 1].on = l.puts[i].on
        BY <1>5, <2>2, <3>1, <4>1
      <4>3. m.puts[i + 1] = l.puts[i + 1]
        BY <1>4, <4>2
      <4>4. i + 1 \in 1..n + 2
        BY <1>2, <4>2
      <4>5. QED
        BY <4>1, <4>2, <4>3, <4>4
    <3>2. CASE i = n + 1
      BY <1>1, <1>2, <1>4, <3>2
    <3>3. QED
      BY <1>1, <1>2, <1>4, <1>6, <2>2, <3>1, <3>2
  <2>3. ASSUME NEW i \in 2..n + 2, m.puts[i].field = List
        PROVE  m.puts[i - 1].field = Liker
    <3>1. CASE i \in 2..n
      <4>1. i \in 1..n /\ i - 1 \in 1..n
        BY <1>2, <3>1
      <4>2. m.puts[i] = l.puts[i] /\ m.puts[i - 1] = l.puts[i - 1]
        BY <1>4, <4>1
      <4>3. QED
        BY <1>5, <2>3, <3>1, <4>2
    <3>2. CASE i = n + 2
      BY <1>1, <1>2, <1>4, <3>2
    <3>3. i # n + 1
      BY <1>1, <1>4, <1>6, <2>3
    <3>4. i \in 2..n \/ i = n + 2
      BY <1>2, <3>3
    <3>5. QED
      BY <3>1, <3>2, <3>4
  <2>4. QED
    <3>1. Len(m.puts) = n + 2 /\ m.done <= Len(m.puts)
      BY <1>2, <1>4
    <3>2. QED
      BY <1>4, <2>1, <2>2, <2>3, <3>1 DEF Pairs
<1>8. m.puts # <<>> /\ DOMAIN m.puts = 1..n + 2
  BY <1>2, <1>4 DEF LinkOf
<1>9. ASSUME NEW W, NEW K, Recorded(l, u, W, K)
      PROVE  Recorded(m, u, W, K)
  <2>1. ASSUME NEW i \in 1..n + 2, i <= m.done
        PROVE  i \in 1..n /\ m.puts[i] = l.puts[i]
    BY <1>2, <1>4, <2>1
  <2>2. n + 2 # 1
    BY <1>2
  <2>3. QED
    BY <1>2, <1>4, <1>9, <2>1, <2>2 DEF Recorded
<1>10. ASSUME NEW W
       PROVE  InTheEnd(m, u, W) <=> step = 1
  BY <1>1, <1>4, <1>8 DEF InTheEnd
<1>11. QED
  BY <1>7, <1>8, <1>9, <1>10 DEF m

\* A put of another user changes nothing for this one.
LEMMA OthersRecords ==
  ASSUME NEW users, NEW put, NEW u, put.user # u
  PROVE  u \in WithUser(users, put) <=> u \in users
BY DEF WithUser

LEMMA LinkApplies ==
  ASSUME NEW l, NEW u, Pairs(l, u), CanApply(l)
  PROVE  /\ Pairs(Applied(l), u) /\ Applied(l).puts = l.puts /\ l.puts # <<>>
         /\ NextPut(l) \in Put /\ NextPut(l).user = u
<1>1. PICK n \in Nat : n = Len(l.puts) /\ l.done \in Nat /\ l.done <= n /\ l \in LinkOf(Put)
  BY DEF Pairs, LinkOf
<1>2. /\ Applied(l) \in LinkOf(Put) /\ Applied(l).puts = l.puts /\ Applied(l).done = l.done + 1
      /\ l.done + 1 <= n /\ NextPut(l) = l.puts[l.done + 1] /\ NextPut(l) \in Put
  BY <1>1, AppliedFacts
<1>3. NextPut(l).user = u
  BY <1>1, <1>2 DEF Pairs
<1>4. l.puts # <<>>
  BY <1>1, <1>2
<1>5. Pairs(Applied(l), u)
  BY <1>1, <1>2 DEF Pairs
<1>6. QED
  BY <1>2, <1>3, <1>4, <1>5

LEMMA PutRecorded ==
  ASSUME NEW l, NEW u, Pairs(l, u), CanApply(l), NEW W, NEW K, Recorded(l, u, W, K), NEW X, NEW Y,
         IF NextPut(l).field = Liker THEN X = WithUser(W, NextPut(l)) /\ Y = K
                                     ELSE Y = WithUser(K, NextPut(l)) /\ X = W
  PROVE  Recorded(Applied(l), u, X, Y)
<1> DEFINE put == NextPut(l)
<1>1. PICK n \in Nat : n = Len(l.puts) /\ l.done \in Nat /\ l.done <= n /\ l \in LinkOf(Put)
  BY DEF Pairs, LinkOf
<1>2. /\ Applied(l).puts = l.puts /\ Applied(l).done = l.done + 1
      /\ l.done + 1 <= n /\ put = l.puts[l.done + 1] /\ put \in Put /\ put.user = u
  BY <1>1, AppliedFacts, LinkApplies
<1> HIDE DEF put
<1>3. put.field \in {Liker, List} /\ put.on \in BOOLEAN /\ Liker # List
  BY <1>2 DEF Put, Liker, List
<1>4. Holds(put, u, X, Y)
  BY <1>2, <1>3 DEF Holds, WithUser, put
<1>5. ASSUME NEW i \in 1..n, i <= l.done + 1, l.done + 1 <= i + 1
      PROVE  Holds(l.puts[i], u, X, Y)
  <2>1. CASE i = l.done + 1
    BY <1>2, <1>4, <2>1
  <2>2. CASE i = l.done
    <3>1. Holds(l.puts[i], u, W, K)
      BY <1>1, <2>2 DEF Recorded
    <3>2. put = l.puts[i + 1] /\ i + 1 \in 2..n
      BY <1>1, <1>2, <2>2
    <3>3. l.puts[i].field = Liker => put.field = List
      BY <1>1, <3>2 DEF Pairs
    <3>4. l.puts[i].field # Liker => put.field = Liker
      <4>1. put.field = List => l.puts[i + 1 - 1].field = Liker
        BY <1>1, <3>2 DEF Pairs
      <4>2. i + 1 - 1 = i
        BY <1>1
      <4>3. QED
        BY <1>3, <4>1, <4>2
    <3>5. CASE l.puts[i].field = Liker
      BY <1>3, <3>1, <3>3, <3>5 DEF Holds, put
    <3>6. CASE l.puts[i].field # Liker
      BY <1>3, <3>1, <3>4, <3>6 DEF Holds, put
    <3>7. QED
      BY <3>5, <3>6
  <2>3. QED
    BY <1>1, <1>5, <2>1, <2>2
<1>6. ASSUME n = 1
      PROVE  l.puts[1].on <=> u \in X
  <2>1. put = l.puts[1]
    BY <1>1, <1>2, <1>6
  <2>2. put.field # Liker
    <3>1. 1 + 1 \notin 1..n /\ 1 \in 1..n
      BY <1>6
    <3>2. QED
      BY <1>1, <2>1, <3>1 DEF Pairs
  <2>3. X = W
    BY <2>2 DEF put
  <2>4. QED
    BY <1>1, <1>6, <2>3 DEF Recorded
<1>7. QED
  BY <1>1, <1>2, <1>5, <1>6 DEF Recorded

LEMMA LinkAcks ==
  ASSUME NEW l, NEW u, Pairs(l, u), CanAck(l)
  PROVE  /\ Pairs(Acked(l), u)
         /\ \A W, K : Recorded(l, u, W, K) =>
              /\ Recorded(Acked(l), u, W, K)
              /\ InTheEnd(Acked(l), u, W) <=> InTheEnd(l, u, W)
              /\ Acked(l).puts = <<>> => (u \in W <=> u \in K)
<1> DEFINE m == Acked(l)
<1>1. PICK n \in Nat : n = Len(l.puts) /\ l.done \in Nat /\ l.done <= n /\ l \in LinkOf(Put)
  BY DEF Pairs, LinkOf
<1>2. /\ m \in LinkOf(Put) /\ m.done = l.done - 1 /\ Len(m.puts) = n - 1 /\ n >= 1
      /\ \A i \in 1..n - 1 : m.puts[i] = l.puts[i + 1]
      /\ l.done >= 1
  BY <1>1, AckedFacts DEF CanAck
<1> HIDE DEF m
<1>3. /\ \A i \in 1..n : l.puts[i].user = u
      /\ \A i \in 1..n : l.puts[i].field = Liker =>
           i + 1 \in 1..n /\ l.puts[i + 1].field = List /\ l.puts[i + 1].on = l.puts[i].on
      /\ \A i \in 2..n : l.puts[i].field = List => l.puts[i - 1].field = Liker
  BY <1>1 DEF Pairs
<1>4. Pairs(m, u)
  <2>1. \A i \in 1..n - 1 : m.puts[i].user = u
    BY SMTT(60), <1>1, <1>2, <1>3
  <2>2. ASSUME NEW i \in 1..n - 1, m.puts[i].field = Liker
        PROVE  i + 1 \in 1..n - 1 /\ m.puts[i + 1].field = List /\ m.puts[i + 1].on = m.puts[i].on
    <3>1. i + 1 \in 1..n /\ m.puts[i] = l.puts[i + 1]
      BY <1>1, <1>2
    <3>2. i + 1 + 1 \in 1..n /\ l.puts[i + 1 + 1].field = List /\ l.puts[i + 1 + 1].on = l.puts[i + 1].on
      BY <1>3, <2>2, <3>1
    <3>3. i + 1 \in 1..n - 1 /\ m.puts[i + 1] = l.puts[i + 1 + 1]
      BY SMTT(60), <1>1, <1>2, <3>2
    <3>4. QED
      BY <3>1, <3>2, <3>3
  <2>3. ASSUME NEW i \in 2..n - 1, m.puts[i].field = List
        PROVE  m.puts[i - 1].field = Liker
    <3>1. m.puts[i] = l.puts[i + 1] /\ i + 1 \in 2..n /\ m.puts[i - 1] = l.puts[i - 1 + 1]
      BY <1>1, <1>2
    <3>2. l.puts[i + 1 - 1].field = Liker
      BY <1>3, <2>3, <3>1
    <3>3. i + 1 - 1 = i - 1 + 1
      OBVIOUS
    <3>4. QED
      BY <3>1, <3>2, <3>3
  <2>4. QED
    BY <1>1, <1>2, <2>1, <2>2, <2>3 DEF Pairs
<1>5. ASSUME NEW W, NEW K, Recorded(l, u, W, K)
      PROVE  /\ Recorded(m, u, W, K)
             /\ InTheEnd(m, u, W) <=> InTheEnd(l, u, W)
             /\ m.puts = <<>> => (u \in W <=> u \in K)
  <2>1. /\ \A i \in 1..n : i <= l.done /\ l.done <= i + 1 => Holds(l.puts[i], u, W, K)
        /\ n = 1 => (l.puts[1].on <=> u \in W)
    BY <1>1, <1>5 DEF Recorded
  <2>2. ASSUME NEW i \in 1..n - 1, i <= m.done, m.done <= i + 1
        PROVE  Holds(m.puts[i], u, W, K)
    <3>1. i + 1 \in 1..n /\ i + 1 <= l.done /\ l.done <= i + 1 + 1 /\ m.puts[i] = l.puts[i + 1]
      BY <1>1, <1>2, <2>2
    <3>2. QED
      BY <2>1, <3>1
  <2>3. ASSUME n - 1 = 1
        PROVE  m.puts[1].on <=> u \in W
    <3>1. n = 2 /\ 1 \in 1..n /\ 2 \in 1..n /\ 2 \in 2..n /\ m.puts[1] = l.puts[2]
      <4>1. n = 2
        BY <1>1, <2>3
      <4>2. 1 \in 1..n - 1 /\ 1 \in 1..n /\ 2 \in 1..n /\ 2 \in 2..n /\ 1 + 1 = 2
        BY <4>1
      <4>3. m.puts[1] = l.puts[1 + 1]
        BY <1>2, <4>2
      <4>4. QED
        BY <4>1, <4>2, <4>3
    <3>2. l.puts[2].field # Liker
      <4>1. 2 + 1 \notin 1..n
        BY <3>1
      <4>2. QED
        BY <1>3, <3>1, <4>1
    <3>3. l.puts[1].field = Liker
      <4>1. l.puts[2] \in Put
        <5>1. l.puts \in Seq(Put)
          BY <1>1 DEF LinkOf
        <5>2. QED
          BY <1>1, <3>1, <5>1, ElementOfSeq
      <4>2. l.puts[2].field = List
        BY <3>2, <4>1 DEF Put, Liker, List
      <4>3. l.puts[2 - 1].field = Liker
        BY <1>3, <3>1, <4>2
      <4>4. QED
        BY <4>3
    <3>4. l.puts[2].on = l.puts[1].on
      <4>1. l.puts[1 + 1].on = l.puts[1].on
        BY <1>3, <3>1, <3>3
      <4>2. QED
        BY <4>1
    <3>5. Holds(l.puts[1], u, W, K)
      BY <1>1, <1>2, <2>1, <3>1
    <3>6. QED
      BY <3>1, <3>3, <3>4, <3>5 DEF Holds
  <2>4. Recorded(m, u, W, K)
    BY <1>1, <1>2, <2>2, <2>3 DEF Recorded
  <2>5. (m.puts = <<>> <=> n = 1) /\ l.puts # <<>>
    <3>1. l.puts \in Seq(Put) /\ m.puts \in Seq(Put)
      BY <1>1, <1>2 DEF LinkOf
    <3>2. Len(m.puts) = n - 1 /\ Len(l.puts) = n /\ n >= 1
      BY <1>1, <1>2
    <3>3. QED
      BY <3>1, <3>2
  <2>6. CASE n = 1
    <3>1. m.puts = <<>> /\ (InTheEnd(l, u, W) <=> l.puts[1].on)
      BY <1>1, <2>5, <2>6 DEF InTheEnd
    <3>2. InTheEnd(m, u, W) <=> InTheEnd(l, u, W)
      BY <2>1, <2>6, <3>1 DEF InTheEnd
    <3>3. l.puts[1].field # Liker
      <4>1. 1 + 1 \notin 1..n /\ 1 \in 1..n
        BY <2>6
      <4>2. QED
        BY <1>3, <4>1
    <3>4. Holds(l.puts[1], u, W, K)
      BY <1>1, <1>2, <2>1, <2>6
    <3>5. u \in W <=> u \in K
      BY <2>1, <2>6, <3>3, <3>4 DEF Holds
    <3>6. QED
      BY <2>4, <3>2, <3>5
  <2>7. CASE n # 1
    <3>1. m.puts # <<>> /\ m.puts[n - 1] = l.puts[n]
      <4>1. n >= 2
        BY <1>2, <2>7
      <4>2. n - 1 \in 1..n - 1 /\ n - 1 + 1 = n
        BY <4>1
      <4>3. QED
        BY <1>2, <2>5, <2>7, <4>2
    <3>2. InTheEnd(m, u, W) <=> InTheEnd(l, u, W)
      BY <1>1, <1>2, <2>5, <3>1 DEF InTheEnd
    <3>3. QED
      BY <2>4, <3>1, <3>2
  <2>8. QED
    BY <2>6, <2>7
<1>6. QED
  BY <1>4, <1>5 DEF m

LEMMA LinkResends ==
  ASSUME NEW l, NEW u, Pairs(l, u)
  PROVE  /\ Pairs(Resent(l), u) /\ Resent(l).puts = l.puts
         /\ \A W, K : Recorded(l, u, W, K) => Recorded(Resent(l), u, W, K)
<1>1. PICK n \in Nat : n = Len(l.puts) /\ l.done \in Nat /\ l.done <= n /\ l \in LinkOf(Put)
  BY DEF Pairs, LinkOf
<1>2. Resent(l) \in LinkOf(Put) /\ Resent(l).puts = l.puts /\ Resent(l).done = 0
  BY <1>1, ResentFacts
<1>3. QED
  BY <1>1, <1>2 DEF Pairs, Recorded

-----------------------------------------------------------------------------
(* Lists of transactions *)

Steps == {1, -1}

LEMMA SplitFacts ==
  ASSUME NEW s \in Seq(Steps), NEW n \in 0..Len(s)
  PROVE  /\ SubSeq(s, 1, n) \in Seq(Steps) /\ SubSeq(s, n + 1, Len(s)) \in Seq(Steps)
         /\ Len(SubSeq(s, 1, n)) = n /\ Len(SubSeq(s, n + 1, Len(s))) = Len(s) - n
         /\ n = Len(s) => SubSeq(s, n + 1, Len(s)) = <<>>
         /\ n < Len(s) => /\ SubSeq(s, n + 1, Len(s)) # <<>>
                          /\ SubSeq(s, n + 1, Len(s))[Len(SubSeq(s, n + 1, Len(s)))] = s[Len(s)]
         /\ n > 0 => SubSeq(s, 1, n)[n] = s[n]
<1>1. PICK len \in Nat : len = Len(s)
  OBVIOUS
<1>2. \A i \in 1..n : s[i] \in Steps
  BY <1>1
<1>3. \A i \in n + 1..len : s[i] \in Steps
  BY <1>1
<1> DEFINE a == SubSeq(s, 1, n)
           b == SubSeq(s, n + 1, len)
<1>4. a \in Seq(Steps) /\ Len(a) = n /\ \A i \in 1..n : a[i] = s[i]
  <2>1. /\ a \in Seq(Steps) /\ Len(a) = (IF 1 <= n THEN n - 1 + 1 ELSE 0)
        /\ \A i \in 1..n - 1 + 1 : a[i] = s[1 + i - 1]
    BY <1>2, SubSeqProperties
  <2> HIDE DEF a
  <2>2. QED
    BY <2>1
<1>5. b \in Seq(Steps) /\ Len(b) = len - n /\ \A i \in 1..len - n : b[i] = s[n + i]
  <2>1. /\ b \in Seq(Steps) /\ Len(b) = (IF n + 1 <= len THEN len - (n + 1) + 1 ELSE 0)
        /\ \A i \in 1..len - (n + 1) + 1 : b[i] = s[n + 1 + i - 1]
    BY <1>1, <1>3, SubSeqProperties
  <2> HIDE DEF b
  <2>2. Len(b) = len - n
    BY <1>1, <2>1
  <2>3. \A i \in 1..len - n : i \in 1..len - (n + 1) + 1 /\ n + 1 + i - 1 = n + i
    BY <1>1
  <2>4. QED
    BY <2>1, <2>2, <2>3
<1> HIDE DEF a, b
<1>6. n = len => b = <<>>
  BY <1>5
<1>7. ASSUME n < len
      PROVE  b # <<>> /\ b[Len(b)] = s[len]
  <2>1. len - n \in 1..len - n /\ n + (len - n) = len
    BY <1>1, <1>7
  <2>2. b[len - n] = s[n + (len - n)] /\ len - n # 0
    BY <1>5, <2>1
  <2>3. QED
    BY <1>5, <2>1, <2>2
<1>8. n > 0 => a[n] = s[n]
  BY <1>4
<1>9. QED
  BY <1>1, <1>4, <1>5, <1>6, <1>7, <1>8 DEF a, b

-----------------------------------------------------------------------------
(* Types, pairs of puts, and what a world allows *)

LEMMA TypesStart == Init => TypeOK /\ Calls
<1> SUFFICES ASSUME Init
             PROVE  TypeOK /\ Calls
  OBVIOUS
<1>1. TypeOK
  <2>1. IdleLink \in LinkOf(Put)
    BY IdleLinkFacts
  <2>2. Cardinality(who) \in Int
    BY UsersAssumption, FS_Subset, FS_CardinalityType DEF Init
  <2>3. QED
    BY <2>1, <2>2 DEF Init, TypeOK, Icon
<1>2. Calls
  <2>1. \A d \in Device : Pairs(link[d], UserOf[d])
    BY LinkStarts DEF Init
  <2>2. \A d \in Device : batch[d] <= Len(txs[d])
    BY DEF Init
  <2>3. QED
    BY <2>1, <2>2 DEF Init, Calls
<1>3. QED
  BY <1>1, <1>2

\* The sum of a batch is a number.
LEMMA SumType ==
  ASSUME NEW s \in Seq(Steps)
  PROVE  Sum(s) \in Int
<1>1. IsFiniteSet(DOMAIN s)
  <2>1. DOMAIN s = 1..Len(s) /\ Len(s) \in Int
    OBVIOUS
  <2>2. QED
    BY <2>1, FS_Interval
<1>2. \A k : IsFiniteSet({i \in DOMAIN s : s[i] = k})
  BY <1>1, FS_Subset
<1>3. /\ Cardinality({i \in DOMAIN s : s[i] = 1}) \in Nat
      /\ Cardinality({i \in DOMAIN s : s[i] = -1}) \in Nat
  BY <1>2, FS_CardinalityType
<1>4. QED
  BY <1>3 DEF Sum

LEMMA TypesKept ==
  ASSUME TypeOK, Calls, [Next]_vars
  PROVE  TypeOK' /\ Calls'
<1> USE DEF TypeOK, Calls, vars, server, view, calls
<1>0. \A d \in Device : /\ Pairs(link[d], UserOf[d]) /\ link[d] \in LinkOf(Put)
                        /\ txs[d] \in Seq(Steps) /\ batch[d] \in 0..Len(txs[d])
  <2> TAKE d \in Device
  <2>1. Pairs(link[d], UserOf[d]) /\ link[d] \in LinkOf(Put)
    OBVIOUS
  <2>2. txs[d] \in Seq(Steps)
    BY DEF Steps
  <2>3. batch[d] \in 0..Len(txs[d])
    OBVIOUS
  <2>4. QED
    BY <2>1, <2>2, <2>3
<1>1. ASSUME NEW d \in Device, OpenPost(d) \/ ClosePost(d) \/ LikedPostsAnswer(d)
      PROVE  TypeOK' /\ Calls'
  BY <1>1 DEF OpenPost, ClosePost, LikedPostsAnswer, Icon
<1>2. ASSUME NEW d \in Device, TapLike(d) \/ TapOffline(d)
      PROVE  TypeOK' /\ Calls'
  <2>1. Flipped(d) \in Icon /\ Step(d) \in {1, -1}
    BY DEF Flipped, Step, Icon
  <2>2. CASE TapLike(d)
    <3>1. txs' = [txs EXCEPT ![d] = Append(@, Step(d))] /\ UNCHANGED <<batch, reads, link>>
      BY <2>2 DEF TapLike
    <3>2. txs' \in [Device -> Seq({1, -1})] /\ \A e \in Device : batch[e] <= Len(txs'[e])
      BY <2>1, <3>1
    <3>3. QED
      BY <2>1, <2>2, <3>1, <3>2 DEF TapLike
  <2>3. CASE TapOffline(d)
    BY SMTT(60), <2>1, <2>3 DEF TapOffline
  <2>4. QED
    BY <1>2, <2>2, <2>3
<1>3. ASSUME NEW d \in Device, ServerRunsTransactions(d)
      PROVE  TypeOK' /\ Calls'
  <2>1. PICK n \in 1..Len(txs[d]) : /\ batch' = [batch EXCEPT ![d] = n]
                                    /\ total' = total + Sum(First(d, n))
    BY <1>3 DEF ServerRunsTransactions
  <2>2. First(d, n) \in Seq(Steps)
    BY <1>0, SplitFacts DEF First
  <2>3. total' \in Int
    BY <2>1, <2>2, SumType
  <2>4. batch' \in [Device -> Nat] /\ \A e \in Device : batch'[e] <= Len(txs[e])
    BY <1>0, <2>1
  <2>5. QED
    BY <1>3, <2>3, <2>4 DEF ServerRunsTransactions
<1>4. ASSUME NEW d \in Device, NEW n \in 0..Len(txs[d]), txs' = [txs EXCEPT ![d] = Rest(d, n)],
             batch' = [batch EXCEPT ![d] = 0]
      PROVE  /\ txs' \in [Device -> Seq({1, -1})] /\ batch' \in [Device -> Nat]
             /\ \A e \in Device : batch'[e] <= Len(txs'[e])
  <2>1. Rest(d, n) \in Seq(Steps) /\ Len(Rest(d, n)) \in Nat
    BY <1>0, SplitFacts DEF Rest
  <2>2. QED
    BY <1>0, <1>4, <2>1 DEF Steps
<1>5. ASSUME NEW d \in Device, TransactionsCommit(d)
      PROVE  TypeOK' /\ Calls'
  <2>1. First(d, batch[d]) \in Seq(Steps)
    BY <1>0, SplitFacts DEF First
  <2>2. reads' \in [Device -> Seq({1, -1})]
    BY <1>5, <2>1 DEF TransactionsCommit, Steps
  <2>3. txs' = [txs EXCEPT ![d] = Rest(d, batch[d])] /\ batch' = [batch EXCEPT ![d] = 0]
    BY <1>5 DEF TransactionsCommit
  <2>4. QED
    BY <1>0, <1>4, <1>5, <2>2, <2>3 DEF TransactionsCommit
<1>6. ASSUME NEW d \in Device, NEW n \in 0..Len(txs[d]), Uncommitted(d, n)
      PROVE  /\ txs' \in [Device -> Seq({1, -1})] /\ batch' \in [Device -> Nat]
             /\ \A e \in Device : batch'[e] <= Len(txs'[e])
             /\ last' \in [Device -> {"none", "pending", "committed", "refused"}]
  BY <1>4, <1>6 DEF Uncommitted
<1>7. ASSUME NEW d \in Device, TransactionsAbort(d)
      PROVE  TypeOK' /\ Calls'
  <2>1. PICK n \in 1..Len(txs[d]) : Uncommitted(d, n)
    BY <1>7 DEF TransactionsAbort
  <2>2. n \in 0..Len(txs[d])
    OBVIOUS
  <2>3. QED
    BY <1>6, <1>7, <2>1, <2>2 DEF TransactionsAbort
<1>8. ASSUME NEW d \in Device, DropConnection(d)
      PROVE  TypeOK' /\ Calls'
  <2>1. PICK n \in Sent(d) : Uncommitted(d, n)
    BY <1>8 DEF DropConnection
  <2>2. n \in 0..Len(txs[d])
    BY <1>0 DEF Sent
  <2>3. Pairs(Resent(link[d]), UserOf[d])
    BY <1>0, LinkResends
  <2>4. Resent(link[d]) \in LinkOf(Put)
    BY <2>3 DEF Pairs
  <2>5. /\ txs' \in [Device -> Seq({1, -1})] /\ batch' \in [Device -> Nat]
        /\ \A e \in Device : batch'[e] <= Len(txs'[e])
        /\ last' \in [Device -> {"none", "pending", "committed", "refused"}]
    BY <1>6, <2>1, <2>2
  <2>6. /\ link' \in [Device -> LinkOf(Put)] /\ \A e \in Device : Pairs(link'[e], UserOf[e])
        /\ drops' \in [Device -> Nat]
        /\ UNCHANGED <<world, described, counted, total, who, liked, open, asking, icon, reads, taps, kills>>
    BY <1>0, <1>8, <2>3, <2>4 DEF DropConnection
  <2>7. QED
    BY <2>5, <2>6
<1>9. ASSUME NEW d \in Device, ReadBackAnswer(d)
      PROVE  TypeOK' /\ Calls'
  <2>1. last' \in [Device -> {"none", "pending", "committed", "refused"}]
    BY <1>9 DEF ReadBackAnswer, AnswerLast
  <2>2. reads' \in [Device -> Seq({1, -1})]
    BY <1>9 DEF ReadBackAnswer
  <2>3. link' \in [Device -> LinkOf(Put)] /\ \A e \in Device : Pairs(link'[e], UserOf[e])
    <3>1. CASE WriteRecords(d)
      <4>1. PICK m : m = WithRecords(link[d], d, Head(reads[d])) /\ link' = [link EXCEPT ![d] = m]
        BY <3>1 DEF WriteRecords, WithRecords
      <4>2. Pairs(m, UserOf[d])
        BY <1>0, <4>1, LinkEnqueues
      <4>3. m \in LinkOf(Put)
        BY <4>2 DEF Pairs
      <4>4. QED
        BY <1>0, <4>1, <4>2, <4>3
    <3>2. CASE UNCHANGED link
      BY <3>2
    <3>3. QED
      BY <1>9, <3>1, <3>2 DEF ReadBackAnswer
  <2>4. QED
    BY <1>9, <2>1, <2>2, <2>3 DEF ReadBackAnswer
<1>10. ASSUME NEW d \in Device, ServerAppliesPut(d)
       PROVE  TypeOK' /\ Calls'
  <2>1. Pairs(Applied(link[d]), UserOf[d]) /\ NextPut(link[d]) \in Put
    BY <1>0, <1>10, LinkApplies DEF ServerAppliesPut
  <2>2. NextPut(link[d]).user \in Account
    BY <2>1 DEF Put
  <2>3. who' \in SUBSET Account /\ liked' \in SUBSET Account
    BY <1>10, <2>2 DEF ServerAppliesPut, WithUser
  <2>4. link' \in [Device -> LinkOf(Put)] /\ \A e \in Device : Pairs(link'[e], UserOf[e])
    <3>1. Applied(link[d]) \in LinkOf(Put)
      BY <2>1 DEF Pairs
    <3>2. link' = [link EXCEPT ![d] = Applied(link[d])]
      BY <1>10 DEF ServerAppliesPut
    <3>3. QED
      BY <1>0, <2>1, <3>1, <3>2
  <2>5. UNCHANGED <<world, described, counted, total, open, asking, icon, txs, batch, reads, last, taps, drops,
                    kills>>
    BY <1>10 DEF ServerAppliesPut
  <2>6. QED
    BY <2>3, <2>4, <2>5
<1>11. ASSUME NEW d \in Device, AckPut(d)
       PROVE  TypeOK' /\ Calls'
  <2>1. Pairs(Acked(link[d]), UserOf[d])
    BY <1>0, <1>11, LinkAcks DEF AckPut
  <2>2. link' \in [Device -> LinkOf(Put)] /\ \A e \in Device : Pairs(link'[e], UserOf[e])
    <3>1. Acked(link[d]) \in LinkOf(Put)
      BY <2>1 DEF Pairs
    <3>2. link' = [link EXCEPT ![d] = Acked(link[d])]
      BY <1>11 DEF AckPut
    <3>3. QED
      BY <1>0, <2>1, <3>1, <3>2
  <2>3. UNCHANGED <<world, described, counted, total, who, liked, open, asking, icon, txs, batch, reads, last,
                    taps, drops, kills>>
    BY <1>11 DEF AckPut
  <2>4. QED
    BY <2>2, <2>3
<1>12. ASSUME NEW d \in Device, Kill(d)
       PROVE  TypeOK' /\ Calls'
  <2>1. Pairs(IdleLink, UserOf[d]) /\ IdleLink \in LinkOf(Put)
    BY LinkStarts DEF Pairs
  <2>2. txs' \in [Device -> Seq({1, -1})] /\ \A e \in Device : batch'[e] <= Len(txs'[e])
    BY <1>0, <1>12 DEF Kill
  <2>3. QED
    BY SMTT(60), <1>12, <2>1, <2>2 DEF Kill
<1>13. CASE PostDeleted
  <2>1. /\ "delete" \in world.faults /\ described' = FALSE /\ counted' = FALSE /\ total' = 0 /\ who' = {}
        /\ UNCHANGED <<world, liked, open, asking, icon, last, txs, batch, reads, link, taps, drops, kills>>
    BY <1>13 DEF PostDeleted
  <2>2. /\ described' \in BOOLEAN /\ counted' \in BOOLEAN /\ who' \in SUBSET Account
        /\ total' \in Int
    <3>1. described' \in BOOLEAN /\ counted' \in BOOLEAN
      BY <2>1, Zenon
    <3>2. who' \in SUBSET Account
      BY <2>1
    <3>3. total' \in Int
      BY <2>1
    <3>4. QED
      BY <3>1, <3>2, <3>3
  <2>3. TypeOK'
    BY <2>1, <2>2
  <2>4. QED
    BY <2>1, <2>3
<1>14. CASE UNCHANGED vars
  BY <1>14
<1>15. QED
  BY <1>1, <1>2, <1>3, <1>5, <1>7, <1>8, <1>9, <1>10, <1>11, <1>12, <1>13, <1>14 DEF Next

-----------------------------------------------------------------------------
(* The records *)

\* Only what is recorded of u matters to its link.
LEMMA SameRecorded ==
  ASSUME NEW l, NEW u, NEW W, NEW K, NEW X, NEW Y, u \in X <=> u \in W, u \in Y <=> u \in K
  PROVE  /\ Recorded(l, u, W, K) => Recorded(l, u, X, Y)
         /\ InTheEnd(l, u, X) <=> InTheEnd(l, u, W)
BY DEF Recorded, InTheEnd, Holds

\* No step but a kill makes the two records disagree for good; and until the device itself
\* writes records, what they will say in the end stays the same.
LEMMA RecordsKept ==
  ASSUME TypeOK, Calls, Records, [Next]_vars, NEW e \in Device, described', OnePhone(e)
  PROVE  /\ described
         /\ Recorded(link'[e], UserOf[e], who', liked')
         /\ kills'[e] = 0 /\ link'[e].puts = <<>> => (UserOf[e] \in who' <=> UserOf[e] \in liked')
         /\ \/ InTheEnd(link'[e], UserOf[e], who') <=> InTheEnd(link[e], UserOf[e], who)
            \/ ReadBackAnswer(e) \/ Kill(e)
<1> DEFINE u == UserOf[e]
           Good == /\ Recorded(link'[e], u, who', liked')
                   /\ kills'[e] = 0 /\ link'[e].puts = <<>> => (u \in who' <=> u \in liked')
                   /\ \/ InTheEnd(link'[e], u, who') <=> InTheEnd(link[e], u, who)
                      \/ ReadBackAnswer(e) \/ Kill(e)
<1>0. /\ \A d \in Device : Pairs(link[d], UserOf[d])
      /\ link \in [Device -> LinkOf(Put)] /\ kills \in [Device -> Nat]
  BY DEF Calls, TypeOK
<1>1. described
  BY DEF Next, OpenPost, ClosePost, TapLike, TapOffline, LikedPostsAnswer, ServerRunsTransactions,
         TransactionsCommit, TransactionsAbort, ReadBackAnswer, ServerAppliesPut, AckPut,
         DropConnection, Kill, PostDeleted, vars, server
<1>2. /\ Recorded(link[e], u, who, liked)
      /\ kills[e] = 0 /\ link[e].puts = <<>> => (u \in who <=> u \in liked)
  BY <1>1 DEF Records
<1>3. ASSUME UNCHANGED <<who, liked>>, link'[e] = link[e], kills'[e] = 0 => kills[e] = 0
      PROVE  Good
  BY <1>2, <1>3
<1>4. ASSUME NEW d \in Device, ReadBackAnswer(d)
      PROVE  Good
  <2>1. UNCHANGED <<who, liked, kills>>
    BY <1>4 DEF ReadBackAnswer, server
  <2>2. CASE UNCHANGED link \/ (d # e /\ WriteRecords(d))
    <3>1. link'[e] = link[e]
      BY <1>0, <2>2 DEF WriteRecords
    <3>2. QED
      BY <1>3, <2>1, <3>1
  <2>3. CASE d = e /\ WriteRecords(d)
    <3>1. PICK m : m = WithRecords(link[e], e, Head(reads[e])) /\ link'[e] = m
      BY <1>0, <2>3 DEF WriteRecords, WithRecords
    <3>2. Recorded(m, u, who, liked) /\ m.puts # <<>>
      BY <1>0, <1>2, <3>1, LinkEnqueues
    <3>3. QED
      BY <1>4, <2>1, <2>3, <3>1, <3>2
  <2>4. QED
    BY <1>4, <2>2, <2>3 DEF ReadBackAnswer
<1>5. ASSUME NEW d \in Device, ServerAppliesPut(d)
      PROVE  Good
  <2>1. /\ CanApply(link[d]) /\ Pairs(link[d], UserOf[d])
        /\ link' = [link EXCEPT ![d] = Applied(link[d])] /\ kills' = kills
    BY <1>0, <1>5 DEF ServerAppliesPut
  <2>2. NextPut(link[d]).user = UserOf[d] /\ NextPut(link[d]) \in Put
    BY <2>1, LinkApplies
  <2>3. IF NextPut(link[d]).field = Liker
        THEN who' = WithUser(who, NextPut(link[d])) /\ liked' = liked
        ELSE liked' = WithUser(liked, NextPut(link[d])) /\ who' = who
    BY <1>5 DEF ServerAppliesPut, Liker
  <2>4. CASE d = e
    <3>1. Recorded(Applied(link[e]), u, who', liked')
      BY <1>2, <2>1, <2>3, <2>4, PutRecorded
    <3>2. Applied(link[e]).puts = link[e].puts /\ link[e].puts # <<>>
      BY <2>1, <2>4, LinkApplies
    <3>3. link'[e] = Applied(link[e])
      BY <1>0, <2>1, <2>4
    <3>4. QED
      BY <3>1, <3>2, <3>3 DEF InTheEnd
  <2>5. CASE d # e
    <3>1. link'[e] = link[e]
      BY <1>0, <2>1, <2>5
    <3>2. NextPut(link[d]).user # u
      BY <2>2, <2>5 DEF OnePhone
    <3>3. (u \in who' <=> u \in who) /\ (u \in liked' <=> u \in liked)
      BY <2>3, <3>2, OthersRecords
    <3>4. /\ Recorded(link[e], u, who', liked')
          /\ InTheEnd(link[e], u, who') <=> InTheEnd(link[e], u, who)
      BY <1>2, <3>3, SameRecorded
    <3>5. QED
      BY <1>2, <2>1, <3>1, <3>3, <3>4
  <2>6. QED
    BY <2>4, <2>5
<1>6. ASSUME NEW d \in Device, AckPut(d)
      PROVE  Good
  <2>1. UNCHANGED <<who, liked, kills>> /\ CanAck(link[d]) /\ link' = [link EXCEPT ![d] = Acked(link[d])]
    BY <1>6 DEF AckPut, server
  <2>2. CASE d # e
    BY <1>0, <1>3, <2>1, <2>2
  <2>3. CASE d = e
    <3>1. /\ Recorded(Acked(link[e]), u, who, liked)
          /\ InTheEnd(Acked(link[e]), u, who) <=> InTheEnd(link[e], u, who)
          /\ Acked(link[e]).puts = <<>> => (u \in who <=> u \in liked)
      BY <1>0, <1>2, <2>1, <2>3, LinkAcks
    <3>2. link'[e] = Acked(link[e])
      BY <1>0, <2>1, <2>3
    <3>3. QED
      BY <2>1, <3>1, <3>2
  <2>4. QED
    BY <2>2, <2>3
<1>7. ASSUME NEW d \in Device, DropConnection(d)
      PROVE  Good
  <2>1. UNCHANGED <<who, liked, kills>> /\ link' = [link EXCEPT ![d] = Resent(link[d])]
    BY <1>7 DEF DropConnection, server
  <2>2. CASE d # e
    BY <1>0, <1>3, <2>1, <2>2
  <2>3. CASE d = e
    <3>1. Recorded(Resent(link[e]), u, who, liked) /\ Resent(link[e]).puts = link[e].puts
      BY <1>0, <1>2, LinkResends
    <3>2. link'[e] = Resent(link[e])
      BY <1>0, <2>1, <2>3
    <3>3. QED
      BY <1>2, <2>1, <3>1, <3>2 DEF InTheEnd
  <2>4. QED
    BY <2>2, <2>3
<1>8. ASSUME NEW d \in Device, Kill(d)
      PROVE  Good
  <2>1. /\ UNCHANGED <<who, liked>> /\ link' = [link EXCEPT ![d] = IdleLink]
        /\ kills' = [kills EXCEPT ![d] = kills[d] + 1]
    BY <1>8 DEF Kill, server
  <2>2. CASE d # e
    BY <1>0, <1>3, <2>1, <2>2
  <2>3. CASE d = e
    <3>1. Recorded(IdleLink, u, who, liked) /\ link'[e] = IdleLink
      BY <1>0, <2>1, <2>3, LinkStarts
    <3>2. kills'[e] # 0
      BY <1>0, <2>1, <2>3
    <3>3. QED
      BY <1>8, <2>1, <2>3, <3>1, <3>2
  <2>4. QED
    BY <2>2, <2>3
<1>9. ASSUME PostDeleted
      PROVE  Good
  BY <1>9 DEF PostDeleted
<1>10. ASSUME NEW d \in Device,
              \/ OpenPost(d) \/ ClosePost(d) \/ TapLike(d) \/ TapOffline(d) \/ LikedPostsAnswer(d)
              \/ ServerRunsTransactions(d) \/ TransactionsCommit(d) \/ TransactionsAbort(d)
       PROVE  Good
  <2>1. UNCHANGED <<who, liked, link, kills>>
    BY <1>10 DEF OpenPost, ClosePost, TapLike, TapOffline, LikedPostsAnswer, ServerRunsTransactions,
                 TransactionsCommit, TransactionsAbort, server
  <2>2. QED
    BY <1>3, <2>1
<1>11. ASSUME UNCHANGED vars
       PROVE  Good
  <2>1. UNCHANGED <<who, liked, link, kills>>
    BY <1>11 DEF vars, server
  <2>2. QED
    BY <1>3, <2>1
<1> HIDE DEF Good
<1>12. Good
  BY <1>4, <1>5, <1>6, <1>7, <1>8, <1>9, <1>10, <1>11 DEF Next
<1>13. QED
  BY <1>1, <1>12 DEF Good

-----------------------------------------------------------------------------
(* What the taps want *)

\* A step of another phone, or of nobody, leaves this one's calls and screen alone.
LEMMA OthersLeave ==
  ASSUME TypeOK, NEW e \in Device,
         \/ UNCHANGED vars \/ PostDeleted
         \/ \E d \in Device \ {e} :
              \/ OpenPost(d) \/ ClosePost(d) \/ TapLike(d) \/ TapOffline(d) \/ LikedPostsAnswer(d)
              \/ ServerRunsTransactions(d) \/ TransactionsCommit(d) \/ TransactionsAbort(d)
              \/ ReadBackAnswer(d) \/ ServerAppliesPut(d) \/ AckPut(d) \/ DropConnection(d) \/ Kill(d)
  PROVE  /\ txs'[e] = txs[e] /\ reads'[e] = reads[e] /\ link'[e] = link[e]
         /\ icon'[e] = icon[e] /\ last'[e] = last[e]
         /\ e \in open' <=> e \in open
         /\ e \in asking' <=> e \in asking
<1> USE DEF TypeOK
<1>1. CASE UNCHANGED vars \/ PostDeleted
  BY <1>1 DEF vars, view, calls, PostDeleted
<1>2. ASSUME NEW d \in Device \ {e},
             \/ OpenPost(d) \/ ClosePost(d) \/ TapLike(d) \/ TapOffline(d) \/ LikedPostsAnswer(d)
      PROVE  /\ txs'[e] = txs[e] /\ reads'[e] = reads[e] /\ link'[e] = link[e]
             /\ icon'[e] = icon[e] /\ last'[e] = last[e]
             /\ e \in open' <=> e \in open
             /\ e \in asking' <=> e \in asking
  BY <1>2 DEF OpenPost, ClosePost, TapLike, TapOffline, LikedPostsAnswer, calls
<1>3. ASSUME NEW d \in Device \ {e},
             \/ ServerRunsTransactions(d) \/ TransactionsCommit(d) \/ TransactionsAbort(d)
             \/ ReadBackAnswer(d) \/ ServerAppliesPut(d) \/ AckPut(d) \/ DropConnection(d)
      PROVE  /\ txs'[e] = txs[e] /\ reads'[e] = reads[e] /\ link'[e] = link[e]
             /\ last'[e] = last[e] /\ UNCHANGED view
  <2>1. CASE ServerRunsTransactions(d) \/ TransactionsCommit(d) \/ TransactionsAbort(d)
    BY <2>1 DEF ServerRunsTransactions, TransactionsCommit, TransactionsAbort, Uncommitted, calls
  <2>2. CASE ReadBackAnswer(d)
    BY <2>2 DEF ReadBackAnswer, AnswerLast, WriteRecords, calls
  <2>3. CASE ServerAppliesPut(d) \/ AckPut(d)
    BY <2>3 DEF ServerAppliesPut, AckPut, calls
  <2>4. CASE DropConnection(d)
    BY <2>4 DEF DropConnection, Uncommitted, calls
  <2>5. QED
    BY <1>3, <2>1, <2>2, <2>3, <2>4
<1>4. ASSUME NEW d \in Device \ {e}, Kill(d)
      PROVE  /\ txs'[e] = txs[e] /\ reads'[e] = reads[e] /\ link'[e] = link[e]
             /\ icon'[e] = icon[e] /\ last'[e] = last[e]
             /\ e \in open' <=> e \in open
             /\ e \in asking' <=> e \in asking
  BY <1>4 DEF Kill
<1>5. QED
  BY <1>1, <1>2, <1>3, <1>4 DEF view

LEMMA WantedStays ==
  ASSUME TypeOK, Calls, Records, [Next]_vars, NEW e \in Device, described', OnePhone(e),
         e \in open', txs'[e] = txs[e], reads'[e] = reads[e]
  PROVE  Wanted(e)' <=> Wanted(e)
<1>1. ~Kill(e)
  BY DEF Kill
<1>2. ~ReadBackAnswer(e)
  <2>1. PICK r \in Seq(Steps) : r = reads[e] /\ Len(r) \in Nat
    BY DEF TypeOK, Steps
  <2>2. ASSUME ReadBackAnswer(e)
        PROVE  FALSE
    <3>1. r # <<>> /\ r = Tail(r)
      BY <2>1, <2>2 DEF ReadBackAnswer, TypeOK
    <3>2. Len(Tail(r)) = Len(r) - 1
      BY <3>1, HeadTailProperties
    <3>3. Len(r) = Len(r) - 1
      BY <3>1, <3>2, Zenon
    <3>4. QED
      BY <2>1, <3>3
  <2>3. QED
    BY <2>2
<1>3. InTheEnd(link'[e], UserOf[e], who') <=> InTheEnd(link[e], UserOf[e], who)
  BY <1>1, <1>2, RecordsKept
<1>4. QED
  BY <1>3 DEF Wanted

\* The completions of a batch hand its taps on to their read-backs.
LEMMA CommitWants ==
  ASSUME TypeOK, Calls, NEW e \in Device, TransactionsCommit(e)
  PROVE  /\ Wanted(e)' <=> Wanted(e)
         /\ txs[e] # <<>> /\ reads'[e] # <<>>
<1> DEFINE n == batch[e]
           s == txs[e]
           a == First(e, n)
           b == Rest(e, n)
<1>1. s \in Seq(Steps) /\ n \in 0..Len(s) /\ n > 0 /\ Len(s) \in Nat /\ reads[e] \in Seq(Steps)
  BY DEF TransactionsCommit, TypeOK, Calls, Steps
<1>2. txs'[e] = b /\ reads'[e] = reads[e] \o a
  BY DEF TransactionsCommit, TypeOK
<1>3. /\ a \in Seq(Steps) /\ Len(a) = n /\ a[n] = s[n]
      /\ n = Len(s) => b = <<>>
      /\ n < Len(s) => b # <<>> /\ b[Len(b)] = s[Len(s)]
  BY <1>1, SplitFacts DEF First, Rest
<1> HIDE DEF a, b
<1>4. PICK k \in Nat : k = Len(reads[e]) /\ Len(reads[e] \o a) = k + n /\ (reads[e] \o a)[k + n] = a[n]
  <2>1. PICK k \in Nat : k = Len(reads[e])
    BY <1>1
  <2>2. reads[e] \in Seq(Steps) /\ a \in Seq(Steps) /\ Len(a) = n
    BY <1>1, <1>3
  <2>3. /\ Len(reads[e] \o a) = k + n
        /\ \A i \in 1..k + n : ~(i <= k) => (reads[e] \o a)[i] = a[i - k]
    <3>1. \A f, g \in Seq(Steps) :
            /\ Len(f \o g) = Len(f) + Len(g)
            /\ \A i \in 1..Len(f) + Len(g) : (f \o g)[i] = IF i <= Len(f) THEN f[i] ELSE g[i - Len(f)]
      BY ConcatProperties
    <3>2. QED
      BY ZenonT(60), <2>1, <2>2, <3>1
  <2>4. (reads[e] \o a)[k + n] = a[n]
    <3>1. PICK t \in 1..k + n : t = k + n /\ ~(t <= k) /\ t - k = n
      BY <1>1
    <3>2. (reads[e] \o a)[t] = a[t - k]
      BY <2>3, <3>1
    <3>3. QED
      BY <3>1, <3>2, Zenon
  <2>5. QED
    BY <2>1, <2>3, <2>4
<1>5. s # <<>> /\ reads'[e] # <<>>
  <2>1. Len(reads'[e]) # 0 /\ Len(s) # 0
    BY <1>1, <1>2, <1>4
  <2>2. QED
    BY <2>1
<1>6. CASE n = Len(s)
  <2>1. Wanted(e)' <=> a[n] = 1
    BY <1>2, <1>3, <1>4, <1>5, <1>6 DEF Wanted
  <2>2. Wanted(e) <=> s[n] = 1
    BY <1>5, <1>6 DEF Wanted
  <2>3. QED
    BY <1>3, <1>5, <2>1, <2>2
<1>7. CASE n # Len(s)
  <2>1. n < Len(s)
    BY <1>1, <1>7
  <2>2. Wanted(e)' <=> s[Len(s)] = 1
    BY <1>2, <1>3, <2>1 DEF Wanted
  <2>3. Wanted(e) <=> s[Len(s)] = 1
    BY <1>5 DEF Wanted
  <2>4. QED
    BY <1>5, <2>2, <2>3
<1>8. QED
  BY <1>6, <1>7

\* The oldest transactions end uncommitted, but not the last tap's.
LEMMA UncommittedLeaves ==
  ASSUME TypeOK, NEW e \in Device, NEW n \in 0..Len(txs[e]), Uncommitted(e, n),
         n < Len(txs[e]) \/ n = 0
  PROVE  /\ txs'[e] = <<>> <=> txs[e] = <<>>
         /\ txs[e] # <<>> => txs'[e][Len(txs'[e])] = txs[e][Len(txs[e])]
<1> DEFINE s == txs[e]
           b == Rest(e, n)
<1>1. s \in Seq(Steps) /\ Len(s) \in Nat
  BY DEF TypeOK, Steps
<1>2. txs'[e] = b
  BY DEF Uncommitted, TypeOK
<1>3. /\ n = Len(s) => b = <<>>
      /\ n < Len(s) => b # <<>> /\ b[Len(b)] = s[Len(s)]
  BY <1>1, SplitFacts DEF Rest
<1> HIDE DEF b
<1>4. CASE n < Len(s)
  <2>1. s # <<>>
    BY <1>1, <1>4
  <2>2. QED
    BY <1>2, <1>3, <1>4, <2>1
<1>5. CASE ~(n < Len(s))
  <2>1. n = 0 /\ Len(s) = 0
    BY <1>1, <1>5
  <2>2. s = <<>> /\ b = <<>>
    BY <1>1, <1>3, <2>1
  <2>3. QED
    BY <1>2, <2>2
<1>6. QED
  BY <1>4, <1>5

LEMMA UncommittedWants ==
  ASSUME TypeOK, Calls, Records, [Next]_vars, NEW e \in Device, described', OnePhone(e),
         NEW n \in 0..Len(txs[e]), Uncommitted(e, n), n < Len(txs[e]) \/ n = 0,
         e \in open', reads'[e] = reads[e]
  PROVE  Wanted(e)' <=> Wanted(e)
<1>1. /\ txs'[e] = <<>> <=> txs[e] = <<>>
      /\ txs[e] # <<>> => txs'[e][Len(txs'[e])] = txs[e][Len(txs[e])]
  BY UncommittedLeaves
<1>2. CASE txs[e] = <<>>
  BY <1>1, <1>2, WantedStays
<1>3. CASE txs[e] # <<>>
  BY <1>1, <1>3 DEF Wanted
<1>4. QED
  BY <1>2, <1>3

\* A read-back's answer writes what its tap wanted.
LEMMA ReadBackWants ==
  ASSUME TypeOK, Calls, NEW e \in Device, ReadBackAnswer(e),
         txs[e] # <<>> \/ Len(reads[e]) # 1 \/ WriteRecords(e)
  PROVE  /\ Wanted(e)' <=> Wanted(e)
         /\ txs'[e] = txs[e] /\ reads[e] # <<>>
         /\ reads'[e] = <<>> <=> Len(reads[e]) = 1
<1> DEFINE r == reads[e]
           q == Tail(r)
<1>1. r \in Seq(Steps) /\ r # <<>> /\ reads'[e] = q /\ txs' = txs
  BY DEF ReadBackAnswer, TypeOK, Steps
<1>2. PICK n \in Nat : n = Len(r) /\ n >= 1
  BY <1>1
<1>3. /\ q \in Seq(Steps) /\ Len(q) = n - 1 /\ \A i \in 1..n - 1 : q[i] = r[i + 1]
      /\ Head(r) = r[1]
  BY <1>1, <1>2, HeadTailProperties
<1> HIDE DEF q
<1>4. CASE n = 1
  <2>1. q = <<>>
    <3>1. q \in Seq(Steps) /\ Len(q) = 0
      BY <1>3, <1>4
    <3>2. QED
      BY <3>1
  <2>2. CASE txs[e] # <<>>
    BY <1>1, <1>2, <1>4, <2>1, <2>2 DEF Wanted
  <2>3. CASE txs[e] = <<>>
    <3>1. WriteRecords(e)
      BY <1>2, <1>4, <2>3
    <3>2. link'[e] = WithRecords(link[e], e, Head(r))
      BY <3>1 DEF WriteRecords, WithRecords, TypeOK
    <3>3. InTheEnd(WithRecords(link[e], e, Head(r)), UserOf[e], who') <=> Head(r) = 1
      BY LinkEnqueues DEF Calls
    <3>4. Wanted(e)' <=> Head(r) = 1
      BY <1>1, <2>1, <2>3, <3>2, <3>3 DEF Wanted
    <3>5. Wanted(e) <=> r[1] = 1
      BY <1>1, <1>2, <1>4, <2>3 DEF Wanted
    <3>6. QED
      BY <1>1, <1>2, <1>3, <1>4, <2>1, <3>4, <3>5
  <2>4. QED
    BY <2>2, <2>3
<1>5. CASE n # 1
  <2>1. PICK m \in Nat : m = n - 1 /\ m >= 1 /\ m + 1 = n
    <3>1. \A j \in Nat : j >= 1 /\ j # 1 => j - 1 \in Nat /\ j - 1 >= 1 /\ j - 1 + 1 = j
      OBVIOUS
    <3>2. n - 1 \in Nat /\ n - 1 >= 1 /\ n - 1 + 1 = n
      BY <1>2, <1>5, <3>1, Zenon
    <3>3. QED
      BY <3>2, Zenon
  <2>2. q[m] = r[n] /\ Len(q) = m
    <3>1. m \in 1..n - 1
      BY <2>1
    <3>2. q[m] = r[m + 1] /\ Len(q) = m
      BY <1>3, <2>1, <3>1
    <3>3. QED
      BY <2>1, <3>2
  <2>3. q # <<>>
    <3>1. Len(q) # 0
      BY <2>1, <2>2
    <3>2. QED
      BY <3>1
  <2>4. Wanted(e)' <=> Wanted(e)
    BY <1>1, <1>2, <2>2, <2>3 DEF Wanted
  <2>5. QED
    BY <1>1, <1>2, <1>5, <2>3, <2>4
<1>6. QED
  BY <1>4, <1>5

-----------------------------------------------------------------------------
(* The screens *)

\* An open screen keeps showing its last tap, and its records if nothing disturbs it.
LEMMA ScreenKept ==
  ASSUME TypeOK, TypeOK', LikesInv, Calls', [Next]_vars, NEW e \in Device, e \in open'
  PROVE  LastTap(e)' /\ Shown(e)'
<1> DEFINE Good == LastTap(e)' /\ Shown(e)'
<1>0. /\ Calls /\ Records /\ txs[e] \in Seq(Steps) /\ reads[e] \in Seq(Steps)
      /\ Len(txs[e]) \in Nat /\ batch[e] \in 0..Len(txs[e])
      /\ txs \in [Device -> Seq(Steps)] /\ reads \in [Device -> Seq(Steps)]
      /\ icon \in [Device -> Icon] /\ link \in [Device -> LinkOf(Put)]
      /\ last \in [Device -> {"none", "pending", "committed", "refused"}]
      /\ e \in open => LastTap(e) /\ Shown(e)
  BY DEF LikesInv, Calls, Screens, TypeOK, Steps
<1>1. /\ described' /\ OnePhone(e) => described
      /\ world' = world
  <2>1. described' /\ OnePhone(e) => described
    BY <1>0, RecordsKept
  <2>2. world' = world
    BY DEF Next, OpenPost, ClosePost, TapLike, TapOffline, LikedPostsAnswer, ServerRunsTransactions,
           TransactionsCommit, TransactionsAbort, ReadBackAnswer, ServerAppliesPut, AckPut,
           DropConnection, Kill, PostDeleted, vars
  <2>3. QED
    BY <2>1, <2>2
<1>2. ASSUME Undisturbed'
      PROVE  /\ Undisturbed /\ world.habits = {} /\ world.faults = {}
             /\ described /\ described' /\ counted /\ kills[e] = 0
  BY <1>0, <1>1, <1>2 DEF Undisturbed, Calls
<1>3. ASSUME txs'[e] = txs[e], reads'[e] = reads[e], icon'[e] = icon[e], last'[e] = last[e],
             e \in open, e \in asking' <=> e \in asking,
             link'[e].puts = link[e].puts \/ link[e].puts # <<>>
      PROVE  Good
  <2>1. described' /\ OnePhone(e) => (Wanted(e)' <=> Wanted(e))
    BY <1>0, <1>3, WantedStays
  <2>2. LastTap(e)'
    BY <1>0, <1>1, <1>3, <2>1 DEF LastTap
  <2>3. Quiet(e) => Quiet(e)'
    BY <1>3 DEF Quiet
  <2>4. Shown(e)'
    BY <1>0, <1>2, <1>3, <2>1, <2>3 DEF Shown
  <2>5. QED
    BY <2>2, <2>4
<1>4. ASSUME OpenPost(e)
      PROVE  Good
  <2>1. last'[e] = "none" /\ icon'[e] = "unlike" /\ UNCHANGED <<txs, reads, link>>
    BY <1>0, <1>4 DEF OpenPost, calls
  <2>2. LastTap(e)'
    BY <2>1 DEF LastTap
  <2>3. Undisturbed' => Quiet(e)' /\ e \in asking'
    BY <1>2, <1>4, <2>1 DEF OpenPost, Quiet
  <2>4. QED
    BY <2>1, <2>2, <2>3 DEF Shown
<1>5. ASSUME LikedPostsAnswer(e)
      PROVE  Good
  <2>1. /\ e \in asking /\ e \in open /\ asking' = asking \ {e}
        /\ UNCHANGED <<open, described, who, txs, reads, link, kills>>
    BY <1>5 DEF LikedPostsAnswer, calls, server
  <2>2. PICK shown \in (IF SeesLiked(e) THEN {"like"} ELSE {"unlike", icon[e]}) :
          /\ icon'[e] = shown
          /\ last'[e] = IF shown = icon[e] THEN last[e] ELSE "none"
    BY <1>0, <1>5 DEF LikedPostsAnswer
  <2>3. described' /\ OnePhone(e) => (Wanted(e)' <=> Wanted(e))
    BY <1>0, <2>1, WantedStays
  <2>4. LastTap(e)'
    BY <1>0, <1>1, <2>1, <2>2, <2>3 DEF LastTap
  <2>5. ASSUME Undisturbed', OnePhone(e)
        PROVE  icon'[e] = "like" <=> Wanted(e)'
    <3>1. Quiet(e) /\ icon[e] = "unlike" /\ kills[e] = 0 /\ described /\ described'
      BY <1>0, <1>2, <2>1, <2>5 DEF Shown
    <3>2. SeesLiked(e) <=> UserOf[e] \in liked
      <4>1. DOMAIN link[e].puts = {}
        BY <3>1 DEF Quiet
      <4>2. QED
        BY <4>1 DEF SeesLiked
    <3>3. UserOf[e] \in who <=> UserOf[e] \in liked
      BY <1>0, <2>5, <3>1 DEF Records, Quiet
    <3>4. Wanted(e) <=> UserOf[e] \in who
      BY <3>1 DEF Wanted, Quiet, InTheEnd
    <3>5. icon'[e] = "like" <=> SeesLiked(e)
      BY <2>2, <3>1
    <3>6. QED
      BY <2>3, <2>5, <3>1, <3>2, <3>3, <3>4, <3>5
  <2>6. QED
    BY <2>1, <2>4, <2>5 DEF Shown
<1>6. ASSUME TapLike(e)
      PROVE  Good
  <2>1. /\ e \in open /\ asking' = asking /\ last'[e] = "pending" /\ icon'[e] = Flipped(e)
        /\ txs'[e] = Append(txs[e], Step(e))
        /\ e \notin asking \/ "early_tap" \in world.habits
    BY <1>0, <1>6 DEF TapLike
  <2>2. txs'[e] # <<>> /\ txs'[e][Len(txs'[e])] = Step(e)
    <3>1. Step(e) \in Steps
      BY DEF Step, Steps
    <3>2. PICK k \in Nat : k = Len(txs[e]) + 1
      BY <1>0
    <3>3. /\ Append(txs[e], Step(e)) # <<>> /\ Len(Append(txs[e], Step(e))) = k
          /\ Append(txs[e], Step(e))[k] = Step(e)
      <4>1. \A f \in Seq(Steps), x \in Steps :
              /\ Append(f, x) \in Seq(Steps) /\ Append(f, x) # <<>> /\ Len(Append(f, x)) = Len(f) + 1
              /\ Append(f, x)[Len(f) + 1] = x
        BY AppendProperties
      <4>2. QED
        BY <1>0, <3>1, <3>2, <4>1, Zenon
    <3>4. txs'[e] = Append(txs[e], Step(e))
      BY <2>1
    <3>5. QED
      BY <3>3, <3>4, Zenon
  <2>3. icon'[e] = "like" <=> Wanted(e)'
    <3>1. icon'[e] = "like" <=> icon[e] = "unlike"
      BY <2>1 DEF Flipped
    <3>2. Step(e) = 1 <=> icon[e] = "unlike"
      BY DEF Step
    <3>3. Wanted(e)' <=> Step(e) = 1
      BY <2>2 DEF Wanted
    <3>4. QED
      BY <3>1, <3>2, <3>3
  <2>4. LastTap(e)'
    BY <2>1, <2>2, <2>3 DEF LastTap
  <2>5. Undisturbed' => e \notin asking'
    BY <1>2, <2>1
  <2>6. QED
    BY <2>3, <2>4, <2>5 DEF Shown
<1>7. ASSUME TapOffline(e)
      PROVE  Good
  <2>1. last'[e] = "refused" /\ "offline" \in world.habits
    BY <1>0, <1>7 DEF TapOffline
  <2>2. LastTap(e)'
    BY <2>1 DEF LastTap
  <2>3. Shown(e)'
    BY <1>2, <2>1 DEF Shown
  <2>4. QED
    BY <2>2, <2>3
<1>8. ASSUME TransactionsCommit(e)
      PROVE  Good
  <2>1. UNCHANGED <<open, asking, icon, last>>
    BY <1>8 DEF TransactionsCommit, view
  <2>2. (Wanted(e)' <=> Wanted(e)) /\ txs[e] # <<>> /\ reads'[e] # <<>>
    BY <1>0, <1>8, CommitWants
  <2>3. LastTap(e)'
    BY <1>0, <1>1, <2>1, <2>2 DEF LastTap
  <2>4. Shown(e)'
    BY <1>0, <1>2, <2>1, <2>2 DEF Shown, Quiet
  <2>5. QED
    BY <2>3, <2>4
<1>9. ASSUME NEW n \in 0..Len(txs[e]), Uncommitted(e, n), UNCHANGED <<open, icon, reads>>,
             world.faults # {}
      PROVE  Good
  <2>1. last'[e] = IF last[e] = "pending" /\ n > 0 /\ n = Len(txs[e]) THEN "refused" ELSE last[e]
    BY <1>0, <1>9 DEF Uncommitted
  <2>2. Shown(e)'
    BY <1>2, <1>9 DEF Shown
  <2>3. CASE n < Len(txs[e]) \/ n = 0
    <3>1. /\ described' /\ OnePhone(e) => (Wanted(e)' <=> Wanted(e))
          /\ txs'[e] = <<>> <=> txs[e] = <<>>
      BY <1>0, <1>9, <2>3, UncommittedLeaves, UncommittedWants
    <3>2. last'[e] \in {last[e], "refused"} /\ (described' /\ OnePhone(e) => described)
      BY <1>1, <2>1
    <3>3. LastTap(e)'
      <4>1. last'[e] = "pending" => txs[e] # <<>> \/ reads[e] # <<>>
        BY <1>0, <1>9, <3>2 DEF LastTap
      <4>2. last'[e] = "committed" => txs[e] = <<>> /\ reads[e] = <<>>
        BY <1>0, <1>9, <3>2 DEF LastTap
      <4>3. last'[e] \in {"pending", "committed"} /\ described' /\ OnePhone(e) =>
              (icon'[e] = "like" <=> Wanted(e)')
        BY <1>0, <1>9, <3>1, <3>2 DEF LastTap
      <4>4. QED
        BY <1>9, <3>1, <4>1, <4>2, <4>3 DEF LastTap
    <3>4. QED
      BY <2>2, <3>3
  <2>4. CASE ~(n < Len(txs[e]) \/ n = 0)
    <3>1. n > 0 /\ n = Len(txs[e])
      BY <1>0, <2>4
    <3>2. txs[e] # <<>>
      BY <3>1
    <3>3. last'[e] # "pending" /\ last'[e] # "committed"
      BY <1>0, <1>9, <2>1, <3>1, <3>2 DEF LastTap
    <3>4. LastTap(e)'
      BY <3>3 DEF LastTap
    <3>5. QED
      BY <2>2, <3>4
  <2>5. QED
    BY <2>3, <2>4
<1>10. ASSUME TransactionsAbort(e)
       PROVE  Good
  <2>1. PICK n \in 1..Len(txs[e]) : Uncommitted(e, n)
    BY <1>10 DEF TransactionsAbort
  <2>2. n \in 0..Len(txs[e]) /\ UNCHANGED <<open, icon, reads>> /\ world.faults # {}
    BY <1>10 DEF TransactionsAbort, view
  <2>3. QED
    BY <1>9, <2>1, <2>2
<1>11. ASSUME DropConnection(e)
       PROVE  Good
  <2>1. PICK n \in Sent(e) : Uncommitted(e, n)
    BY <1>11 DEF DropConnection
  <2>2. n \in 0..Len(txs[e])
    BY <1>0 DEF Sent
  <2>3. UNCHANGED <<open, icon, reads>> /\ world.faults # {}
    BY <1>11 DEF DropConnection, view
  <2>4. QED
    BY <1>9, <2>1, <2>2, <2>3
<1>12. ASSUME ReadBackAnswer(e)
       PROVE  Good
  <2>1. /\ UNCHANGED <<open, asking, icon>> /\ reads[e] # <<>> /\ e \in open
        /\ \/ WriteRecords(e) /\ AnswerLast(e, "committed")
           \/ ~SeesCounter(e) /\ AnswerLast(e, "refused")
    BY <1>12 DEF ReadBackAnswer, view
  <2>2. txs[e] # <<>> \/ Len(reads[e]) # 1 \/ WriteRecords(e) =>
          /\ Wanted(e)' <=> Wanted(e)
          /\ txs'[e] = txs[e]
          /\ reads'[e] = <<>> <=> Len(reads[e]) = 1
    BY <1>0, <1>12, ReadBackWants
  <2>3. last[e] # "committed"
    BY <1>0, <2>1 DEF LastTap
  <2>4. LastTap(e)'
    <3>1. CASE WriteRecords(e) /\ AnswerLast(e, "committed")
      BY <1>0, <1>1, <2>1, <2>2, <2>3, <3>1 DEF LastTap, AnswerLast
    <3>2. CASE AnswerLast(e, "refused") /\ (txs[e] # <<>> \/ Len(reads[e]) # 1)
      BY <1>0, <1>1, <2>1, <2>2, <2>3, <3>2 DEF LastTap, AnswerLast
    <3>3. CASE AnswerLast(e, "refused") /\ txs[e] = <<>> /\ Len(reads[e]) = 1
      <4>1. last'[e] # "pending" /\ last'[e] # "committed"
        BY <1>0, <2>3, <3>3 DEF AnswerLast
      <4>2. QED
        BY <4>1 DEF LastTap
    <3>4. QED
      BY <2>1, <3>1, <3>2, <3>3
  <2>5. Shown(e)'
    <3>1. ASSUME Undisturbed', OnePhone(e)
          PROVE  WriteRecords(e) /\ e \notin asking /\ (icon[e] = "like" <=> Wanted(e))
      <4>1. WriteRecords(e)
        BY <1>2, <2>1, <3>1 DEF SeesCounter
      <4>2. Undisturbed /\ ~Quiet(e)
        BY <1>2, <2>1, <3>1 DEF Quiet
      <4>3. QED
        BY <1>0, <2>1, <3>1, <4>1, <4>2 DEF Shown
    <3>2. QED
      BY <2>1, <2>2, <3>1 DEF Shown
  <2>6. QED
    BY <2>4, <2>5
<1>13. ASSUME ServerRunsTransactions(e)
       PROVE  Good
  <2>1. UNCHANGED <<open, asking, icon, last, txs, reads, link>>
    BY <1>13 DEF ServerRunsTransactions, view
  <2>2. QED
    BY <1>3, <2>1
<1>14. ASSUME ServerAppliesPut(e) \/ AckPut(e)
       PROVE  Good
  <2>1. UNCHANGED <<open, asking, icon, last, txs, reads>> /\ link[e].puts # <<>>
    <3>1. UNCHANGED <<open, asking, icon, last, txs, reads>> /\ (CanApply(link[e]) \/ CanAck(link[e]))
      BY <1>14 DEF ServerAppliesPut, AckPut, view, calls
    <3>2. Pairs(link[e], UserOf[e])
      BY <1>0 DEF Calls
    <3>3. QED
      BY <3>1, <3>2, LinkApplies DEF CanAck, Pairs, LinkOf
  <2>2. QED
    BY <1>3, <2>1
<1>15. ASSUME \/ UNCHANGED vars \/ PostDeleted
              \/ \E d \in Device \ {e} :
                   \/ OpenPost(d) \/ ClosePost(d) \/ TapLike(d) \/ TapOffline(d) \/ LikedPostsAnswer(d)
                   \/ ServerRunsTransactions(d) \/ TransactionsCommit(d) \/ TransactionsAbort(d)
                   \/ ReadBackAnswer(d) \/ ServerAppliesPut(d) \/ AckPut(d) \/ DropConnection(d)
                   \/ Kill(d)
       PROVE  Good
  BY <1>3, <1>15, OthersLeave
<1>16. ASSUME ClosePost(e) \/ Kill(e)
       PROVE  Good
  BY <1>16 DEF ClosePost, Kill
<1> HIDE DEF Good
<1>17. Good
  BY <1>4, <1>5, <1>6, <1>7, <1>8, <1>10, <1>11, <1>12, <1>13, <1>14, <1>15, <1>16 DEF Next
<1>18. QED
  BY <1>17 DEF Good

-----------------------------------------------------------------------------
(* The theorems *)

LEMMA LikesStart ==
  ASSUME Init
  PROVE  TypeOK /\ LikesInv
<1>1. TypeOK /\ Calls
  BY TypesStart
<1>2. Records
  BY LinkStarts DEF Init, Records
<1>3. Screens
  BY DEF Init, Screens
<1>4. QED
  BY <1>1, <1>2, <1>3 DEF LikesInv

LEMMA LikesStep ==
  ASSUME TypeOK, LikesInv, [Next]_vars
  PROVE  TypeOK' /\ LikesInv'
<1>1. Calls /\ Records
  BY DEF LikesInv
<1>2. TypeOK' /\ Calls'
  BY <1>1, TypesKept
<1>3. Records'
  BY <1>1, RecordsKept DEF Records, OnePhone
<1>4. Screens'
  <2>1. open' \subseteq Device
    BY <1>2 DEF TypeOK
  <2>2. QED
    BY <1>2, <2>1, ScreenKept DEF Screens
<1>5. QED
  BY <1>2, <1>3, <1>4 DEF LikesInv

\* The inductive invariant: the records show what the puts and the taps under way
\* will make of them.
THEOREM LikesInvariant == Spec => [](TypeOK /\ LikesInv)
<1>1. Init => TypeOK /\ LikesInv
  BY LikesStart
<1>2. TypeOK /\ LikesInv /\ [Next]_vars => TypeOK' /\ LikesInv'
  BY LikesStep
<1>3. QED
  BY <1>1, <1>2, PTL DEF Spec

\* Every variable of the screens, the calls and the database keeps its type.
THEOREM LikesTypeCorrect == Spec => []TypeOK
<1>1. TypeOK /\ LikesInv => TypeOK
  OBVIOUS
<1>2. QED
  BY <1>1, LikesInvariant, PTL

\* Once nothing of a phone is under way, its user is in the post's user_who_liked exactly
\* if the post is in the user's liked_posts, whatever calls, drops and aborts came before.
THEOREM RecordsAlwaysAgree == Spec => []RecordsAgree
<1>1. TypeOK /\ LikesInv => RecordsAgree
  BY DEF LikesInv, Records, RecordsAgree, Quiet
<1>2. QED
  BY <1>1, LikesInvariant, PTL

\* Undisturbed, a screen at rest shows the like exactly when it is recorded.
THEOREM IconsShowLikes == Spec => []IconShowsLike
<1>1. TypeOK /\ LikesInv => IconShowsLike
  BY DEF LikesInv, Screens, Shown, IconShowsLike, Quiet, Wanted, InTheEnd
<1>2. QED
  BY <1>1, LikesInvariant, PTL

\* What a committed last tap shows is recorded, whatever became of the taps before it.
THEOREM LastTapsRecorded == Spec => []LastTapRecorded
<1>1. TypeOK /\ LikesInv => LastTapRecorded
  BY DEF LikesInv, Screens, LastTap, LastTapRecorded, Quiet, Wanted, InTheEnd
<1>2. QED
  BY <1>1, LikesInvariant, PTL

-----------------------------------------------------------------------------
(* Sums over the phones *)

\* Every non-empty set of numbers has a least one.
LEMMA LeastNumber ==
  ASSUME NEW T \in SUBSET Nat, T # {}
  PROVE  \E n \in T : \A m \in T : n <= m
<1> DEFINE R == {p \in Nat \X Nat : p[1] < p[2]}
<1>1. IsWellFoundedOn(R, Nat)
  <2>1. OpToRel(<, Nat) = R
    BY DEF OpToRel
  <2>2. QED
    BY <2>1, NatLessThanWellFounded
<1>2. PICK n \in T : \A m \in T : ~(<<m, n>> \in R)
  <2> HIDE DEF R
  <2> QED
    BY <1>1, WFMin
<1>3. \A m \in T : ~(m < n)
  BY <1>2
<1>4. \A m \in T : n <= m
  BY <1>3
<1>5. QED
  BY <1>4

\* Induction, over the set of the numbers that have a property.
LEMMA SetInduction ==
  ASSUME NEW T, 0 \in T, \A n \in Nat : n \in T => n + 1 \in T
  PROVE  Nat \subseteq T
<1>1. SUFFICES ASSUME Nat \ T # {} PROVE FALSE
  OBVIOUS
<1>2. PICK n \in Nat \ T : \A m \in Nat \ T : n <= m
  BY <1>1, LeastNumber
<1>3. n # 0 /\ n - 1 \in Nat /\ n - 1 < n
  BY <1>2
<1>4. n - 1 \in T
  BY <1>2, <1>3
<1>5. QED
  BY <1>2, <1>3, <1>4

\* x is at most n away from 0.
Near(x, n) == -n <= x /\ x <= n

\* One of a set's elements, and the sums of e over the subsets of its domain.
PickOf(s) == CHOOSE x \in s : TRUE
Partial(e, h) ==
  [s \in SUBSET (DOMAIN e) |->
     IF s = {} THEN 0 ELSE e[CHOOSE x \in s : TRUE] + h[s \ {CHOOSE x \in s : TRUE}]]
SumOf(e, s) == (CHOOSE h : h = Partial(e, h))[s]

\* SumOver's recursive function exists.
LEMMA PartialExists ==
  ASSUME NEW e, IsFiniteSet(DOMAIN e)
  PROVE  \E h : h = Partial(e, h)
<1> DEFINE D == DOMAIN e
           Small(n) == {s \in SUBSET D : Cardinality(s) <= n}
           Pick(s) == CHOOSE x \in s : TRUE
           Val(s, h) == IF s = {} THEN 0 ELSE e[Pick(s)] + h[s \ {Pick(s)}]
           Is(f, n) == f = [s \in Small(n) |-> Val(s, f)]
           T == {n \in Nat : \E f : Is(f, n)}
<1>0. \A s \in SUBSET D :
        /\ IsFiniteSet(s) /\ Cardinality(s) \in Nat
        /\ s = {} <=> Cardinality(s) = 0
        /\ s # {} => /\ Pick(s) \in s /\ s \ {Pick(s)} \in SUBSET D
                     /\ Cardinality(s \ {Pick(s)}) = Cardinality(s) - 1
  <2> SUFFICES ASSUME NEW s \in SUBSET D
               PROVE  /\ IsFiniteSet(s) /\ Cardinality(s) \in Nat
                      /\ s = {} <=> Cardinality(s) = 0
                      /\ s # {} => /\ Pick(s) \in s /\ s \ {Pick(s)} \in SUBSET D
                                   /\ Cardinality(s \ {Pick(s)}) = Cardinality(s) - 1
    OBVIOUS
  <2>1. IsFiniteSet(s)
    BY FS_Subset
  <2>2. Cardinality(s) \in Nat /\ (Cardinality(s) = 0 <=> s = {})
    BY <2>1, FS_CardinalityType, FS_EmptySet
  <2>3. s # {} => Pick(s) \in s
    OBVIOUS
  <2>4. s # {} => Cardinality(s \ {Pick(s)}) = Cardinality(s) - 1
    BY <2>1, <2>3, FS_RemoveElement
  <2>5. QED
    BY <2>1, <2>2, <2>3, <2>4
<1> HIDE DEF Pick
<1>1. 0 \in T
  <2>1. ASSUME NEW s \in Small(0) PROVE s = {}
    <3>1. s \in SUBSET D /\ Cardinality(s) <= 0
      OBVIOUS
    <3>2. Cardinality(s) \in Nat /\ (s = {} <=> Cardinality(s) = 0)
      BY <3>1, <1>0, Zenon
    <3>3. QED
      BY <3>1, <3>2
  <2>2. Is([s \in Small(0) |-> 0], 0)
    BY <2>1
  <2> HIDE DEF Is
  <2>3. QED
    BY <2>2
<1>2. ASSUME NEW n \in Nat, n \in T
      PROVE  n + 1 \in T
  <2>1. PICK f : Is(f, n)
    BY <1>2
  <2> DEFINE g == [s \in Small(n + 1) |-> IF s \in Small(n) THEN f[s] ELSE Val(s, f)]
  <2>2. \A s \in Small(n + 1) : g[s] = Val(s, g)
    <3> SUFFICES ASSUME NEW s \in Small(n + 1)
                 PROVE  g[s] = Val(s, g)
      OBVIOUS
    <3>1. s # {} => s \ {Pick(s)} \in Small(n) /\ s \ {Pick(s)} \in Small(n + 1)
      <4> SUFFICES ASSUME s # {}
                   PROVE  s \ {Pick(s)} \in Small(n) /\ s \ {Pick(s)} \in Small(n + 1)
        OBVIOUS
      <4> DEFINE r == s \ {Pick(s)}
      <4>0. s \in SUBSET D /\ s # {}
        OBVIOUS
      <4>1. r \in SUBSET D /\ Cardinality(r) = Cardinality(s) - 1 /\ Cardinality(s) \in Nat
        BY <1>0, <4>0
      <4>2. Cardinality(s) <= n + 1
        OBVIOUS
      <4> HIDE DEF r
      <4>3. r \in Small(n) /\ r \in Small(n + 1)
        BY <4>1, <4>2
      <4>4. QED
        BY <4>3 DEF r
    <3>2. s # {} => g[s \ {Pick(s)}] = f[s \ {Pick(s)}]
      BY <3>1
    <3>3. s \in Small(n) => f[s] = Val(s, f)
      <4> HIDE DEF Val, Small
      <4>1. QED
        BY <2>1
    <3>4. g[s] = Val(s, f)
      <4> HIDE DEF Val
      <4>1. QED
        BY <3>3
    <3> HIDE DEF g
    <3>5. QED
      BY <3>2, <3>4
  <2>3. \E h : Is(h, n + 1)
    <3>1. g = [s \in Small(n + 1) |-> Val(s, g)]
      <4> HIDE DEF Val, Small
      <4>1. QED
        BY <2>2
    <3>2. QED
      BY <3>1
  <2> HIDE DEF Is
  <2>4. QED
    BY <2>3
<1>3. Nat \subseteq T
  <2> HIDE DEF T
  <2> QED
    BY <1>1, <1>2, SetInduction
<1>4. Cardinality(D) \in Nat /\ Small(Cardinality(D)) = SUBSET D
  <2>1. \A s \in SUBSET D : Cardinality(s) <= Cardinality(D)
    BY FS_Subset
  <2>2. QED
    BY <1>0, <2>1
<1>5. \E f : Is(f, Cardinality(D))
  BY <1>3, <1>4
<1>6. \E f : f = [s \in SUBSET D |-> Val(s, f)]
  <2> HIDE DEF Val, Small
  <2> QED
    BY <1>4, <1>5
<1>7. QED
  BY <1>6 DEF Pick, Partial


\* Induction over the subsets of a finite set.
LEMMA SubsetInduction ==
  ASSUME NEW D, IsFiniteSet(D), NEW I,
         \A s \in SUBSET D : (\A x \in s : s \ {x} \in I) => s \in I
  PROVE  SUBSET D \subseteq I
<1> DEFINE T == {n \in Nat : \A s \in SUBSET D : Cardinality(s) = n => s \in I}
<1>1. \A s \in SUBSET D : IsFiniteSet(s) /\ Cardinality(s) \in Nat
  BY FS_Subset, FS_CardinalityType
<1>2. 0 \in T
  <2> SUFFICES ASSUME NEW s \in SUBSET D, Cardinality(s) = 0
               PROVE  s \in I
    OBVIOUS
  <2>1. s = {}
    BY <1>1, FS_EmptySet
  <2>2. QED
    BY <2>1
<1>3. ASSUME NEW n \in Nat, n \in T
      PROVE  n + 1 \in T
  <2> SUFFICES ASSUME NEW s \in SUBSET D, Cardinality(s) = n + 1
               PROVE  s \in I
    OBVIOUS
  <2>1. ASSUME NEW x \in s
        PROVE  s \ {x} \in I
    <3>1. Cardinality(s \ {x}) = n + 1 - 1
      BY <1>1, FS_RemoveElement
    <3>2. Cardinality(s \ {x}) = n /\ s \ {x} \in SUBSET D
      BY <3>1
    <3>3. QED
      BY <1>3, <3>2
  <2>2. QED
    BY <2>1
<1>4. Nat \subseteq T
  <2> HIDE DEF T
  <2> QED
    BY <1>2, <1>3, SetInduction
<1>5. QED
  BY <1>1, <1>4

LEMMA SumOfFacts ==
  ASSUME NEW D, IsFiniteSet(D), NEW e \in [D -> Int]
  PROVE  /\ SumOver(e) = SumOf(e, D) /\ SumOf(e, {}) = 0
         /\ \A s \in SUBSET D : SumOf(e, s) \in Int
         /\ \A s \in SUBSET D : s # {} =>
              PickOf(s) \in s /\ SumOf(e, s) = e[PickOf(s)] + SumOf(e, s \ {PickOf(s)})
<1> DEFINE g == CHOOSE h : h = Partial(e, h)
<1>1. SumOver(e) = g[D]
  BY DEF SumOver, FoldFunction, FoldFunctionOnSet, MapThenFoldSet, Partial
<1>2. g = Partial(e, g)
  BY PartialExists
<1>3. \A s : SumOf(e, s) = g[s]
  BY DEF SumOf
<1> HIDE DEF g
<1>4. \A s \in SUBSET D :
        g[s] = IF s = {} THEN 0 ELSE e[PickOf(s)] + g[s \ {PickOf(s)}]
  <2>1. g = [s \in SUBSET (DOMAIN e) |->
               IF s = {} THEN 0 ELSE e[PickOf(s)] + g[s \ {PickOf(s)}]]
    BY <1>2 DEF Partial, PickOf
  <2> HIDE DEF PickOf
  <2>2. DOMAIN e = D
    OBVIOUS
  <2>3. QED
    BY <2>1, <2>2
<1>5. \A s : s # {} => PickOf(s) \in s
  BY DEF PickOf
<1> DEFINE I == {s \in SUBSET D : g[s] \in Int}
<1>6. ASSUME NEW s \in SUBSET D, \A x \in s : s \ {x} \in I
      PROVE  s \in I
  <2>1. CASE s = {}
    <3>1. g[s] = 0
      BY <1>4, <2>1
    <3>2. QED
      BY <3>1
  <2>2. CASE s # {}
    <3>1. PickOf(s) \in s /\ s \ {PickOf(s)} \in I
      BY <1>5, <1>6, <2>2
    <3>2. g[s \ {PickOf(s)}] \in Int /\ e[PickOf(s)] \in Int
      BY <3>1
    <3>3. g[s] = e[PickOf(s)] + g[s \ {PickOf(s)}]
      BY <1>4, <2>2
    <3>4. QED
      BY <3>2, <3>3
  <2>3. QED
    BY <2>1, <2>2
<1>7. SUBSET D \subseteq I
  <2> HIDE DEF I
  <2> QED
    BY <1>6, SubsetInduction
<1>8. g[{}] = 0
  <2>1. {} \in SUBSET D
    OBVIOUS
  <2>2. QED
    BY <1>4, <2>1
<1>9. QED
  BY <1>1, <1>3, <1>4, <1>5, <1>7, <1>8

LEMMA SumOfSplits ==
  ASSUME NEW D, IsFiniteSet(D), NEW e \in [D -> Int], NEW s \in SUBSET D, s # {}
  PROVE  PickOf(s) \in s /\ SumOf(e, s) = e[PickOf(s)] + SumOf(e, s \ {PickOf(s)})
BY SumOfFacts

\* Any element may be taken first.
LEMMA SumOfAny ==
  ASSUME NEW D, IsFiniteSet(D), NEW e \in [D -> Int], NEW s \in SUBSET D, NEW x \in s
  PROVE  SumOf(e, s) = e[x] + SumOf(e, s \ {x})
<1> DEFINE Any(r) == \A y \in r : SumOf(e, r) = e[y] + SumOf(e, r \ {y})
           I == {r \in SUBSET D : Any(r)}
<1>1. ASSUME NEW r \in SUBSET D, \A y \in r : r \ {y} \in I
      PROVE  r \in I
  <2> SUFFICES ASSUME NEW y \in r
               PROVE  SumOf(e, r) = e[y] + SumOf(e, r \ {y})
    OBVIOUS
  <2> DEFINE c == PickOf(r)
             q == (r \ {c}) \ {y}
  <2>1. c \in r /\ SumOf(e, r) = e[c] + SumOf(e, r \ {c})
    <3>1. r # {}
      OBVIOUS
    <3>2. QED
      BY <3>1, SumOfSplits
  <2> HIDE DEF c
  <2>2. CASE c = y
    BY <2>1, <2>2
  <2>3. CASE c # y
    <3>1. SumOf(e, r \ {c}) = e[y] + SumOf(e, q)
      <4>1. r \ {c} \in I /\ y \in r \ {c}
        BY <1>1, <2>1, <2>3
      <4> HIDE DEF q
      <4>2. QED
        BY <4>1 DEF q
    <3>2. SumOf(e, r \ {y}) = e[c] + SumOf(e, q)
      <4>1. r \ {y} \in I /\ c \in r \ {y} /\ (r \ {y}) \ {c} = q
        BY <1>1, <2>1, <2>3
      <4> HIDE DEF q
      <4>2. SumOf(e, r \ {y}) = e[c] + SumOf(e, (r \ {y}) \ {c})
        BY <4>1
      <4>3. QED
        BY <4>1, <4>2
    <3>3. e[y] \in Int /\ e[c] \in Int /\ SumOf(e, q) \in Int
      BY <2>1, SumOfFacts
    <3> HIDE DEF q
    <3>4. QED
      BY <2>1, <3>1, <3>2, <3>3
  <2>4. QED
    BY <2>2, <2>3
<1>2. SUBSET D \subseteq I
  <2> HIDE DEF I
  <2> QED
    BY <1>1, SubsetInduction
<1>3. QED
  BY <1>2

\* Summands that agree have the same sum.
LEMMA SumOfSame ==
  ASSUME NEW D, IsFiniteSet(D), NEW e \in [D -> Int], NEW f \in [D -> Int], NEW s \in SUBSET D,
         \A x \in s : e[x] = f[x]
  PROVE  SumOf(e, s) = SumOf(f, s)
<1> DEFINE Same(r) == (\A x \in r : e[x] = f[x]) => SumOf(e, r) = SumOf(f, r)
           I == {r \in SUBSET D : Same(r)}
<1>1. ASSUME NEW r \in SUBSET D, \A y \in r : r \ {y} \in I
      PROVE  r \in I
  <2>1. CASE r = {}
    BY <2>1, SumOfFacts
  <2>2. CASE r # {}
    <3>1. PickOf(r) \in r /\ SumOf(e, r) = e[PickOf(r)] + SumOf(e, r \ {PickOf(r)})
      BY <2>2, SumOfFacts
    <3>2. SumOf(f, r) = f[PickOf(r)] + SumOf(f, r \ {PickOf(r)})
      BY <2>2, SumOfFacts
    <3>3. Same(r \ {PickOf(r)})
      BY <1>1, <3>1
    <3>4. QED
      BY <3>1, <3>2, <3>3
  <2>3. QED
    BY <2>1, <2>2
<1>2. SUBSET D \subseteq I
  <2> HIDE DEF I
  <2> QED
    BY <1>1, SubsetInduction
<1>3. QED
  BY <1>2

\* A change of one summand changes the sum by as much.
LEMMA SumChanges ==
  ASSUME NEW D, IsFiniteSet(D), NEW e \in [D -> Int], NEW f \in [D -> Int], NEW d \in D,
         \A x \in D \ {d} : e[x] = f[x]
  PROVE  SumOver(e) \in Int /\ SumOver(f) = SumOver(e) + (f[d] - e[d])
<1>1. SumOf(e, D) = e[d] + SumOf(e, D \ {d}) /\ SumOf(f, D) = f[d] + SumOf(f, D \ {d})
  BY SumOfAny
<1>2. SumOf(e, D \ {d}) = SumOf(f, D \ {d}) /\ SumOf(e, D \ {d}) \in Int /\ SumOf(e, D) \in Int
  BY SumOfSame, SumOfFacts
<1>3. SumOver(e) = SumOf(e, D) /\ SumOver(f) = SumOf(f, D) /\ e[d] \in Int /\ f[d] \in Int
  BY SumOfFacts
<1>4. QED
  BY <1>1, <1>2, <1>3

\* A sum is bounded by the sums of its summands' bounds.
LEMMA SumBounded ==
  ASSUME NEW D, IsFiniteSet(D), NEW e \in [D -> Int], NEW a \in [D -> Int], NEW b \in [D -> Int],
         \A x \in D : Near(e[x], a[x] + b[x])
  PROVE  SumOver(e) \in Int /\ Near(SumOver(e), SumOver(a) + SumOver(b))
<1> DEFINE I == {r \in SUBSET D : Near(SumOf(e, r), SumOf(a, r) + SumOf(b, r))}
<1>1. ASSUME NEW r \in SUBSET D, \A y \in r : r \ {y} \in I
      PROVE  r \in I
  <2>1. CASE r = {}
    <3>1. SumOf(e, r) = 0 /\ SumOf(a, r) = 0 /\ SumOf(b, r) = 0
      BY <2>1, SumOfFacts
    <3>2. QED
      BY <3>1 DEF Near
  <2>2. CASE r # {}
    <3> DEFINE c == PickOf(r)
               q == r \ {c}
    <3>1. /\ c \in r /\ SumOf(e, r) = e[c] + SumOf(e, q) /\ SumOf(a, r) = a[c] + SumOf(a, q)
          /\ SumOf(b, r) = b[c] + SumOf(b, q)
      <4>0. c \in r
        BY <2>2 DEF PickOf
      <4>1. SumOf(e, r) = e[c] + SumOf(e, q)
        BY <2>2, SumOfSplits
      <4>2. SumOf(a, r) = a[c] + SumOf(a, q)
        BY <2>2, SumOfSplits
      <4>3. SumOf(b, r) = b[c] + SumOf(b, q)
        BY <2>2, SumOfSplits
      <4>4. QED
        BY <4>0, <4>1, <4>2, <4>3
    <3> HIDE DEF c
    <3>2. Near(SumOf(e, q), SumOf(a, q) + SumOf(b, q)) /\ q \in SUBSET D
      BY <1>1, <3>1
    <3> HIDE DEF q
    <3>3. SumOf(e, q) \in Int /\ SumOf(a, q) \in Int /\ SumOf(b, q) \in Int
      BY <3>2, SumOfFacts
    <3>4. e[c] \in Int /\ a[c] \in Int /\ b[c] \in Int /\ Near(e[c], a[c] + b[c])
      BY <3>1
    <3>5. Near(SumOf(e, r), SumOf(a, r) + SumOf(b, r))
      BY <3>1, <3>2, <3>3, <3>4 DEF Near
    <3>6. QED
      BY <3>5
  <2>3. QED
    BY <2>1, <2>2
<1>2. SUBSET D \subseteq I
  <2> HIDE DEF I
  <2> QED
    BY <1>1, SubsetInduction
<1>3. QED
  BY <1>2, SumOfFacts

LEMMA SumOfZeros ==
  ASSUME NEW D, IsFiniteSet(D), NEW e \in [D -> Int], \A x \in D : e[x] = 0
  PROVE  SumOver(e) = 0
<1> DEFINE I == {r \in SUBSET D : SumOf(e, r) = 0}
<1>1. ASSUME NEW r \in SUBSET D, \A y \in r : r \ {y} \in I
      PROVE  r \in I
  <2>1. CASE r = {}
    BY <2>1, SumOfFacts
  <2>2. CASE r # {}
    <3>1. PickOf(r) \in r /\ SumOf(e, r) = e[PickOf(r)] + SumOf(e, r \ {PickOf(r)})
      BY <2>2, SumOfSplits
    <3>2. e[PickOf(r)] = 0 /\ SumOf(e, r \ {PickOf(r)}) = 0
      BY <1>1, <3>1
    <3>3. QED
      BY <3>1, <3>2
  <2>3. QED
    BY <2>1, <2>2
<1>2. SUBSET D \subseteq I
  <2> HIDE DEF I
  <2> QED
    BY <1>1, SubsetInduction
<1>3. QED
  BY <1>2, SumOfFacts

-----------------------------------------------------------------------------
(* Sums of taps *)

LEMMA StepsInduction ==
  ASSUME NEW I, <<>> \in I,
         \A s \in Seq(Steps), x \in Steps : s \in I => Append(s, x) \in I
  PROVE  Seq(Steps) \subseteq I
<1> DEFINE T == {n \in Nat : \A s \in Seq(Steps) : Len(s) = n => s \in I}
<1>1. 0 \in T
  <2>1. \A s \in Seq(Steps) : Len(s) = 0 => s = <<>>
    OBVIOUS
  <2>2. QED
    BY <2>1
<1>2. ASSUME NEW n \in Nat, n \in T
      PROVE  n + 1 \in T
  <2> SUFFICES ASSUME NEW s \in Seq(Steps), Len(s) = n + 1
               PROVE  s \in I
    OBVIOUS
  <2>1. s # <<>>
    <3>1. Len(s) # 0
      OBVIOUS
    <3>2. QED
      BY <3>1
  <2>2. PICK r \in Seq(Steps) : \E x \in Steps : s = Append(r, x)
    BY <2>1, SequenceEmptyOrAppend
  <2>3. PICK x \in Steps : s = Append(r, x)
    BY <2>2
  <2>4. Len(r) = n
    <3>1. Len(s) = Len(r) + 1 /\ Len(r) \in Nat
      BY <2>3, AppendProperties
    <3>2. QED
      BY <3>1
  <2>5. r \in I
    BY <1>2, <2>4
  <2>6. QED
    BY <2>3, <2>5
<1>3. Nat \subseteq T
  <2> HIDE DEF T
  <2> QED
    BY <1>1, <1>2, SetInduction
<1>4. QED
  BY <1>3

LEMMA SumAppends ==
  ASSUME NEW s \in Seq(Steps), NEW x \in Steps
  PROVE  Sum(Append(s, x)) = Sum(s) + x
<1> DEFINE Those(t, k) == {i \in DOMAIN t : t[i] = k}
           t == Append(s, x)
<1>1. PICK n \in Nat : n = Len(s) /\ DOMAIN s = 1..n /\ IsFiniteSet(1..n)
  BY FS_Interval
<1>2. t \in Seq(Steps) /\ Len(t) = n + 1 /\ DOMAIN t = 1..n + 1 /\ t[n + 1] = x /\ \A i \in 1..n : t[i] = s[i]
  BY <1>1, AppendProperties
<1> HIDE DEF t
<1>3. ASSUME NEW k
      PROVE  /\ IsFiniteSet(Those(s, k)) /\ n + 1 \notin Those(s, k)
             /\ Cardinality(Those(s, k)) \in Nat
             /\ Those(t, k) = IF x = k THEN Those(s, k) \cup {n + 1} ELSE Those(s, k)
             /\ Cardinality(Those(t, k)) = Cardinality(Those(s, k)) + (IF x = k THEN 1 ELSE 0)
  <2>1. IsFiniteSet(Those(s, k)) /\ n + 1 \notin Those(s, k)
    BY <1>1, FS_Subset
  <2>2. 1..n + 1 = (1..n) \cup {n + 1}
    BY <1>1
  <2>3. Those(t, k) = IF x = k THEN Those(s, k) \cup {n + 1} ELSE Those(s, k)
    BY <1>1, <1>2, <2>2
  <2>4. Cardinality(Those(s, k)) \in Nat
    BY <2>1, FS_CardinalityType
  <2>5. Cardinality(Those(s, k) \cup {n + 1}) = Cardinality(Those(s, k)) + 1
    BY <2>1, FS_AddElement
  <2> HIDE DEF Those
  <2>6. QED
    BY <2>1, <2>3, <2>4, <2>5
<1>4. Sum(s) = Cardinality(Those(s, 1)) - Cardinality(Those(s, -1))
  BY DEF Sum
<1>5. Sum(t) = Cardinality(Those(t, 1)) - Cardinality(Those(t, -1))
  BY DEF Sum
<1> HIDE DEF Those
<1>6. x = 1 \/ x = -1
  BY DEF Steps
<1>7. Sum(t) = Sum(s) + x
  BY <1>3, <1>4, <1>5, <1>6
<1>8. QED
  BY <1>7 DEF t

LEMMA SumOfNone == Sum(<<>>) = 0
<1>1. \A k : {i \in DOMAIN <<>> : <<>>[i] = k} = {}
  OBVIOUS
<1>2. QED
  BY <1>1, FS_EmptySet DEF Sum

LEMMA SumConcats ==
  ASSUME NEW s \in Seq(Steps), NEW t \in Seq(Steps)
  PROVE  Sum(s \o t) = Sum(s) + Sum(t)
<1> DEFINE I == {r \in Seq(Steps) : Sum(s \o r) = Sum(s) + Sum(r)}
<1>1. <<>> \in I
  <2>1. s \o <<>> = s /\ <<>> \in Seq(Steps) /\ Sum(s) \in Int
    BY ConcatEmptySeq, SumType
  <2>2. QED
    BY <2>1, SumOfNone
<1>2. ASSUME NEW r \in Seq(Steps), NEW x \in Steps, r \in I
      PROVE  Append(r, x) \in I
  <2>1. s \o Append(r, x) = Append(s \o r, x)
    <3>1. <<x>> \in Seq(Steps) /\ s \o r \in Seq(Steps)
      BY ConcatProperties
    <3>2. s \o Append(r, x) = s \o (r \o <<x>>) /\ Append(s \o r, x) = (s \o r) \o <<x>>
      BY <3>1, AppendIsConcat
    <3>3. QED
      BY <3>1, <3>2, ConcatAssociative
  <2>2. Sum(Append(s \o r, x)) = Sum(s \o r) + x /\ Sum(Append(r, x)) = Sum(r) + x
    BY SumAppends, ConcatProperties
  <2>3. Sum(s) \in Int /\ Sum(r) \in Int /\ x \in Int /\ Sum(s \o r) = Sum(s) + Sum(r)
    BY <1>2, SumType DEF Steps
  <2>4. Append(r, x) \in Seq(Steps)
    OBVIOUS
  <2>5. Sum(s \o Append(r, x)) = Sum(s) + Sum(r) + x
    BY <2>1, <2>2, <2>3, Zenon
  <2>6. Sum(s) + Sum(r) + x = Sum(s) + (Sum(r) + x)
    BY <2>3
  <2>7. Sum(s \o Append(r, x)) = Sum(s) + Sum(Append(r, x))
    BY <2>2, <2>5, <2>6, Zenon
  <2>8. QED
    BY <2>4, <2>7, Zenon
<1>3. Seq(Steps) \subseteq I
  <2> HIDE DEF I
  <2> QED
    BY <1>1, <1>2, StepsInduction
<1>4. QED
  BY <1>3

LEMMA SumSplits ==
  ASSUME NEW s \in Seq(Steps), NEW n \in 0..Len(s)
  PROVE  /\ Sum(s) = Sum(SubSeq(s, 1, n)) + Sum(SubSeq(s, n + 1, Len(s)))
         /\ Sum(s) \in Int /\ Sum(SubSeq(s, 1, n)) \in Int /\ Sum(SubSeq(s, n + 1, Len(s))) \in Int
<1>1. SubSeq(s, 1, n) \in Seq(Steps) /\ SubSeq(s, n + 1, Len(s)) \in Seq(Steps)
  BY SplitFacts
<1>2. SubSeq(s, 1, n) \o SubSeq(s, n + 1, Len(s)) = s
  <2>1. Len(s) \in Nat /\ 1 \in 1..Len(s) + 1 /\ n \in 1 - 1..Len(s) /\ Len(s) \in n..Len(s)
    OBVIOUS
  <2>2. SubSeq(s, 1, n) \o SubSeq(s, n + 1, Len(s)) = SubSeq(s, 1, Len(s))
    BY <2>1, ConcatAdjacentSubSeq
  <2>3. QED
    BY <2>2, SubSeqFull
<1>3. QED
  BY <1>1, <1>2, SumConcats, SumType

\* Likes and unlikes take turns.
Turning(s) == \A i \in 1..Len(s) - 1 : s[i + 1] # s[i]

LEMMA TurningSum ==
  ASSUME NEW s \in Seq(Steps), Turning(s), s # <<>>
  PROVE  2 * Sum(s) = s[1] + s[Len(s)]
<1> DEFINE I == {r \in Seq(Steps) : Turning(r) /\ r # <<>> => 2 * Sum(r) = r[1] + r[Len(r)]}
<1>1. <<>> \in I
  OBVIOUS
<1>2. ASSUME NEW r \in Seq(Steps), NEW x \in Steps, r \in I
      PROVE  Append(r, x) \in I
  <2> DEFINE t == Append(r, x)
  <2>1. PICK n \in Nat : n = Len(r)
    OBVIOUS
  <2>2. /\ t \in Seq(Steps) /\ Len(t) = n + 1 /\ t[n + 1] = x
        /\ \A i \in 1..n : t[i] = r[i]
        /\ Sum(t) = Sum(r) + x /\ Sum(r) \in Int /\ x \in Int
    BY <2>1, SumAppends, SumType, AppendProperties DEF Steps
  <2> HIDE DEF t
  <2>3. ASSUME Turning(t)
        PROVE  2 * Sum(t) = t[1] + t[n + 1]
    <3>1. CASE n = 0
      <4>1. r = <<>>
        <5>1. \A q \in Seq(Steps) : Len(q) = 0 => q = <<>>
          OBVIOUS
        <5>2. QED
          BY <2>1, <3>1, <5>1
      <4>2. Sum(r) = 0 /\ t[1] = x
        BY <2>2, <3>1, <4>1, SumOfNone
      <4>3. QED
        BY <2>2, <3>1, <4>2
    <3>2. CASE n # 0
      <4>1. n \in 1..n /\ 1 \in 1..n /\ r # <<>>
        BY <2>1, <3>2
      <4>2. t[n] = r[n] /\ t[1] = r[1]
        BY <2>2, <4>1
      <4>3. r[1] \in Steps /\ r[n] \in Steps
        BY <2>1, <4>1, ElementOfSeq
      <4>4. x # r[n]
        <5>1. n \in 1..n + 1 - 1
          BY <4>1
        <5>2. t[n + 1] # t[n]
          BY <2>2, <2>3, <5>1 DEF Turning
        <5>3. QED
          BY <2>2, <4>2, <5>2
      <4>5. Turning(r)
        <5>1. ASSUME NEW i \in 1..n - 1
              PROVE  r[i + 1] # r[i]
          <6>1. i \in 1..n /\ i + 1 \in 1..n /\ i \in 1..n + 1 - 1
            BY <2>1
          <6>2. t[i + 1] # t[i]
            BY <2>2, <2>3, <6>1 DEF Turning
          <6>3. QED
            BY <2>2, <6>1, <6>2
        <5>2. QED
          BY <2>1, <5>1 DEF Turning
      <4>6. 2 * Sum(r) = r[1] + r[n]
        BY <1>2, <2>1, <4>1, <4>5
      <4>7. x = -r[n] /\ r[n] \in Int /\ r[1] \in Int
        BY <4>3, <4>4 DEF Steps
      <4>8. \A c, d, f, g \in Int : 2 * c = f + g => 2 * (c + -g) = f + -g
        OBVIOUS
      <4>9. 2 * (Sum(r) + -r[n]) = r[1] + -r[n]
        BY <2>2, <4>6, <4>7, <4>8
      <4>10. QED
        BY <2>2, <4>2, <4>7, <4>9, Zenon
    <3>3. QED
      BY <3>1, <3>2
  <2>4. t \in I
    BY <2>2, <2>3
  <2>5. QED
    BY <2>4 DEF t
<1>3. Seq(Steps) \subseteq I
  <2> HIDE DEF I
  <2> QED
    BY <1>1, <1>2, StepsInduction
<1>4. QED
  BY <1>3

LEMMA TurningSplits ==
  ASSUME NEW s \in Seq(Steps), Turning(s), NEW n \in 0..Len(s)
  PROVE  Turning(SubSeq(s, 1, n)) /\ Turning(SubSeq(s, n + 1, Len(s)))
<1>1. PICK m \in Nat : m = Len(s)
  OBVIOUS
<1>2. /\ Len(SubSeq(s, 1, n)) = n
      /\ \A i \in 1..n : SubSeq(s, 1, n)[i] = s[i]
  <2>1. \A i \in 1..n : s[i] \in Steps
    BY <1>1
  <2>2. /\ Len(SubSeq(s, 1, n)) = IF 1 <= n THEN n - 1 + 1 ELSE 0
        /\ \A i \in 1..n - 1 + 1 : SubSeq(s, 1, n)[i] = s[1 + i - 1]
    BY <2>1, SubSeqProperties
  <2>3. \A i \in 1..n : i \in 1..n - 1 + 1 /\ 1 + i - 1 = i
    OBVIOUS
  <2>4. QED
    BY <2>2, <2>3
<1>3. /\ Len(SubSeq(s, n + 1, m)) = m - n
      /\ \A i \in 1..m - n : SubSeq(s, n + 1, m)[i] = s[n + i]
  <2>1. \A i \in n + 1..m : s[i] \in Steps
    BY <1>1
  <2>2. /\ Len(SubSeq(s, n + 1, m)) = IF n + 1 <= m THEN m - (n + 1) + 1 ELSE 0
        /\ \A i \in 1..m - (n + 1) + 1 : SubSeq(s, n + 1, m)[i] = s[n + 1 + i - 1]
    BY <1>1, <2>1, SubSeqProperties
  <2>3. \A i \in 1..m - n : i \in 1..m - (n + 1) + 1 /\ n + 1 + i - 1 = n + i
    BY <1>1
  <2>4. Len(SubSeq(s, n + 1, m)) = m - n
    BY <1>1, <2>2
  <2>5. QED
    BY <2>2, <2>3, <2>4
<1>4. \A i \in 1..m - 1 : s[i + 1] # s[i]
  BY <1>1 DEF Turning
<1>5. ASSUME NEW i \in 1..n - 1
      PROVE  SubSeq(s, 1, n)[i + 1] # SubSeq(s, 1, n)[i]
  <2>1. i \in 1..n /\ i + 1 \in 1..n /\ i \in 1..m - 1
    BY <1>1
  <2>2. QED
    BY <1>2, <1>4, <2>1
<1>6. ASSUME NEW i \in 1..m - n - 1
      PROVE  SubSeq(s, n + 1, m)[i + 1] # SubSeq(s, n + 1, m)[i]
  <2>1. i \in 1..m - n /\ i + 1 \in 1..m - n /\ n + i \in 1..m - 1 /\ n + (i + 1) = n + i + 1
    BY <1>1
  <2>2. s[n + i + 1] # s[n + i]
    BY <1>4, <2>1
  <2>3. SubSeq(s, n + 1, m)[i + 1] = s[n + (i + 1)] /\ SubSeq(s, n + 1, m)[i] = s[n + i]
    BY <1>3, <2>1
  <2>4. QED
    BY <2>1, <2>2, <2>3
<1>7. QED
  BY <1>1, <1>2, <1>3, <1>5, <1>6 DEF Turning

\* What it matters that taps are lost: their sum, and the last of them.
Bit(b) == IF b THEN 1 ELSE 0

LEMMA LostTaps ==
  ASSUME NEW s \in Seq(Steps), Turning(s)
  PROVE  /\ Near(Sum(s), 1) /\ Sum(s) \in Int
         /\ s # <<>> => \A y \in {0, 1} : Near(Bit(s[Len(s)] = 1) - Sum(s) - y, 1)
<1>1. Sum(s) \in Int
  BY SumType
<1>2. CASE s = <<>>
  BY <1>1, <1>2, SumOfNone DEF Near
<1>3. CASE s # <<>>
  <2>1. 2 * Sum(s) = s[1] + s[Len(s)]
    BY <1>3, TurningSum
  <2>2. s[1] \in Steps /\ s[Len(s)] \in Steps
    <3>1. Len(s) \in Nat /\ Len(s) # 0
      BY <1>3
    <3>2. 1 \in 1..Len(s) /\ Len(s) \in 1..Len(s)
      BY <3>1
    <3>3. QED
      BY <3>2, ElementOfSeq
  <2>3. (s[1] = 1 \/ s[1] = -1) /\ (s[Len(s)] = 1 \/ s[Len(s)] = -1)
    BY <2>2 DEF Steps
  <2>4. PICK a \in Int : a = s[1] /\ (a = 1 \/ a = -1)
    BY <2>3
  <2>5. PICK b \in Int : b = s[Len(s)] /\ (b = 1 \/ b = -1)
    BY <2>3
  <2>6. 2 * Sum(s) = a + b
    BY <2>1, <2>4, <2>5
  <2>7. Near(Sum(s), 1)
    BY <1>1, <2>4, <2>5, <2>6 DEF Near
  <2>8. ASSUME NEW y \in {0, 1}
        PROVE  Near(Bit(b = 1) - Sum(s) - y, 1)
    <3>1. CASE b = 1
      <4>1. Bit(b = 1) = 1 /\ (Sum(s) = 1 \/ Sum(s) = 0)
        BY <1>1, <2>4, <2>6, <3>1 DEF Bit
      <4>2. QED
        BY <4>1 DEF Near
    <3>2. CASE b = -1
      <4>1. Bit(b = 1) = 0 /\ (Sum(s) = 0 \/ Sum(s) = -1)
        BY <1>1, <2>4, <2>6, <3>2 DEF Bit
      <4>2. QED
        BY <4>1 DEF Near
    <3>3. QED
      BY <2>5, <3>1, <3>2
  <2>9. QED
    BY <1>1, <2>5, <2>7, <2>8
<1>4. QED
  BY <1>2, <1>3

-----------------------------------------------------------------------------
(* The counter *)

\* Screens are answered before they are tapped, nothing but connections and processes is
\* lost, and every phone is its user's only one.
Calm ==
  world.habits = {} /\ world.faults \subseteq {"drop", "kill"} /\ \A d \in Device : OnePhone(d)

\* What the taps of d that have not run yet will add.
Unrun(d) == Sum(Rest(d, batch[d]))
Losses(d) == drops[d] + kills[d]

\* n is what d's taps have added so far, and its user's like at the start. With what is still
\* to run it is what the records will say, and what an answered screen shows, give or take
\* d's losses.
Tally(n, d) ==
  /\ Near(n + Unrun(d) - Bit(Wanted(d)), Losses(d))
  /\ Quiet(d) => Near(n - Bit(UserOf[d] \in liked), Losses(d))
  /\ d \in open \ asking => Near(n + Unrun(d) - Bit(icon[d] = "like"), Losses(d))

\* Likes and unlikes take turns, as the icon does.
TapsTurn(d) ==
  /\ d \in asking => Quiet(d) /\ icon[d] = "unlike"
  /\ Turning(txs[d])
  /\ d \in open /\ txs[d] # <<>> => (icon[d] = "like" <=> txs[d][Len(txs[d])] = 1)

\* What the counter has for d beyond what users W who like the post account for.
Beyond(t, W) == [d \in Device |-> t[d] - Bit(UserOf[d] \in W)]

DriftInv ==
  Calm =>
    /\ \A d \in Device : TapsTurn(d)
    /\ \E t \in [Device -> Int] :
         /\ total - Cardinality(who) = SumOver(Beyond(t, who))
         /\ \A d \in Device : Tally(t[d], d)

Around(d, n) ==
  /\ TypeOK /\ TypeOK' /\ Calls /\ Calls' /\ Records /\ Calm /\ world' = world
  /\ d \in Device /\ n \in Int /\ Tally(n, d) /\ TapsTurn(d)

LEMMA CalmFacts ==
  ASSUME TypeOK, Calls, Calm
  PROVE  /\ described /\ counted /\ IsFiniteSet(Device)
         /\ "early_tap" \notin world.habits /\ "quick_reopen" \notin world.habits
         /\ "offline" \notin world.habits
         /\ "abort" \notin world.faults /\ "delete" \notin world.faults
<1>1. UserOf \in Injection(Device, Account)
  BY UsersAssumption DEF Calm, OnePhone, Injection, IsInjective
<1>2. IsFiniteSet(Device)
  BY <1>1, UsersAssumption, FS_Injection
<1>3. "abort" \notin world.faults /\ "delete" \notin world.faults
  BY DEF Calm
<1>4. QED
  BY <1>2, <1>3 DEF Calm, Calls

LEMMA TapFacts ==
  ASSUME TypeOK, Calls, NEW d \in Device
  PROVE  /\ txs[d] \in Seq(Steps) /\ Len(txs[d]) \in Nat /\ batch[d] \in 0..Len(txs[d])
         /\ Unrun(d) \in Int /\ Losses(d) \in Nat /\ reads[d] \in Seq(Steps)
         /\ Rest(d, batch[d]) \in Seq(Steps)
         /\ txs[d] = <<>> => Unrun(d) = 0 /\ batch[d] = 0
         /\ batch[d] = 0 => Unrun(d) = Sum(txs[d])
<1>1. txs[d] \in Seq(Steps) /\ Len(txs[d]) \in Nat /\ batch[d] \in 0..Len(txs[d]) /\ reads[d] \in Seq(Steps)
  BY DEF TypeOK, Calls, Steps
<1>2. Rest(d, batch[d]) \in Seq(Steps)
  BY <1>1, SplitFacts DEF Rest
<1>3. Unrun(d) \in Int
  BY <1>2, SumType DEF Unrun
<1>4. Losses(d) \in Nat
  BY DEF TypeOK, Losses
<1>5. ASSUME txs[d] = <<>>
      PROVE  Unrun(d) = 0 /\ batch[d] = 0
  <2>1. Len(txs[d]) = 0 /\ batch[d] = 0
    BY <1>1, <1>5
  <2>2. Rest(d, batch[d]) = <<>>
    BY <1>1, <2>1, SplitFacts DEF Rest
  <2>3. QED
    BY <2>1, <2>2, SumOfNone DEF Unrun
<1>6. ASSUME batch[d] = 0
      PROVE  Unrun(d) = Sum(txs[d])
  <2>1. Rest(d, 0) = txs[d]
    BY <1>1, SubSeqFull DEF Rest
  <2>2. QED
    BY <1>6, <2>1 DEF Unrun
<1>7. QED
  BY <1>1, <1>2, <1>3, <1>4, <1>5, <1>6

\* What is wanted changes with the device's own calls only.
LEMMA WantedSame ==
  ASSUME TypeOK, Calls, Records, [Next]_vars, NEW e \in Device, described', OnePhone(e),
         ~Kill(e), txs'[e] = txs[e], reads'[e] = reads[e]
  PROVE  Wanted(e)' <=> Wanted(e)
<1>1. ~ReadBackAnswer(e)
  <2>1. PICK r \in Seq(Steps) : r = reads[e] /\ Len(r) \in Nat
    BY DEF TypeOK, Steps
  <2>2. ASSUME ReadBackAnswer(e)
        PROVE  FALSE
    <3>1. r # <<>> /\ r = Tail(r)
      BY <2>1, <2>2 DEF ReadBackAnswer, TypeOK
    <3>2. Len(Tail(r)) = Len(r) - 1
      BY <3>1, HeadTailProperties
    <3>3. Len(r) = Len(r) - 1
      BY <3>1, <3>2, Zenon
    <3>4. QED
      BY <2>1, <3>3
  <2>3. QED
    BY <2>2
<1>2. InTheEnd(link'[e], UserOf[e], who') <=> InTheEnd(link[e], UserOf[e], who)
  BY <1>1, RecordsKept
<1>3. QED
  BY <1>2 DEF Wanted

\* Whatever the records of d are in the end, losing all its taps costs one like at most.
LEMMA LosesAll ==
  ASSUME NEW d, NEW n, Around(d, n), NEW y \in {0, 1}
  PROVE  Near(n - y, Losses(d) + 1)
<1> DEFINE s == txs[d]
           b == batch[d]
           r == Rest(d, b)
           w == Bit(Wanted(d))
<1>1. /\ d \in Device /\ n \in Int /\ s \in Seq(Steps) /\ b \in 0..Len(s) /\ r \in Seq(Steps)
      /\ Losses(d) \in Nat /\ Unrun(d) \in Int /\ Unrun(d) = Sum(r)
      /\ Turning(s) /\ Near(n + Unrun(d) - w, Losses(d))
  BY TapFacts DEF Around, Tally, TapsTurn, Unrun
<1>2. w \in {0, 1}
  BY DEF Bit
<1>3. Turning(r)
  BY <1>1, TurningSplits DEF Rest
<1>4. r # <<>> => s # <<>> /\ r[Len(r)] = s[Len(s)]
  <2>1. /\ b = Len(s) => r = <<>>
        /\ b < Len(s) => r[Len(r)] = s[Len(s)]
    BY <1>1, SplitFacts DEF Rest
  <2>2. Len(s) \in Nat /\ (s = <<>> => Len(s) = 0)
    BY <1>1
  <2>3. QED
    BY <1>1, <2>1, <2>2
<1>5. Near(w - Unrun(d) - y, 1)
  <2>1. CASE r = <<>>
    <3>1. Unrun(d) = 0
      BY <1>1, <2>1, SumOfNone
    <3> HIDE DEF w
    <3>2. QED
      BY <1>2, <3>1 DEF Near
  <2>2. CASE r # <<>>
    <3>1. w = Bit(r[Len(r)] = 1)
      BY <1>4, <2>2 DEF Wanted
    <3>2. \A z \in {0, 1} : Near(Bit(r[Len(r)] = 1) - Sum(r) - z, 1)
      BY <1>1, <1>3, <2>2, LostTaps
    <3> HIDE DEF w, r
    <3>3. QED
      BY <1>1, <3>1, <3>2
  <2>3. QED
    BY <2>1, <2>2
<1> HIDE DEF w, r, s, b
<1>6. \A k, u, v, z \in Int : \A l \in Nat :
        Near(k + u - v, l) /\ Near(v - u - z, 1) => Near(k - z, l + 1)
  BY DEF Near
<1>7. w \in Int /\ y \in Int
  BY <1>2
<1>8. QED
  BY <1>1, <1>5, <1>6, <1>7

LEMMA ScreensTally ==
  ASSUME NEW d, NEW n, Around(d, n), OpenPost(d) \/ ClosePost(d)
  PROVE  Tally(n, d)' /\ TapsTurn(d)'
<1>1. /\ "quick_reopen" \notin world.habits /\ "offline" \notin world.habits
      /\ TypeOK /\ d \in Device /\ Tally(n, d) /\ TapsTurn(d)
  BY CalmFacts DEF Around
<1>2. /\ UNCHANGED <<server, calls, link, drops, kills>>
      /\ Wanted(d)' = Wanted(d) /\ Quiet(d)' = Quiet(d) /\ Unrun(d)' = Unrun(d)
      /\ Losses(d)' = Losses(d)
  BY DEF OpenPost, ClosePost, server, calls, Wanted, Quiet, Unrun, Rest, Losses
<1>3. CASE OpenPost(d)
  <2>1. Quiet(d) /\ d \in asking' /\ icon'[d] = "unlike"
    BY <1>1, <1>3 DEF OpenPost, TypeOK
  <2>2. QED
    BY <1>1, <1>2, <2>1 DEF Tally, TapsTurn, Quiet, server, calls
<1>4. CASE ClosePost(d)
  <2>1. d \notin open' /\ d \notin asking'
    BY <1>4 DEF ClosePost
  <2>2. QED
    BY <1>1, <1>2, <2>1 DEF Tally, TapsTurn, server, calls
<1>5. QED
  BY <1>3, <1>4

LEMMA AnswerTallies ==
  ASSUME NEW d, NEW n, Around(d, n), LikedPostsAnswer(d)
  PROVE  Tally(n, d)' /\ TapsTurn(d)'
<1>1. /\ TypeOK /\ Calls /\ d \in Device /\ Tally(n, d) /\ TapsTurn(d) /\ n \in Int
  BY DEF Around
<1>2. /\ UNCHANGED <<server, calls, link, drops, kills>>
      /\ Wanted(d)' = Wanted(d) /\ Quiet(d)' = Quiet(d) /\ Unrun(d)' = Unrun(d)
      /\ Losses(d)' = Losses(d)
  BY DEF LikedPostsAnswer, server, calls, Wanted, Quiet, Unrun, Rest, Losses
<1>3. Quiet(d) /\ icon[d] = "unlike" /\ Unrun(d) = 0 /\ d \notin asking'
  BY <1>1, TapFacts DEF LikedPostsAnswer, TapsTurn, Quiet
<1>4. SeesLiked(d) <=> UserOf[d] \in liked
  BY <1>3 DEF SeesLiked, Quiet
<1>5. icon'[d] = "like" <=> UserOf[d] \in liked
  BY <1>1, <1>3, <1>4 DEF LikedPostsAnswer, TypeOK
<1>6. Near(n - Bit(UserOf[d] \in liked), Losses(d))
  BY <1>1, <1>3 DEF Tally
<1>7. Near(n + Unrun(d)' - Bit(icon'[d] = "like"), Losses(d)')
  <2>1. Bit(icon'[d] = "like") = Bit(UserOf[d] \in liked) /\ Unrun(d)' = 0
    BY <1>2, <1>3, <1>5 DEF Bit
  <2>2. PICK y \in Int : y = Bit(UserOf[d] \in liked)
    BY DEF Bit
  <2>3. y = Bit(icon'[d] = "like")
    BY <2>1, <2>2
  <2>4. n + 0 - y = n - y
    BY <1>1
  <2>5. Near(n + 0 - y, Losses(d)')
    BY <1>2, <1>6, <2>2, <2>4
  <2>6. QED
    BY <2>1, <2>3, <2>5
<1>8. QED
  BY <1>1, <1>2, <1>3, <1>7 DEF Tally, TapsTurn, Quiet, server, calls

LEMMA FirstOfAppend ==
  ASSUME NEW s \in Seq(Steps), NEW x \in Steps, NEW n \in 0..Len(s)
  PROVE  SubSeq(Append(s, x), 1, n) = SubSeq(s, 1, n)
<1>1. CASE n = 0
  BY <1>1, SubSeqEmpty
<1>2. CASE n # 0
  <2>1. <<x>> \in Seq(Steps) /\ n \in 1..Len(s) /\ 1 \in 1..Len(s) /\ Append(s, x) = s \o <<x>>
    BY <1>2, AppendIsConcat
  <2>2. QED
    BY <2>1, SubSeqOfConcat1
<1>3. QED
  BY <1>1, <1>2

LEMMA TapTallies ==
  ASSUME NEW d, NEW n, Around(d, n), TapLike(d)
  PROVE  Tally(n, d)' /\ TapsTurn(d)'
<1> DEFINE s == txs[d]
           x == Step(d)
           t == txs'[d]
           b == batch[d]
<1>1. /\ TypeOK /\ TypeOK' /\ Calls /\ Calls' /\ d \in Device /\ Tally(n, d) /\ TapsTurn(d) /\ n \in Int
      /\ "early_tap" \notin world.habits
  BY CalmFacts DEF Around
<1>2. /\ d \in open /\ d \notin asking /\ open' = open /\ asking' = asking
      /\ t = Append(s, x) /\ batch'[d] = b /\ Losses(d)' = Losses(d)
      /\ icon[d] \in Icon /\ icon'[d] = Flipped(d)
  BY <1>1 DEF TapLike, TypeOK, Losses
<1>3. PICK m \in Nat : /\ m = Len(s) /\ s \in Seq(Steps) /\ b \in 0..m /\ Unrun(d) \in Int
                       /\ Losses(d) \in Nat
  BY <1>1, TapFacts
<1>4. x \in Steps /\ x \in Int
  BY DEF Step, Steps
<1>5. /\ t \in Seq(Steps) /\ t # <<>> /\ Len(t) = m + 1 /\ t[m + 1] = x
      /\ \A i \in 1..m : t[i] = s[i]
  BY <1>2, <1>3, <1>4, AppendProperties
<1>6. Unrun(d)' = Unrun(d) + x
  <2>1. Unrun(d) = Sum(SubSeq(s, b + 1, Len(s))) /\ Unrun(d)' = Sum(SubSeq(t, b + 1, Len(t)))
    BY <1>2 DEF Unrun, Rest
  <2>2. /\ Sum(s) = Sum(SubSeq(s, 1, b)) + Unrun(d)
        /\ Sum(s) \in Int /\ Sum(SubSeq(s, 1, b)) \in Int
    BY <1>3, <2>1, SumSplits
  <2>3. b \in 0..Len(t)
    BY <1>3, <1>5
  <2>4. Sum(t) = Sum(SubSeq(t, 1, b)) + Unrun(d)' /\ Unrun(d)' \in Int
    BY <1>5, <2>1, <2>3, SumSplits
  <2>5. SubSeq(t, 1, b) = SubSeq(s, 1, b) /\ Sum(t) = Sum(s) + x
    BY <1>2, <1>3, <1>4, FirstOfAppend, SumAppends
  <2>6. PICK p \in Int : p = Sum(s)
    BY <2>2
  <2>7. PICK q \in Int : q = Sum(SubSeq(s, 1, b))
    BY <2>2
  <2>8. p = q + Unrun(d) /\ p + x = q + Unrun(d)'
    BY <2>2, <2>4, <2>5, <2>6, <2>7, Zenon
  <2>9. PICK v \in Int : v = Unrun(d)'
    BY <2>4, Zenon
  <2>10. p + x = q + v
    BY <2>8, <2>9, Zenon
  <2>11. v = Unrun(d) + x
    BY <1>3, <1>4, <2>8, <2>10
  <2>12. QED
    BY <2>9, <2>11, Zenon
<1> HIDE DEF t
<1>7. /\ icon[d] = "unlike" => x = 1 /\ icon'[d] = "like"
      /\ icon[d] = "like" => x = -1 /\ icon'[d] = "unlike"
  BY <1>2 DEF Step, Flipped, Icon
<1> HIDE DEF x
<1>8. Wanted(d)' <=> icon'[d] = "like"
  <2>1. Wanted(d)' <=> x = 1
    BY <1>5 DEF Wanted, t
  <2>2. QED
    BY <1>2, <1>7, <2>1 DEF Icon
<1>9. Near(n + Unrun(d)' - Bit(icon'[d] = "like"), Losses(d)')
  <2>1. Near(n + Unrun(d) - Bit(icon[d] = "like"), Losses(d))
    BY <1>1, <1>2 DEF Tally
  <2>2. CASE icon[d] = "unlike"
    <3>1. Bit(icon[d] = "like") = 0 /\ Bit(icon'[d] = "like") = 1 /\ x = 1
      BY <1>7, <2>2 DEF Bit
    <3>2. n + Unrun(d) - 0 = n + (Unrun(d) + 1) - 1
      BY <1>1, <1>3
    <3>3. QED
      BY <1>2, <1>6, <2>1, <3>1, <3>2
  <2>3. CASE icon[d] = "like"
    <3>1. Bit(icon[d] = "like") = 1 /\ Bit(icon'[d] = "like") = 0 /\ x = -1
      BY <1>7, <2>3 DEF Bit
    <3>2. n + Unrun(d) - 1 = n + (Unrun(d) + -1) - 0
      BY <1>1, <1>3
    <3>3. QED
      BY <1>2, <1>6, <2>1, <3>1, <3>2
  <2>4. QED
    BY <1>2, <2>2, <2>3 DEF Icon
<1>10. Near(n + Unrun(d)' - Bit(Wanted(d)'), Losses(d)')
  <2>1. Bit(Wanted(d)') = Bit(icon'[d] = "like")
    BY <1>8 DEF Bit
  <2>2. QED
    BY <1>9, <2>1
<1>11. Turning(t)
  <2>1. ASSUME NEW i \in 1..m
        PROVE  t[i + 1] # t[i]
    <3>1. CASE i = m
      <4>1. s # <<>> /\ t[m] = s[m]
        BY <1>3, <1>5, <3>1
      <4>2. icon[d] = "like" <=> s[m] = 1
        BY <1>1, <1>2, <1>3, <4>1 DEF TapsTurn
      <4>3. x # s[m]
        <5>1. s[m] \in Steps
          BY <1>3, <3>1, ElementOfSeq
        <5>2. QED
          BY <1>2, <1>7, <4>2, <5>1 DEF Icon, Steps
      <4>4. QED
        BY <1>5, <3>1, <4>1, <4>3
    <3>2. CASE i # m
      <4>1. i \in 1..m - 1 /\ i + 1 \in 1..m
        BY <3>2
      <4>2. s[i + 1] # s[i]
        BY <1>1, <1>3, <4>1 DEF TapsTurn, Turning
      <4>3. QED
        BY <1>5, <4>1, <4>2
    <3>3. QED
      BY <3>1, <3>2
  <2>2. Len(t) - 1 = m
    BY <1>5
  <2>3. QED
    BY <2>1, <2>2 DEF Turning
<1>12. icon'[d] = "like" <=> t[Len(t)] = 1
  BY <1>2, <1>5, <1>7 DEF Icon
<1>13. ~Quiet(d)'
  BY <1>5 DEF Quiet, t
<1>14. QED
  BY <1>2, <1>9, <1>10, <1>11, <1>12, <1>13 DEF Tally, TapsTurn, t

\* The server runs a batch: what it adds was still to run.
LEMMA RunTallies ==
  ASSUME NEW d, NEW n, Around(d, n), NEW k \in 1..Len(txs[d]),
         ServerRunsTransactions(d), batch'[d] = k, NEW x \in Int, x = Sum(First(d, k))
  PROVE  Tally(n + x, d)' /\ TapsTurn(d)'
<1>1. /\ TypeOK /\ Calls /\ d \in Device /\ Tally(n, d) /\ TapsTurn(d) /\ n \in Int
  BY DEF Around
<1>2. /\ UNCHANGED <<who, liked, view, txs, reads, link, drops, kills>> /\ batch[d] = 0
      /\ Wanted(d)' = Wanted(d) /\ Losses(d)' = Losses(d) /\ Unrun(d)' = Sum(Rest(d, k))
  BY DEF ServerRunsTransactions, Wanted, Unrun, Rest, Losses
<1>3. /\ txs[d] \in Seq(Steps) /\ Len(txs[d]) \in Nat /\ Unrun(d) = Sum(txs[d])
      /\ Unrun(d) \in Int /\ Losses(d) \in Nat /\ k \in 0..Len(txs[d])
  BY <1>1, <1>2, TapFacts
<1>4. /\ Sum(txs[d]) = Sum(First(d, k)) + Sum(Rest(d, k))
      /\ Sum(First(d, k)) \in Int /\ Sum(Rest(d, k)) \in Int
  BY <1>3, SumSplits DEF First, Rest
<1>5. n + Sum(First(d, k)) + Unrun(d)' = n + Unrun(d)
  BY <1>1, <1>2, <1>3, <1>4
<1>6. txs[d] # <<>>
  BY <1>3
<1>7. TapsTurn(d)'
  BY <1>1, <1>2, <1>6 DEF TapsTurn, Quiet, view
<1>8. ~Quiet(d)'
  BY <1>2, <1>6 DEF Quiet
<1>9. PICK u, v \in Int : u = Unrun(d)' /\ v = Unrun(d) /\ n + x + u = n + v
  <2>1. Unrun(d)' \in Int
    BY <1>2, <1>4
  <2>2. QED
    BY <1>3, <1>4, <1>5, <2>1
<1>10. /\ Near(n + Unrun(d) - Bit(Wanted(d)), Losses(d))
       /\ d \in open \ asking => Near(n + Unrun(d) - Bit(icon[d] = "like"), Losses(d))
  BY <1>1 DEF Tally
<1>11. \A a \in Int : n + x + u - a = n + v - a
  <2>1. n \in Int /\ n + x + u = n + v
    BY <1>1, <1>9
  <2>2. QED
    BY <2>1
<1>12. /\ Near(n + x + u - Bit(Wanted(d)'), Losses(d)')
       /\ d \in open' \ asking' => Near(n + x + u - Bit(icon'[d] = "like"), Losses(d)')
  <2>1. open' = open /\ asking' = asking /\ icon' = icon
    BY <1>2 DEF view
  <2>2. PICK y \in Int : y = Bit(Wanted(d)) /\ y = Bit(Wanted(d)')
    BY <1>2 DEF Bit
  <2>3. Near(n + x + u - y, Losses(d)')
    <3>1. Near(n + v - y, Losses(d)')
      BY <1>2, <1>9, <1>10, <2>2
    <3>2. n + x + u - y = n + v - y
      BY <1>11
    <3>3. QED
      BY <3>1, <3>2
  <2>4. d \in open' \ asking' => Near(n + x + u - Bit(icon'[d] = "like"), Losses(d)')
    <3>1. PICK z \in Int : z = Bit(icon[d] = "like") /\ z = Bit(icon'[d] = "like")
      BY <2>1 DEF Bit
    <3>2. d \in open' \ asking' => Near(n + v - z, Losses(d)')
      BY <1>2, <1>9, <1>10, <2>1, <3>1
    <3>3. n + x + u - z = n + v - z
      BY <1>11
    <3>4. QED
      BY <3>1, <3>2, <3>3
  <2>5. QED
    BY <2>2, <2>3, <2>4
<1>13. QED
  BY <1>7, <1>8, <1>9, <1>12 DEF Tally

LEMMA CommitTallies ==
  ASSUME NEW d, NEW n, Around(d, n), TransactionsCommit(d)
  PROVE  Tally(n, d)' /\ TapsTurn(d)'
<1> DEFINE s == txs[d]
           b == batch[d]
<1>1. /\ TypeOK /\ Calls /\ TypeOK' /\ Calls' /\ d \in Device /\ Tally(n, d) /\ TapsTurn(d) /\ n \in Int
  BY DEF Around
<1>2. /\ UNCHANGED <<who, liked, open, asking, icon, link, drops, kills>> /\ batch'[d] = 0
      /\ txs'[d] = Rest(d, b) /\ Losses(d)' = Losses(d)
  BY <1>1 DEF TransactionsCommit, Losses, TypeOK, server, view
<1>3. (Wanted(d)' <=> Wanted(d)) /\ s # <<>> /\ reads'[d] # <<>>
  BY <1>1, CommitWants
<1>4. s \in Seq(Steps) /\ b \in 0..Len(s) /\ Len(s) \in Nat
  BY <1>1, TapFacts
<1>5. Unrun(d)' = Unrun(d)
  <2>1. Rest(d, b) \in Seq(Steps)
    BY <1>1, TapFacts
  <2>2. Unrun(d)' = Sum(SubSeq(txs'[d], 0 + 1, Len(txs'[d])))
    BY <1>2 DEF Unrun, Rest
  <2>3. SubSeq(txs'[d], 0 + 1, Len(txs'[d])) = Rest(d, b)
    BY <1>2, <2>1, SubSeqFull
  <2>4. QED
    BY <2>2, <2>3 DEF Unrun
<1>6. Bit(Wanted(d)') = Bit(Wanted(d))
  BY <1>3 DEF Bit
<1>7. ~Quiet(d) /\ ~Quiet(d)' /\ d \notin asking
  BY <1>1, <1>3 DEF Quiet, TapsTurn
<1>8. Tally(n, d)'
  BY <1>1, <1>2, <1>5, <1>6, <1>7 DEF Tally
<1>9. TapsTurn(d)'
  <2>1. Turning(txs'[d])
    BY <1>1, <1>2, <1>4, TurningSplits DEF TapsTurn, Rest
  <2>2. txs'[d] # <<>> => txs'[d][Len(txs'[d])] = s[Len(s)]
    <3>1. /\ b = Len(s) => Rest(d, b) = <<>>
          /\ b < Len(s) => Rest(d, b)[Len(Rest(d, b))] = s[Len(s)]
      BY <1>4, SplitFacts DEF Rest
    <3>2. b = Len(s) \/ b < Len(s)
      BY <1>4
    <3>3. QED
      BY <1>2, <3>1, <3>2
  <2>3. QED
    BY <1>1, <1>2, <1>3, <1>7, <2>1, <2>2 DEF TapsTurn
<1>10. QED
  BY <1>8, <1>9

LEMMA ReadBackTallies ==
  ASSUME NEW d, NEW n, Around(d, n), ReadBackAnswer(d)
  PROVE  Tally(n, d)' /\ TapsTurn(d)'
<1>1. /\ TypeOK /\ Calls /\ d \in Device /\ Tally(n, d) /\ TapsTurn(d) /\ n \in Int /\ counted
  BY CalmFacts DEF Around
<1>2. /\ UNCHANGED <<who, liked, open, asking, icon, txs, batch, drops, kills>>
      /\ Losses(d)' = Losses(d) /\ Unrun(d)' = Unrun(d)
  BY DEF ReadBackAnswer, Losses, Unrun, Rest, server, view
<1>3. WriteRecords(d)
  BY <1>1 DEF ReadBackAnswer, SeesCounter
<1>4. (Wanted(d)' <=> Wanted(d)) /\ reads[d] # <<>>
  BY <1>1, <1>3, ReadBackWants
<1>5. link'[d].puts # <<>>
  <2>1. link'[d] = WithRecords(link[d], d, Head(reads[d]))
    BY <1>1, <1>3 DEF WriteRecords, WithRecords, TypeOK
  <2>2. QED
    BY <1>1, <2>1, LinkEnqueues DEF Calls
<1>6. Bit(Wanted(d)') = Bit(Wanted(d))
  BY <1>4 DEF Bit
<1>7. ~Quiet(d)' /\ d \notin asking
  BY <1>1, <1>4, <1>5 DEF Quiet, TapsTurn
<1>8. QED
  BY <1>1, <1>2, <1>6, <1>7 DEF Tally, TapsTurn

\* The server applies a put, or the phone hears of it.
LEMMA PutsTally ==
  ASSUME NEW d, NEW n, Around(d, n), [Next]_vars, ServerAppliesPut(d) \/ AckPut(d)
  PROVE  Tally(n, d)' /\ TapsTurn(d)'
<1>1. /\ TypeOK /\ Calls /\ TypeOK' /\ Calls' /\ Records /\ d \in Device
      /\ Tally(n, d) /\ TapsTurn(d) /\ n \in Int /\ described /\ OnePhone(d) /\ described'
  BY CalmFacts DEF Around, Calm, Calls
<1>2. /\ UNCHANGED <<open, asking, icon, txs, batch, reads, drops, kills>>
      /\ Losses(d)' = Losses(d) /\ Unrun(d)' = Unrun(d)
  BY DEF ServerAppliesPut, AckPut, Losses, Unrun, Rest, view, calls
<1>3. Wanted(d)' <=> Wanted(d)
  <2>1. ~Kill(d)
    <3>1. ASSUME Kill(d)
          PROVE  FALSE
      <4>1. kills'[d] = kills[d] + 1 /\ kills[d] \in Nat
        BY <1>1, <3>1 DEF Kill, TypeOK
      <4>2. QED
        BY <1>2, <4>1
    <3>2. QED
      BY <3>1
  <2>2. QED
    BY <1>1, <1>2, <2>1, WantedSame
<1>4. link[d] \in LinkOf(Put) /\ Pairs(link[d], UserOf[d]) /\ Recorded(link[d], UserOf[d], who, liked)
  BY <1>1 DEF Calls, TypeOK, Records
<1>5. link[d].puts # <<>>
  <2>1. CASE ServerAppliesPut(d)
    BY <1>4, <2>1, LinkApplies DEF ServerAppliesPut
  <2>2. CASE AckPut(d)
    <3>1. link[d].done > 0 /\ link[d].done \in Nat /\ link[d].done <= Len(link[d].puts)
      BY <1>4, <2>2 DEF AckPut, CanAck, Pairs, LinkOf
    <3>2. Len(link[d].puts) # 0
      BY <1>4, <3>1 DEF LinkOf
    <3>3. QED
      BY <3>2
  <2>3. QED
    BY <2>1, <2>2
<1>6. Bit(Wanted(d)') = Bit(Wanted(d))
  BY <1>3 DEF Bit
<1>7. d \notin asking
  BY <1>1, <1>5 DEF Quiet, TapsTurn
<1>8. Quiet(d)' => /\ Unrun(d)' = 0 /\ (Wanted(d)' <=> UserOf[d] \in liked')
  <2>1. CASE ServerAppliesPut(d)
    <3>1. link'[d].puts = link[d].puts
      BY <1>1, <1>4, <2>1, LinkApplies DEF ServerAppliesPut, TypeOK
    <3>2. QED
      BY <1>5, <3>1 DEF Quiet
  <2>2. CASE AckPut(d)
    <3>1. link'[d] = Acked(link[d]) /\ who' = who /\ liked' = liked
      BY <1>1, <2>2 DEF AckPut, TypeOK, server
    <3>2. Acked(link[d]).puts = <<>> => (UserOf[d] \in who <=> UserOf[d] \in liked)
      BY <1>4, <2>2, LinkAcks DEF AckPut
    <3>3. Quiet(d)' => Unrun(d) = 0
      BY <1>1, <1>2, TapFacts DEF Quiet
    <3>4. QED
      BY <1>2, <3>1, <3>2, <3>3 DEF Quiet, Wanted, InTheEnd
  <2>3. QED
    BY <2>1, <2>2
<1>9. Near(n + Unrun(d)' - Bit(Wanted(d)'), Losses(d)')
  BY <1>1, <1>2, <1>6 DEF Tally
<1>10. Quiet(d)' => Near(n - Bit(UserOf[d] \in liked'), Losses(d)')
  <2>1. ASSUME Quiet(d)'
        PROVE  Near(n - Bit(UserOf[d] \in liked'), Losses(d)')
    <3>1. Bit(Wanted(d)') = Bit(UserOf[d] \in liked') /\ Unrun(d)' = 0
      BY <1>8, <2>1 DEF Bit
    <3>2. PICK y \in Int : y = Bit(UserOf[d] \in liked')
      BY DEF Bit
    <3>3. n + 0 - y = n - y /\ Near(n + 0 - y, Losses(d)')
      BY <1>1, <1>9, <3>1, <3>2
    <3>4. QED
      BY <3>2, <3>3
  <2>2. QED
    BY <2>1
<1>11. QED
  BY <1>1, <1>2, <1>7, <1>9, <1>10 DEF Tally, TapsTurn

\* A dropped connection ends a batch uncommitted: the taps the server has run stay counted,
\* and the others have counted for one like at most.
LEMMA DropTallies ==
  ASSUME NEW d, NEW n, Around(d, n), [Next]_vars, DropConnection(d)
  PROVE  Tally(n, d)' /\ TapsTurn(d)'
<1> DEFINE s == txs[d]
           b == batch[d]
<1>1. /\ TypeOK /\ Calls /\ TypeOK' /\ Calls' /\ Records /\ d \in Device
      /\ Tally(n, d) /\ TapsTurn(d) /\ n \in Int /\ described /\ OnePhone(d) /\ described'
  BY CalmFacts DEF Around, Calm, Calls
<1>2. /\ UNCHANGED <<who, liked, open, asking, icon, reads, kills>>
      /\ drops'[d] = drops[d] + 1 /\ link'[d] = Resent(link[d])
  BY <1>1 DEF DropConnection, TypeOK, server, view
<1>3. /\ s \in Seq(Steps) /\ Len(s) \in Nat /\ b \in 0..Len(s)
      /\ Unrun(d) \in Int /\ Losses(d) \in Nat
      /\ b = 0 => Unrun(d) = Sum(s)
  BY <1>1, TapFacts
<1>4. Losses(d)' = Losses(d) + 1
  BY <1>1, <1>2 DEF Losses, TypeOK
<1>5. PICK k \in Sent(d) : Uncommitted(d, k)
  BY DEF DropConnection
<1>6. k \in 0..Len(s) /\ (b # 0 => k = b)
  BY <1>3, <1>5 DEF Sent
<1>7. txs'[d] = Rest(d, k) /\ batch'[d] = 0
  BY <1>1, <1>5 DEF Uncommitted, TypeOK
<1>8. Rest(d, k) \in Seq(Steps) /\ First(d, k) \in Seq(Steps)
  BY <1>3, <1>6, SplitFacts DEF Rest, First
<1>9. Unrun(d)' = Sum(Rest(d, k)) /\ Sum(Rest(d, k)) \in Int
  <2>1. Unrun(d)' = Sum(SubSeq(txs'[d], 0 + 1, Len(txs'[d])))
    BY <1>7 DEF Unrun, Rest
  <2>2. SubSeq(txs'[d], 0 + 1, Len(txs'[d])) = Rest(d, k)
    BY <1>7, <1>8, SubSeqFull
  <2>3. QED
    BY <1>8, <2>1, <2>2, SumType
<1>10. Near(Unrun(d) - Unrun(d)', 1)
  <2>1. CASE b # 0
    <3>1. Unrun(d)' = Unrun(d)
      BY <1>6, <1>9, <2>1 DEF Unrun
    <3>2. QED
      BY <1>3, <3>1 DEF Near
  <2>2. CASE b = 0
    <3>1. /\ Sum(s) = Sum(First(d, k)) + Sum(Rest(d, k))
          /\ Sum(First(d, k)) \in Int /\ Sum(Rest(d, k)) \in Int
      BY <1>3, <1>6, SumSplits DEF First, Rest
    <3>2. Turning(First(d, k))
      BY <1>1, <1>3, <1>6, TurningSplits DEF TapsTurn, First
    <3>3. Near(Sum(First(d, k)), 1)
      BY <1>8, <3>2, LostTaps
    <3>4. Unrun(d) - Unrun(d)' = Sum(First(d, k))
      BY <1>3, <1>9, <2>2, <3>1
    <3>5. QED
      BY <3>3, <3>4
  <2>3. QED
    BY <2>1, <2>2
<1>11. PICK u, v \in Int : u = Unrun(d)' /\ v = Unrun(d) /\ Near(v - u, 1)
  BY <1>3, <1>9, <1>10
<1>12. \A y \in Int : Near(n + v - y, Losses(d)) => Near(n + u - y, Losses(d) + 1)
  <2>1. n \in Int /\ Losses(d) \in Nat /\ Near(v - u, 1)
    BY <1>1, <1>3, <1>11
  <2>2. QED
    BY <2>1 DEF Near
<1>13. ASSUME k < Len(s) \/ k = 0
      PROVE    /\ Near(n + u - Bit(Wanted(d)'), Losses(d)')
               /\ d \in open' \ asking' => Near(n + u - Bit(icon'[d] = "like"), Losses(d)')
               /\ txs'[d] # <<>> => s # <<>> /\ txs'[d][Len(txs'[d])] = s[Len(s)]
  <2>1. /\ txs'[d] = <<>> <=> s = <<>>
        /\ s # <<>> => txs'[d][Len(txs'[d])] = s[Len(s)]
    BY <1>1, <1>5, <1>6, <1>13, UncommittedLeaves
  <2>2. Wanted(d)' <=> Wanted(d)
    <3>1. CASE s = <<>>
      <4>1. ~Kill(d)
        <5>1. ASSUME Kill(d)
              PROVE  FALSE
          <6>1. kills'[d] = kills[d] + 1 /\ kills[d] \in Nat
            BY <1>1, <5>1 DEF Kill, TypeOK
          <6>2. QED
            BY <1>2, <6>1
        <5>2. QED
          BY <5>1
      <4>2. QED
        BY <1>1, <1>2, <2>1, <3>1, <4>1, WantedSame
    <3>2. CASE s # <<>>
      BY <2>1, <3>2 DEF Wanted
    <3>3. QED
      BY <3>1, <3>2
  <2>3. Near(n + u - Bit(Wanted(d)'), Losses(d)')
    <3>1. PICK y \in Int : y = Bit(Wanted(d)) /\ y = Bit(Wanted(d)')
      BY <2>2 DEF Bit
    <3>2. Near(n + v - y, Losses(d))
      BY <1>1, <1>11, <3>1 DEF Tally
    <3>3. Near(n + u - y, Losses(d) + 1)
      BY <1>12, <3>2
    <3>4. QED
      BY <1>4, <3>1, <3>3
  <2>4. d \in open' \ asking' => Near(n + u - Bit(icon'[d] = "like"), Losses(d)')
    <3>1. PICK y \in Int : y = Bit(icon[d] = "like") /\ y = Bit(icon'[d] = "like")
      BY <1>2 DEF Bit
    <3>2. d \in open' \ asking' => Near(n + v - y, Losses(d))
      BY <1>1, <1>2, <1>11, <3>1 DEF Tally
    <3>3. d \in open' \ asking' => Near(n + u - y, Losses(d) + 1)
      BY <1>12, <3>2
    <3>4. QED
      BY <1>4, <3>1, <3>3
  <2>5. txs'[d] # <<>> => s # <<>> /\ txs'[d][Len(txs'[d])] = s[Len(s)]
    BY <2>1
  <2>6. QED
    BY <2>3, <2>4, <2>5
<1>14. ASSUME k = Len(s) /\ k # 0
      PROVE    /\ Near(n + u - Bit(Wanted(d)'), Losses(d)')
               /\ d \in open' \ asking' => Near(n + u - Bit(icon'[d] = "like"), Losses(d)')
               /\ txs'[d] # <<>> => s # <<>> /\ txs'[d][Len(txs'[d])] = s[Len(s)]
  <2>1. txs'[d] = <<>>
    BY <1>3, <1>6, <1>7, <1>14, SplitFacts DEF Rest
  <2>2. u = 0
    BY <1>7, <1>9, <1>11, <2>1, SumOfNone
  <2>3. \A y \in {0, 1} : Near(n - y, Losses(d) + 1)
    BY LosesAll
  <2>4. \A y \in {0, 1} : Near(n + u - y, Losses(d)')
    <3>1. \A y \in {0, 1} : n + u - y = n - y
      <4>1. n \in Int
        BY <1>1
      <4>2. QED
        BY <2>2, <4>1
    <3>2. QED
      BY <1>4, <2>3, <3>1
  <2>5. Bit(Wanted(d)') \in {0, 1} /\ Bit(icon'[d] = "like") \in {0, 1}
    BY DEF Bit
  <2>6. QED
    BY <2>1, <2>4, <2>5
<1>15. /\ Near(n + u - Bit(Wanted(d)'), Losses(d)')
       /\ d \in open' \ asking' => Near(n + u - Bit(icon'[d] = "like"), Losses(d)')
       /\ txs'[d] # <<>> => s # <<>> /\ txs'[d][Len(txs'[d])] = s[Len(s)]
  <2>1. (k < Len(s) \/ k = 0) \/ (k = Len(s) /\ k # 0)
    BY <1>3, <1>6
  <2>2. QED
    BY <1>13, <1>14, <2>1
<1>16. Near(n - Bit(UserOf[d] \in liked'), Losses(d)')
  <2>1. Bit(UserOf[d] \in liked') \in {0, 1}
    BY DEF Bit
  <2>2. Near(n - Bit(UserOf[d] \in liked'), Losses(d) + 1)
    BY <2>1, LosesAll
  <2>3. QED
    BY <1>4, <2>2
<1>17. Tally(n, d)'
  BY <1>11, <1>15, <1>16 DEF Tally
<1>18. Turning(txs'[d])
  BY <1>1, <1>3, <1>6, <1>7, TurningSplits DEF TapsTurn, Rest
<1>19. Quiet(d) => Quiet(d)'
  <2>1. link'[d].puts = link[d].puts
    BY <1>1, <1>2, LinkResends DEF Calls
  <2>2. s = <<>> => txs'[d] = <<>>
    BY <1>15
  <2>3. QED
    BY <1>2, <2>1, <2>2 DEF Quiet
<1>20. QED
  BY <1>1, <1>2, <1>15, <1>17, <1>18, <1>19 DEF TapsTurn

\* A killed process loses all its taps: those the server had not run counted for one like at
\* most.
LEMMA KillTallies ==
  ASSUME NEW d, NEW n, Around(d, n), Kill(d)
  PROVE  Tally(n, d)' /\ TapsTurn(d)'
<1>1. TypeOK /\ Calls /\ d \in Device /\ n \in Int
  BY DEF Around
<1>2. /\ kills'[d] = kills[d] + 1 /\ drops'[d] = drops[d] /\ txs'[d] = <<>> /\ batch'[d] = 0
      /\ d \notin open' /\ d \notin asking'
  BY <1>1 DEF Kill, TypeOK
<1>3. Losses(d)' = Losses(d) + 1
  BY <1>1, <1>2 DEF Losses, TypeOK
<1>4. Unrun(d)' = 0
  <2>1. <<>> \in Seq(Steps) /\ Len(<<>>) = 0
    OBVIOUS
  <2>2. SubSeq(<<>>, 0 + 1, Len(<<>>)) = <<>>
    BY <2>1, SplitFacts
  <2>3. Unrun(d)' = Sum(SubSeq(txs'[d], batch'[d] + 1, Len(txs'[d])))
    BY DEF Unrun, Rest
  <2>4. QED
    BY <1>2, <2>2, <2>3, SumOfNone
<1>5. \A y \in {0, 1} : Near(n - y, Losses(d)')
  BY <1>3, LosesAll
<1>6. Bit(Wanted(d)') \in {0, 1} /\ Bit(UserOf[d] \in liked') \in {0, 1}
  BY DEF Bit
<1>7. Near(n + 0 - Bit(Wanted(d)'), Losses(d)')
  <2>1. \A y \in {0, 1} : n + 0 - y = n - y
    BY <1>1
  <2>2. QED
    BY <1>5, <1>6, <2>1
<1>8. Tally(n, d)'
  BY <1>2, <1>4, <1>5, <1>6, <1>7 DEF Tally
<1>9. Turning(txs'[d])
  <2>1. 1..Len(<<>>) - 1 = {}
    OBVIOUS
  <2>2. QED
    BY <1>2, <2>1 DEF Turning
<1>10. QED
  BY <1>2, <1>8, <1>9 DEF TapsTurn

\* A step of another phone, or of nobody, leaves this one's tally alone.
LEMMA OthersTally ==
  ASSUME NEW e, NEW n, Around(e, n), [Next]_vars,
         \/ UNCHANGED vars
         \/ \E d \in Device \ {e} :
              \/ OpenPost(d) \/ ClosePost(d) \/ TapLike(d) \/ TapOffline(d) \/ LikedPostsAnswer(d)
              \/ ServerRunsTransactions(d) \/ TransactionsCommit(d) \/ TransactionsAbort(d)
              \/ ReadBackAnswer(d) \/ ServerAppliesPut(d) \/ AckPut(d) \/ DropConnection(d) \/ Kill(d)
  PROVE  Tally(n, e)' /\ TapsTurn(e)'
<1>1. /\ TypeOK /\ Calls /\ TypeOK' /\ Calls' /\ Records /\ e \in Device
      /\ Tally(n, e) /\ TapsTurn(e) /\ n \in Int /\ described /\ OnePhone(e) /\ described'
  BY CalmFacts DEF Around, Calm, Calls
<1>2. /\ txs'[e] = txs[e] /\ reads'[e] = reads[e] /\ link'[e] = link[e] /\ icon'[e] = icon[e]
      /\ e \in open' <=> e \in open
      /\ e \in asking' <=> e \in asking
  BY <1>1, OthersLeave
<1>3. batch'[e] = batch[e] /\ drops'[e] = drops[e] /\ kills'[e] = kills[e]
  <2>1. CASE UNCHANGED vars
    BY <2>1 DEF vars, calls
  <2>2. ASSUME NEW d \in Device \ {e},
               \/ OpenPost(d) \/ ClosePost(d) \/ TapLike(d) \/ TapOffline(d) \/ LikedPostsAnswer(d)
               \/ ReadBackAnswer(d) \/ ServerAppliesPut(d) \/ AckPut(d)
        PROVE  batch'[e] = batch[e] /\ drops'[e] = drops[e] /\ kills'[e] = kills[e]
    BY <2>2 DEF OpenPost, ClosePost, TapLike, TapOffline, LikedPostsAnswer, ReadBackAnswer,
                ServerAppliesPut, AckPut, calls
  <2>3. ASSUME NEW d \in Device \ {e},
               \/ ServerRunsTransactions(d) \/ TransactionsCommit(d) \/ TransactionsAbort(d)
               \/ DropConnection(d) \/ Kill(d)
        PROVE  batch'[e] = batch[e] /\ drops'[e] = drops[e] /\ kills'[e] = kills[e]
    BY <1>1, <2>3 DEF ServerRunsTransactions, TransactionsCommit, TransactionsAbort,
                      DropConnection, Uncommitted, Kill, TypeOK
  <2>4. QED
    BY <2>1, <2>2, <2>3
<1>4. UserOf[e] \in liked' <=> UserOf[e] \in liked
  <2>1. CASE UNCHANGED vars
    BY <2>1 DEF vars, server
  <2>2. ASSUME NEW d \in Device \ {e}, ServerAppliesPut(d)
        PROVE  UserOf[e] \in liked' <=> UserOf[e] \in liked
    <3>1. link[d].done + 1 \in 1..Len(link[d].puts)
      <4>1. link[d].done \in Nat /\ link[d].puts \in Seq(Put) /\ link[d].done < Len(link[d].puts)
        BY <1>1, <2>2 DEF TypeOK, LinkOf, ServerAppliesPut, CanApply
      <4>2. QED
        BY <4>1
    <3>2. NextPut(link[d]).user = UserOf[d]
      BY <1>1, <3>1 DEF Calls, Pairs, NextPut
    <3>3. UserOf[d] # UserOf[e]
      BY <1>1 DEF OnePhone
    <3>4. QED
      BY <2>2, <3>2, <3>3 DEF ServerAppliesPut, WithUser
  <2>3. ASSUME NEW d \in Device \ {e},
               \/ OpenPost(d) \/ ClosePost(d) \/ TapLike(d) \/ TapOffline(d) \/ LikedPostsAnswer(d)
               \/ ServerRunsTransactions(d) \/ TransactionsCommit(d) \/ TransactionsAbort(d)
               \/ ReadBackAnswer(d) \/ AckPut(d) \/ DropConnection(d) \/ Kill(d)
        PROVE  liked' = liked
    BY <2>3 DEF OpenPost, ClosePost, TapLike, TapOffline, LikedPostsAnswer, ReadBackAnswer, AckPut,
                ServerRunsTransactions, TransactionsCommit, TransactionsAbort, DropConnection, Kill, server
  <2>4. QED
    BY <2>1, <2>2, <2>3
<1>5. Wanted(e)' <=> Wanted(e)
  <2>1. ~Kill(e)
    <3>1. ASSUME Kill(e)
          PROVE  FALSE
      <4>1. kills'[e] = kills[e] + 1 /\ kills[e] \in Nat
        BY <1>1, <3>1 DEF Kill, TypeOK
      <4>2. QED
        BY <1>3, <4>1
    <3>2. QED
      BY <3>1
  <2>2. QED
    BY <1>1, <1>2, <2>1, WantedSame
<1>6. Unrun(e)' = Unrun(e) /\ Losses(e)' = Losses(e) /\ (Quiet(e)' <=> Quiet(e))
  BY <1>2, <1>3 DEF Unrun, Rest, Losses, Quiet
<1>7. /\ Bit(Wanted(e)') = Bit(Wanted(e)) /\ Bit(UserOf[e] \in liked') = Bit(UserOf[e] \in liked)
      /\ Bit(icon'[e] = "like") = Bit(icon[e] = "like")
  BY <1>2, <1>4, <1>5 DEF Bit
<1>8. Tally(n, e)'
  BY <1>1, <1>2, <1>6, <1>7 DEF Tally
<1>9. TapsTurn(e)'
  BY <1>1, <1>2, <1>6 DEF TapsTurn
<1>10. QED
  BY <1>8, <1>9

\* A batch of d moves the counter, and a put of d moves one user in or out of the record.
LEMMA CounterMoves ==
  ASSUME IsFiniteSet(Device), NEW t \in [Device -> Int], NEW d \in Device, NEW x \in Int,
         NEW r \in [Device -> Int], r[d] = t[d] + x, \A e \in Device \ {d} : r[e] = t[e],
         \A e \in Device : OnePhone(e),
         NEW W \in SUBSET Account, NEW V \in SUBSET Account, V \ {UserOf[d]} = W \ {UserOf[d]}
  PROVE  /\ SumOver(Beyond(t, W)) \in Int
         /\ SumOver(Beyond(r, V)) = SumOver(Beyond(t, W)) + x + Cardinality(W) - Cardinality(V)
<1> DEFINE u == UserOf[d]
           Rest0 == W \ {u}
<1>1. u \in Account /\ IsFiniteSet(Account)
  BY UsersAssumption
<1>2. /\ Beyond(t, W) \in [Device -> Int] /\ Beyond(r, V) \in [Device -> Int]
      /\ \A e \in Device : /\ Beyond(t, W)[e] = t[e] - Bit(UserOf[e] \in W)
                           /\ Beyond(r, V)[e] = r[e] - Bit(UserOf[e] \in V)
  BY DEF Beyond, Bit
<1>3. \A e \in Device \ {d} : Beyond(t, W)[e] = Beyond(r, V)[e]
  <2> SUFFICES ASSUME NEW e \in Device \ {d}
               PROVE  Beyond(t, W)[e] = Beyond(r, V)[e]
    OBVIOUS
  <2>1. UserOf[e] # u
    BY DEF OnePhone
  <2>2. UserOf[e] \in V <=> UserOf[e] \in W
    BY <2>1
  <2>3. Bit(UserOf[e] \in V) = Bit(UserOf[e] \in W)
    BY <2>2 DEF Bit
  <2>4. QED
    BY <1>2, <2>3
<1>4. /\ SumOver(Beyond(t, W)) \in Int
      /\ SumOver(Beyond(r, V)) = SumOver(Beyond(t, W)) + (Beyond(r, V)[d] - Beyond(t, W)[d])
  BY <1>2, <1>3, SumChanges
<1>5. ASSUME NEW X \in SUBSET Account
      PROVE  /\ Cardinality(X) = Cardinality(X \ {u}) + Bit(u \in X)
             /\ Cardinality(X \ {u}) \in Int /\ Bit(u \in X) \in Int
  <2>1. IsFiniteSet(X) /\ IsFiniteSet(X \ {u})
    BY <1>1, FS_Subset
  <2>2. Cardinality(X) \in Nat /\ Cardinality(X \ {u}) \in Nat
    BY <2>1, FS_CardinalityType
  <2>3. CASE u \in X
    <3>1. Cardinality(X \ {u}) = Cardinality(X) - 1
      BY <2>1, <2>3, FS_RemoveElement
    <3>2. QED
      BY <2>2, <2>3, <3>1 DEF Bit
  <2>4. CASE u \notin X
    <3>1. X \ {u} = X
      BY <2>4
    <3>2. QED
      BY <2>2, <2>4, <3>1 DEF Bit
  <2>5. QED
    BY <2>3, <2>4
<1>6. Beyond(r, V)[d] - Beyond(t, W)[d] = x + Cardinality(W) - Cardinality(V)
  <2>1. PICK p \in Int : p = Bit(u \in W) /\ Cardinality(W) = Cardinality(Rest0) + p
    BY <1>5
  <2>2. PICK q \in Int : q = Bit(u \in V) /\ Cardinality(V) = Cardinality(Rest0) + q
    BY <1>5
  <2>3. Cardinality(Rest0) \in Int
    BY <1>5
  <2>4. PICK m \in Int : m = Cardinality(Rest0)
    BY <2>3
  <2>5. Beyond(r, V)[d] = t[d] + x - q /\ Beyond(t, W)[d] = t[d] - p /\ t[d] \in Int
    BY <1>2, <2>1, <2>2
  <2>6. Cardinality(W) = m + p /\ Cardinality(V) = m + q
    BY <2>1, <2>2, <2>4
  <2> HIDE DEF Rest0, u
  <2>7. QED
    BY <2>5, <2>6
<1>7. Cardinality(W) \in Int /\ Cardinality(V) \in Int
  BY <1>1, FS_Subset, FS_CardinalityType
<1>8. SumOver(Beyond(r, V)) = SumOver(Beyond(t, W)) + x + Cardinality(W) - Cardinality(V)
  BY <1>4, <1>6, <1>7
<1>9. QED
  BY <1>4, <1>8

\* A step of phone d moves the counter by what it adds to d's tally, and the record of d's
\* user only.
LEMMA ActorTallies ==
  ASSUME NEW d, NEW n, Around(d, n), [Next]_vars,
         \/ OpenPost(d) \/ ClosePost(d) \/ TapLike(d) \/ TapOffline(d) \/ LikedPostsAnswer(d)
         \/ ServerRunsTransactions(d) \/ TransactionsCommit(d) \/ TransactionsAbort(d)
         \/ ReadBackAnswer(d) \/ ServerAppliesPut(d) \/ AckPut(d) \/ DropConnection(d) \/ Kill(d)
  PROVE  \E x \in Int : /\ Tally(n + x, d)' /\ TapsTurn(d)' /\ total' = total + x
                        /\ who' \ {UserOf[d]} = who \ {UserOf[d]}
<1>1. /\ TypeOK /\ Calls /\ d \in Device /\ n \in Int /\ total \in Int
      /\ "offline" \notin world.habits /\ "abort" \notin world.faults
  BY CalmFacts DEF Around, TypeOK
<1>2. ~TapOffline(d) /\ ~TransactionsAbort(d)
  BY <1>1 DEF TapOffline, TransactionsAbort
<1>3. ASSUME Tally(n, d)' /\ TapsTurn(d)', total' = total, who' \ {UserOf[d]} = who \ {UserOf[d]}
      PROVE  \E x \in Int : /\ Tally(n + x, d)' /\ TapsTurn(d)' /\ total' = total + x
                            /\ who' \ {UserOf[d]} = who \ {UserOf[d]}
  <2>1. n + 0 = n /\ total + 0 = total
    BY <1>1
  <2>2. Tally(n + 0, d)'
    BY <1>3, <2>1
  <2>3. QED
    BY <1>3, <2>1, <2>2
<1>4. CASE OpenPost(d) \/ ClosePost(d) \/ LikedPostsAnswer(d)
  <2>1. UNCHANGED server
    BY <1>4 DEF OpenPost, ClosePost, LikedPostsAnswer
  <2>2. QED
    BY <1>3, <1>4, <2>1, ScreensTally, AnswerTallies DEF server
<1>5. CASE TapLike(d)
  BY <1>3, <1>5, TapTallies DEF TapLike, server
<1>6. CASE TransactionsCommit(d)
  BY <1>3, <1>6, CommitTallies DEF TransactionsCommit, server
<1>7. CASE ReadBackAnswer(d)
  BY <1>3, <1>7, ReadBackTallies DEF ReadBackAnswer, server
<1>8. CASE AckPut(d)
  BY <1>3, <1>8, PutsTally DEF AckPut, server
<1>9. CASE DropConnection(d)
  BY <1>3, <1>9, DropTallies DEF DropConnection, server
<1>10. CASE Kill(d)
  BY <1>3, <1>10, KillTallies DEF Kill, server
<1>11. CASE ServerAppliesPut(d)
  <2>1. NextPut(link[d]).user = UserOf[d]
    <3>1. link[d].done \in Nat /\ link[d].puts \in Seq(Put) /\ link[d].done < Len(link[d].puts)
      BY <1>1, <1>11 DEF TypeOK, LinkOf, ServerAppliesPut, CanApply
    <3>2. link[d].done + 1 \in 1..Len(link[d].puts)
      BY <3>1
    <3>3. QED
      BY <1>1, <3>2 DEF Calls, Pairs, NextPut
  <2>2. who' \ {UserOf[d]} = who \ {UserOf[d]} /\ total' = total
    BY <1>11, <2>1 DEF ServerAppliesPut, WithUser
  <2>3. QED
    BY <1>3, <1>11, <2>2, PutsTally
<1>12. CASE ServerRunsTransactions(d)
  <2>1. PICK k \in 1..Len(txs[d]) : batch' = [batch EXCEPT ![d] = k] /\ total' = total + Sum(First(d, k))
    BY <1>12 DEF ServerRunsTransactions
  <2>2. batch'[d] = k
    BY <1>1, <2>1 DEF TypeOK
  <2>3. Sum(First(d, k)) \in Int
    <3>1. txs[d] \in Seq(Steps) /\ k \in 0..Len(txs[d])
      BY <1>1, <2>1, TapFacts
    <3>2. First(d, k) \in Seq(Steps)
      BY <3>1, SplitFacts DEF First
    <3>3. QED
      BY <3>2, SumType
  <2>4. PICK x \in Int : x = Sum(First(d, k))
    BY <2>3
  <2>5. Tally(n + x, d)' /\ TapsTurn(d)'
    BY <1>12, <2>2, <2>4, RunTallies
  <2>6. who' = who
    BY <1>12 DEF ServerRunsTransactions
  <2>7. QED
    BY <2>1, <2>4, <2>5, <2>6
<1>13. QED
  BY <1>2, <1>4, <1>5, <1>6, <1>7, <1>8, <1>9, <1>10, <1>11, <1>12

LEMMA DriftStart == Init => DriftInv
<1> SUFFICES ASSUME Init, Calm
             PROVE  /\ \A d \in Device : TapsTurn(d)
                    /\ \E t \in [Device -> Int] :
                         /\ total - Cardinality(who) = SumOver(Beyond(t, who))
                         /\ \A d \in Device : Tally(t[d], d)
  BY DEF DriftInv
<1>1. TypeOK /\ Calls /\ IsFiniteSet(Device)
  BY TypesStart, CalmFacts
<1> DEFINE t == [d \in Device |-> Bit(UserOf[d] \in who)]
<1>2. t \in [Device -> Int] /\ \A d \in Device : t[d] \in Int /\ t[d] = Bit(UserOf[d] \in who)
  BY DEF Bit
<1> HIDE DEF t
<1>3. ASSUME NEW d \in Device
      PROVE  TapsTurn(d) /\ Tally(t[d], d)
  <2>1. /\ txs[d] = <<>> /\ reads[d] = <<>> /\ link[d].puts = <<>> /\ d \notin open /\ d \notin asking
        /\ drops[d] = 0 /\ kills[d] = 0 /\ liked = who
    BY DEF Init, IdleLink
  <2>2. Unrun(d) = 0
    BY <1>1, <2>1, TapFacts
  <2>3. Turning(txs[d])
    <3>1. 1..Len(<<>>) - 1 = {}
      OBVIOUS
    <3>2. QED
      BY <2>1, <3>1 DEF Turning
  <2>4. PICK y \in Int : y = t[d] /\ y = Bit(UserOf[d] \in who)
    BY <1>2
  <2>5. Bit(Wanted(d)) = y /\ Bit(UserOf[d] \in liked) = y
    BY <2>1, <2>4 DEF Wanted, InTheEnd
  <2>6. Losses(d) = 0
    BY <2>1 DEF Losses
  <2>7. Near(y + 0 - y, 0) /\ Near(y - y, 0)
    BY DEF Near
  <2>8. Tally(y, d)
    BY <2>1, <2>2, <2>5, <2>6, <2>7 DEF Tally
  <2>9. QED
    BY <2>1, <2>3, <2>4, <2>8 DEF TapsTurn
<1>4. SumOver(Beyond(t, who)) = 0
  <2>1. Beyond(t, who) \in [Device -> Int]
    BY <1>2 DEF Beyond, Bit
  <2>2. ASSUME NEW d \in Device
        PROVE  Beyond(t, who)[d] = 0
    <3>1. PICK y \in Int : y = t[d] /\ y = Bit(UserOf[d] \in who)
      BY <1>2
    <3>2. Beyond(t, who)[d] = y - y
      BY <3>1 DEF Beyond
    <3>3. QED
      BY <3>2
  <2>3. QED
    BY <1>1, <2>1, <2>2, SumOfZeros
<1>5. total - Cardinality(who) = 0
  <2>1. Cardinality(who) \in Nat /\ total = Cardinality(who)
    BY UsersAssumption, FS_Subset, FS_CardinalityType DEF Init
  <2>2. QED
    BY <2>1
<1>6. QED
  BY <1>2, <1>3, <1>4, <1>5

LEMMA DriftStep ==
  ASSUME TypeOK, LikesInv, DriftInv, [Next]_vars, TypeOK', LikesInv'
  PROVE  DriftInv'
<1> SUFFICES ASSUME Calm'
             PROVE  /\ \A d \in Device : TapsTurn(d)'
                    /\ \E t \in [Device -> Int] :
                         /\ total' - Cardinality(who') = SumOver(Beyond(t, who'))
                         /\ \A d \in Device : Tally(t[d], d)'
  BY DEF DriftInv
<1> DEFINE Acts(d) ==
              \/ OpenPost(d) \/ ClosePost(d) \/ TapLike(d) \/ TapOffline(d) \/ LikedPostsAnswer(d)
              \/ ServerRunsTransactions(d) \/ TransactionsCommit(d) \/ TransactionsAbort(d)
              \/ ReadBackAnswer(d) \/ ServerAppliesPut(d) \/ AckPut(d) \/ DropConnection(d) \/ Kill(d)
<1>1. PostDeleted \/ UNCHANGED vars \/ \E d \in Device : Acts(d)
  BY DEF Next
<1>2. world' = world
  <2>1. ASSUME NEW d \in Device,
               \/ OpenPost(d) \/ ClosePost(d) \/ TapLike(d) \/ TapOffline(d) \/ LikedPostsAnswer(d)
               \/ ServerRunsTransactions(d) \/ TransactionsCommit(d)
        PROVE  world' = world
    BY <2>1 DEF OpenPost, ClosePost, TapLike, TapOffline, LikedPostsAnswer,
                ServerRunsTransactions, TransactionsCommit
  <2>2. ASSUME NEW d \in Device,
               \/ TransactionsAbort(d) \/ ReadBackAnswer(d) \/ ServerAppliesPut(d) \/ AckPut(d)
               \/ DropConnection(d) \/ Kill(d)
        PROVE  world' = world
    BY <2>2 DEF TransactionsAbort, ReadBackAnswer, ServerAppliesPut, AckPut, DropConnection, Kill
  <2>3. PostDeleted \/ UNCHANGED vars => world' = world
    BY DEF PostDeleted, vars
  <2>4. QED
    BY <1>1, <2>1, <2>2, <2>3
<1>3. Calm
  BY <1>2 DEF Calm
<1>4. /\ Calls /\ Calls' /\ Records /\ IsFiniteSet(Device) /\ \A d \in Device : OnePhone(d)
      /\ "delete" \notin world.faults
  BY <1>3, CalmFacts DEF LikesInv, Calm
<1>5. PICK t \in [Device -> Int] : /\ total - Cardinality(who) = SumOver(Beyond(t, who))
                                   /\ \A d \in Device : Tally(t[d], d)
  BY <1>3 DEF DriftInv
<1>6. \A d \in Device : Around(d, t[d])
  BY <1>2, <1>3, <1>4, <1>5 DEF DriftInv, Around
<1>7. CASE UNCHANGED vars
  <2>1. total' = total /\ who' = who
    BY <1>7 DEF vars, server
  <2>2. \A d \in Device : Tally(t[d], d)' /\ TapsTurn(d)'
    BY <1>6, <1>7, OthersTally
  <2>3. QED
    BY <1>5, <2>1, <2>2
<1>8. ASSUME NEW d \in Device, Acts(d)
      PROVE  /\ \A e \in Device : TapsTurn(e)'
             /\ \E r \in [Device -> Int] :
                  /\ total' - Cardinality(who') = SumOver(Beyond(r, who'))
                  /\ \A e \in Device : Tally(r[e], e)'
  <2>1. PICK x \in Int : /\ Tally(t[d] + x, d)' /\ TapsTurn(d)' /\ total' = total + x
                         /\ who' \ {UserOf[d]} = who \ {UserOf[d]}
    BY <1>6, <1>8, ActorTallies
  <2>2. ASSUME NEW e \in Device \ {d}
        PROVE  Tally(t[e], e)' /\ TapsTurn(e)'
    <3>1. d \in Device \ {e}
      OBVIOUS
    <3>2. QED
      BY <1>6, <1>8, <3>1, OthersTally
  <2> DEFINE r == [t EXCEPT ![d] = t[d] + x]
  <2>3. r \in [Device -> Int] /\ r[d] = t[d] + x /\ \A e \in Device \ {d} : r[e] = t[e]
    OBVIOUS
  <2> HIDE DEF r
  <2>4. who \in SUBSET Account /\ who' \in SUBSET Account /\ total \in Int
    BY DEF TypeOK
  <2>5. /\ SumOver(Beyond(t, who)) \in Int
        /\ SumOver(Beyond(r, who')) = SumOver(Beyond(t, who)) + x + Cardinality(who) - Cardinality(who')
    <3>1. PICK V, W \in SUBSET Account : V = who' /\ W = who
      BY <2>4
    <3>2. V \ {UserOf[d]} = W \ {UserOf[d]}
      BY <2>1, <3>1
    <3>3. /\ SumOver(Beyond(t, W)) \in Int
          /\ SumOver(Beyond(r, V)) = SumOver(Beyond(t, W)) + x + Cardinality(W) - Cardinality(V)
      BY <1>4, <2>3, <3>2, CounterMoves
    <3>4. QED
      BY <3>1, <3>3
  <2>6. Cardinality(who) \in Int /\ Cardinality(who') \in Int
    BY <2>4, UsersAssumption, FS_Subset, FS_CardinalityType
  <2>7. total' - Cardinality(who') = SumOver(Beyond(r, who'))
    BY <1>5, <2>1, <2>4, <2>5, <2>6
  <2>8. \A e \in Device : Tally(r[e], e)' /\ TapsTurn(e)'
    <3>1. Tally(r[d], d)'
      BY <2>1, <2>3
    <3>2. \A e \in Device \ {d} : Tally(r[e], e)'
      BY <2>2, <2>3
    <3>3. QED
      BY <2>1, <2>2, <3>1, <3>2
  <2>9. QED
    BY <2>3, <2>7, <2>8
<1>9. ~PostDeleted
  BY <1>4 DEF PostDeleted
<1>10. QED
  BY <1>1, <1>7, <1>8, <1>9

\* Without other faults, what each phone's taps have added to the counter, with what they are
\* still to add, is what the records will say of its user, give or take its losses.
THEOREM DriftInvariant == Spec => [](TypeOK /\ LikesInv /\ DriftInv)
<1>1. Init => TypeOK /\ LikesInv /\ DriftInv
  BY LikesStart, DriftStart
<1>2. (TypeOK /\ LikesInv /\ DriftInv) /\ [Next]_vars => (TypeOK /\ LikesInv /\ DriftInv)'
  BY LikesStep, DriftStep
<1>3. QED
  BY <1>1, <1>2, PTL DEF Spec

\* Each dropped connection and each killed process costs the counter at most one like.
THEOREM DriftIsBounded == Spec => []DriftBounded
<1>1. ASSUME TypeOK, LikesInv, DriftInv
      PROVE  DriftBounded
  <2> SUFFICES ASSUME Calm, \A d \in Device : Quiet(d)
               PROVE  LET losses == SumOver(drops) + SumOver(kills)
                      IN total - Cardinality(who) \in -losses .. losses
    BY DEF DriftBounded, Calm
  <2>1. Calls /\ Records /\ IsFiniteSet(Device)
    BY <1>1, CalmFacts DEF LikesInv
  <2>2. PICK t \in [Device -> Int] : /\ total - Cardinality(who) = SumOver(Beyond(t, who))
                                     /\ \A d \in Device : Tally(t[d], d)
    BY <1>1 DEF DriftInv
  <2>3. Beyond(t, who) \in [Device -> Int] /\ drops \in [Device -> Int] /\ kills \in [Device -> Int]
    BY <1>1 DEF Beyond, Bit, TypeOK
  <2>4. ASSUME NEW d \in Device
        PROVE  Near(Beyond(t, who)[d], drops[d] + kills[d])
    <3>1. Unrun(d) = 0 /\ (Wanted(d) <=> UserOf[d] \in who)
      BY <1>1, <2>1, TapFacts DEF Quiet, Wanted, InTheEnd
    <3>2. PICK y \in Int : y = Bit(UserOf[d] \in who) /\ y = Bit(Wanted(d))
      BY <3>1 DEF Bit
    <3>3. Near(t[d] + 0 - y, Losses(d))
      BY <2>2, <3>1, <3>2 DEF Tally
    <3>4. t[d] + 0 - y = t[d] - y
      BY <3>2
    <3>5. Beyond(t, who)[d] = t[d] - y
      BY <3>2 DEF Beyond
    <3>6. QED
      BY <3>3, <3>4, <3>5 DEF Losses
  <2>5. Near(SumOver(Beyond(t, who)), SumOver(drops) + SumOver(kills)) /\ SumOver(Beyond(t, who)) \in Int
    BY <2>1, <2>3, <2>4, SumBounded
  <2>6. SumOver(drops) \in Int /\ SumOver(kills) \in Int
    <3>1. SumOver(drops) = SumOf(drops, Device) /\ SumOver(kills) = SumOf(kills, Device)
      BY <2>1, <2>3, SumOfFacts
    <3>2. QED
      BY <2>1, <2>3, <3>1, SumOfFacts
  <2>7. QED
    BY <2>2, <2>5, <2>6 DEF Near
<1>2. TypeOK /\ LikesInv /\ DriftInv => DriftBounded
  BY <1>1
<1>3. QED
  BY <1>2, DriftInvariant, PTL

=============================================================================
