----------------------------- MODULE PostLikes -----------------------------
(***************************************************************************)
(* Likes of one post, as its detail screens drive them (PostDetailVC).  A  *)
(* tap flips the icon at once and runs a transaction that adds to or takes *)
(* from total_likes; its completion reads the counter back, and that       *)
(* read's callback writes two records with plain puts: the user among the  *)
(* post's user_who_liked, the post among the user's liked_posts.  When a   *)
(* screen opens, it asks for liked_posts to find out which icon to show.   *)
(* So one fact, "this user likes this post", lives in four places that are *)
(* changed by separate asynchronous steps.                                 *)
(*                                                                         *)
(* The library sends a device's transactions on one counter in batches,    *)
(* oldest first, one batch at a time; a batch is one write, atomic on the  *)
(* server (it is computed again until the value it read is current), and   *)
(* any number of the queued taps may have joined it when it succeeds.      *)
(***************************************************************************)
EXTENDS DatabaseLink, Integers, FiniteSets, Functions

CONSTANTS
    Device,    \* phones that open the post
    Account,
    UserOf,    \* the account signed in on each phone
    Worlds     \* what may happen: [phones: those in use; habits: what users do that the
               \*  screens do not prevent; faults; and as bounds, per phone, taps on the
               \*  icon, dropped connections and process kills]

HabitKind == {"early_tap", "quick_reopen", "offline"}
FaultKind == {"drop", "abort", "delete", "kill"}

ASSUME UsersAssumption == UserOf \in [Device -> Account] /\ IsFiniteSet(Account)
ASSUME WorldAssumption ==
    \A w \in Worlds :
      /\ w.phones \subseteq Device
      /\ w.habits \subseteq HabitKind
      /\ w.faults \subseteq FaultKind
      /\ w.taps \in Nat
      /\ w.drops \in Nat
      /\ w.kills \in Nat

Icon == {"like", "unlike"}
Put == [field : {"user_who_liked", "liked_posts"}, user : Account, on : BOOLEAN]

VARIABLES
    world,     \* one of Worlds
    described, \* the post's own fields are in the database
    counted,   \* its total_likes is
    total,     \* total_likes, 0 while it is missing
    who,       \* its user_who_liked
    liked,     \* the users whose liked_posts list it
    open,      \* the devices showing the post
    asking,    \* those still waiting for liked_posts
    icon,      \* the icon each device shows
    last,      \* how far the last tap on each open screen has come
    txs,       \* transactions a device has not heard back from: +1 or -1
    batch,     \* how many of the oldest the server has just run
    reads,     \* committed ones whose read-back is still to be answered
    link,      \* each device's link to the database
    taps,
    drops,
    kills

server == <<described, counted, total, who, liked>>
view   == <<open, asking, icon>>
calls  == <<txs, batch, reads>>
vars   == <<world, server, view, last, calls, link, taps, drops, kills>>

TypeOK ==
    /\ world \in Worlds
    /\ described \in BOOLEAN /\ counted \in BOOLEAN
    /\ total \in Int
    /\ who \in SUBSET Account
    /\ liked \in SUBSET Account
    /\ open \in SUBSET Device
    /\ asking \in SUBSET Device
    /\ icon \in [Device -> Icon]
    /\ last \in [Device -> {"none", "pending", "committed", "refused"}]
    /\ txs \in [Device -> Seq({1, -1})]
    /\ batch \in [Device -> Nat]
    /\ reads \in [Device -> Seq({1, -1})]
    /\ link \in [Device -> LinkOf(Put)]
    /\ taps \in [Device -> Nat]
    /\ drops \in [Device -> Nat]
    /\ kills \in [Device -> Nat]

\* A published post, liked so far by anyone, with no screen on it.
Init ==
    /\ world \in Worlds
    /\ described = TRUE /\ counted = TRUE
    /\ who \in SUBSET Account
    /\ liked = who
    /\ total = Cardinality(who)
    /\ open = {} /\ asking = {}
    /\ icon = [d \in Device |-> "unlike"]
    /\ last = [d \in Device |-> "none"]
    /\ txs = [d \in Device |-> <<>>]
    /\ batch = [d \in Device |-> 0]
    /\ reads = [d \in Device |-> <<>>]
    /\ link = [d \in Device |-> IdleLink]
    /\ taps = [d \in Device |-> 0]
    /\ drops = [d \in Device |-> 0]
    /\ kills = [d \in Device |-> 0]

\* Nothing that d has started is under way.
Quiet(d) == txs[d] = <<>> /\ reads[d] = <<>> /\ link[d].puts = <<>>

-----------------------------------------------------------------------------
(* The screen                                                               *)

\* viewDidLoad: the cell starts with ic_unlike, and liked_posts is asked for
\* unless the device is offline.
OpenPost(d) ==
    /\ d \in world.phones \ open
    /\ Quiet(d) \/ "quick_reopen" \in world.habits
    /\ open' = open \cup {d}
    /\ \/ asking' = asking \cup {d}
       \/ "offline" \in world.habits /\ UNCHANGED asking
    /\ icon' = [icon EXCEPT ![d] = "unlike"]
    /\ last' = [last EXCEPT ![d] = "none"]
    /\ UNCHANGED <<world, server, calls, link, taps, drops, kills>>

ClosePost(d) ==
    /\ d \in open
    /\ open' = open \ {d}
    /\ asking' = asking \ {d}
    /\ UNCHANGED <<world, server, icon, last, calls, link, taps, drops, kills>>

\* The server's liked_posts under the device's own outstanding puts.
SeesLiked(d) ==
    LET a == UserOf[d]
        mine == {i \in DOMAIN link[d].puts :
                   link[d].puts[i].field = "liked_posts"}
    IN IF mine = {} THEN a \in liked
       ELSE \E i \in mine : /\ link[d].puts[i].on
                            /\ \A k \in mine : k <= i

\* getCurrentUserLikedPost's answer: ic_like if the post is listed; if it is not,
\* ic_unlike when the user likes some other post, no change when they like none.
\* An answer that comes after a tap replaces the icon of that tap.
LikedPostsAnswer(d) ==
    /\ d \in asking
    /\ asking' = asking \ {d}
    /\ \E shown \in (IF SeesLiked(d) THEN {"like"} ELSE {"unlike", icon[d]}) :
         /\ icon' = [icon EXCEPT ![d] = shown]
         /\ last' = [last EXCEPT ![d] = IF shown = icon[d] THEN @ ELSE "none"]
    /\ UNCHANGED <<world, server, open, calls, link, taps, drops, kills>>

Flipped(d) == IF icon[d] = "unlike" THEN "like" ELSE "unlike"

\* Mutant of Step: it is chosen from the icon after the flip.
StepAfterFlip(d) == IF Flipped(d) = "unlike" THEN 1 ELSE -1

\* What the tap's transaction adds: likePost from ic_unlike, unlikePost otherwise.
Step(d) == IF icon[d] = "unlike" THEN 1 ELSE -1

\* likeUnlikePic: the icon flips and the transaction is queued.
TapLike(d) ==
    /\ d \in open
    /\ d \notin asking \/ "early_tap" \in world.habits
    /\ taps[d] < world.taps
    /\ taps' = [taps EXCEPT ![d] = @ + 1]
    /\ icon' = [icon EXCEPT ![d] = Flipped(d)]
    /\ last' = [last EXCEPT ![d] = "pending"]
    /\ txs' = [txs EXCEPT ![d] = Append(@, Step(d))]
    /\ UNCHANGED <<world, server, open, asking, batch, reads, link, drops, kills>>

\* Offline the icon flips all the same; only a toast follows.
TapOffline(d) ==
    /\ "offline" \in world.habits
    /\ d \in open
    /\ taps[d] < world.taps
    /\ taps' = [taps EXCEPT ![d] = @ + 1]
    /\ icon' = [icon EXCEPT ![d] = Flipped(d)]
    /\ last' = [last EXCEPT ![d] = "refused"]
    /\ UNCHANGED <<world, server, open, asking, calls, link, drops, kills>>

-----------------------------------------------------------------------------
(* Transactions                                                             *)

Sum(steps) ==
    Cardinality({i \in DOMAIN steps : steps[i] = 1})
      - Cardinality({i \in DOMAIN steps : steps[i] = -1})

\* The n oldest transactions of d, and the others.
First(d, n) == SubSeq(txs[d], 1, n)
Rest(d, n) == SubSeq(txs[d], n + 1, Len(txs[d]))

\* A missing counter counts as 0, so a like may create it.
ServerRunsTransactions(d) ==
    /\ batch[d] = 0
    /\ \E n \in 1 .. Len(txs[d]) :
         /\ batch' = [batch EXCEPT ![d] = n]
         /\ total' = total + Sum(First(d, n))
    /\ counted' = TRUE
    /\ UNCHANGED <<world, described, who, liked, view, last, txs, reads, link, taps, drops, kills>>

\* The completions with `commited`: each asks for the counter once more.
TransactionsCommit(d) ==
    /\ batch[d] > 0
    /\ batch' = [batch EXCEPT ![d] = 0]
    /\ txs' = [txs EXCEPT ![d] = Rest(d, batch[d])]
    /\ reads' = [reads EXCEPT ![d] = @ \o First(d, batch[d])]
    /\ UNCHANGED <<world, server, view, last, link, taps, drops, kills>>

\* The n oldest transactions end uncommitted, the last tap perhaps among them:
\* their completions only print the error.
Uncommitted(d, n) ==
    /\ txs' = [txs EXCEPT ![d] = Rest(d, n)]
    /\ batch' = [batch EXCEPT ![d] = 0]
    /\ last' = [last EXCEPT ![d] =
                  IF @ = "pending" /\ n > 0 /\ n = Len(txs[d])
                    THEN "refused" ELSE @]

\* The server refuses a batch, or the library gives up on trying it again.
TransactionsAbort(d) ==
    /\ "abort" \in world.faults
    /\ batch[d] = 0
    /\ \E n \in 1 .. Len(txs[d]) : Uncommitted(d, n)
    /\ UNCHANGED <<world, server, view, reads, link, taps, drops, kills>>

\* The batch a dropped connection was waiting for: what the server has run, or
\* what was sent, which is at least the oldest transaction.
Sent(d) ==
    IF batch[d] > 0 THEN {batch[d]}
    ELSE IF txs[d] = <<>> THEN {0} ELSE 1 .. Len(txs[d])

\* The connection drops: the batch ends uncommitted, even if the server has run
\* it, and the puts are sent again.
DropConnection(d) ==
    /\ "drop" \in world.faults
    /\ d \in world.phones /\ drops[d] < world.drops
    /\ drops' = [drops EXCEPT ![d] = @ + 1]
    /\ link' = [link EXCEPT ![d] = Resent(@)]
    /\ \E n \in Sent(d) : Uncommitted(d, n)
    /\ UNCHANGED <<world, server, view, reads, taps, kills>>

\* Mutant of RecordPuts: an unlike does not take the user from the post.
RecordPutsKeepLiker(d, step) ==
    << [field |-> "user_who_liked", user |-> UserOf[d], on |-> TRUE],
       [field |-> "liked_posts", user |-> UserOf[d], on |-> step = 1] >>

\* The two records of a like or an unlike, in the order they are written.
RecordPuts(d, step) ==
    << [field |-> "user_who_liked", user |-> UserOf[d], on |-> step = 1],
       [field |-> "liked_posts", user |-> UserOf[d], on |-> step = 1] >>

\* The counter as d sees it, its own queued transactions included, exists.
SeesCounter(d) == counted \/ txs[d] # <<>>

\* The read-back's callback writes the records if the counter is there, and
\* runs whether or not the screen is still shown.
WriteRecords(d) ==
    LET puts == RecordPuts(d, Head(reads[d])) IN
    link' = [link EXCEPT ![d] = Enqueue(Enqueue(@, puts[1]), puts[2])]

\* The last tap has been answered if this read-back is its own.
AnswerLast(d, outcome) ==
    last' = [last EXCEPT ![d] =
               IF @ = "pending" /\ txs[d] = <<>> /\ Len(reads[d]) = 1
                 THEN outcome ELSE @]

\* A device may not have heard yet that the counter is gone.
ReadBackAnswer(d) ==
    /\ reads[d] # <<>>
    /\ reads' = [reads EXCEPT ![d] = Tail(@)]
    /\ \/ WriteRecords(d) /\ AnswerLast(d, "committed")
       \/ ~SeesCounter(d) /\ AnswerLast(d, "refused") /\ UNCHANGED link
    /\ UNCHANGED <<world, server, view, txs, batch, taps, drops, kills>>

\* The process is killed: the screen, its calls and the puts not sent yet are gone. What
\* the server has run stays.
Kill(d) ==
    /\ "kill" \in world.faults
    /\ d \in world.phones /\ kills[d] < world.kills
    /\ kills' = [kills EXCEPT ![d] = @ + 1]
    /\ open' = open \ {d} /\ asking' = asking \ {d}
    /\ txs' = [txs EXCEPT ![d] = <<>>]
    /\ batch' = [batch EXCEPT ![d] = 0]
    /\ reads' = [reads EXCEPT ![d] = <<>>]
    /\ link' = [link EXCEPT ![d] = IdleLink]
    /\ UNCHANGED <<world, server, icon, last, taps, drops>>

-----------------------------------------------------------------------------
(* The database                                                             *)

WithUser(users, put) ==
    IF put.on THEN users \cup {put.user} ELSE users \ {put.user}

ServerAppliesPut(d) ==
    /\ CanApply(link[d])
    /\ link' = [link EXCEPT ![d] = Applied(@)]
    /\ LET put == NextPut(link[d]) IN
         IF put.field = "user_who_liked"
           THEN who' = WithUser(who, put) /\ liked' = liked
           ELSE liked' = WithUser(liked, put) /\ who' = who
    /\ UNCHANGED <<world, described, counted, total, view, last, calls, taps, drops, kills>>

AckPut(d) ==
    /\ CanAck(link[d])
    /\ link' = [link EXCEPT ![d] = Acked(@)]
    /\ UNCHANGED <<world, server, view, last, calls, taps, drops, kills>>

\* The owner's removal of the whole post reaches the server.
PostDeleted ==
    /\ "delete" \in world.faults
    /\ described
    /\ described' = FALSE
    /\ counted' = FALSE
    /\ total' = 0
    /\ who' = {}
    /\ UNCHANGED <<world, liked, view, last, calls, link, taps, drops, kills>>

-----------------------------------------------------------------------------
Next ==
    \/ \E d \in Device :
         \/ OpenPost(d) \/ ClosePost(d) \/ TapLike(d) \/ TapOffline(d)
         \/ LikedPostsAnswer(d)
         \/ ServerRunsTransactions(d)
         \/ TransactionsCommit(d)
         \/ TransactionsAbort(d)
         \/ ReadBackAnswer(d)
         \/ ServerAppliesPut(d)
         \/ AckPut(d)
         \/ DropConnection(d)
         \/ Kill(d)
    \/ PostDeleted

Spec == Init /\ [][Next]_vars

\* The library and the server keep going; users and faults owe nothing.
Fairness ==
    \A d \in Device :
      /\ WF_vars(LikedPostsAnswer(d))
      /\ WF_vars(ServerRunsTransactions(d))
      /\ WF_vars(TransactionsCommit(d))
      /\ WF_vars(ReadBackAnswer(d))
      /\ WF_vars(ServerAppliesPut(d))
      /\ WF_vars(AckPut(d))

FairSpec == Spec /\ Fairness

-----------------------------------------------------------------------------
SumOver(f) == FoldFunction(LAMBDA n, m : n + m, 0, f)

\* Every screen is answered before it is tapped, and nothing fails.
Undisturbed == world.habits = {} /\ world.faults = {}

\* The account of phone d is signed in on no other: two phones of one account count a like
\* twice and record it once, and their puts of the two records may interleave.
OnePhone(d) == \A e \in Device : UserOf[e] = UserOf[d] => e = d

\* Each dropped connection and each killed process costs the counter at most one like,
\* whatever was under way: once every call has ended, total_likes is the number of users
\* recorded as likers, give or take those. Without faults the two agree.
DriftBounded ==
    LET losses == SumOver(drops) + SumOver(kills) IN
    /\ world.habits = {} /\ world.faults \subseteq {"drop", "kill"}
    /\ \A d \in Device : OnePhone(d) /\ Quiet(d)
    => total - Cardinality(who) \in -losses .. losses

\* Undisturbed, an open screen that has been answered shows ic_like exactly when its user
\* is recorded as a liker, as soon as the device has nothing under way.
IconShowsLike ==
    Undisturbed => \A d \in open \ asking :
      OnePhone(d) /\ Quiet(d) => (icon[d] = "like" <=> UserOf[d] \in who)

\* While the post is there, once a device has nothing under way, its user's like
\* is in both records or in neither: only a killed process separates the two puts.
RecordsAgree ==
    \A d \in Device :
      described /\ OnePhone(d) /\ Quiet(d) /\ kills[d] = 0 =>
        (UserOf[d] \in who <=> UserOf[d] \in liked)

\* If the last tap on a screen was committed and no late liked_posts answer
\* replaced its icon, what the icon shows is recorded in the post, whatever
\* became of the taps before it.
LastTapRecorded ==
    \A d \in open :
      described /\ OnePhone(d) /\ Quiet(d) /\ last[d] = "committed" =>
        (icon[d] = "like" <=> UserOf[d] \in who)

\* Every tap's calls end, also after the screen is closed.
TapSettles == \A d \in Device : txs[d] # <<>> ~> Quiet(d)

\* A node of the post that is in the database has the fields every reader of the
\* feed unwraps.
PostReadable == counted \/ who # {} => described

=============================================================================
