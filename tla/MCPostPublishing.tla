-------------------------- MODULE MCPostPublishing --------------------------
(* Instances of PostPublishing for TLC.                                     *)
EXTENDS PostPublishing

CONSTANTS d1, d2, d3, alice, bob, carol, u1, u2, u3, s1, s2

\* Two taps in one second, and one of another phone in the millisecond of the first.
TapTimes == [u \in Upload |-> IF u = u2 THEN 1002 ELSE 1001]

\* Two phones of one account, each of which may lose a connection.
TwoPhones == {d1, d2} \X {alice}
EveryPhoneDrops == [d \in Device |-> 1]

\* A phone used by two accounts in turn, which may lose a connection, and two phones of a
\* third account, which do not.
ThreePhones == ({d1} \X {alice, bob}) \cup ({d2, d3} \X {carol})
FirstPhoneDrops == [d \in Device |-> IF d = d1 THEN 1 ELSE 0]

\* Bound: the first phone is used, for two uploads, or the two others are, for one upload or
\* for two in the same millisecond.
VARIABLE instance

Phone == IF instance = "one" THEN {d1} ELSE {d2, d3}

InUse == CASE instance = "one" -> {u1, u2} [] instance = "two" -> {u1} [] OTHER -> {u1, u3}

\* Bound: each of the two phones uploads once, from its own screen, and is not signed out after that.
OnceEach ==
    /\ device[u1] \in {NoDevice, d2} /\ device[u3] \in {NoDevice, d3}
    /\ screen[d2] # s2 /\ screen[d3] # s1
    /\ \A u \in {u1, u3} : device[u] # NoDevice => account[device[u]] # NoAccount

Within ==
    /\ \A d \in Device \ Phone : account[d] = NoAccount /\ drops[d] + kills[d] = 0
    /\ \A u \in Upload \ InUse : stage[u] = "idle"
    /\ instance # "same" => \A d \in Device : screen[d] # s2
    /\ instance # "one" => \A d \in Phone : Len(link[d].puts) <= 2
    /\ instance = "same" =>
         /\ OnceEach
         /\ \A d \in Phone : kills[d] = 0 /\ Len(link[d].puts) <= 1
         /\ \A u \in InUse : stage[u] # "failed"

\* On the one phone, a photo that is there can be deleted.
DeletionsWork ==
    \A d \in Device, u \in Upload : ImagePath(u) \in images => ~DeleteImageFails(d, u)

MCInit == Init /\ instance \in {"one", "two", "same"}
MCNext ==
    /\ Next
    /\ UNCHANGED instance
    /\ Within'
    /\ instance = "one" => DeletionsWork

\* The fairness of FairSpec that concerns the first phone.
FirstPhoneFairness ==
    /\ WF_vars(ServerAppliesPut(d1))
    /\ WF_vars(AckPut(d1))
    /\ \A u \in {u1, u2} :
         /\ WF_vars(DeleteImage(d1, u) \/ DeleteImageFails(d1, u))
         /\ WF_vars(StoreImage(u))
         /\ WF_vars(UploadCompletes(u))
         /\ WF_vars(PublishPost(u) \/ PublishWhenSignedOut(u))

\* The specification itself, without the bound above.
UnboundSpec == Init /\ instance = "any" /\ [][Next /\ UNCHANGED instance]_<<vars, instance>>

MCSpec == MCInit /\ [][MCNext]_<<vars, instance>> /\ FirstPhoneFairness

\* What the one phone's user starts comes to an end (onClickUpload, deletePost).
UploadSettlesOnOne == instance = "one" => UploadSettles
DeleteSettlesOnOne == instance = "one" => DeleteSettlesOn(d1)

=============================================================================
