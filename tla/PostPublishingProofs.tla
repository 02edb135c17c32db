------------------------ MODULE PostPublishingProofs ------------------------
(***************************************************************************)
(* The types of PostPublishing, its inductive invariant, and what follows  *)
(* from it for every number of phones, accounts, uploads, drops and kills: *)
(* no post ever lists a photo the bucket does not hold, and a post whose   *)
(* owner was told it is deleted never comes back.                          *)
(***************************************************************************)
EXTENDS PostPublishing, DatabaseLinkProofs

\* The types, with what the link operations need to keep them: the server
\* has applied no more puts than are queued, and an upload under way knows its
\* device and its screen.
Typed == TypeOK /\ AppliedWithinQueue /\ UploadsPlaced

LEMMA TypeInvariant == Spec => []Typed
<1>1. Init => Typed
  <2>1. IdleLink \in LinkOf(Put) /\ IdleLink.done = 0 /\ Len(IdleLink.puts) = 0
    BY IdleLinkFacts
  <2> SUFFICES ASSUME Init PROVE Typed
    OBVIOUS
  <2>2. AppliedWithinQueue /\ UploadsPlaced
    <3>1. \A d \in Device : link[d] = IdleLink
      BY DEF Init
    <3>2. AppliedWithinQueue
      BY <2>1, <3>1 DEF AppliedWithinQueue
    <3>3. UploadsPlaced
      BY DEF Init, UploadsPlaced
    <3>4. QED
      BY <3>2, <3>3
  <2>3. /\ account \in [Device -> Account \cup {NoAccount}]
        /\ screen \in [Device -> Screen \cup {NoScreen}]
        /\ form \in [Screen -> [text : Text, editable : BOOLEAN]]
        /\ stage \in [Upload -> Stage]
        /\ device \in [Upload -> Device \cup {NoDevice}]
        /\ origin \in [Upload -> Screen \cup {NoScreen}]
        /\ record \in [Upload -> Record]
    BY DEF Init, Record, Text, Stage
  <2>4. /\ link \in [Device -> LinkOf(Put)]
        /\ posts \in SUBSET Upload
        /\ images \in SUBSET Nat
        /\ feed \in [Device -> SUBSET Upload]
        /\ deleting \in [Device -> SUBSET Upload]
        /\ toldDeleted \in SUBSET Upload
        /\ drops \in [Device -> Nat]
        /\ kills \in [Device -> Nat]
    BY <2>1 DEF Init
  <2>5. QED
    BY <2>2, <2>3, <2>4 DEF Typed, TypeOK
<1>2. Typed /\ [Next]_vars => Typed'
  <2> SUFFICES ASSUME Typed, [Next]_vars
               PROVE  Typed'
    OBVIOUS
  <2> USE DEF Typed, TypeOK, AppliedWithinQueue, UploadsPlaced,
             uploadVars, serverVars, viewVars
  <2>0. \A d \in Device :
          /\ link[d] \in LinkOf(Put)
          /\ link[d].done <= Len(link[d].puts)
    OBVIOUS
  <2>1. ASSUME NEW d \in Device, UserStep(d)
        PROVE  Typed'
    <3>1. ASSUME NEW s \in Screen, SelectPhoto(d, s)
          PROVE  Typed'
      BY <3>1 DEF SelectPhoto
    <3>2. CASE EditCaption(d)
      BY ZenonT(60), <3>2 DEF EditCaption
    <3>3. ASSUME NEW u \in Upload, ClickUpload(d, u)
          PROVE  Typed'
      BY <3>3 DEF ClickUpload, Stage
    <3>4. CASE ClickBack(d)
      BY <3>4 DEF ClickBack
    <3>5. ASSUME NEW u \in Upload, DeletePost(d, u)
          PROVE  Typed'
      <4>1. RemovePost(u) \in Put
        BY DEF RemovePost, Put
      <4>2. /\ Enqueue(link[d], RemovePost(u)) \in LinkOf(Put)
            /\ Enqueue(link[d], RemovePost(u)).done
                 <= Len(Enqueue(link[d], RemovePost(u)).puts)
        <5>1. link[d].done \in Nat /\ Len(link[d].puts) \in Nat
          BY DEF LinkOf
        <5>2. QED
          BY <2>0, <4>1, <5>1, EnqueueFacts
      <4>3. QED
        BY <3>5, <4>2 DEF DeletePost
    <3>6. ASSUME NEW a \in Account, SignIn(d, a)
          PROVE  Typed'
      BY <3>6 DEF SignIn
    <3>7. CASE SignOut(d)
      BY <3>7 DEF SignOut
    <3>8. QED
      BY <2>1, <3>1, <3>2, <3>3, <3>4, <3>5, <3>6, <3>7 DEF UserStep
  <2>2. ASSUME NEW d \in Device, ReadFeed(d)
        PROVE  Typed'
    BY <2>2 DEF ReadFeed
  <2>3. ASSUME NEW d \in Device, ServerAppliesPut(d)
        PROVE  Typed'
    <3>1. /\ Applied(link[d]) \in LinkOf(Put)
          /\ NextPut(link[d]) \in Put
          /\ Applied(link[d]).done <= Len(Applied(link[d]).puts)
      BY <2>0, <2>3, AppliedFacts DEF ServerAppliesPut
    <3>2. QED
      BY <2>3, <3>1 DEF ServerAppliesPut, Put
  <2>4. ASSUME NEW d \in Device, AckPut(d)
        PROVE  Typed'
    <3>1. /\ Acked(link[d]) \in LinkOf(Put)
          /\ OldestPut(link[d]) \in Put
          /\ Acked(link[d]).done <= Len(Acked(link[d]).puts)
      <4>1. link[d].done \in Nat /\ Len(link[d].puts) \in Nat
        BY DEF LinkOf
      <4>2. CanAck(link[d])
        BY <2>4 DEF AckPut
      <4>3. /\ Acked(link[d]).done = link[d].done - 1
            /\ Len(Acked(link[d]).puts) = Len(link[d].puts) - 1
            /\ Acked(link[d]) \in LinkOf(Put)
            /\ OldestPut(link[d]) \in Put
        BY <2>0, <4>2, AckedFacts
      <4>4. QED
        BY <2>0, <4>1, <4>3
    <3>2. OldestPut(link[d]).post \in Upload
      BY <3>1 DEF Put
    <3>3. QED
      BY <2>4, <3>1, <3>2 DEF AckPut
  <2>5. ASSUME NEW d \in Device, DropConnection(d)
        PROVE  Typed'
    <3>1. /\ Resent(link[d]) \in LinkOf(Put)
          /\ Resent(link[d]).done <= Len(Resent(link[d]).puts)
      BY <2>0, ResentFacts DEF LinkOf
    <3>2. QED
      BY <2>5, <3>1 DEF DropConnection
  <2>6. ASSUME NEW d \in Device, ProcessEnds(d)
        PROVE  Typed'
    <3>1. /\ IdleLink \in LinkOf(Put)
          /\ IdleLink.done <= Len(IdleLink.puts)
      BY IdleLinkFacts
    <3>2. QED
      BY <2>6, <3>1 DEF ProcessEnds, Stage
  <2>7. ASSUME NEW d \in Device, NEW u \in Upload,
               DeleteImage(d, u) \/ DeleteImageFails(d, u)
        PROVE  Typed'
    <3>1. CASE DeleteImage(d, u)
      <4>1. images' \in SUBSET Nat
        BY <3>1 DEF DeleteImage
      <4>2. deleting' \in [Device -> SUBSET Upload]
        BY <3>1 DEF DeleteImage
      <4>3. QED
        BY <3>1, <4>1, <4>2 DEF DeleteImage
    <3>2. CASE DeleteImageFails(d, u)
      <4>1. deleting' \in [Device -> SUBSET Upload]
        BY <3>2 DEF DeleteImageFails
      <4>2. QED
        BY <3>2, <4>1 DEF DeleteImageFails
    <3>3. QED
      BY <2>7, <3>1, <3>2
  <2>8. ASSUME NEW u \in Upload, StoreImage(u)
        PROVE  Typed'
    <3>1. ImagePath(u) \in Nat
      BY ClockAssumption DEF ImagePath
    <3>2. images' \in SUBSET Nat
      BY <2>8, <3>1 DEF StoreImage
    <3>3. QED
      BY <2>8, <3>2 DEF StoreImage
  <2>9. ASSUME NEW u \in Upload, UploadCompletes(u) \/ UploadFails(u)
        PROVE  Typed'
    BY ZenonT(60), <2>9 DEF UploadCompletes, UploadFails, Stage
  <2>10. ASSUME NEW u \in Upload, PublishPost(u)
         PROVE  Typed'
    <3>1. device[u] \in Device /\ origin[u] \in Screen
      BY <2>10 DEF PublishPost
    <3>2. SetPost(u) \in Put
      BY DEF SetPost, Put
    <3>3. /\ Enqueue(link[device[u]], SetPost(u)) \in LinkOf(Put)
          /\ Enqueue(link[device[u]], SetPost(u)).done
               <= Len(Enqueue(link[device[u]], SetPost(u)).puts)
      <4>1. /\ link[device[u]].done \in Nat
            /\ Len(link[device[u]].puts) \in Nat
        BY <3>1 DEF LinkOf
      <4>2. QED
        BY <2>0, <3>1, <3>2, <4>1, EnqueueFacts
    <3>4. PostRecord(u) \in Record
      BY <3>1 DEF PostRecord, Record
    <3>5. /\ screen' \in [Device -> Screen \cup {NoScreen}]
          /\ form' \in [Screen -> [text : Text, editable : BOOLEAN]]
          /\ stage' \in [Upload -> Stage]
          /\ record' \in [Upload -> Record]
      BY <2>10, <3>4 DEF PublishPost, PopUploadScreen, Stage, Text
    <3>6. link' \in [Device -> LinkOf(Put)] /\ AppliedWithinQueue'
      BY <2>10, <3>3 DEF PublishPost
    <3>7. UploadsPlaced'
      BY <2>10, <3>1 DEF PublishPost
    <3>8. QED
      BY <2>10, <3>5, <3>6, <3>7 DEF PublishPost
  <2>11. UNCHANGED vars => Typed'
    BY DEF vars
  <2>12. QED
    BY <2>1, <2>2, <2>3, <2>4, <2>5, <2>6, <2>7, <2>8, <2>9, <2>10, <2>11
    DEF Next, Kill, PublishWhenSignedOut
<1>3. QED
  BY <1>1, <1>2, PTL DEF Spec

\* Every variable keeps its type: the queues hold only writes and removals of
\* posts, and an upload is always in one of its stages.
THEOREM TypeCorrect == Spec => []TypeOK
<1>1. Typed => TypeOK
  BY DEF Typed
<1>2. QED
  BY <1>1, TypeInvariant, PTL

-----------------------------------------------------------------------------
\* Writes and removals of posts are told apart by what they do and to which post.
LEMMA PutFacts ==
    ASSUME NEW u, NEW v
    PROVE  /\ SetPost(u) = SetPost(v) => u = v
           /\ RemovePost(u) = RemovePost(v) => u = v
           /\ SetPost(u) # RemovePost(v)
           /\ SetPost(u).op = "set" /\ SetPost(u).post = u
           /\ RemovePost(u).op = "remove" /\ RemovePost(u).post = u
BY DEF SetPost, RemovePost

\* A put is the write or the removal of some post.
LEMMA PutCases ==
    ASSUME NEW put \in Put
    PROVE  \E u \in Upload : put = SetPost(u) \/ put = RemovePost(u)
BY DEF Put, SetPost, RemovePost

\* What an upload wrote, and from where, is settled once it is published.
LEMMA PublishedStays ==
    ASSUME Typed, [Next]_vars, NEW u \in Upload, Published(u)
    PROVE  /\ Published(u)'
           /\ device'[u] = device[u]
           /\ record'[u] = record[u]
<1> USE DEF Typed, TypeOK, Published, uploadVars, serverVars, viewVars
<1>1. ASSUME NEW d \in Device, UserStep(d)
      PROVE  stage'[u] = stage[u] /\ device'[u] = device[u] /\ record' = record
  <2>1. ASSUME NEW v \in Upload, ClickUpload(d, v)
        PROVE  stage'[u] = stage[u] /\ device'[u] = device[u] /\ record' = record
    BY <2>1 DEF ClickUpload
  <2>2. QED
    BY <1>1, <2>1 DEF UserStep, SelectPhoto, EditCaption, ClickBack, DeletePost,
                      SignIn, SignOut
<1>2. ASSUME NEW d \in Device, ProcessEnds(d)
      PROVE  stage'[u] = stage[u] /\ device' = device /\ record' = record
  BY <1>2 DEF ProcessEnds
<1>3. ASSUME NEW v \in Upload, UploadCompletes(v) \/ UploadFails(v)
      PROVE  stage'[u] = stage[u] /\ device' = device /\ record' = record
  BY <1>3 DEF UploadCompletes, UploadFails
<1>4. ASSUME NEW v \in Upload, PublishPost(v)
      PROVE  stage'[u] = stage[u] /\ device' = device /\ record'[u] = record[u]
  BY <1>4 DEF PublishPost
<1>5. ASSUME NEW v \in Upload, PublishWhenSignedOut(v)
      PROVE  stage'[u] = stage[u] /\ device' = device /\ record' = record
  BY <1>2, <1>5 DEF PublishWhenSignedOut, UploadsPlaced
<1>6. QED
  BY <1>1, <1>2, <1>3, <1>4, <1>5
  DEF Next, vars, ReadFeed, ServerAppliesPut, AckPut, DropConnection, Kill,
      DeleteImage, DeleteImageFails, StoreImage

\* A step that writes nothing to the database and lists, deletes or loses no
\* further photo keeps what is known of the writes in flight.
Quiet ==
    /\ link' = link
    /\ posts' = posts
    /\ \A d \in Device : feed'[d] \subseteq feed[d]
    /\ \A u \in Upload : Gone(u)' => Gone(u)

LEMMA QuietStep ==
    ASSUME Typed, PublishingInv, [Next]_vars, Quiet
    PROVE  SetOnce' /\ ListedHasArrived' /\ RemovedAfterSet' /\ GoneForGood'
<1>1. \A u \in Upload : Published(u) =>
        Published(u)' /\ device'[u] = device[u] /\ record'[u] = record[u]
  BY PublishedStays
<1>2. SetOnce'
  BY <1>1 DEF Quiet, PublishingInv, SetOnce, SetAt
<1>3. \A u : Arrived(u)' <=> Arrived(u)
  BY DEF Quiet, Arrived, SetAt, NeverAgain
<1>4. ListedHasArrived'
  <2>1. \A d \in Device : \A u \in feed[d] : u \in Upload /\ Published(u)
    BY DEF PublishingInv, OnlyPublishedKnown, Typed, TypeOK
  <2>2. QED
    BY <1>1, <1>3, <2>1 DEF Quiet, PublishingInv, ListedHasArrived
<1>5. RemovedAfterSet'
  BY <1>1, <1>3 DEF Quiet, PublishingInv, RemovedAfterSet, SetAt, RemoveAt
<1>6. GoneForGood'
  BY <1>3 DEF Quiet, PublishingInv, GoneForGood
<1>7. QED
  BY <1>2, <1>4, <1>5, <1>6

\* The screens, the accounts and the bucket's own steps are such steps.
LEMMA QuietSteps ==
    ASSUME Typed, PublishingInv, [Next]_vars,
           \/ \E d \in Device :
                \/ \E s \in Screen : SelectPhoto(d, s)
                \/ EditCaption(d)
                \/ \E u \in Upload : ClickUpload(d, u)
                \/ ClickBack(d)
                \/ \E a \in Account : SignIn(d, a)
                \/ SignOut(d)
                \/ \E u \in Upload : DeleteImage(d, u) \/ DeleteImageFails(d, u)
           \/ \E u \in Upload :
                StoreImage(u) \/ UploadCompletes(u) \/ UploadFails(u)
           \/ UNCHANGED vars
    PROVE  PublishingInv'
<1> DEFINE Rest == StoredBeforeLinked /\ SignInsAllowed /\ OnlyPublishedKnown
<1> USE DEF Typed, TypeOK, Published, uploadVars, serverVars, viewVars,
            PublishingInv, StoredBeforeLinked, SignInsAllowed, OnlyPublishedKnown,
            Gone, Quiet, TakenByAnother
<1>1. ASSUME NEW d \in Device,
             (\E s \in Screen : SelectPhoto(d, s)) \/ EditCaption(d) \/ ClickBack(d)
      PROVE  Quiet /\ Rest'
  BY <1>1 DEF SelectPhoto, EditCaption, ClickBack
<1>2. ASSUME NEW d \in Device, NEW u \in Upload, ClickUpload(d, u)
      PROVE  Quiet /\ Rest'
  BY <1>2 DEF ClickUpload
<1>3. ASSUME NEW d \in Device, (\E a \in Account : SignIn(d, a)) \/ SignOut(d)
      PROVE  Quiet /\ Rest'
  BY <1>3 DEF SignIn, SignOut
<1>4. ASSUME NEW d \in Device, NEW u \in Upload, DeleteImage(d, u)
      PROVE  Quiet /\ Rest'
  <2>1. Published(u)
    BY <1>4 DEF DeleteImage
  <2>2. \A v \in Upload : ImagePath(v) \in images /\ v # u =>
          ImagePath(v) \in images' \/ TakenByAnother(v)'
    BY <1>4 DEF DeleteImage, ImagePath, TakenByAnother
  <2>3. Quiet
    BY <1>4, <2>2 DEF DeleteImage
  <2>4. Rest'
    BY <1>4, <2>1, <2>2 DEF DeleteImage
  <2>5. QED
    BY <2>3, <2>4
<1>5. ASSUME NEW d \in Device, NEW u \in Upload, DeleteImageFails(d, u)
      PROVE  Quiet /\ Rest'
  BY <1>5 DEF DeleteImageFails
<1>6. ASSUME NEW u \in Upload, StoreImage(u)
      PROVE  Quiet /\ Rest'
  BY <1>6 DEF StoreImage
<1>7. ASSUME NEW u \in Upload, UploadCompletes(u) \/ UploadFails(u)
      PROVE  Quiet /\ Rest'
  BY <1>7 DEF UploadCompletes, UploadFails
<1>8. UNCHANGED vars => Quiet /\ Rest'
  BY DEF vars
<1>9. Quiet /\ Rest'
  BY <1>1, <1>2, <1>3, <1>4, <1>5, <1>6, <1>7, <1>8
<1>10. QED
  BY <1>9, QuietStep

-----------------------------------------------------------------------------
\* A post that is listed, and that the listing device's user may delete, has
\* arrived for good: on a network that resends, only its own device may.
LEMMA ReadFeedStep ==
    ASSUME SafeNetwork, Typed, PublishingInv, [Next]_vars,
           NEW d \in Device, ReadFeed(d)
    PROVE  PublishingInv'
<1> USE DEF Typed, TypeOK, Published, uploadVars, serverVars, viewVars, PublishingInv
<1>1. \A u \in Upload : Sees(d, u) =>
        /\ Published(u)
        /\ <<d, record[u].author>> \in MayUse => d = device[u] \/ Arrived(u)
  <2> SUFFICES ASSUME NEW u \in Upload, Sees(d, u)
               PROVE  /\ Published(u)
                      /\ <<d, record[u].author>> \in MayUse =>
                           d = device[u] \/ Arrived(u)
    OBVIOUS
  <2>1. CASE \E i \in DOMAIN link[d].puts : link[d].puts[i] = SetPost(u)
    BY <2>1 DEF SetOnce, SetAt
  <2>2. CASE u \in posts
    <3>1. Published(u)
      BY <2>2 DEF OnlyPublishedKnown
    <3>2. CASE MaxDrops[device[u]] # 0
      <4>1. <<device[u], record[u].author>> \in MayUse
        BY <3>1 DEF StoredBeforeLinked
      <4>2. device[u] \in Device /\ record[u].author \in Account
        BY <4>1, UsersAssumption
      <4>3. OnlyUser(device[u])
        BY <3>2, <4>2 DEF SafeNetwork
      <4>4. QED
        BY <3>1, <4>1, <4>2, <4>3 DEF OnlyUser
    <3>3. CASE MaxDrops[device[u]] = 0
      <4>1. \A e \in Device : link[e].done \in Nat /\ DOMAIN link[e].puts \subseteq Nat
        BY DEF LinkOf
      <4>2. Arrived(u)
        BY <2>2, <3>3, <4>1 DEF Arrived, NeverAgain, SetOnce
      <4>3. QED
        BY <3>1, <4>2
    <3>4. QED
      BY <3>2, <3>3
  <2>3. QED
    BY <2>1, <2>2 DEF Sees
<1>2. /\ link' = link /\ posts' = posts /\ images' = images
      /\ stage' = stage /\ device' = device /\ record' = record
      /\ deleting' = deleting /\ toldDeleted' = toldDeleted /\ account' = account
      /\ feed' = [feed EXCEPT ![d] = {u \in Upload : Sees(d, u)}]
  BY DEF ReadFeed
<1>3. \A u : (Arrived(u)' <=> Arrived(u)) /\ (Gone(u)' <=> Gone(u))
  BY <1>2 DEF Arrived, SetAt, NeverAgain, Gone, TakenByAnother
<1>4. StoredBeforeLinked' /\ SignInsAllowed' /\ OnlyPublishedKnown'
  BY <1>1, <1>2 DEF StoredBeforeLinked, SignInsAllowed, OnlyPublishedKnown, TakenByAnother
<1>5. SetOnce' /\ RemovedAfterSet' /\ GoneForGood'
  BY <1>2, <1>3 DEF SetOnce, RemovedAfterSet, GoneForGood, SetAt, RemoveAt
<1>6. ListedHasArrived'
  BY <1>1, <1>2, <1>3 DEF ListedHasArrived
<1>7. QED
  BY <1>4, <1>5, <1>6

\* A removal is queued behind its write, or the write has arrived.
LEMMA DeletePostStep ==
    ASSUME Typed, PublishingInv, [Next]_vars,
           NEW d \in Device, NEW u \in Upload, DeletePost(d, u)
    PROVE  PublishingInv'
<1>0. PICK n \in Nat : n = Len(link[d].puts)
  BY DEF Typed, TypeOK, LinkOf
<1>1. /\ posts' = posts /\ images' = images /\ account' = account
      /\ stage' = stage /\ device' = device /\ record' = record
      /\ deleting' = deleting /\ toldDeleted' = toldDeleted /\ feed' = feed
      /\ \A e \in Device : e # d => link'[e] = link[e]
  BY DEF DeletePost, uploadVars, viewVars
<1>2. /\ link'[d].done = link[d].done
      /\ DOMAIN link[d].puts = 1 .. n
      /\ DOMAIN link'[d].puts = 1 .. n + 1
      /\ link'[d].puts[n + 1] = RemovePost(u)
      /\ \A i \in 1 .. n : link'[d].puts[i] = link[d].puts[i]
      /\ n \in Nat /\ link[d].done \in Nat /\ link[d].done <= n
  <2>1. link'[d] = Enqueue(link[d], RemovePost(u)) /\ link[d] \in LinkOf(Put)
    BY DEF DeletePost, Typed, TypeOK
  <2>2. RemovePost(u) \in Put
    BY DEF RemovePost, Put
  <2>3. n \in Nat /\ link[d].done \in Nat /\ link[d].done <= n
    BY <1>0, <2>1 DEF LinkOf, Typed, AppliedWithinQueue
  <2>4. QED
    BY <1>0, <2>1, <2>2, <2>3, EnqueueFacts
<1>3. \A e \in Device, v \in Upload : \A i \in DOMAIN link'[e].puts :
        SetAt(e, v, i)' => i \in DOMAIN link[e].puts /\ SetAt(e, v, i)
  <2> SUFFICES ASSUME NEW e \in Device, NEW v \in Upload,
                      NEW i \in DOMAIN link'[e].puts, SetAt(e, v, i)'
               PROVE  i \in DOMAIN link[e].puts /\ SetAt(e, v, i)
    OBVIOUS
  <2>1. CASE e = d
    <3>1. i # n + 1
      BY <1>2, <2>1, PutFacts DEF SetAt
    <3>2. i \in 1 .. n
      BY <1>2, <2>1, <3>1
    <3>3. QED
      BY <1>2, <2>1, <3>2 DEF SetAt
  <2>2. QED
    BY <1>1, <2>1 DEF SetAt
<1>4. \A v \in Upload : Arrived(v) => Arrived(v)'
  BY <1>1, <1>2, <1>3 DEF Arrived, NeverAgain
<1>5. \A v \in Upload : Gone(v)' => Gone(v)
  BY <1>1 DEF Gone, Published, TakenByAnother
<1>6. StoredBeforeLinked' /\ SignInsAllowed' /\ OnlyPublishedKnown'
  BY <1>1 DEF PublishingInv, TakenByAnother, StoredBeforeLinked, SignInsAllowed,
              OnlyPublishedKnown, Published
<1>7. SetOnce'
  BY <1>1, <1>2, <1>3 DEF PublishingInv, SetOnce, Published
<1>8. ListedHasArrived' /\ GoneForGood'
  <2>1. \A e \in Device : feed[e] \subseteq Upload
    BY DEF Typed, TypeOK
  <2>2. ListedHasArrived'
    BY <1>1, <1>4, <2>1 DEF PublishingInv, ListedHasArrived
  <2>3. GoneForGood'
    BY <1>1, <1>4, <1>5 DEF PublishingInv, GoneForGood
  <2>4. QED
    BY <2>2, <2>3
<1>9. RemovedAfterSet'
  <2> SUFFICES ASSUME NEW e \in Device, NEW k \in DOMAIN link'[e].puts,
                      NEW v \in Upload, RemoveAt(e, v, k)'
               PROVE  /\ Published(v)'
                      /\ e = device'[v] \/ Arrived(v)'
                      /\ \A i \in DOMAIN link'[e].puts : SetAt(e, v, i)' => i < k
                      /\ k <= link'[e].done => v \notin posts'
    BY DEF RemovedAfterSet
  <2>1. CASE e = d /\ k = n + 1
    <3>1. v = u
      BY <1>2, <2>1, PutFacts DEF RemoveAt
    <3>2. Published(u) /\ (d = device[u] \/ Arrived(u))
      BY DEF DeletePost, MayDelete, PublishingInv, SignInsAllowed,
             OnlyPublishedKnown, ListedHasArrived
    <3>3. \A i \in DOMAIN link'[d].puts : SetAt(d, u, i)' => i < n + 1
      BY <1>2, <1>3
    <3>4. QED
      BY <1>1, <1>2, <1>4, <2>1, <3>1, <3>2, <3>3 DEF Published
  <2>2. CASE e # d \/ k # n + 1
    <3>1. k \in DOMAIN link[e].puts /\ RemoveAt(e, v, k)
      <4>1. CASE e # d
        BY <1>1, <4>1 DEF RemoveAt
      <4>2. CASE e = d /\ k # n + 1
        <5>1. k \in 1 .. n
          BY <1>2, <4>2
        <5>2. QED
          BY <1>2, <4>2, <5>1 DEF RemoveAt
      <4>3. QED
        BY <2>2, <4>1, <4>2
    <3>2. QED
      BY <1>1, <1>2, <1>3, <1>4, <3>1
      DEF PublishingInv, RemovedAfterSet, Published
  <2>3. QED
    BY <2>1, <2>2
<1>10. QED
  BY <1>6, <1>7, <1>8, <1>9 DEF PublishingInv

\* A write that reaches the server has not been removed yet, and never
\* follows the removal of its post.
LEMMA ServerAppliesStep ==
    ASSUME Typed, PublishingInv, [Next]_vars,
           NEW d \in Device, ServerAppliesPut(d)
    PROVE  PublishingInv'
<1>1. /\ images' = images /\ account' = account /\ feed' = feed
      /\ stage' = stage /\ device' = device /\ record' = record
      /\ deleting' = deleting /\ toldDeleted' = toldDeleted
      /\ \A e \in Device : e # d => link'[e] = link[e]
  BY DEF ServerAppliesPut, uploadVars, viewVars, Typed, TypeOK
<1>2. PICK n \in Nat : n = link[d].done
  BY DEF Typed, TypeOK, LinkOf
<1>3. /\ link'[d].puts = link[d].puts
      /\ link'[d].done = n + 1
      /\ n + 1 \in DOMAIN link[d].puts
      /\ link[d].puts[n + 1] \in Put
      /\ NextPut(link[d]) = link[d].puts[n + 1]
  <2>1. link'[d] = Applied(link[d]) /\ link[d] \in LinkOf(Put) /\ CanApply(link[d])
    BY DEF ServerAppliesPut, Typed, TypeOK
  <2>2. QED
    BY <1>2, <2>1, AppliedFacts
<1>4. \A e \in Device : /\ link'[e].puts = link[e].puts
                        /\ link'[e].done \in Nat /\ link[e].done \in Nat
                        /\ link[e].done <= link'[e].done
                        /\ DOMAIN link[e].puts \subseteq Nat
  <2>1. \A e \in Device : link[e] \in LinkOf(Put)
    BY DEF Typed, TypeOK
  <2>2. \A e \in Device : link[e].done \in Nat /\ DOMAIN link[e].puts \subseteq Nat
    BY <2>1 DEF LinkOf
  <2>3. QED
    BY <1>1, <1>2, <1>3, <2>2
<1>5. \A v : Arrived(v) => Arrived(v)'
  BY <1>4 DEF Arrived, SetAt, NeverAgain
<1>6. \A v : Gone(v)' <=> Gone(v)
  BY <1>1 DEF Gone, Published, TakenByAnother
<1>7. StoredBeforeLinked' /\ SignInsAllowed'
  BY <1>1 DEF PublishingInv, StoredBeforeLinked, SignInsAllowed, Published,
                   TakenByAnother
<1>8. ListedHasArrived'
  BY <1>1, <1>5 DEF PublishingInv, ListedHasArrived
<1>9. PICK u \in Upload : SetAt(d, u, n + 1) \/ RemoveAt(d, u, n + 1)
  BY <1>3, PutCases DEF SetAt, RemoveAt
<1>10. CASE SetAt(d, u, n + 1)
  <2>1. posts' = posts \cup {u}
    BY <1>3, <1>10, PutFacts DEF ServerAppliesPut, SetAt
  <2>2. /\ Published(u) /\ device[u] = d
        /\ \A k \in DOMAIN link[d].puts : SetAt(d, u, k) => k = n + 1
    BY <1>3, <1>10 DEF PublishingInv, SetOnce
  <2>3. ~Arrived(u)
    BY <1>2, <1>3, <1>10 DEF Arrived, NeverAgain
  <2>4. OnlyPublishedKnown'
    BY <1>1, <2>1, <2>2 DEF PublishingInv, OnlyPublishedKnown, Published
  <2>5. SetOnce'
    <3> SUFFICES ASSUME NEW e \in Device, NEW i \in DOMAIN link[e].puts,
                        NEW v \in Upload, SetAt(e, v, i)
                 PROVE  /\ Published(v)'
                        /\ device'[v] = e
                        /\ \A k \in DOMAIN link'[e].puts : SetAt(e, v, k)' => k = i
                        /\ i > link'[e].done /\ MaxDrops[e] = 0 => v \notin posts'
      BY <1>4 DEF SetOnce, SetAt
    <3>1. /\ Published(v) /\ device[v] = e
          /\ \A k \in DOMAIN link[e].puts : SetAt(e, v, k) => k = i
          /\ i > link[e].done /\ MaxDrops[e] = 0 => v \notin posts
      BY DEF PublishingInv, SetOnce
    <3>2. v = u => ~(i > link'[e].done)
      BY <1>3, <1>10, <2>2, <3>1
    <3>3. i > link'[e].done => i > link[e].done
      BY <1>4
    <3>4. QED
      BY <1>1, <1>4, <2>1, <3>1, <3>2, <3>3 DEF Published, SetAt
  <2>6. RemovedAfterSet'
    <3> SUFFICES ASSUME NEW e \in Device, NEW k \in DOMAIN link[e].puts,
                        NEW v \in Upload, RemoveAt(e, v, k)
                 PROVE  /\ Published(v)'
                        /\ e = device'[v] \/ Arrived(v)'
                        /\ \A i \in DOMAIN link'[e].puts : SetAt(e, v, i)' => i < k
                        /\ k <= link'[e].done => v \notin posts'
      BY <1>4 DEF RemovedAfterSet, RemoveAt
    <3>1. /\ Published(v)
          /\ e = device[v] \/ Arrived(v)
          /\ \A i \in DOMAIN link[e].puts : SetAt(e, v, i) => i < k
          /\ k <= link[e].done => v \notin posts
      BY DEF PublishingInv, RemovedAfterSet
    <3>2. v = u => n + 1 < k /\ e = d
      BY <1>3, <1>10, <2>2, <2>3, <3>1
    <3>3. CASE v = u
      BY <1>1, <1>3, <1>4, <1>5, <3>1, <3>2, <3>3 DEF Published, SetAt
    <3>4. CASE v # u
      <4>1. k <= link'[e].done => v \notin posts
        <5>1. CASE e # d
          BY <1>1, <3>1, <5>1
        <5>2. CASE e = d
          <6>1. k # n + 1
            BY <1>10, <5>2, PutFacts DEF SetAt, RemoveAt
          <6>2. QED
            BY <1>2, <1>3, <1>4, <3>1, <5>2, <6>1
        <5>3. QED
          BY <5>1, <5>2
      <4>2. QED
        BY <1>1, <1>4, <1>5, <2>1, <3>1, <3>4, <4>1 DEF Published, SetAt
    <3>5. QED
      BY <3>3, <3>4
  <2>7. GoneForGood'
    BY <1>5, <1>6, <2>1, <2>3 DEF PublishingInv, GoneForGood
  <2>8. QED
    BY <1>7, <1>8, <2>4, <2>5, <2>6, <2>7 DEF PublishingInv
<1>11. CASE RemoveAt(d, u, n + 1)
  <2>1. posts' = posts \ {u}
    BY <1>3, <1>11, PutFacts DEF ServerAppliesPut, RemoveAt
  <2>2. OnlyPublishedKnown'
    BY <1>1, <2>1 DEF PublishingInv, OnlyPublishedKnown, Published
  <2>3. SetOnce'
    <3>1. \A e \in Device : \A i \in DOMAIN link[e].puts :
            i > link'[e].done => i > link[e].done
      BY <1>4
    <3>2. QED
      BY <1>1, <1>4, <2>1, <3>1 DEF PublishingInv, SetOnce, Published, SetAt
  <2>4. RemovedAfterSet'
    <3> SUFFICES ASSUME NEW e \in Device, NEW k \in DOMAIN link[e].puts,
                        NEW v \in Upload, RemoveAt(e, v, k)
                 PROVE  /\ Published(v)'
                        /\ e = device'[v] \/ Arrived(v)'
                        /\ \A i \in DOMAIN link'[e].puts : SetAt(e, v, i)' => i < k
                        /\ k <= link'[e].done => v \notin posts'
      BY <1>4 DEF RemovedAfterSet, RemoveAt
    <3>1. /\ Published(v)
          /\ e = device[v] \/ Arrived(v)
          /\ \A i \in DOMAIN link[e].puts : SetAt(e, v, i) => i < k
          /\ k <= link[e].done => v \notin posts
      BY DEF PublishingInv, RemovedAfterSet
    <3>2. k <= link'[e].done => v \notin posts'
      <4>1. CASE e # d
        BY <1>1, <2>1, <3>1, <4>1
      <4>2. CASE e = d /\ k = n + 1
        BY <1>11, <2>1, <4>2, PutFacts DEF RemoveAt
      <4>3. CASE e = d /\ k # n + 1
        BY <1>2, <1>3, <1>4, <2>1, <3>1, <4>3
      <4>4. QED
        BY <4>1, <4>2, <4>3
    <3>3. QED
      BY <1>1, <1>4, <1>5, <3>1, <3>2 DEF Published, SetAt
  <2>5. GoneForGood'
    BY <1>5, <1>6, <2>1 DEF PublishingInv, GoneForGood
  <2>6. QED
    BY <1>7, <1>8, <2>2, <2>3, <2>4, <2>5 DEF PublishingInv
<1>12. QED
  BY <1>9, <1>10, <1>11

\* The acknowledgement of a removal finds its write arrived and its post gone.
LEMMA AckPutStep ==
    ASSUME Typed, PublishingInv, [Next]_vars,
           NEW d \in Device, AckPut(d)
    PROVE  PublishingInv'
<1>1. /\ images' = images /\ account' = account /\ feed' = feed /\ posts' = posts
      /\ stage' = stage /\ device' = device /\ record' = record
      /\ toldDeleted' = toldDeleted
      /\ \A e \in Device : e # d => link'[e] = link[e] /\ deleting'[e] = deleting[e]
  BY DEF AckPut, uploadVars, Typed, TypeOK
<1>2. PICK n \in Nat : n = Len(link[d].puts)
  BY DEF Typed, TypeOK, LinkOf
<1>3. PICK m \in Nat : m = link[d].done
  BY DEF Typed, TypeOK, LinkOf
<1>4. /\ link'[d].done = m - 1 /\ m >= 1 /\ n >= 1
      /\ DOMAIN link[d].puts = 1 .. n
      /\ DOMAIN link'[d].puts = 1 .. n - 1
      /\ link[d].puts[1] \in Put
      /\ OldestPut(link[d]) = link[d].puts[1]
      /\ \A i \in 1 .. n - 1 : link'[d].puts[i] = link[d].puts[i + 1]
  <2>1. /\ link'[d] = Acked(link[d]) /\ link[d] \in LinkOf(Put)
        /\ CanAck(link[d]) /\ link[d].done <= Len(link[d].puts)
    BY DEF AckPut, Typed, TypeOK, AppliedWithinQueue
  <2>2. m >= 1
    BY <1>3, <2>1 DEF CanAck
  <2>3. QED
    BY ZenonT(60), <1>2, <1>3, <2>1, <2>2, AckedFacts
<1>5. \A i \in 1 .. n - 1 : i + 1 \in 1 .. n /\ (i <= m - 1 <=> i + 1 <= m)
                                             /\ (i > m - 1 <=> i + 1 > m)
  BY <1>2, <1>3
<1>6. \A v : Arrived(v) => Arrived(v)'
  <2> SUFFICES ASSUME NEW v, Arrived(v), NEW e \in Device,
                      NEW i \in DOMAIN link'[e].puts, SetAt(e, v, i)'
               PROVE  NeverAgain(e, i)'
    BY DEF Arrived
  <2>1. CASE e # d
    BY <1>1, <2>1 DEF Arrived, SetAt, NeverAgain
  <2>2. CASE e = d
    <3>1. i \in 1 .. n - 1 /\ SetAt(d, v, i + 1)
      BY <1>4, <2>2 DEF SetAt
    <3>2. NeverAgain(d, i + 1)
      BY <1>4, <1>5, <3>1 DEF Arrived
    <3>3. QED
      BY <1>3, <1>4, <1>5, <2>2, <3>1, <3>2 DEF NeverAgain
  <2>3. QED
    BY <2>1, <2>2
<1>7. \A u \in deleting'[d] : u \in Upload /\ (u \in deleting[d] \/ RemoveAt(d, u, 1))
  <2>1. deleting[d] \subseteq Upload
    BY DEF Typed, TypeOK
  <2>2. PICK w \in Upload : link[d].puts[1] = SetPost(w) \/ link[d].puts[1] = RemovePost(w)
    BY <1>4, PutCases
  <2>3. CASE link[d].puts[1] = SetPost(w)
    <3>1. deleting' = deleting
      BY <1>4, <2>3, PutFacts DEF AckPut
    <3>2. QED
      BY <2>1, <3>1
  <2>4. CASE link[d].puts[1] = RemovePost(w)
    <3>1. deleting'[d] = deleting[d] \cup {w}
      <4>1. OldestPut(link[d]).op = "remove" /\ OldestPut(link[d]).post = w
        BY <1>4, <2>4, PutFacts
      <4>2. deleting' = [deleting EXCEPT ![d] = @ \cup {w}]
        BY <4>1 DEF AckPut
      <4>3. QED
        BY <4>2 DEF Typed, TypeOK
    <3>2. QED
      BY <2>1, <2>4, <3>1 DEF RemoveAt
  <2>5. QED
    BY <2>2, <2>3, <2>4
<1>8. \A u \in Upload : RemoveAt(d, u, 1) =>
        Published(u) /\ Arrived(u) /\ u \notin posts
  <2> SUFFICES ASSUME NEW u \in Upload, RemoveAt(d, u, 1)
               PROVE  Published(u) /\ Arrived(u) /\ u \notin posts
    OBVIOUS
  <2>1. /\ Published(u)
        /\ d = device[u] \/ Arrived(u)
        /\ \A i \in DOMAIN link[d].puts : SetAt(d, u, i) => i < 1
        /\ u \notin posts
    BY <1>3, <1>4 DEF PublishingInv, RemovedAfterSet
  <2>2. ASSUME d = device[u], NEW e \in Device, NEW i \in DOMAIN link[e].puts, SetAt(e, u, i)
        PROVE  NeverAgain(e, i)
    <3>1. e = d
      BY <2>2 DEF PublishingInv, SetOnce
    <3>2. QED
      BY <1>2, <1>4, <2>1, <2>2, <3>1
  <2>3. QED
    BY <2>1, <2>2 DEF Arrived
<1>9. StoredBeforeLinked' /\ SignInsAllowed'
  BY <1>1 DEF PublishingInv, StoredBeforeLinked, SignInsAllowed, Published,
                   TakenByAnother
<1>10. OnlyPublishedKnown'
  BY <1>1, <1>7, <1>8 DEF PublishingInv, OnlyPublishedKnown, Published
<1>11. ListedHasArrived'
  BY <1>1, <1>6 DEF PublishingInv, ListedHasArrived
<1>12. GoneForGood'
  <2>1. \A u \in Upload : Gone(u)' => Gone(u) \/ RemoveAt(d, u, 1)
    BY <1>1, <1>7 DEF Gone, Published, TakenByAnother
  <2>2. QED
    BY <1>1, <1>6, <1>8, <2>1 DEF PublishingInv, GoneForGood
<1>13. SetOnce'
  <2> SUFFICES ASSUME NEW e \in Device, NEW i \in DOMAIN link'[e].puts,
                      NEW v \in Upload, SetAt(e, v, i)'
               PROVE  /\ Published(v)'
                      /\ device'[v] = e
                      /\ \A k \in DOMAIN link'[e].puts : SetAt(e, v, k)' => k = i
                      /\ i > link'[e].done /\ MaxDrops[e] = 0 => v \notin posts'
    BY DEF SetOnce
  <2>1. CASE e # d
    BY <1>1, <2>1 DEF PublishingInv, SetOnce, SetAt, Published
  <2>2. CASE e = d
    <3>1. i \in 1 .. n - 1 /\ i + 1 \in 1 .. n /\ SetAt(d, v, i + 1)
      BY <1>4, <1>5, <2>2 DEF SetAt
    <3>2. /\ Published(v) /\ device[v] = d
          /\ \A k \in DOMAIN link[d].puts : SetAt(d, v, k) => k = i + 1
          /\ i + 1 > link[d].done /\ MaxDrops[d] = 0 => v \notin posts
      <4>1. i + 1 \in DOMAIN link[d].puts
        BY <1>4, <3>1
      <4>2. QED
        BY <3>1, <4>1 DEF PublishingInv, SetOnce
    <3>3. \A k \in DOMAIN link'[d].puts : SetAt(d, v, k)' => k = i
      <4> SUFFICES ASSUME NEW k \in 1 .. n - 1, SetAt(d, v, k)'
                   PROVE  k = i
        BY <1>4
      <4>1. k + 1 \in 1 .. n /\ SetAt(d, v, k + 1)
        BY <1>4, <1>5 DEF SetAt
      <4>2. k + 1 = i + 1
        BY <1>4, <3>2, <4>1
      <4>3. QED
        BY <3>1, <4>2
    <3>4. i > link'[d].done => i + 1 > link[d].done
      BY <1>3, <1>4, <3>1
    <3>5. QED
      BY <1>1, <2>2, <3>2, <3>3, <3>4 DEF Published
  <2>3. QED
    BY <2>1, <2>2
<1>14. RemovedAfterSet'
  <2> SUFFICES ASSUME NEW e \in Device, NEW k \in DOMAIN link'[e].puts,
                      NEW v \in Upload, RemoveAt(e, v, k)'
               PROVE  /\ Published(v)'
                      /\ e = device'[v] \/ Arrived(v)'
                      /\ \A i \in DOMAIN link'[e].puts : SetAt(e, v, i)' => i < k
                      /\ k <= link'[e].done => v \notin posts'
    BY DEF RemovedAfterSet
  <2>1. CASE e # d
    BY <1>1, <1>6, <2>1 DEF PublishingInv, RemovedAfterSet, SetAt, RemoveAt, Published
  <2>2. CASE e = d
    <3>1. k \in 1 .. n - 1 /\ k + 1 \in 1 .. n /\ RemoveAt(d, v, k + 1)
      BY <1>4, <1>5, <2>2 DEF RemoveAt
    <3>2. /\ Published(v)
          /\ d = device[v] \/ Arrived(v)
          /\ \A i \in DOMAIN link[d].puts : SetAt(d, v, i) => i < k + 1
          /\ k + 1 <= link[d].done => v \notin posts
      BY <1>4, <3>1 DEF PublishingInv, RemovedAfterSet
    <3>3. \A i \in DOMAIN link'[d].puts : SetAt(d, v, i)' => i < k
      <4> SUFFICES ASSUME NEW i \in 1 .. n - 1, SetAt(d, v, i)'
                   PROVE  i < k
        BY <1>4
      <4>1. i + 1 \in 1 .. n /\ SetAt(d, v, i + 1)
        BY <1>4, <1>5 DEF SetAt
      <4>2. i + 1 < k + 1
        BY <1>4, <3>2, <4>1
      <4>3. QED
        BY <3>1, <4>2
    <3>4. k <= link'[d].done => k + 1 <= link[d].done
      BY <1>3, <1>4, <3>1
    <3>5. QED
      BY <1>1, <1>6, <2>2, <3>2, <3>3, <3>4 DEF Published
  <2>3. QED
    BY <2>1, <2>2
<1>15. QED
  BY <1>9, <1>10, <1>11, <1>12, <1>13, <1>14 DEF PublishingInv

\* A new connection sends the whole queue again: nothing is applied any more,
\* and what has arrived was in no queue.
LEMMA DropConnectionStep ==
    ASSUME Typed, PublishingInv, [Next]_vars,
           NEW d \in Device, DropConnection(d)
    PROVE  PublishingInv'
<1>1. /\ images' = images /\ account' = account /\ feed' = feed /\ posts' = posts
      /\ stage' = stage /\ device' = device /\ record' = record
      /\ toldDeleted' = toldDeleted /\ deleting' = deleting /\ MaxDrops[d] # 0
      /\ \A e \in Device : e # d => link'[e] = link[e]
  BY FaultsAssumption DEF DropConnection, uploadVars, viewVars, Typed, TypeOK
<1>2. link'[d].puts = link[d].puts /\ link'[d].done = 0
  <2>1. link'[d] = Resent(link[d]) /\ link[d] \in LinkOf(Put)
    BY DEF DropConnection, Typed, TypeOK
  <2>2. QED
    BY <2>1, ResentFacts
<1>3. \A e \in Device : link'[e].puts = link[e].puts
  BY <1>1, <1>2
<1>4. \A v : Arrived(v)' <=> Arrived(v)
  BY <1>1, <1>3 DEF Arrived, SetAt, NeverAgain
<1>5. \A v : Gone(v)' <=> Gone(v)
  BY <1>1 DEF Gone, Published, TakenByAnother
<1>6. StoredBeforeLinked' /\ SignInsAllowed' /\ OnlyPublishedKnown'
  BY <1>1 DEF PublishingInv, TakenByAnother, StoredBeforeLinked, SignInsAllowed,
              OnlyPublishedKnown, Published
<1>7. SetOnce'
  BY <1>1, <1>3 DEF PublishingInv, SetOnce, SetAt, Published
<1>8. ListedHasArrived' /\ GoneForGood'
  BY <1>1, <1>4, <1>5 DEF PublishingInv, ListedHasArrived, GoneForGood
<1>9. RemovedAfterSet'
  <2>1. \A e \in Device : DOMAIN link[e].puts \subseteq Nat \ {0}
    BY DEF Typed, TypeOK, LinkOf
  <2>2. \A e \in Device : \A k \in DOMAIN link[e].puts :
          k <= link'[e].done => k <= link[e].done
    BY <1>1, <1>2, <2>1
  <2>3. QED
    BY <1>1, <1>3, <1>4, <2>2
    DEF PublishingInv, RemovedAfterSet, SetAt, RemoveAt, Published
<1>10. QED
  BY <1>6, <1>7, <1>8, <1>9 DEF PublishingInv

\* The queue, the screens and the calls of a process go with it.
LEMMA ProcessEndsStep ==
    ASSUME Typed, PublishingInv, [Next]_vars,
           NEW d \in Device, ProcessEnds(d)
    PROVE  PublishingInv'
<1>1. /\ images' = images /\ account' = account /\ posts' = posts
      /\ device' = device /\ record' = record /\ toldDeleted' = toldDeleted
      /\ \A u \in Upload : /\ Published(u)' <=> Published(u)
                           /\ stage'[u] = "linking" => stage[u] = "linking"
      /\ \A e \in Device : /\ e # d => link'[e] = link[e]
                           /\ feed'[e] \subseteq feed[e]
                           /\ deleting'[e] \subseteq deleting[e]
  BY DEF ProcessEnds, Typed, TypeOK, Published
<1>2. DOMAIN link'[d].puts = {}
  <2>1. link'[d] = IdleLink
    BY DEF ProcessEnds, Typed, TypeOK
  <2>2. QED
    BY <2>1, IdleLinkFacts
<1>3. \A v : Arrived(v) => Arrived(v)'
  BY <1>1, <1>2 DEF Arrived, SetAt, NeverAgain
<1>4. \A u \in Upload : Gone(u)' => Gone(u)
  BY <1>1 DEF Gone, TakenByAnother
<1>5. StoredBeforeLinked' /\ SignInsAllowed'
  BY <1>1 DEF PublishingInv, StoredBeforeLinked, SignInsAllowed, TakenByAnother
<1>6. \A e \in Device : feed[e] \subseteq Upload /\ deleting[e] \subseteq Upload
  BY DEF Typed, TypeOK
<1>7. OnlyPublishedKnown'
  <2>1. posts \subseteq Upload /\ toldDeleted \subseteq Upload
    BY DEF Typed, TypeOK
  <2>2. QED
    BY <1>1, <1>6, <2>1 DEF PublishingInv, OnlyPublishedKnown
<1>8. SetOnce' /\ RemovedAfterSet'
  BY <1>1, <1>2, <1>3
  DEF PublishingInv, SetOnce, RemovedAfterSet, SetAt, RemoveAt
<1>9. ListedHasArrived' /\ GoneForGood'
  BY <1>1, <1>3, <1>4, <1>6 DEF PublishingInv, ListedHasArrived, GoneForGood
<1>10. QED
  BY <1>5, <1>7, <1>8, <1>9 DEF PublishingInv

\* A write is queued once, for a photo that is in the bucket and a post that no
\* one has seen.
LEMMA PublishPostStep ==
    ASSUME Typed, PublishingInv, [Next]_vars,
           NEW u \in Upload, PublishPost(u)
    PROVE  PublishingInv'
<1>1. /\ images' = images /\ account' = account /\ posts' = posts
      /\ device' = device /\ toldDeleted' = toldDeleted
      /\ deleting' = deleting /\ feed' = feed
      /\ ~Published(u) /\ Published(u)' /\ (ImagePath(u) \in images \/ TakenByAnother(u))
      /\ \A v \in Upload : v # u => /\ stage'[v] = stage[v]
                                    /\ record'[v] = record[v]
                                    /\ Published(v)' <=> Published(v)
      /\ record'[u].author = account[device[u]]
      /\ stage'[u] # "linking"
      /\ account[device[u]] # NoAccount
  BY DEF PublishPost, viewVars, Typed, TypeOK, Published, PostRecord, PublishingInv,
         StoredBeforeLinked
<1>2. PICK d \in Device : d = device[u]
  BY DEF PublishPost, Typed, UploadsPlaced
<1>3. PICK n \in Nat : n = Len(link[d].puts)
  BY DEF Typed, TypeOK, LinkOf
<1>4. /\ link'[d].done = link[d].done
      /\ DOMAIN link[d].puts = 1 .. n
      /\ DOMAIN link'[d].puts = 1 .. n + 1
      /\ link'[d].puts[n + 1] = SetPost(u)
      /\ \A i \in 1 .. n : link'[d].puts[i] = link[d].puts[i]
      /\ link[d].done \in Nat /\ link[d].done <= n
      /\ \A e \in Device : e # d => link'[e] = link[e]
  <2>1. /\ link'[d] = Enqueue(link[d], SetPost(u)) /\ link[d] \in LinkOf(Put)
        /\ \A e \in Device : e # d => link'[e] = link[e]
    BY <1>2 DEF PublishPost, Typed, TypeOK
  <2>2. SetPost(u) \in Put
    BY DEF SetPost, Put
  <2>3. link[d].done \in Nat /\ link[d].done <= n
    BY <1>3, <2>1 DEF LinkOf, Typed, AppliedWithinQueue
  <2>4. QED
    BY <1>3, <2>1, <2>2, <2>3, EnqueueFacts
<1>5. \A e \in Device, v \in Upload : v # u =>
        \A i \in DOMAIN link'[e].puts : SetAt(e, v, i)' =>
          i \in DOMAIN link[e].puts /\ SetAt(e, v, i)
  <2> SUFFICES ASSUME NEW e \in Device, NEW v \in Upload, v # u,
                      NEW i \in DOMAIN link'[e].puts, SetAt(e, v, i)'
               PROVE  i \in DOMAIN link[e].puts /\ SetAt(e, v, i)
    OBVIOUS
  <2>1. CASE e = d
    <3>1. i # n + 1
      BY <1>4, <2>1, PutFacts DEF SetAt
    <3>2. i \in 1 .. n
      BY <1>4, <2>1, <3>1
    <3>3. QED
      BY <1>4, <2>1, <3>2 DEF SetAt
  <2>2. QED
    BY <1>4, <2>1 DEF SetAt
<1>6. \A e \in Device, v \in Upload : \A i \in DOMAIN link'[e].puts :
        RemoveAt(e, v, i)' => i \in DOMAIN link[e].puts /\ RemoveAt(e, v, i)
  <2> SUFFICES ASSUME NEW e \in Device, NEW v \in Upload,
                      NEW i \in DOMAIN link'[e].puts, RemoveAt(e, v, i)'
               PROVE  i \in DOMAIN link[e].puts /\ RemoveAt(e, v, i)
    OBVIOUS
  <2>1. CASE e = d
    <3>1. i # n + 1
      BY <1>4, <2>1, PutFacts DEF RemoveAt
    <3>2. i \in 1 .. n
      BY <1>4, <2>1, <3>1
    <3>3. QED
      BY <1>4, <2>1, <3>2 DEF RemoveAt
  <2>2. QED
    BY <1>4, <2>1 DEF RemoveAt
<1>7. \A e \in Device : \A i \in DOMAIN link'[e].puts : SetAt(e, u, i)' =>
        e = d /\ i = n + 1
  <2>1. \A e \in Device : \A i \in DOMAIN link[e].puts : ~SetAt(e, u, i)
    BY <1>1 DEF PublishingInv, SetOnce
  <2> SUFFICES ASSUME NEW e \in Device, NEW i \in DOMAIN link'[e].puts,
                      SetAt(e, u, i)', ~(e = d /\ i = n + 1)
               PROVE  FALSE
    OBVIOUS
  <2>2. CASE e # d
    BY <1>4, <2>1, <2>2 DEF SetAt
  <2>3. CASE e = d
    <3>1. i \in 1 .. n
      BY <1>4, <2>3
    <3>2. QED
      BY <1>4, <2>1, <2>3, <3>1 DEF SetAt
  <2>4. QED
    BY <2>2, <2>3
<1>8. \A e \in Device : link'[e].done = link[e].done
  BY <1>4
<1>9. \A v \in Upload : v # u /\ Arrived(v) => Arrived(v)'
  BY <1>5, <1>8 DEF Arrived, NeverAgain
<1>10. \A v \in Upload : Gone(v)' => Gone(v) /\ v # u
  <2>1. ~Gone(u)'
    BY <1>1 DEF Gone, PublishingInv, OnlyPublishedKnown, TakenByAnother
  <2>2. QED
    BY <1>1, <2>1 DEF Gone, TakenByAnother
<1>11. StoredBeforeLinked' /\ SignInsAllowed'
  BY <1>1, <1>2 DEF PublishingInv, StoredBeforeLinked, SignInsAllowed, TakenByAnother
<1>12. /\ posts \subseteq Upload /\ toldDeleted \subseteq Upload
       /\ \A e \in Device : feed[e] \subseteq Upload /\ deleting[e] \subseteq Upload
  BY DEF Typed, TypeOK
<1>13. OnlyPublishedKnown'
  BY <1>1, <1>12 DEF PublishingInv, OnlyPublishedKnown
<1>14. SetOnce'
  <2> SUFFICES ASSUME NEW e \in Device, NEW i \in DOMAIN link'[e].puts,
                      NEW v \in Upload, SetAt(e, v, i)'
               PROVE  /\ Published(v)'
                      /\ device'[v] = e
                      /\ \A k \in DOMAIN link'[e].puts : SetAt(e, v, k)' => k = i
                      /\ i > link'[e].done /\ MaxDrops[e] = 0 => v \notin posts'
    BY DEF SetOnce
  <2>1. CASE v = u
    BY <1>1, <1>2, <1>7, <2>1 DEF PublishingInv, OnlyPublishedKnown
  <2>2. CASE v # u
    BY <1>1, <1>5, <1>8, <2>2 DEF PublishingInv, SetOnce
  <2>3. QED
    BY <2>1, <2>2
<1>15. ListedHasArrived' /\ GoneForGood'
  <2>1. \A e \in Device : \A v \in feed[e] : v # u
    BY <1>1 DEF PublishingInv, OnlyPublishedKnown
  <2>2. ListedHasArrived'
    BY <1>1, <1>9, <1>12, <2>1 DEF PublishingInv, ListedHasArrived
  <2>3. GoneForGood'
    BY <1>1, <1>9, <1>10 DEF PublishingInv, GoneForGood
  <2>4. QED
    BY <2>2, <2>3
<1>16. RemovedAfterSet'
  <2> SUFFICES ASSUME NEW e \in Device, NEW k \in DOMAIN link'[e].puts,
                      NEW v \in Upload, RemoveAt(e, v, k)'
               PROVE  /\ Published(v)'
                      /\ e = device'[v] \/ Arrived(v)'
                      /\ \A i \in DOMAIN link'[e].puts : SetAt(e, v, i)' => i < k
                      /\ k <= link'[e].done => v \notin posts'
    BY DEF RemovedAfterSet
  <2>1. /\ Published(v)
        /\ e = device[v] \/ Arrived(v)
        /\ \A i \in DOMAIN link[e].puts : SetAt(e, v, i) => i < k
        /\ k <= link[e].done => v \notin posts
    BY <1>6 DEF PublishingInv, RemovedAfterSet
  <2>2. v # u
    BY <1>1, <2>1
  <2>3. QED
    BY <1>1, <1>5, <1>8, <1>9, <2>1, <2>2
<1>17. QED
  BY <1>11, <1>13, <1>14, <1>15, <1>16 DEF PublishingInv

-----------------------------------------------------------------------------
\* On a safe network the writes in flight, the screens and the two services
\* agree in every reachable state.
THEOREM PublishingInvariant ==
    ASSUME SafeNetwork
    PROVE  Spec => []PublishingInv
<1>1. Init => PublishingInv
  <2> SUFFICES ASSUME Init PROVE PublishingInv
    OBVIOUS
  <2>1. \A d \in Device : link[d] = IdleLink /\ feed[d] = {} /\ deleting[d] = {}
    BY DEF Init
  <2>2. \A d \in Device : DOMAIN link[d].puts = {}
    BY <2>1, IdleLinkFacts
  <2>3. /\ \A u \in Upload : stage[u] = "idle"
        /\ \A d \in Device : account[d] = NoAccount
        /\ posts = {} /\ toldDeleted = {}
    BY DEF Init
  <2>4. StoredBeforeLinked /\ SignInsAllowed /\ OnlyPublishedKnown
    BY <2>1, <2>3 DEF StoredBeforeLinked, SignInsAllowed, OnlyPublishedKnown, Published
  <2>5. SetOnce /\ ListedHasArrived /\ RemovedAfterSet
    BY <2>1, <2>2 DEF SetOnce, ListedHasArrived, RemovedAfterSet
  <2>6. GoneForGood
    BY <2>1, <2>3 DEF GoneForGood, Gone, Published
  <2>7. QED
    BY <2>4, <2>5, <2>6 DEF PublishingInv
<1>2. Typed /\ PublishingInv /\ [Next]_vars => PublishingInv'
  <2> SUFFICES ASSUME Typed, PublishingInv, [Next]_vars PROVE PublishingInv'
    OBVIOUS
  <2>1. ASSUME NEW d \in Device, ReadFeed(d) PROVE PublishingInv'
    BY <2>1, ReadFeedStep
  <2>2. ASSUME NEW d \in Device, NEW u \in Upload, DeletePost(d, u)
        PROVE  PublishingInv'
    BY <2>2, DeletePostStep
  <2>3. ASSUME NEW d \in Device, ServerAppliesPut(d) PROVE PublishingInv'
    BY <2>3, ServerAppliesStep
  <2>4. ASSUME NEW d \in Device, AckPut(d) PROVE PublishingInv'
    BY <2>4, AckPutStep
  <2>5. ASSUME NEW d \in Device, DropConnection(d) PROVE PublishingInv'
    BY <2>5, DropConnectionStep
  <2>6. ASSUME NEW d \in Device, ProcessEnds(d) PROVE PublishingInv'
    BY <2>6, ProcessEndsStep
  <2>7. ASSUME NEW u \in Upload, PublishPost(u) PROVE PublishingInv'
    BY <2>7, PublishPostStep
  <2>8. ASSUME NEW u \in Upload, PublishWhenSignedOut(u) PROVE PublishingInv'
    <3>1. device[u] \in Device /\ ProcessEnds(device[u])
      BY <2>8 DEF PublishWhenSignedOut, Typed, UploadsPlaced
    <3>2. QED
      BY <2>6, <3>1
  <2>9. CASE \/ \E d \in Device :
                  \/ \E s \in Screen : SelectPhoto(d, s)
                  \/ EditCaption(d)
                  \/ \E u \in Upload : ClickUpload(d, u)
                  \/ ClickBack(d)
                  \/ \E a \in Account : SignIn(d, a)
                  \/ SignOut(d)
                  \/ \E u \in Upload : DeleteImage(d, u) \/ DeleteImageFails(d, u)
             \/ \E u \in Upload :
                  StoreImage(u) \/ UploadCompletes(u) \/ UploadFails(u)
             \/ UNCHANGED vars
    BY <2>9, QuietSteps
  <2>10. QED
    BY <2>1, <2>2, <2>3, <2>4, <2>5, <2>6, <2>7, <2>8, <2>9
    DEF Next, UserStep, Kill
<1>3. QED
  BY <1>1, <1>2, TypeInvariant, PTL DEF Spec

\* Whatever is killed, dropped or fails between the steps of uploadSuccess and
\* deletePost, no post of the database lists a photo the bucket lacks, unless a post of
\* the same millisecond was deleted; nothing is assumed about the phones' clocks.
THEOREM PhotosNeverDangle ==
    ASSUME SafeNetwork
    PROVE  Spec => []NoDanglingImage
<1>1. Typed /\ PublishingInv => NoDanglingImage
  BY DEF Typed, TypeOK, PublishingInv, OnlyPublishedKnown, GoneForGood, Gone,
         NoDanglingImage
<1>2. QED
  BY <1>1, TypeInvariant, PublishingInvariant, PTL

\* A post whose owner was told "Post hase been deleted" stays deleted: no queued
\* write brings it back.
THEOREM DeletionIsFinal ==
    ASSUME SafeNetwork
    PROVE  Spec => []DeletedStaysDeleted
<1>1. Typed /\ PublishingInv => DeletedStaysDeleted
  BY DEF Typed, TypeOK, PublishingInv, GoneForGood, Gone, DeletedStaysDeleted
<1>2. QED
  BY <1>1, TypeInvariant, PublishingInvariant, PTL

=============================================================================
