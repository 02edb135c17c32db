--------------------------- MODULE SessionProofs ---------------------------
(***************************************************************************)
(* The types of Session, its inductive invariant, and what follows from it *)
(* for every number of phones, accounts, attempts, drops and kills, when   *)
(* no one taps again while an attempt is under way: the keychain, the      *)
(* preferences and the screen agree about who is signed in.                *)
(***************************************************************************)
EXTENDS Session, DatabaseLinkProofs

\* An attempt that was ever made has a device and an account.
CallsPlaced ==
    \A t \in Attempt : stage[t] # "idle" =>
      call[t].device \in Device /\ call[t].account \in Account

AppliedWithinQueue == \A d \in Device : link[d].done <= Len(link[d].puts)

\* The types, with what the link operations need to keep them.
Typed == TypeOK /\ AppliedWithinQueue /\ CallsPlaced

LEMMA SessionTypes == Spec => []Typed
<1>1. Init => Typed
  <2> SUFFICES ASSUME Init PROVE Typed
    OBVIOUS
  <2>1. IdleLink \in LinkOf(Account) /\ IdleLink.done = 0 /\ Len(IdleLink.puts) = 0
    BY IdleLinkFacts
  <2>2. AppliedWithinQueue /\ CallsPlaced
    BY <2>1 DEF Init, AppliedWithinQueue, CallsPlaced
  <2>3. call \in [Attempt -> Call] /\ stage \in [Attempt -> Stage]
    BY DEF Init, NoCall, Call, Stage
  <2>4. QED
    BY <2>1, <2>2, <2>3 DEF Init, Typed, TypeOK
<1>2. Typed /\ [Next]_vars => Typed'
  <2> SUFFICES ASSUME Typed, [Next]_vars
               PROVE  Typed'
    OBVIOUS
  <2> USE DEF Typed, TypeOK, AppliedWithinQueue, CallsPlaced
  <2>0. \A d \in Device :
          /\ link[d] \in LinkOf(Account)
          /\ link[d].done \in Nat /\ Len(link[d].puts) \in Nat
          /\ link[d].done <= Len(link[d].puts)
    BY DEF LinkOf
  <2>1. ASSUME NEW t \in Attempt, NEW d \in Device, NEW a \in Account,
               ClickLogin(t, d, a) \/ ClickSignUp(t, d, a)
        PROVE  Typed'
    <3>1. PICK kind \in {"login", "signup"} : Start(t, kind, d, a)
      BY <2>1 DEF ClickLogin, ClickSignUp
    <3>2. [kind |-> kind, device |-> d, account |-> a] \in Call
      BY DEF Call
    <3>3. QED
      BY <3>1, <3>2 DEF Start, Stage
  <2>2. ASSUME NEW t \in Attempt, AuthGrants(t)
        PROVE  Typed'
    BY <2>2 DEF AuthGrants, Stage
  <2>3. ASSUME NEW t \in Attempt, AuthRefuses(t) \/ SignUpUnanswered(t)
        PROVE  Typed'
    BY <2>3 DEF AuthRefuses, SignUpUnanswered, Stage
  <2>3a. ASSUME NEW t \in Attempt, SignUpWithoutUser(t)
        PROVE  Typed'
    BY <2>3a DEF SignUpWithoutUser, Stage
  <2>4. ASSUME NEW t \in Attempt, SignInGranted(t)
        PROVE  Typed'
    BY <2>4 DEF SignInGranted, Stage
  <2>5. ASSUME NEW t \in Attempt, SignUpGranted(t)
        PROVE  Typed'
    <3>1. PICK d \in Device, a \in Account :
            d = call[t].device /\ a = call[t].account
      BY <2>5 DEF SignUpGranted
    <3>2. /\ Enqueue(link[d], a) \in LinkOf(Account)
          /\ Enqueue(link[d], a).done = link[d].done
          /\ Len(Enqueue(link[d], a).puts) = Len(link[d].puts) + 1
      BY <2>0, EnqueueFacts
    <3>3. Enqueue(link[d], a).done <= Len(Enqueue(link[d], a).puts)
      BY <2>0, <3>2
    <3>4. link' \in [Device -> LinkOf(Account)] /\ AppliedWithinQueue'
      BY <2>5, <3>1, <3>2, <3>3 DEF SignUpGranted
    <3>5. QED
      BY <2>5, <3>1, <3>4 DEF SignUpGranted, Stage
  <2>6. ASSUME NEW t \in Attempt, ProfileFound(t)
        PROVE  Typed'
    BY <2>6 DEF ProfileFound, Stage
  <2>7. ASSUME NEW t \in Attempt, ProfileMissing(t)
        PROVE  Typed'
    BY <2>7 DEF ProfileMissing, Stage
  <2>8. ASSUME NEW d \in Device, SignOut(d)
        PROVE  Typed'
    BY <2>8 DEF SignOut
  <2>9. ASSUME NEW d \in Device, Relaunch(d)
        PROVE  Typed'
    <3>1. IdleLink \in LinkOf(Account) /\ IdleLink.done <= Len(IdleLink.puts)
      BY IdleLinkFacts
    <3>2. RootAtLaunch(d) \in {"login", "home"}
      BY DEF RootAtLaunch
    <3>3. stage' \in [Attempt -> Stage] /\ CallsPlaced'
      BY <2>9 DEF Relaunch, Stage, UnderWay
    <3>4. QED
      BY <2>9, <3>1, <3>2, <3>3 DEF Relaunch
  <2>10. ASSUME NEW d \in Device, ServerAppliesPut(d)
         PROVE  Typed'
    <3>1. /\ Applied(link[d]) \in LinkOf(Account)
          /\ NextPut(link[d]) \in Account
          /\ Applied(link[d]).done <= Len(Applied(link[d]).puts)
      BY <2>0, <2>10, AppliedFacts DEF ServerAppliesPut
    <3>2. QED
      BY <2>10, <3>1 DEF ServerAppliesPut
  <2>11. ASSUME NEW d \in Device, AckPut(d)
         PROVE  Typed'
    <3>1. /\ Acked(link[d]) \in LinkOf(Account)
          /\ Acked(link[d]).done = link[d].done - 1
          /\ Len(Acked(link[d]).puts) = Len(link[d].puts) - 1
      BY <2>0, <2>11, AckedFacts DEF AckPut
    <3>2. Acked(link[d]).done <= Len(Acked(link[d]).puts)
      BY <2>0, <3>1
    <3>3. QED
      BY <2>11, <3>1, <3>2 DEF AckPut
  <2>12. ASSUME NEW d \in Device, DropConnection(d)
         PROVE  Typed'
    <3>1. /\ Resent(link[d]) \in LinkOf(Account)
          /\ Resent(link[d]).done <= Len(Resent(link[d]).puts)
      BY <2>0, ResentFacts
    <3>2. QED
      BY <2>12, <3>1 DEF DropConnection
  <2>13. UNCHANGED vars => Typed'
    BY DEF vars
  <2>14. QED
    BY <2>1, <2>2, <2>3, <2>3a, <2>4, <2>5, <2>6, <2>7, <2>8, <2>9, <2>10, <2>11,
       <2>12, <2>13
    DEF Next
<1>3. QED
  BY <1>1, <1>2, PTL DEF Spec

\* Every variable of Session keeps its type: the queues hold only profiles of
\* accounts, and an attempt is always in one of its stages.
THEOREM SessionTypeCorrect == Spec => []TypeOK
<1>1. Typed => TypeOK
  BY DEF Typed
<1>2. QED
  BY <1>1, SessionTypes, PTL

-----------------------------------------------------------------------------
\* What the server has applied in a connection stays in users/ while its write
\* waits for the acknowledgement.
AppliedKnown ==
    \A d \in Device : \A i \in DOMAIN link[d].puts :
      i <= link[d].done => link[d].puts[i] \in profiles

\* A phone has one attempt under way, which its user watches from the login screen;
\* from the granted sign-in on, the current user is the attempt's.
WatchedAttempts ==
    /\ \A t, u \in Attempt :
         UnderWay(t) /\ UnderWay(u) /\ call[t].device = call[u].device => t = u
    /\ \A t \in Attempt : UnderWay(t) => root[call[t].device] = "login"
    /\ \A t \in Attempt :
         stage[t] = "fetching" => auth[call[t].device] = call[t].account

\* Nobody has a user id at the login screen, whoever the current user is.
NoIdAtLogin == \A d \in Device : root[d] = "login" => prefs[d] = NoAccount

SessionInv ==
    /\ AppliedKnown
    /\ PrefsMatchAuth
    /\ HomeKnowsUser
    /\ Patient => WatchedAttempts /\ NoIdAtLogin

\* The database never forgets a profile a phone has seen: a write leaves the queue
\* after it was applied, except with the process.
LEMMA ProfilesStaySeen ==
    ASSUME Typed, AppliedKnown, [Next]_vars, NEW d \in Device, ~Relaunch(d)
    PROVE  \A a \in Account : Sees(d, a) => Sees(d, a)'
<1> SUFFICES ASSUME NEW a \in Account, Sees(d, a)
             PROVE  Sees(d, a)'
  OBVIOUS
<1> USE DEF Typed, TypeOK
<1>1. /\ link[d] \in LinkOf(Account)
      /\ link[d].done \in Nat /\ Len(link[d].puts) \in Nat
      /\ link[d].done <= Len(link[d].puts)
      /\ DOMAIN link[d].puts = 1 .. Len(link[d].puts)
  BY DEF LinkOf, AppliedWithinQueue
<1>2. profiles \subseteq profiles'
  <2>1. ASSUME NEW e \in Device, ServerAppliesPut(e)
        PROVE  profiles \subseteq profiles'
    BY <2>1 DEF ServerAppliesPut
  <2>2. QED
    BY <2>1 DEF Next, vars, ClickLogin, ClickSignUp, Start, AuthGrants, AuthRefuses,
                SignUpUnanswered, SignUpWithoutUser,
                SignInGranted, SignUpGranted, ProfileFound, ProfileMissing, SignOut,
                Relaunch, AckPut, DropConnection
<1>3. CASE link'[d].puts = link[d].puts
  BY <1>2, <1>3 DEF Sees
<1>4. ASSUME NEW t \in Attempt, SignUpGranted(t), call[t].device = d
      PROVE  Sees(d, a)'
  <2>1. PICK b \in Account : b = call[t].account
    BY <1>4 DEF SignUpGranted, CallsPlaced
  <2>2. link'[d] = Enqueue(link[d], b)
    BY <1>4, <2>1 DEF SignUpGranted
  <2>3. \A i \in DOMAIN link[d].puts :
          i \in DOMAIN link'[d].puts /\ link'[d].puts[i] = link[d].puts[i]
    BY <1>1, <2>2, EnqueueFacts
  <2>4. QED
    BY <1>2, <2>3 DEF Sees
<1>5. CASE AckPut(d)
  <2>1. link'[d] = Acked(link[d]) /\ CanAck(link[d]) /\ profiles' = profiles
    BY <1>5 DEF AckPut
  <2>2. CASE a \in profiles
    BY <2>1, <2>2 DEF Sees
  <2>3. CASE a \notin profiles
    <3>1. PICK i \in DOMAIN link[d].puts : link[d].puts[i] = a
      BY <2>3 DEF Sees
    <3>2. link[d].done >= 1
      BY <1>1, <2>1 DEF CanAck
    <3>3. i # 1
      BY <2>3, <3>1, <3>2 DEF AppliedKnown
    <3>4. i - 1 \in 1 .. Len(link[d].puts) - 1
      BY <1>1, <3>3
    <3>5. /\ DOMAIN link'[d].puts = 1 .. Len(link[d].puts) - 1
          /\ \A j \in 1 .. Len(link[d].puts) - 1 :
               link'[d].puts[j] = link[d].puts[j + 1]
      BY ZenonT(60), <1>1, <2>1, AckedFacts
    <3>6. link'[d].puts[i - 1] = a
      BY <1>1, <3>1, <3>4, <3>5
    <3>7. QED
      BY <3>4, <3>5, <3>6 DEF Sees
  <2>4. QED
    BY <2>2, <2>3
<1>6. \/ link'[d].puts = link[d].puts
      \/ \E t \in Attempt : SignUpGranted(t) /\ call[t].device = d
      \/ AckPut(d)
  <2>1. ASSUME NEW e \in Device, ServerAppliesPut(e)
        PROVE  link'[d].puts = link[d].puts
    <3>1. Applied(link[e]).puts = link[e].puts
      BY <2>1, AppliedFacts DEF ServerAppliesPut
    <3>2. QED
      BY <2>1, <3>1 DEF ServerAppliesPut
  <2>2. ASSUME NEW e \in Device, DropConnection(e)
        PROVE  link'[d].puts = link[d].puts
    <3>1. Resent(link[e]).puts = link[e].puts
      BY ResentFacts
    <3>2. QED
      BY <2>2, <3>1 DEF DropConnection
  <2>3. ASSUME NEW e \in Device, AckPut(e), e # d
        PROVE  link'[d].puts = link[d].puts
    BY <2>3 DEF AckPut
  <2>4. ASSUME NEW e \in Device, Relaunch(e)
        PROVE  link'[d].puts = link[d].puts
    <3>1. e # d
      BY <2>4
    <3>2. QED
      BY <2>4, <3>1 DEF Relaunch
  <2>5. ASSUME NEW t \in Attempt, SignUpGranted(t), call[t].device # d
        PROVE  link'[d].puts = link[d].puts
    BY <2>5 DEF SignUpGranted
  <2>6. QED
    BY <2>1, <2>2, <2>3, <2>4, <2>5
    DEF Next, vars, ClickLogin, ClickSignUp, Start, AuthGrants, AuthRefuses,
        SignUpUnanswered, SignUpWithoutUser,
        SignInGranted, ProfileFound, ProfileMissing, SignOut
<1>7. QED
  BY <1>3, <1>4, <1>5, <1>6

\* No step lets an applied write be missing from users/.
LEMMA AppliedKnownStep ==
    ASSUME Typed, AppliedKnown, [Next]_vars
    PROVE  AppliedKnown'
<1> USE DEF Typed, TypeOK
<1>1. \A d \in Device :
        /\ link[d] \in LinkOf(Account)
        /\ link[d].done \in Nat /\ Len(link[d].puts) \in Nat
        /\ link[d].done <= Len(link[d].puts)
        /\ DOMAIN link[d].puts = 1 .. Len(link[d].puts)
  BY DEF LinkOf, AppliedWithinQueue
<1>2. ASSUME NEW t \in Attempt, SignUpGranted(t)
      PROVE  AppliedKnown'
  <2>1. PICK d \in Device, a \in Account : d = call[t].device /\ a = call[t].account
    BY <1>2 DEF SignUpGranted, CallsPlaced
  <2>2. /\ link'[d] = Enqueue(link[d], a) /\ profiles' = profiles
        /\ \A e \in Device : e # d => link'[e] = link[e]
    BY <1>2, <2>1 DEF SignUpGranted
  <2>3. /\ link'[d].done = link[d].done
        /\ DOMAIN link'[d].puts = 1 .. Len(link[d].puts) + 1
        /\ \A i \in 1 .. Len(link[d].puts) : link'[d].puts[i] = link[d].puts[i]
    BY <1>1, <2>2, EnqueueFacts
  <2>4. ASSUME NEW i \in DOMAIN link'[d].puts, i <= link'[d].done
        PROVE  link'[d].puts[i] \in profiles'
    <3>1. i \in 1 .. Len(link[d].puts) /\ i <= link[d].done
      BY <1>1, <2>3, <2>4
    <3>2. QED
      BY <1>1, <2>2, <2>3, <3>1 DEF AppliedKnown
  <2>5. QED
    BY <2>2, <2>4 DEF AppliedKnown
<1>3. ASSUME NEW d \in Device, ServerAppliesPut(d)
      PROVE  AppliedKnown'
  <2>1. /\ link'[d].puts = link[d].puts /\ link'[d].done = link[d].done + 1
        /\ NextPut(link[d]) = link[d].puts[link[d].done + 1]
        /\ \A e \in Device : e # d => link'[e] = link[e]
        /\ profiles' = profiles \cup {NextPut(link[d])}
    BY <1>3, AppliedFacts DEF ServerAppliesPut
  <2>2. ASSUME NEW i \in DOMAIN link'[d].puts, i <= link'[d].done
        PROVE  link'[d].puts[i] \in profiles'
    <3>1. CASE i <= link[d].done
      BY <2>1, <3>1 DEF AppliedKnown
    <3>2. CASE i = link[d].done + 1
      BY <2>1, <3>2
    <3>3. QED
      BY <1>1, <2>1, <2>2, <3>1, <3>2
  <2>3. QED
    BY <2>1, <2>2 DEF AppliedKnown
<1>4. ASSUME NEW d \in Device, AckPut(d)
      PROVE  AppliedKnown'
  <2>1. /\ link'[d] = Acked(link[d]) /\ CanAck(link[d]) /\ profiles' = profiles
        /\ \A e \in Device : e # d => link'[e] = link[e]
    BY <1>4 DEF AckPut
  <2>2. /\ link'[d].done = link[d].done - 1
        /\ DOMAIN link'[d].puts = 1 .. Len(link[d].puts) - 1
        /\ \A j \in 1 .. Len(link[d].puts) - 1 : link'[d].puts[j] = link[d].puts[j + 1]
    <3>1. link[d] \in LinkOf(Account) /\ link[d].done <= Len(link[d].puts)
      BY <1>1
    <3> DEFINE n == Len(link[d].puts)
    <3>2. /\ Acked(link[d]).done = link[d].done - 1
          /\ DOMAIN Acked(link[d]).puts = 1 .. n - 1
          /\ \A j \in 1 .. n - 1 : Acked(link[d]).puts[j] = link[d].puts[j + 1]
      BY <2>1, <3>1, AckedFacts
    <3>3. QED
      BY <2>1, <3>2
  <2>3. ASSUME NEW i \in DOMAIN link'[d].puts, i <= link'[d].done
        PROVE  link'[d].puts[i] \in profiles'
    <3>1. i \in 1 .. Len(link[d].puts) - 1
      BY <2>2
    <3>2. i + 1 \in DOMAIN link[d].puts /\ i + 1 <= link[d].done
      BY <1>1, <2>2, <2>3, <3>1
    <3>3. QED
      BY <2>1, <2>2, <3>1, <3>2 DEF AppliedKnown
  <2>4. QED
    BY <2>1, <2>3 DEF AppliedKnown
<1>5. ASSUME NEW d \in Device, DropConnection(d)
      PROVE  AppliedKnown'
  <2>1. /\ link'[d].puts = link[d].puts /\ link'[d].done = 0 /\ profiles' = profiles
        /\ \A e \in Device : e # d => link'[e] = link[e]
    BY <1>1, <1>5, ResentFacts DEF DropConnection
  <2>2. \A i \in DOMAIN link'[d].puts : ~(i <= link'[d].done)
    BY <1>1, <2>1
  <2>3. QED
    BY <2>1, <2>2 DEF AppliedKnown
<1>6. ASSUME NEW d \in Device, Relaunch(d)
      PROVE  AppliedKnown'
  <2>1. /\ DOMAIN link'[d].puts = {} /\ profiles' = profiles
        /\ \A e \in Device : e # d => link'[e] = link[e]
    BY <1>6, IdleLinkFacts DEF Relaunch
  <2>2. QED
    BY <2>1 DEF AppliedKnown
<1>7. link' = link /\ profiles' = profiles => AppliedKnown'
  BY DEF AppliedKnown
<1>8. QED
  BY <1>2, <1>3, <1>4, <1>5, <1>6, <1>7
  DEF Next, vars, ClickLogin, ClickSignUp, Start, AuthGrants, AuthRefuses,
      SignUpUnanswered, SignUpWithoutUser,
      SignInGranted, ProfileFound, ProfileMissing, SignOut

\* No step puts the wrong user on a screen: an answer finds its phone as its call
\* left it, and a sign-out happens where nothing is under way.
LEMMA WatchedStep ==
    ASSUME Typed, SessionInv, [Next]_vars
    PROVE  (Patient => WatchedAttempts /\ NoIdAtLogin)'
<1> SUFFICES ASSUME Patient
             PROVE  WatchedAttempts' /\ NoIdAtLogin'
  <2>1. world' = world
    BY DEF Next, vars, ClickLogin, ClickSignUp, Start, AuthGrants, AuthRefuses,
           SignUpUnanswered, SignUpWithoutUser,
           SignInGranted, SignUpGranted, ProfileFound, ProfileMissing, SignOut,
           Relaunch, ServerAppliesPut, AckPut, DropConnection
  <2>2. Patient' => Patient
    BY <2>1 DEF Patient
  <2>3. QED
    BY <2>2
<1> USE DEF Typed, TypeOK, CallsPlaced, WatchedAttempts, NoIdAtLogin, UnderWay
<1>0. WatchedAttempts /\ NoIdAtLogin /\ PrefsMatchAuth
  BY DEF SessionInv
<1>1. ASSUME NEW t \in Attempt, NEW d \in Device, NEW a \in Account,
             ClickLogin(t, d, a) \/ ClickSignUp(t, d, a)
      PROVE  WatchedAttempts' /\ NoIdAtLogin'
  <2>1. PICK kind \in {"login", "signup"} : Start(t, kind, d, a)
    BY <1>1 DEF ClickLogin, ClickSignUp
  <2>2. /\ root[d] = "login" /\ root' = root /\ prefs' = prefs /\ auth' = auth
        /\ call'[t].device = d /\ stage'[t] = "asking"
        /\ \A u \in Attempt \ {t} : call'[u] = call[u] /\ stage'[u] = stage[u]
        /\ \A u \in Attempt : call[u].device = d => ~UnderWay(u)
    BY <2>1 DEF Start, Patient
  <2>3. QED
    BY <1>0, <2>2
<1>2. ASSUME NEW t \in Attempt, AuthGrants(t) \/ AuthRefuses(t) \/ SignUpUnanswered(t)
      PROVE  WatchedAttempts' /\ NoIdAtLogin'
  BY <1>0, <1>2 DEF AuthGrants, AuthRefuses, SignUpUnanswered
<1>3. ASSUME NEW t \in Attempt,
             SignInGranted(t) \/ SignUpGranted(t) \/ SignUpWithoutUser(t)
      PROVE  WatchedAttempts' /\ NoIdAtLogin'
  <2>1. /\ call' = call /\ root' = root /\ prefs' = prefs
        /\ UnderWay(t) /\ call[t].device \in Device
        /\ \A d \in Device \ {call[t].device} : auth'[d] = auth[d]
        /\ stage'[t] = "fetching" => auth'[call[t].device] = call[t].account
        /\ \A u \in Attempt \ {t} : stage'[u] = stage[u]
        /\ stage'[t] \in {"fetching", "ended", "no_user"}
    BY <1>3 DEF SignInGranted, SignUpGranted, SignUpWithoutUser
  <2>2. ASSUME NEW u \in Attempt, stage'[u] = "fetching"
        PROVE  auth'[call[u].device] = call[u].account
    <3>1. CASE u = t
      BY <2>1, <2>2, <3>1
    <3>2. CASE u # t
      <4>1. call[u].device # call[t].device /\ call[u].device \in Device
        BY <1>0, <2>1, <2>2, <3>2
      <4>2. QED
        BY <1>0, <2>1, <2>2, <3>2, <4>1
    <3>3. QED
      BY <3>1, <3>2
  <2>3. QED
    BY <1>0, <2>1, <2>2
<1>4. ASSUME NEW t \in Attempt, ProfileFound(t)
      PROVE  WatchedAttempts' /\ NoIdAtLogin'
  <2>1. /\ call' = call /\ auth' = auth /\ UnderWay(t) /\ call[t].device \in Device
        /\ stage'[t] = "ended"
        /\ \A u \in Attempt \ {t} : stage'[u] = stage[u]
        /\ root'[call[t].device] = "home"
        /\ \A d \in Device \ {call[t].device} :
             root'[d] = root[d] /\ prefs'[d] = prefs[d]
    BY <1>4 DEF ProfileFound
  <2>2. \A u \in Attempt : UnderWay(u)' => UnderWay(u) /\ u # t
    BY <2>1
  <2>3. \A u \in Attempt : UnderWay(u)' => root'[call[u].device] = "login"
    BY <1>0, <2>1, <2>2
  <2>4. QED
    BY <1>0, <2>1, <2>2, <2>3
<1>5. ASSUME NEW t \in Attempt, ProfileMissing(t)
      PROVE  WatchedAttempts' /\ NoIdAtLogin'
  BY <1>0, <1>5 DEF ProfileMissing
<1>6. ASSUME NEW d \in Device, SignOut(d)
      PROVE  WatchedAttempts' /\ NoIdAtLogin'
  <2>1. \A u \in Attempt : UnderWay(u) => call[u].device # d
    BY <1>0, <1>6 DEF SignOut
  <2>2. QED
    BY <1>0, <1>6, <2>1 DEF SignOut
<1>7. ASSUME NEW d \in Device, Relaunch(d)
      PROVE  WatchedAttempts' /\ NoIdAtLogin'
  <2>1. /\ call' = call /\ auth' = auth /\ prefs' = prefs
        /\ root'[d] = RootAtLaunch(d)
        /\ \A e \in Device \ {d} : root'[e] = root[e]
        /\ \A u \in Attempt : stage'[u] \in {stage[u], "lost"}
        /\ \A u \in Attempt : UnderWay(u)' => UnderWay(u) /\ call[u].device # d
    BY <1>7 DEF Relaunch
  <2>2. root'[d] = "login" => prefs[d] = NoAccount
    BY <1>0, <2>1 DEF RootAtLaunch, PrefsMatchAuth
  <2>3. QED
    BY <1>0, <2>1, <2>2
<1>8. CASE UNCHANGED <<auth, prefs, root, call, stage>>
  BY <1>0, <1>8
<1>9. QED
  BY <1>1, <1>2, <1>3, <1>4, <1>5, <1>6, <1>7, <1>8
  DEF Next, vars, ServerAppliesPut, AckPut, DropConnection

\* The preferences name no one but the current user, and Home is shown to a user with
\* an id and a profile, after every step.
LEMMA AgreementStep ==
    ASSUME Typed, SessionInv, [Next]_vars
    PROVE  PrefsMatchAuth' /\ HomeKnowsUser'
<1> SUFFICES ASSUME Patient
             PROVE  PrefsMatchAuth' /\ HomeKnowsUser'
  <2>1. world' = world
    BY DEF Next, vars, ClickLogin, ClickSignUp, Start, AuthGrants, AuthRefuses,
           SignUpUnanswered, SignUpWithoutUser,
           SignInGranted, SignUpGranted, ProfileFound, ProfileMissing, SignOut,
           Relaunch, ServerAppliesPut, AckPut, DropConnection
  <2>2. Patient' => Patient
    BY <2>1 DEF Patient
  <2>3. QED
    BY <2>2 DEF PrefsMatchAuth, HomeKnowsUser
<1>1. /\ WatchedAttempts /\ NoIdAtLogin /\ AppliedKnown
      /\ \A d \in Device : prefs[d] \in {NoAccount, auth[d]}
      /\ \A d \in Device : root[d] = "home" /\ kills[d] = 0 =>
           prefs[d] # NoAccount /\ prefs[d] = auth[d] /\ Sees(d, prefs[d])
  BY DEF SessionInv, PrefsMatchAuth, HomeKnowsUser
<1>2. \A d \in Device : ~Relaunch(d) =>
        \A a \in Account : Sees(d, a) => Sees(d, a)'
  BY <1>1, ProfilesStaySeen
<1>3. \A d \in Device : prefs[d] # NoAccount => prefs[d] \in Account
  BY DEF Typed, TypeOK
<1> USE DEF PrefsMatchAuth, HomeKnowsUser, Typed, TypeOK
\* A step that leaves a phone's three records alone, and does not end its process.
<1>4. ASSUME NEW d \in Device, ~Relaunch(d), auth'[d] = auth[d], prefs'[d] = prefs[d],
             root'[d] = root[d], kills'[d] = kills[d]
      PROVE  /\ prefs'[d] \in {NoAccount, auth'[d]}
             /\ root'[d] = "home" /\ kills'[d] = 0 =>
                  prefs'[d] # NoAccount /\ prefs'[d] = auth'[d] /\ Sees(d, prefs[d])'
  BY <1>1, <1>2, <1>3, <1>4
<1>5. ASSUME NEW t \in Attempt,
             SignInGranted(t) \/ SignUpGranted(t) \/ SignUpWithoutUser(t)
      PROVE  PrefsMatchAuth' /\ HomeKnowsUser'
  <2>1. /\ call[t].device \in Device /\ root' = root /\ prefs' = prefs /\ kills' = kills
        /\ \A d \in Device \ {call[t].device} : auth'[d] = auth[d]
        /\ root[call[t].device] = "login"
    BY <1>1, <1>5 DEF SignInGranted, SignUpGranted, SignUpWithoutUser, CallsPlaced,
                      WatchedAttempts, UnderWay
  <2>2. prefs[call[t].device] = NoAccount
    BY <1>1, <2>1 DEF NoIdAtLogin
  <2>3. \A d \in Device : root[d] = "home" => auth'[d] = auth[d]
    BY <2>1
  <2>4. \A d \in Device : \A a \in Account : Sees(d, a) => Sees(d, a)'
    BY <1>5, <1>2, <2>1
    DEF SignInGranted, SignUpGranted, SignUpWithoutUser, Relaunch
  <2>5. QED
    BY <1>1, <1>3, <2>1, <2>2, <2>3, <2>4
<1>6. ASSUME NEW t \in Attempt, ProfileFound(t)
      PROVE  PrefsMatchAuth' /\ HomeKnowsUser'
  <2>1. PICK d \in Device, a \in Account : d = call[t].device /\ a = call[t].account
    BY <1>6 DEF ProfileFound, CallsPlaced
  <2>2. /\ prefs'[d] = a /\ auth' = auth /\ auth[d] = a /\ kills' = kills
        /\ Sees(d, a) /\ link' = link /\ profiles' = profiles
        /\ \A e \in Device \ {d} : prefs'[e] = prefs[e] /\ root'[e] = root[e]
    BY <1>1, <1>6, <2>1 DEF ProfileFound, WatchedAttempts
  <2>3. a # NoAccount
    BY NamesAssumption
  <2>4. \A e \in Device, b \in Account : Sees(e, b) => Sees(e, b)'
    BY <2>2 DEF Sees
  <2>5. QED
    BY <1>1, <1>3, <2>2, <2>3, <2>4
<1>7. ASSUME NEW d \in Device, SignOut(d)
      PROVE  PrefsMatchAuth' /\ HomeKnowsUser'
  <2>1. /\ prefs'[d] = NoAccount /\ root'[d] = "login" /\ kills' = kills
        /\ link' = link /\ profiles' = profiles
        /\ \A e \in Device \ {d} :
             prefs'[e] = prefs[e] /\ root'[e] = root[e] /\ auth'[e] = auth[e]
    BY <1>7 DEF SignOut
  <2>2. \A e \in Device, b \in Account : Sees(e, b) => Sees(e, b)'
    BY <2>1 DEF Sees
  <2>3. QED
    BY <1>1, <1>3, <2>1, <2>2
<1>8. ASSUME NEW d \in Device, Relaunch(d)
      PROVE  PrefsMatchAuth' /\ HomeKnowsUser'
  <2>1. /\ prefs' = prefs /\ auth' = auth /\ profiles' = profiles
        /\ kills'[d] # 0
        /\ \A e \in Device \ {d} :
             root'[e] = root[e] /\ kills'[e] = kills[e] /\ link'[e] = link[e]
    BY <1>8 DEF Relaunch
  <2>2. \A e \in Device \ {d} : \A b \in Account : Sees(e, b) => Sees(e, b)'
    BY <2>1 DEF Sees
  <2>3. QED
    BY <1>1, <1>3, <2>1, <2>2
<1>9. CASE ~(\E d \in Device : Relaunch(d)) /\ UNCHANGED <<auth, prefs, root, kills>>
  BY <1>4, <1>9
<1>10. CASE UNCHANGED vars
  BY <1>1, <1>10 DEF vars, Sees
<1>11. ASSUME NEW d \in Device, Relaunch(d), UNCHANGED kills
       PROVE  FALSE
  BY <1>11 DEF Relaunch
<1>12. QED
  BY <1>5, <1>6, <1>7, <1>8, <1>9, <1>10, <1>11
  DEF Next, ClickLogin, ClickSignUp, Start, AuthGrants, AuthRefuses, SignUpUnanswered,
      ProfileMissing,
      ServerAppliesPut, AckPut, DropConnection

\* The keychain, the preferences, the screens and the attempts under way fit together
\* in every reachable state.
THEOREM SessionInvariant == Spec => []SessionInv
<1>1. Init => SessionInv
  <2> SUFFICES ASSUME Init PROVE SessionInv
    OBVIOUS
  <2>1. AppliedKnown
    BY IdleLinkFacts DEF Init, AppliedKnown
  <2>2. WatchedAttempts /\ NoIdAtLogin
    BY DEF Init, WatchedAttempts, NoIdAtLogin, UnderWay
  <2>3. PrefsMatchAuth /\ HomeKnowsUser
    BY DEF Init, PrefsMatchAuth, HomeKnowsUser
  <2>4. QED
    BY <2>1, <2>2, <2>3 DEF SessionInv
<1>2. Typed /\ SessionInv /\ [Next]_vars => SessionInv'
  <2> SUFFICES ASSUME Typed, SessionInv, [Next]_vars PROVE SessionInv'
    OBVIOUS
  <2>1. AppliedKnown'
    BY AppliedKnownStep DEF SessionInv
  <2>2. QED
    BY <2>1, WatchedStep, AgreementStep DEF SessionInv
<1>3. QED
  BY <1>1, <1>2, SessionTypes, PTL DEF Spec

\* No patient user's phone acts for someone who has left: through every login,
\* sign-up, sign-out, kill and launch the user id in the preferences is empty or
\* the current user's.
THEOREM PreferencesNameTheUser == Spec => []PrefsMatchAuth
<1>1. SessionInv => PrefsMatchAuth
  BY DEF SessionInv
<1>2. QED
  BY <1>1, SessionInvariant, PTL

\* Where no process was killed, Home is shown to a signed-in user whose profile the
\* phone sees, though the profile may still be on its way to the server.
THEOREM HomeShowsAKnownUser == Spec => []HomeKnowsUser
<1>1. SessionInv => HomeKnowsUser
  BY DEF SessionInv
<1>2. QED
  BY <1>1, SessionInvariant, PTL

=============================================================================
