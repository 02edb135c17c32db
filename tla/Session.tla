------------------------------ MODULE Session ------------------------------
(***************************************************************************)
(* Who is signed in.  Three places say so, and no transaction joins them:  *)
(* the authentication library keeps its user in the keychain, the app      *)
(* keeps a user id in its preferences (AppPrefsManager), and the database  *)
(* holds a profile for every account under users/.  LoginVC, SignUpVC,     *)
(* HomeVC's sign-out and the launch code (AppDelegate) change or read them *)
(* one at a time, across asynchronous calls.                               *)
(*                                                                         *)
(* An attempt (1, 2, ...) is one tap on Log in or Sign up that passes the  *)
(* checks of its form.  Keychain and preferences survive the    *)
(* process; attempts under way and unacknowledged writes do not.  The      *)
(* sign-up screen is pushed on the login screen's navigation controller;   *)
(* nothing here depends on which of the two is on top.                     *)
(***************************************************************************)
EXTENDS DatabaseLink, FiniteSetsExt

CONSTANTS
    Device,
    Account,   \* what an email address stands for, signed up or not yet
    NoAccount, \* no user: `currentUser` is nil, the user id is empty
    NoDevice,
    Worlds     \* what may happen: [phones: those in use; habits: {"impatient"} to tap again
               \*  while an attempt is under way; faults; and as bounds, attempts in all, and
               \*  dropped connections and process kills per phone]

ASSUME NamesAssumption == NoAccount \notin Account /\ NoDevice \notin Device
ASSUME WorldAssumption ==
    \A w \in Worlds :
      /\ w.phones \subseteq Device
      /\ w.habits \subseteq {"impatient"}
      /\ w.faults \subseteq {"drop", "kill", "auth_fails"}
      /\ w.attempts \in Nat
      /\ w.drops \in Nat
      /\ w.kills \in Nat

Attempt == 1 .. Max({w.attempts : w \in Worlds})
Stage == {"idle", "asking", "granted", "fetching", "ended", "refused",
          "no_user", "no_profile", "lost"}
Call == [kind : {"login", "signup"}, device : Device \cup {NoDevice},
         account : Account \cup {NoAccount}]

VARIABLES
    world,    \* one of Worlds
    auth,     \* the library's current user on each device
    prefs,    \* the user id in each device's preferences
    root,     \* the root screen of each device
    call,     \* what each attempt asks for
    stage,    \* how far it has come
    created,  \* the accounts of the authentication service
    profiles, \* the accounts with a record under users/
    link,     \* each device's link to the database; a put is a profile
    drops,
    kills

vars == <<world, auth, prefs, root, call, stage, created, profiles, link, drops, kills>>

TypeOK ==
    /\ world \in Worlds
    /\ auth \in [Device -> Account \cup {NoAccount}]
    /\ prefs \in [Device -> Account \cup {NoAccount}]
    /\ root \in [Device -> {"login", "home"}]
    /\ call \in [Attempt -> Call]
    /\ stage \in [Attempt -> Stage]
    /\ created \in SUBSET Account
    /\ profiles \in SUBSET Account
    /\ link \in [Device -> LinkOf(Account)]
    /\ drops \in [Device -> Nat]
    /\ kills \in [Device -> Nat]

NoCall == [kind |-> "login", device |-> NoDevice, account |-> NoAccount]

Init ==
    /\ world \in Worlds
    /\ auth = [d \in Device |-> NoAccount]
    /\ prefs = [d \in Device |-> NoAccount]
    /\ root = [d \in Device |-> "login"]
    /\ call = [t \in Attempt |-> NoCall]
    /\ stage = [t \in Attempt |-> "idle"]
    /\ created = {}
    /\ profiles = {}
    /\ link = [d \in Device |-> IdleLink]
    /\ drops = [d \in Device |-> 0]
    /\ kills = [d \in Device |-> 0]

UnderWay(t) == stage[t] \in {"asking", "granted", "fetching"}

AsksFor(t, kind) == call[t].kind = kind

-----------------------------------------------------------------------------
(* Logging in and signing up                                                *)

\* The call a tap makes.  Neither button is disabled while an attempt is under
\* way, so an impatient user may start another.
Start(t, kind, d, a) ==
    /\ d \in world.phones /\ root[d] = "login"
    /\ t <= world.attempts
    /\ stage[t] = "idle" /\ \A earlier \in 1 .. t - 1 : stage[earlier] # "idle"
    /\ \/ "impatient" \in world.habits
       \/ \A other \in Attempt : call[other].device = d => ~UnderWay(other)
    /\ call' = [call EXCEPT ![t] = [kind |-> kind, device |-> d, account |-> a]]
    /\ stage' = [stage EXCEPT ![t] = "asking"]
    /\ UNCHANGED <<world, auth, prefs, root, created, profiles, link, drops, kills>>

\* A tap that is online and whose fields pass the checks; others show a toast.
ClickLogin(t, d, a) == Start(t, "login", d, a)
ClickSignUp(t, d, a) == Start(t, "signup", d, a)

\* The service signs an existing account in and signs a new one up.
AuthGrants(t) ==
    /\ stage[t] = "asking"
    /\ AsksFor(t, "login") <=> call[t].account \in created
    /\ created' = created \cup {call[t].account}
    /\ stage' = [stage EXCEPT ![t] = "granted"]
    /\ UNCHANGED <<world, auth, prefs, root, call, profiles, link, drops, kills>>

\* It refuses anything else, and may fail before it has done anything; the app shows
\* the error.
AuthRefuses(t) ==
    /\ stage[t] = "asking"
    /\ \/ AsksFor(t, "login") # (call[t].account \in created)
       \/ "auth_fails" \in world.faults
    /\ stage' = [stage EXCEPT ![t] = "refused"]
    /\ UNCHANGED <<world, auth, prefs, root, call, created, profiles, link, drops, kills>>

\* The new account is there, but not its user: the answer was lost, or the keychain did
\* not take the user. The app shows an error as for a refusal.
SignUpUnanswered(t) ==
    /\ stage[t] = "asking" /\ AsksFor(t, "signup")
    /\ call[t].account \notin created
    /\ "auth_fails" \in world.faults
    /\ created' = created \cup {call[t].account}
    /\ stage' = [stage EXCEPT ![t] = "refused"]
    /\ UNCHANGED <<world, auth, prefs, root, call, profiles, link, drops, kills>>

\* signIn has made the account the current user; the profile is asked for.
SignInGranted(t) ==
    /\ stage[t] = "granted" /\ AsksFor(t, "login")
    /\ auth' = [auth EXCEPT ![call[t].device] = call[t].account]
    /\ stage' = [stage EXCEPT ![t] = "fetching"]
    /\ UNCHANGED <<world, prefs, root, call, created, profiles, link, drops, kills>>

\* createUser has, too; the profile is written, without a completion, and the
\* login screen shown.
SignUpGranted(t) ==
    /\ stage[t] = "granted" /\ AsksFor(t, "signup")
    /\ auth' = [auth EXCEPT ![call[t].device] = call[t].account]
    /\ link' = [link EXCEPT ![call[t].device] = Enqueue(@, call[t].account)]
    /\ stage' = [stage EXCEPT ![t] = "ended"]
    /\ UNCHANGED <<world, prefs, root, call, created, profiles, drops, kills>>

\* The account is there, but its user could not be retrieved: createUser drops that
\* error and makes no user the current one; the screen keeps its spinner and writes no
\* profile.
SignUpWithoutUser(t) ==
    /\ stage[t] = "granted" /\ AsksFor(t, "signup")
    /\ "auth_fails" \in world.faults
    /\ auth' = [auth EXCEPT ![call[t].device] = NoAccount]
    /\ stage' = [stage EXCEPT ![t] = "no_user"]
    /\ UNCHANGED <<world, prefs, root, call, created, profiles, link, drops, kills>>

\* The profile as d sees it: the server's, or its own write still on its way.
Sees(d, a) == a \in profiles \/ \E i \in DOMAIN link[d].puts : link[d].puts[i] = a

\* Mutant of ProfileFound: it does not look whether the snapshot exists.
ProfileFoundUnchecked(t) ==
    LET d == call[t].device IN
    /\ stage[t] = "fetching"
    /\ prefs' = [prefs EXCEPT ![d] = call[t].account]
    /\ root' = [root EXCEPT ![d] = "home"]
    /\ stage' = [stage EXCEPT ![t] = "ended"]
    /\ UNCHANGED <<world, auth, call, created, profiles, link, drops, kills>>

\* Mutant of ProfileFound: it does not put Home on the screen.
ProfileFoundStaysAtLogin(t) ==
    /\ stage[t] = "fetching"
    /\ Sees(call[t].device, call[t].account)
    /\ prefs' = [prefs EXCEPT ![call[t].device] = call[t].account]
    /\ stage' = [stage EXCEPT ![t] = "ended"]
    /\ UNCHANGED <<world, auth, root, call, created, profiles, link, drops, kills>>

\* The profile's answer: the user id is stored, and Home becomes the root,
\* whatever the root and the current user are by then.
ProfileFound(t) ==
    LET d == call[t].device IN
    /\ stage[t] = "fetching"
    /\ Sees(d, call[t].account)
    /\ prefs' = [prefs EXCEPT ![d] = call[t].account]
    /\ root' = [root EXCEPT ![d] = "home"]
    /\ stage' = [stage EXCEPT ![t] = "ended"]
    /\ UNCHANGED <<world, auth, call, created, profiles, link, drops, kills>>

\* "No such user found!", though the account stays the current user.
ProfileMissing(t) ==
    /\ stage[t] = "fetching"
    /\ ~Sees(call[t].device, call[t].account)
    /\ stage' = [stage EXCEPT ![t] = "no_profile"]
    /\ UNCHANGED <<world, auth, prefs, root, call, created, profiles, link, drops, kills>>

-----------------------------------------------------------------------------
(* Signing out, and the process                                             *)

\* Mutant of SignOut: the user id stays in the preferences.
SignOutKeepsPrefs(d) ==
    /\ root[d] = "home"
    /\ auth[d] # NoAccount
    /\ auth' = [auth EXCEPT ![d] = NoAccount]
    /\ root' = [root EXCEPT ![d] = "login"]
    /\ UNCHANGED <<world, prefs, call, stage, created, profiles, link, drops, kills>>

\* The button does nothing when there is no current user.
SignOut(d) ==
    /\ root[d] = "home"
    /\ auth[d] # NoAccount
    /\ auth' = [auth EXCEPT ![d] = NoAccount]
    /\ prefs' = [prefs EXCEPT ![d] = NoAccount]
    /\ root' = [root EXCEPT ![d] = "login"]
    /\ UNCHANGED <<world, call, stage, created, profiles, link, drops, kills>>

\* The launch code looks at the current user only, not at the preferences.
RootAtLaunch(d) == IF auth[d] # NoAccount THEN "home" ELSE "login"

\* The process is killed, and launched again.
Relaunch(d) ==
    /\ "kill" \in world.faults
    /\ d \in world.phones /\ kills[d] < world.kills
    /\ kills' = [kills EXCEPT ![d] = @ + 1]
    /\ root' = [root EXCEPT ![d] = RootAtLaunch(d)]
    /\ link' = [link EXCEPT ![d] = IdleLink]
    /\ stage' = [t \in Attempt |->
                   IF call[t].device = d /\ UnderWay(t) THEN "lost" ELSE stage[t]]
    /\ UNCHANGED <<world, auth, prefs, call, created, profiles, drops>>

-----------------------------------------------------------------------------
(* The database                                                             *)

ServerAppliesPut(d) ==
    /\ CanApply(link[d])
    /\ profiles' = profiles \cup {NextPut(link[d])}
    /\ link' = [link EXCEPT ![d] = Applied(@)]
    /\ UNCHANGED <<world, auth, prefs, root, call, stage, created, drops, kills>>

AckPut(d) ==
    /\ CanAck(link[d])
    /\ link' = [link EXCEPT ![d] = Acked(@)]
    /\ UNCHANGED <<world, auth, prefs, root, call, stage, created, profiles, drops, kills>>

DropConnection(d) ==
    /\ "drop" \in world.faults
    /\ d \in world.phones /\ drops[d] < world.drops
    /\ drops' = [drops EXCEPT ![d] = @ + 1]
    /\ link' = [link EXCEPT ![d] = Resent(@)]
    /\ UNCHANGED <<world, auth, prefs, root, call, stage, created, profiles, kills>>

-----------------------------------------------------------------------------
Next ==
    \/ \E t \in Attempt :
         \/ \E d \in Device, a \in Account :
              ClickLogin(t, d, a) \/ ClickSignUp(t, d, a)
         \/ AuthGrants(t) \/ AuthRefuses(t) \/ SignUpUnanswered(t)
         \/ SignInGranted(t) \/ SignUpGranted(t) \/ SignUpWithoutUser(t)
         \/ ProfileFound(t) \/ ProfileMissing(t)
    \/ \E d \in Device :
         \/ SignOut(d) \/ Relaunch(d)
         \/ ServerAppliesPut(d) \/ AckPut(d) \/ DropConnection(d)

Spec == Init /\ [][Next]_vars

\* The services answer and the libraries call back; users and faults owe nothing.
Fairness ==
    /\ \A t \in Attempt :
         /\ WF_vars(AuthGrants(t) \/ AuthRefuses(t) \/ SignUpUnanswered(t))
         /\ WF_vars(SignInGranted(t) \/ SignUpGranted(t) \/ SignUpWithoutUser(t))
         /\ WF_vars(ProfileFound(t) \/ ProfileMissing(t))
    /\ \A d \in Device : WF_vars(ServerAppliesPut(d)) /\ WF_vars(AckPut(d))

FairSpec == Spec /\ Fairness

-----------------------------------------------------------------------------
\* Nobody taps Log in or Sign up again while an attempt is under way. (Who does may get
\* Home from a late answer, after signing out or over another account's session.)
Patient == world.habits = {}

\* On a device whose process was never killed, Home is shown to a user whose id
\* is in the preferences, is the current user and has a profile the device sees.
HomeKnowsUser ==
    \A d \in Device :
      Patient /\ root[d] = "home" /\ kills[d] = 0 =>
        prefs[d] # NoAccount /\ prefs[d] = auth[d] /\ Sees(d, prefs[d])

\* The user id in the preferences, if there is one, is the current user: no
\* screen acts for someone who has left or for someone else.  A kill may leave
\* it empty, never wrong.
PrefsMatchAuth == Patient => \A d \in Device : prefs[d] \in {NoAccount, auth[d]}

\* Every sign-up that brings its user back to the login screen without an error gets
\* the account its profile, however often the connection drops and whatever the phone's
\* user does next, unless the phone's process was killed. (A sign-up that ends in an
\* error, or never, may leave an account without one: SignUpUnanswered,
\* SignUpWithoutUser.)
ProfileWritten ==
    \A t \in Attempt :
      stage[t] = "ended" /\ AsksFor(t, "signup") ~>
        \/ call[t].account \in profiles
        \/ \E d \in Device : call[t].device = d /\ kills[d] > 0

\* Every login the service grants reaches Home as that account, or is told that
\* there is no profile (because its sign-up wrote none, or the write was lost), or its
\* process was killed.
LoginSettles ==
    \A t \in Attempt :
      Patient /\ stage[t] = "granted" /\ AsksFor(t, "login") ~>
        \E d \in Device :
          /\ call[t].device = d
          /\ \/ root[d] = "home" /\ auth[d] = call[t].account /\ prefs[d] = auth[d]
             \/ stage[t] = "no_profile"
             \/ kills[d] > 0

=============================================================================
