------------------------------- MODULE Session -------------------------------
(***************************************************************************)
(* Signing in and out at the client: the pages under /auth, the profile    *)
(* form with its sign-out dialog, the part of the store they share and     *)
(* redux-persist, which keeps that part over a page load.                  *)
(*                                                                         *)
(* A page's own state ends with the page; requests and timers end only     *)
(* with a page load.  A token is the request whose answer brought it.      *)
(* What is typed is left out: an invalid form changes nothing.             *)
(***************************************************************************)
EXTENDS Naturals, FiniteSets

CONSTANTS Reqs, \* the requests of a behaviour
          None

VARIABLES
  page,       \* what is on the screen
  trail,      \* the pages shown since the last page load
  token,      \* state.auth.accessToken
  fetching,   \* isFetching of state.auth.login and state.auth.register
  knownLogin, \* state.auth.login.loginUser.email is set
  isLoading,  \* of the page on the screen
  resends,    \* count of verify_register
  dialog,     \* isModalOpen of the profile form
  ours,       \* the requests of the page on the screen
  ask,        \* what each request asks for
  pc,         \* where it is
  bearer,     \* the token a sign-out carries
  timers,     \* requests whose answer set a timer that has not fired
  ended,      \* tokens whose sign-out was answered with 200
  removed,    \* history: tokens a timer took from the store
  crossed,    \* history: tokens that arrived while a sign-out was under way
  outlived,   \* history: ended tokens whose timer a page load dropped
  orphaned,   \* history: forms whose request a page load dropped
  stuck       \* history: the page's request failed and left isLoading set

formVars  == <<isLoading, resends, dialog, ours, stuck>>
screen    == <<page, trail, formVars>>
storeVars == <<token, fetching, knownLogin>>
reqVars   == <<ask, pc, bearer>>
endVars   == <<ended, removed, crossed, outlived>>
vars == <<screen, storeVars, reqVars, timers, endVars, orphaned>>

Pages     == {"login", "register", "verifyLogin", "verifyRegister", "code", "forgot", "reset",
              "home", "setting"}
Protected == {"home", "setting"}

(* The requests, and the page that sends each.  Login and register keep    *)
(* their isFetching in the store, the others on the page.                  *)
FormOf  == [login |-> "login", register |-> "register", verifyLogin |-> "verifyLogin",
            verifyRegister |-> "verifyRegister", resend |-> "verifyRegister", code |-> "code",
            forgot |-> "forgot", reset |-> "reset", profile |-> "setting", logout |-> "setting"]
Kinds   == DOMAIN FormOf
Stored  == {"login", "register"}
Local   == Kinds \ (Stored \cup {"logout"})

ASSUME SessionNone == None \notin Reqs \cup Kinds

SessionTypeOK ==
    /\ page       \in Pages
    /\ trail      \subseteq Pages
    /\ token      \in Reqs \cup {None}
    /\ fetching   \in [Stored -> BOOLEAN]
    /\ knownLogin \in BOOLEAN
    /\ isLoading  \in BOOLEAN
    /\ resends    \in 0..3
    /\ dialog     \in BOOLEAN
    /\ ours       \subseteq Reqs
    /\ ask        \in [Reqs -> Kinds \cup {None}]
    /\ pc         \in [Reqs -> {"idle", "flying", "over"}]
    /\ bearer     \in [Reqs -> Reqs \cup {None}]
    /\ timers     \subseteq Reqs
    /\ ended      \subseteq Reqs
    /\ removed    \subseteq Reqs
    /\ crossed    \subseteq Reqs
    /\ outlived   \subseteq Reqs
    /\ orphaned   \subseteq Stored
    /\ stuck      \in BOOLEAN

Init ==
    /\ page       = "login"
    /\ trail      = {"login"}
    /\ token      = None
    /\ fetching   = [k \in Stored |-> FALSE]
    /\ knownLogin = FALSE
    /\ isLoading  = FALSE
    /\ resends    = 0
    /\ dialog     = FALSE
    /\ ours       = {}
    /\ ask        = [r \in Reqs |-> None]
    /\ pc         = [r \in Reqs |-> "idle"]
    /\ bearer     = [r \in Reqs |-> None]
    /\ timers     = {}
    /\ ended      = {}
    /\ removed    = {}
    /\ crossed    = {}
    /\ outlived   = {}
    /\ orphaned   = {}
    /\ stuck      = FALSE

-----------------------------------------------------------------------------
(* Pages.                                                                  *)

(* ProtectRoutes: without a token the login page is shown.                 *)
Shown(p, t) == IF p \in Protected /\ t = None THEN "login" ELSE p

Unmounted == /\ isLoading' = FALSE /\ resends' = 0 /\ dialog' = FALSE
             /\ ours' = {} /\ stuck' = FALSE

(* navigate(), where the step leaves token t.                              *)
Goto(p, t) ==
    LET q == Shown(p, t) IN
    /\ page'  = q
    /\ trail' = trail \cup {q}
    /\ IF q = page THEN UNCHANGED formVars ELSE Unmounted

Links(p) ==
    CASE p = "login"    -> {"forgot"} \cup (IF fetching["login"] THEN {} ELSE {"register"})
      [] p = "register" -> {"login"}
      [] p \in Protected -> Protected
      [] OTHER          -> {}

(* A link, or the browser's Back and Forward.                              *)
Follow(p) ==
    /\ p \in (Links(page) \cup trail) \ {page}
    /\ Goto(p, token)
    /\ UNCHANGED <<storeVars, reqVars, timers, endVars, orphaned>>

(* A page load, of any address: the store comes back as it was persisted,  *)
(* isFetching included, and nobody waits for the requests any more.        *)
Load(p) ==
    /\ p = "verifyLogin" => knownLogin
    /\ page'  = Shown(p, token)
    /\ trail' = {page'}
    /\ Unmounted
    /\ pc' = [r \in Reqs |-> IF pc[r] = "flying" THEN "over" ELSE pc[r]]
    /\ timers'   = {}
    /\ outlived' = outlived \cup {bearer[l] : l \in {r \in timers : ask[r] = "logout"}}
    /\ orphaned' = orphaned \cup {k \in Stored : fetching[k]}
    /\ UNCHANGED <<storeVars, ask, bearer, ended, removed, crossed>>

-----------------------------------------------------------------------------
(* Requests.                                                               *)

Send(r, k) ==
    /\ pc[r] = "idle"
    /\ page = FormOf[k]
    /\ ask'  = [ask EXCEPT ![r] = k]
    /\ pc'   = [pc EXCEPT ![r] = "flying"]
    /\ ours' = ours \cup {r}
    /\ UNCHANGED <<page, trail, token, knownLogin, timers, endVars, orphaned, stuck>>

(* handleLogin and handleRegistration: inputs and button are disabled      *)
(* while the store says isFetching.                                        *)
SubmitStored(r, k) ==
    /\ k \in Stored
    /\ ~fetching[k]
    /\ Send(r, k)
    /\ fetching' = [fetching EXCEPT ![k] = TRUE]
    /\ UNCHANGED <<isLoading, resends, dialog, bearer>>

(* The other forms; a code is sent again three times at most.              *)
SubmitLocal(r, k) ==
    /\ k \in Local
    /\ ~isLoading
    /\ k = "resend" => resends <= 2
    /\ Send(r, k)
    /\ isLoading' = TRUE
    /\ resends' = IF k = "resend" THEN resends + 1 ELSE resends
    /\ UNCHANGED <<fetching, dialog, bearer>>

SetDialog(open) ==
    /\ page = "setting"
    /\ dialog # open
    /\ dialog' = open
    /\ UNCHANGED <<page, trail, isLoading, resends, ours, stuck, storeVars, reqVars, timers, endVars, orphaned>>

(* handleLogOut: the dialog stays open until the answer, its button too.   *)
LogOut(r) ==
    /\ dialog
    /\ Send(r, "logout")
    /\ bearer' = [bearer EXCEPT ![r] = token]
    /\ UNCHANGED <<fetching, isLoading, resends, dialog>>

-----------------------------------------------------------------------------
(* Answers.                                                                *)

(* Mutant of Settled: only the page on the screen hears the answer.        *)
SettledWhileShown(k) == IF page = k THEN [fetching EXCEPT ![k] = FALSE] ELSE fetching

Settled(k) == [fetching EXCEPT ![k] = FALSE]

(* Mutant of Later: a timer that goes with the component.                  *)
LaterWhileShown(r) == IF r \in ours THEN timers \cup {r} ELSE timers

(* setTimeout after an answer: nothing clears it.                          *)
Later(r) == timers \cup {r}

SigningOut == {l \in Reqs : ask[l] = "logout" /\ (pc[l] = "flying" \/ l \in timers)}

(* addAccessToken with the answer's token.                                 *)
TakeToken(r) ==
    /\ token' = r
    /\ crossed' = IF SigningOut = {} THEN crossed ELSE crossed \cup {r}

Over(r, k) == pc[r] = "flying" /\ ask[r] = k /\ pc' = [pc EXCEPT ![r] = "over"]

(* setIsLoading(false), by the page that sent the request.                 *)
Loaded(r) == isLoading' = (isLoading /\ r \notin ours)

LoggedIn(r) ==
    /\ Over(r, "login")
    /\ TakeToken(r)
    /\ Goto("home", r)
    /\ fetching' = Settled("login")
    /\ knownLogin' = TRUE
    /\ UNCHANGED <<ask, bearer, timers, ended, removed, outlived, orphaned>>

Registered(r) ==
    /\ Over(r, "register")
    /\ fetching' = Settled("register")
    /\ UNCHANGED <<screen, token, knownLogin, ask, bearer, timers, endVars, orphaned>>

(* verifyLogin and verifyRegister: a token now, the next page in 2 s.      *)
Verified(r, k) ==
    /\ k \in {"verifyLogin", "verifyRegister"}
    /\ Over(r, k)
    /\ TakeToken(r)
    /\ Loaded(r)
    /\ timers' = Later(r)
    /\ UNCHANGED <<page, trail, resends, dialog, ours, stuck, fetching, knownLogin, ask, bearer,
                   ended, removed, outlived, orphaned>>

CodeSet(r) ==
    /\ Over(r, "code")
    /\ Loaded(r)
    /\ timers' = Later(r)
    /\ UNCHANGED <<page, trail, resends, dialog, ours, stuck, storeVars, ask, bearer, endVars, orphaned>>

(* A code sent again, a profile saved.                                     *)
Done(r, k) ==
    /\ k \in {"resend", "profile"}
    /\ Over(r, k)
    /\ Loaded(r)
    /\ UNCHANGED <<page, trail, resends, dialog, ours, stuck, storeVars, ask, bearer, timers, endVars, orphaned>>

(* forgotPassword and resetPassword navigate at once, and leave isLoading  *)
(* to the page that goes.                                                  *)
Recovered(r, k) ==
    /\ k \in {"forgot", "reset"}
    /\ Over(r, k)
    /\ UNCHANGED <<storeVars, ask, bearer, timers, endVars, orphaned>>
    /\ Goto(IF k = "forgot" THEN "reset" ELSE "login", token)

(* log-out answered 200: the dialog closes, the token goes in 1 s.         *)
LoggedOut(r) ==
    /\ Over(r, "logout")
    /\ ended' = ended \cup {bearer[r]}
    /\ dialog' = (dialog /\ r \notin ours)
    /\ timers' = Later(r)
    /\ UNCHANGED <<page, trail, isLoading, resends, ours, stuck, storeVars, ask, bearer, removed, crossed, outlived, orphaned>>

(* Refused, or no answer at all: then error.response is undefined, the     *)
(* profile form's onError throws before it resets isLoading.  The forms    *)
(* for a lost password never reset it.                                     *)
Forgets(k, how) == k \in {"forgot", "reset"} \/ (k = "profile" /\ how = "lost")

Fails(r, how) ==
    /\ how \in {"refused", "lost"}
    /\ Over(r, ask[r])
    /\ fetching' = IF ask[r] \in Stored THEN Settled(ask[r]) ELSE fetching
    /\ IF Forgets(ask[r], how)
       THEN stuck' = (stuck \/ r \in ours) /\ UNCHANGED isLoading
       ELSE UNCHANGED stuck /\ IF ask[r] \in Local THEN Loaded(r) ELSE UNCHANGED isLoading
    /\ UNCHANGED <<page, trail, resends, dialog, ours, token, knownLogin, ask, bearer, timers, endVars, orphaned>>

-----------------------------------------------------------------------------
(* Timers.                                                                 *)

(* Wherever the user is by then.                                           *)
NavigateLater(r) ==
    /\ r \in timers
    /\ ask[r] # "logout"
    /\ timers' = timers \ {r}
    /\ UNCHANGED <<storeVars, reqVars, endVars, orphaned>>
    /\ Goto(IF ask[r] = "verifyRegister" THEN "code" ELSE "home", token)

(* removeAccessToken: whatever token the store has by then.                *)
RemoveToken(r) ==
    /\ r \in timers
    /\ ask[r] = "logout"
    /\ timers' = timers \ {r}
    /\ token' = None
    /\ removed' = removed \cup ({token} \ {None})
    /\ Goto(page, None)
    /\ UNCHANGED <<fetching, knownLogin, reqVars, ended, crossed, outlived, orphaned>>

Next ==
    \/ \E p \in Pages : Follow(p) \/ Load(p)
    \/ \E open \in BOOLEAN : SetDialog(open)
    \/ \E r \in Reqs :
         \/ \E k \in Kinds : \/ SubmitStored(r, k) \/ SubmitLocal(r, k)
                             \/ Verified(r, k) \/ Done(r, k) \/ Recovered(r, k)
         \/ LogOut(r) \/ LoggedIn(r) \/ Registered(r) \/ CodeSet(r) \/ LoggedOut(r)
         \/ \E how \in {"refused", "lost"} : Fails(r, how)
         \/ NavigateLater(r) \/ RemoveToken(r)

Spec == Init /\ [][Next]_vars

-----------------------------------------------------------------------------
Flying(k) == \E r \in Reqs : pc[r] = "flying" /\ ask[r] = k

(* A disabled form waits for a request of its own that is under way,       *)
(* whatever was left, answered late or loaded anew meanwhile.  Two ways    *)
(* out of it are in the code, and are permanent: isFetching persisted over *)
(* a page load, and the failures that leave isLoading set.                 *)
BlockedFormWaits ==
    /\ \A k \in Stored : fetching[k] => Flying(k) \/ k \in orphaned
    /\ isLoading => stuck \/ \E r \in ours : pc[r] = "flying" /\ ask[r] \in Local

(* A sign-out reaches its own token: one the service has ended leaves the  *)
(* store when its own timer fires, unless a page load dropped that, and    *)
(* what a timer removes was ended or arrived while a sign-out was under    *)
(* way.                                                                    *)
SignOutSettles ==
    /\ token \in ended =>
         \/ \E l \in timers : ask[l] = "logout" /\ bearer[l] = token
         \/ token \in outlived
    /\ removed \subseteq ended \cup crossed

(* What makes these inductive: a token arrived with an answer, the page's  *)
(* own requests are its forms', and while a sign-out is under way the      *)
(* store has its token, none, or a crossed one.                            *)
SessionInv ==
    /\ SessionTypeOK
    /\ BlockedFormWaits
    /\ SignOutSettles
    /\ \A r \in Reqs : pc[r] = "flying" => ask[r] # None
    /\ \A r \in ours : ask[r] # None /\ page = FormOf[ask[r]]
    /\ \A r \in timers : pc[r] = "over"
    /\ token # None => pc[token] = "over"
    /\ page \in Protected => token # None
    /\ dialog => page = "setting"
    /\ ended \subseteq {r \in Reqs : pc[r] = "over"}
    /\ \A l \in SigningOut : /\ bearer[l] # None
                             /\ pc[bearer[l]] = "over"
                             /\ token \in {None, bearer[l]} \cup crossed
    /\ \A l \in timers : ask[l] = "logout" => bearer[l] \in ended
=============================================================================
