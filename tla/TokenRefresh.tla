---------------------------- MODULE TokenRefresh ----------------------------
(***************************************************************************)
(* How the client's requests renew the access token: createAxios of        *)
(* config/axios.config.ts, which lets one refresh run and queues the       *)
(* others, and baseQueryWithReauth of redux/features/api/apiSlice.ts,      *)
(* which lets every query refresh and signs the user out when that fails.  *)
(* Both share the token of the store.                                      *)
(*                                                                         *)
(* The service that answers is a choice of the behaviour, named by the     *)
(* field it sends a new token in.  "payload" is the backend of this        *)
(* repository, which wants the refresh token in the body: axios posts      *)
(* { withCredentials: true } and the query nothing, so it refuses them all *)
(* with status 400.  "data" and "accessToken" are external services that   *)
(* know the user by a cookie: the clients are written for one of each      *)
(* kind, and read the token from those fields.  Tokens are numbers; 0 is   *)
(* no token, and what is stored when the field is missing.                 *)
(***************************************************************************)
EXTENDS Naturals, FiniteSets

CONSTANTS Calls,    \* the requests of a behaviour
          Kinds,    \* which client each may use: functions to {"axios", "rtk"}
          MaxTokens \* access tokens the service makes, a bound

ASSUME RefreshKinds  == Kinds \subseteq [Calls -> {"axios", "rtk"}]
ASSUME RefreshTokens == MaxTokens \in Nat

VARIABLES
  kind,         \* the client of each call
  service,      \* who answers: the field its new tokens are in
  pc,           \* where each call is
  auth,         \* the token its request carries
  retried,      \* its 401 was handled once: _retry
  fresh,        \* the token its refresh was given
  token,        \* state.auth.accessToken
  isRefreshing, \* of axios.config.ts
  minted,       \* how many access tokens the service has made
  expired,      \* how many of them, the first ones, it accepts no longer
  crossed,      \* history: calls under way when another one, or a sign-in, set the token
  dropped       \* history: calls that were queued when a refresh failed

callVars    == <<pc, auth, retried, fresh>>
storeVars   == <<token, isRefreshing>>
serviceVars == <<minted, expired>>
history     == <<crossed, dropped>>
refreshVars == <<kind, service, callVars, storeVars, serviceVars, history>>

States == {"idle", "flying", "queued", "refreshing", "minted", "refused", "barred", "empty",
           "stuck", "left", "done", "failed"}

RefreshTypeOK ==
    /\ kind    \in [Calls -> {"axios", "rtk"}]
    /\ service \in {"payload", "data", "accessToken"}
    /\ pc      \in [Calls -> States]
    /\ auth    \in [Calls -> 0..MaxTokens]
    /\ retried \in [Calls -> BOOLEAN]
    /\ fresh   \in [Calls -> 0..MaxTokens]
    /\ token   \in 0..MaxTokens
    /\ isRefreshing \in BOOLEAN
    /\ minted  \in 0..MaxTokens
    /\ expired \in 0..MaxTokens
    /\ crossed \subseteq Calls
    /\ dropped \subseteq Calls

RefreshInit ==
    /\ kind    \in Kinds
    /\ service \in {"payload", "data", "accessToken"}
    /\ pc      = [c \in Calls |-> "idle"]
    /\ auth    = [c \in Calls |-> 0]
    /\ retried = [c \in Calls |-> FALSE]
    /\ fresh   = [c \in Calls |-> 0]
    /\ token   = 0
    /\ isRefreshing = FALSE
    /\ minted  = 0
    /\ expired = 0
    /\ crossed = {}
    /\ dropped = {}

Go(c, to) == pc' = [pc EXCEPT ![c] = to]

(* A refresh of c is on its way there or back.                             *)
Refreshing(c) == pc[c] \in {"refreshing", "minted", "refused", "barred", "empty"}

Queued == {c \in Calls : pc[c] = "queued"}

(* The calls that are neither to come nor over.                            *)
UnderWay == {c \in Calls : pc[c] \in {"flying", "queued"} \/ Refreshing(c)}

-----------------------------------------------------------------------------
(* The service and the user.                                               *)

(* AuthMiddleware wants a token that has not expired.                      *)
Accepted(c) == auth[c] > expired

Mint(t) == minted < MaxTokens /\ minted' = minted + 1 /\ t = minted'

(* Signing in stores a token, while requests of earlier may be under way.  *)
Login ==
    /\ token = 0
    /\ Mint(token')
    /\ crossed' = crossed \cup UnderWay
    /\ UNCHANGED <<kind, service, callVars, isRefreshing, expired, dropped>>

TokenExpires ==
    /\ expired < minted
    /\ expired' = expired + 1
    /\ UNCHANGED <<kind, service, callVars, storeVars, minted, history>>

(* The answer to a refresh.  The backend's handler fails in ValidateBody;  *)
(* another service may grant it, refuse it, refuse it with a 401 or answer *)
(* it with a 2xx that carries nothing.                                     *)
ServeRefresh(c) ==
    /\ pc[c] = "refreshing"
    /\ \/ /\ service # "payload"
          /\ \E t \in 1..MaxTokens : Mint(t) /\ fresh' = [fresh EXCEPT ![c] = t]
          /\ Go(c, "minted")
       \/ /\ \/ Go(c, "refused")
             \/ service # "payload" /\ \E a \in {"barred", "empty"} : Go(c, a)
          /\ UNCHANGED <<fresh, minted>>
    /\ UNCHANGED <<kind, service, auth, retried, storeVars, expired, history>>

-----------------------------------------------------------------------------
(* The requests.                                                           *)

(* createAxios captures the token; prepareHeaders reads it.                *)
Request(c) ==
    /\ pc[c] = "idle"
    /\ Go(c, "flying")
    /\ auth' = [auth EXCEPT ![c] = token]
    /\ UNCHANGED <<kind, service, retried, fresh, storeVars, serviceVars, history>>

Answered(c) ==
    /\ pc[c] = "flying" /\ Accepted(c)
    /\ Go(c, "done")
    /\ UNCHANGED <<kind, service, auth, retried, fresh, storeVars, serviceVars, history>>

(* A 401 that is the first of its call.                                    *)
Unauthorized(c) == pc[c] = "flying" /\ ~Accepted(c) /\ ~retried[c]

(* Mutant of GivenUp: the second 401 signs the user out.                   *)
GivenUpSignsOut(c) ==
    /\ pc[c] = "flying" /\ ~Accepted(c) /\ retried[c]
    /\ Go(c, "failed")
    /\ token' = 0
    /\ UNCHANGED <<kind, service, auth, retried, fresh, isRefreshing, serviceVars, history>>

(* ... and the second, which is returned to the caller.                    *)
GivenUp(c) ==
    /\ pc[c] = "flying" /\ ~Accepted(c) /\ retried[c]
    /\ Go(c, "failed")
    /\ UNCHANGED <<kind, service, auth, retried, fresh, storeVars, serviceVars, history>>

(* The refresh goes out with the token of the call, which no service asks  *)
(* of it.                                                                  *)
StartRefresh(c) ==
    /\ Go(c, "refreshing")
    /\ retried' = [retried EXCEPT ![c] = TRUE]
    /\ UNCHANGED <<kind, service, auth, fresh, token, serviceVars, history>>

(* Mutant of MayRefresh: every 401 refreshes.                              *)
AllRefresh == isRefreshing \in BOOLEAN

MayRefresh == ~isRefreshing

AxiosRefresh(c) ==
    /\ kind[c] = "axios" /\ Unauthorized(c)
    /\ MayRefresh
    /\ StartRefresh(c)
    /\ isRefreshing' = TRUE

(* subscribeTokenRefresh.                                                  *)
AxiosQueue(c) ==
    /\ kind[c] = "axios" /\ Unauthorized(c)
    /\ ~MayRefresh
    /\ Go(c, "queued")
    /\ retried' = [retried EXCEPT ![c] = TRUE]
    /\ UNCHANGED <<kind, service, auth, fresh, storeVars, serviceVars, history>>

(* baseQueryWithReauth has no lock.                                        *)
QueryRefresh(c) ==
    /\ kind[c] = "rtk" /\ Unauthorized(c)
    /\ StartRefresh(c)
    /\ UNCHANGED isRefreshing

-----------------------------------------------------------------------------
(* The answer to a refresh.                                                *)

(* Mutant of OnRefreshed: the list is emptied and nobody called.           *)
ForgetQueued(c) == Go(c, "flying")

(* onRefreshed: whoever is queued, and the call itself, sends again.       *)
OnRefreshed(c) ==
    pc' = [d \in Calls |-> IF d = c \/ d \in Queued THEN "flying" ELSE pc[d]]

(* What the client of c makes of the answer: axios reads response.data.data *)
(* and the query accessToken.                                              *)
Given(c) ==
    IF service = (IF kind[c] = "axios" THEN "data" ELSE "accessToken") THEN fresh[c] ELSE 0

(* addAccessToken, while others may be under way with the token it         *)
(* replaces.                                                               *)
TakeToken(c) == token' = Given(c) /\ crossed' = crossed \cup (UnderWay \ {c})

(* The retry and those that were queued go out with the token their        *)
(* instances were created with, since the request interceptor sets the     *)
(* header again; one created without a token leaves the header, which only *)
(* the retry has set.                                                      *)
AxiosRefreshed(c) ==
    /\ kind[c] = "axios" /\ pc[c] = "minted"
    /\ TakeToken(c)
    /\ OnRefreshed(c)
    /\ isRefreshing' = FALSE
    /\ auth' = [auth EXCEPT ![c] = IF auth[c] = 0 THEN Given(c) ELSE auth[c]]
    /\ UNCHANGED <<kind, service, retried, fresh, serviceVars, dropped>>

QueryRefreshed(c) ==
    /\ kind[c] = "rtk" /\ pc[c] = "minted"
    /\ TakeToken(c)
    /\ Go(c, "flying")
    /\ auth' = [auth EXCEPT ![c] = Given(c)]
    /\ UNCHANGED <<kind, service, retried, fresh, isRefreshing, serviceVars, dropped>>

(* Refused, or no answer in 10 s.  The catch block releases the lock and   *)
(* leaves the queue as it is.                                              *)
AxiosFails(c) ==
    /\ kind[c] = "axios" /\ Refreshing(c)
    /\ Go(c, "failed")
    /\ isRefreshing' = FALSE
    /\ dropped' = dropped \cup Queued
    /\ UNCHANGED <<kind, service, auth, retried, fresh, token, serviceVars, crossed>>

(* A 401 to the refresh is handled by the interceptor that sent it, which  *)
(* queues it behind itself.                                                *)
AxiosStuck(c) ==
    /\ kind[c] = "axios" /\ pc[c] = "barred"
    /\ Go(c, "stuck")
    /\ UNCHANGED <<kind, service, auth, retried, fresh, storeVars, serviceVars, history>>

(* A 2xx other than 200 passes by the test of the status: the call fails   *)
(* and the flag stays up.                                                  *)
AxiosLeft(c) ==
    /\ kind[c] = "axios" /\ pc[c] = "empty"
    /\ Go(c, "left")
    /\ UNCHANGED <<kind, service, auth, retried, fresh, storeVars, serviceVars, history>>

(* removeAccessToken, whatever the refresh failed of: the user is signed   *)
(* out.                                                                    *)
SignOut(c) ==
    /\ kind[c] = "rtk" /\ Refreshing(c)
    /\ Go(c, "failed")
    /\ token' = 0
    /\ UNCHANGED <<kind, service, auth, retried, fresh, isRefreshing, serviceVars, history>>

CallNext(c) ==
    \/ Request(c) \/ Answered(c) \/ GivenUp(c)
    \/ AxiosRefresh(c) \/ AxiosQueue(c) \/ QueryRefresh(c)
    \/ ServeRefresh(c)
    \/ AxiosRefreshed(c) \/ QueryRefreshed(c)
    \/ AxiosFails(c) \/ AxiosStuck(c) \/ AxiosLeft(c) \/ SignOut(c)

RefreshNext == Login \/ TokenExpires \/ \E c \in Calls : CallNext(c)

RefreshSpec == RefreshInit /\ [][RefreshNext]_refreshVars

(* A refresh of the axios client is answered, or ended by its timeout.     *)
RefreshFairness == \A c \in Calls :
    WF_refreshVars(AxiosRefreshed(c) \/ AxiosFails(c) \/ AxiosStuck(c) \/ AxiosLeft(c))

RefreshFairSpec == RefreshSpec /\ RefreshFairness

-----------------------------------------------------------------------------
(* The properties.                                                         *)

(* The calls that keep the flag up.                                        *)
Holding(c) == kind[c] = "axios" /\ (Refreshing(c) \/ pc[c] \in {"stuck", "left"})

(* The axios client never has two refreshes under way, and its flag is up  *)
(* exactly while one is, is stuck for ever, or was answered by what the    *)
(* code does not expect (axios.config.ts, isRefreshing).                   *)
OneRefresh ==
    /\ isRefreshing <=> \E c \in Calls : Holding(c)
    /\ \A c, d \in Calls : Holding(c) /\ Holding(d) => c = d

(* A token that the service still accepts is removed only at the end of    *)
(* the refresh of a request that is older than the token: one that was     *)
(* under way when a sign-in or another call's refresh stored it            *)
(* (apiSlice.ts: the answer to a refresh removes, or overwrites by nothing,*)
(* whatever token is there by then).                                       *)
OnlyOlderSignsOut ==
    [][token > expired /\ token' = 0 =>
          \E c \in crossed : Refreshing(c) /\ ~Refreshing(c)']_refreshVars

(* A queued call sends again, unless a refresh failed while it was queued, *)
(* or the flag is up for ever (axios.config.ts, refreshSubscribers).       *)
QueuedResume ==
    \A c \in Calls :
        pc[c] = "queued" ~> \/ pc[c] # "queued"
                            \/ c \in dropped
                            \/ \E d \in Calls : pc[d] \in {"stuck", "left"}

(* Until its own refresh is answered, a call that nobody crossed finds in  *)
(* the store the token it was sent with, or none; and what it refreshes    *)
(* was refused, once.                                                      *)
UncrossedKnows ==
    \A c \in Calls :
        /\ c \in UnderWay \ crossed /\ ~(pc[c] = "flying" /\ retried[c])
              => token \in {auth[c], 0}
        /\ c \in Queued \/ Refreshing(c) => retried[c] /\ auth[c] <= expired

(* What makes the first two inductive.                                     *)
RefreshInv ==
    /\ RefreshTypeOK
    /\ OneRefresh
    /\ UncrossedKnows
=============================================================================
