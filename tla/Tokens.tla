------------------------------- MODULE Tokens -------------------------------
(***************************************************************************)
(* The refresh tokens of one user at the backend: pkg/token and the        *)
(* requests that make tokens, a login, a signup or a refresh.  Redis keeps *)
(* one refresh token per user; keys of different users have nothing in     *)
(* common.  Every call of Redis is a step, and any may fail, applied or    *)
(* not, a cancelled request included.                                      *)
(*                                                                         *)
(* A JWT is determined by its user, its type and the second it was made    *)
(* in, so a refresh token is that second: two made in one second are one   *)
(* token.                                                                  *)
(***************************************************************************)
EXTENDS Naturals, FiniteSets

CONSTANTS Reqs,     \* the requests of a behaviour
          Duration, \* refreshTokenDuration, in seconds
          MaxTime,  \* the last second, a bound
          None

ASSUME TokensTimes == Duration \in Nat /\ MaxTime \in Nat
ASSUME TokensNone  == None \notin Nat

VARIABLES
  now,       \* the clock
  stored,    \* the token in Redis
  at,        \* where each request is
  presented, \* the token a refresh brought, None for the others
  made,      \* the token a request signed
  hands,     \* tokens the clients were given
  spent      \* history: tokens that were exchanged or refused

tokensVars == <<now, stored, at, presented, made, hands, spent>>

Seconds == 0..MaxTime
States  == {"idle", "revoking", "signing", "storing", "stored", "answered", "failed"}

TokensTypeOK ==
    /\ now       \in Seconds
    /\ stored    \in Seconds \cup {None}
    /\ at        \in [Reqs -> States]
    /\ presented \in [Reqs -> Seconds \cup {None}]
    /\ made      \in [Reqs -> Seconds \cup {None}]
    /\ hands     \subseteq Seconds
    /\ spent     \subseteq Seconds

TokensInit ==
    /\ now       = 0
    /\ stored    = None
    /\ at        = [r \in Reqs |-> "idle"]
    /\ presented = [r \in Reqs |-> None]
    /\ made      = [r \in Reqs |-> None]
    /\ hands     = {}
    /\ spent     = {}

Tick ==
    /\ now < MaxTime
    /\ now' = now + 1
    /\ UNCHANGED <<stored, at, presented, made, hands, spent>>

-----------------------------------------------------------------------------
(* The requests.                                                           *)

(* A login or a signup that has passed its own checks.                     *)
SignIn(r) ==
    /\ at[r] = "idle"
    /\ at' = [at EXCEPT ![r] = "revoking"]
    /\ UNCHANGED <<now, stored, presented, made, hands, spent>>

Expired(t)  == now >= t + Duration
Accepted(t) == stored = t /\ ~Expired(t)

(* VerifyToken of a refresh: the JWT's expiry, then the token in Redis.    *)
VerifyToken(r, t) ==
    /\ at[r] = "idle"
    /\ t \in hands
    /\ presented' = [presented EXCEPT ![r] = t]
    /\ IF Accepted(t)
       THEN at' = [at EXCEPT ![r] = "revoking"] /\ UNCHANGED spent
       ELSE at' = [at EXCEPT ![r] = "failed"] /\ spent' = spent \cup {t}
    /\ UNCHANGED <<now, stored, made, hands>>

(* Redis does not answer the verification.                                 *)
VerifyFails(r, t) ==
    /\ at[r] = "idle"
    /\ t \in hands
    /\ presented' = [presented EXCEPT ![r] = t]
    /\ at' = [at EXCEPT ![r] = "failed"]
    /\ UNCHANGED <<now, stored, made, hands, spent>>

-----------------------------------------------------------------------------
(* GenerateToken of a refresh token.                                       *)

(* RevokeToken.                                                            *)
Revoke(r) ==
    /\ at[r] = "revoking"
    /\ stored' = None
    /\ at' = [at EXCEPT ![r] = "signing"]
    /\ UNCHANGED <<now, presented, made, hands, spent>>

RevokeFails(r) ==
    /\ at[r] = "revoking"
    /\ stored' \in {stored, None}
    /\ at' = [at EXCEPT ![r] = "failed"]
    /\ UNCHANGED <<now, presented, made, hands, spent>>

Sign(r) ==
    /\ at[r] = "signing"
    /\ made' = [made EXCEPT ![r] = now]
    /\ at' = [at EXCEPT ![r] = "storing"]
    /\ UNCHANGED <<now, stored, presented, hands, spent>>

Store(r) ==
    /\ at[r] = "storing"
    /\ stored' = made[r]
    /\ at' = [at EXCEPT ![r] = "stored"]
    /\ UNCHANGED <<now, presented, made, hands, spent>>

(* Mutant of AfterFailedSet: an error puts back the token that was brought. *)
RolledBack(r) == IF presented[r] = None THEN {stored} ELSE {stored, presented[r]}

(* What a Set that returns an error may leave in Redis.                    *)
AfterFailedSet(r) == {stored, made[r]}

StoreFails(r) ==
    /\ at[r] = "storing"
    /\ stored' \in AfterFailedSet(r)
    /\ at' = [at EXCEPT ![r] = "failed"]
    /\ UNCHANGED <<now, presented, made, hands, spent>>

(* The answer: the token a refresh brought is exchanged.                   *)
HandOut(r) ==
    /\ at[r] = "stored"
    /\ at' = [at EXCEPT ![r] = "answered"]
    /\ hands' = hands \cup {made[r]}
    /\ spent' = IF presented[r] = None THEN spent ELSE spent \cup {presented[r]}
    /\ UNCHANGED <<now, stored, presented, made>>

(* The client is gone: nobody has the token.                               *)
AnswerLost(r) ==
    /\ at[r] = "stored"
    /\ at' = [at EXCEPT ![r] = "failed"]
    /\ UNCHANGED <<now, stored, presented, made, hands, spent>>

TokensNext ==
    \/ Tick
    \/ \E r \in Reqs :
         \/ SignIn(r) \/ Revoke(r) \/ RevokeFails(r) \/ Sign(r)
         \/ Store(r) \/ StoreFails(r) \/ HandOut(r) \/ AnswerLost(r)
         \/ \E t \in Seconds : VerifyToken(r, t) \/ VerifyFails(r, t)

TokensSpec == TokensInit /\ [][TokensNext]_tokensVars

-----------------------------------------------------------------------------
(* Two requests made this token, in one second.                            *)
Twins(t) == \E q, r \in Reqs : q # r /\ made[q] = t /\ made[r] = t

(* A refresh token that was exchanged, or refused once, is never accepted  *)
(* again, however requests of the user overlap and whichever calls of      *)
(* Redis fail.  The one exception the code leaves: another request made    *)
(* the same token in the same second.                                      *)
SpentIsRefused == \A t \in spent : Accepted(t) => Twins(t)

(* Inductive: a token in a client's hand was answered, a spent one was in  *)
(* a hand, and a refresh has removed the token it brought before it signs. *)
TokensInv ==
    /\ TokensTypeOK
    /\ SpentIsRefused
    /\ \A t \in hands : \E q \in Reqs : at[q] = "answered" /\ made[q] = t
    /\ spent \subseteq hands
    /\ \A r \in Reqs : presented[r] # None => presented[r] \in hands
    /\ \A r \in Reqs : at[r] \in {"storing", "stored", "answered"} => made[r] # None
    /\ \A r \in Reqs : at[r] \in {"idle", "revoking", "signing"} => made[r] = None
    /\ \A r \in Reqs :
         at[r] \in {"signing", "storing", "stored"} /\ presented[r] # None /\ Accepted(presented[r])
           => Twins(presented[r])
=============================================================================
