--------------------------- MODULE AccountsProofs ---------------------------
(***************************************************************************)
(* The safety of signing up and of the tokens a client is given.           *)
(*                                                                         *)
(* Accounts: for any finite set of signups, any addresses and any faults.  *)
(* A signup's session id is its own, which is what makes a call hear its   *)
(* own key generation or none (CallFacts).  Accounts implements the        *)
(* register of AccountRegister.                                            *)
(***************************************************************************)
EXTENDS Accounts, Tokens, TLAPS

USE TssNoCall, AccountsSession DEF Signups

(* With a session id of its own a call hears nobody else.                  *)
CallFacts ==
    \A s \in Signups :
      /\ heard[s] \in {s, NoCall}
      /\ call[s] = "idle" => ceremony[s] = "none" /\ heard[s] = NoCall
      /\ call[s] = "answered" => heard[s] = s
      /\ call[s] = "failed" => mishaps[s] # {}

(* What a handler's position says of the rows it has written.              *)
Rows ==
    \A s \in Signups :
      /\ pc[s] \in {"idle", "free", "clear"} => owner[email[s]] # s
      /\ pc[s] \in {"user", "keygen", "keyed", "wallet", "granted", "ok"} => owner[email[s]] = s
      /\ pc[s] \in {"idle", "free", "clear", "user", "keygen", "keyed"} => s \notin wallets
      /\ pc[s] \in {"wallet", "granted", "ok"} => s \in wallets
      /\ s \in wallets => owner[email[s]] = s /\ address[s] = s

(* And of its call and of what its client got.                             *)
Stages ==
    \A s \in Signups :
      /\ pc[s] \in {"idle", "free", "clear", "user"} => call[s] = "idle"
      /\ pc[s] \in {"keyed", "wallet", "granted"} => call[s] = "answered"
      /\ held[s] # NoCall => held[s] = s /\ s \in wallets
      /\ pc[s] = "ok" => held[s] = s \/ trouble[s] # {}

AccountsInv == AccountsTypeOK /\ CallFacts /\ Rows /\ Stages /\ AllOrNothing

LEMMA InitInv == Init => AccountsInv
<1> SUFFICES ASSUME Init PROVE AccountsInv
  OBVIOUS
<1> USE DEF Init, CallInit
<1>1. AccountsTypeOK
  BY AccountsPlans DEF AccountsTypeOK, CallTypeOK, FaultKinds
<1>2. email \in [Calls -> Emails]
  BY AccountsPlans
<1> QED
  BY <1>1, <1>2 DEF AccountsInv, CallFacts, Rows, Stages, AllOrNothing, Ended

-----------------------------------------------------------------------------
(* The calls.                                                              *)

(* What the handlers rely on while calls and ceremonies go on.             *)
CallsKept ==
    /\ CallTypeOK' /\ CallFacts'
    /\ \A s \in Signups :
         /\ call[s] = "answered" => call'[s] = "answered"
         /\ mishaps[s] # {} => mishaps'[s] # {}

(* A call that is not made, and a ceremony that is not begun.              *)
StaysUnmade(s) ==
    /\ call[s] = "idle" => call'[s] = "idle"
    /\ ceremony[s] = "none" => ceremony'[s] = "none"

LEMMA SameCalls ==
    ASSUME CallTypeOK, CallFacts, UNCHANGED tssVars
    PROVE  CallsKept /\ \A s \in Signups : StaysUnmade(s)
  BY DEF tssVars, CallTypeOK, CallFacts, CallsKept, StaysUnmade

LEMMA TssStepKeeps ==
    ASSUME CallTypeOK, CallFacts, NEW c \in Calls, CallStep(c) \/ ServiceStep(c)
    PROVE  CallsKept /\ \A s \in Signups : StaysUnmade(s)
<1>1. \A s \in Calls : mishaps[s] \subseteq mishaps'[s] /\ mishaps'[s] \in SUBSET CallMishaps
  BY DEF CallTypeOK, CallMishaps, Mishap, CallStep, ServiceStep, Subscribe, Answer, Expire,
     Subscribed, Reconnect, Publish, Hang
<1>2. CallTypeOK'
  BY DEF CallTypeOK, CallMishaps, Mishap, CallStep, ServiceStep, Subscribe, Answer, Expire,
     Subscribed, Reconnect, Publish, Hang
<1>3. CallFacts'
  <2> USE DEF CallTypeOK, CallFacts
  <2>1. CASE Subscribe(c) \/ Subscribed(c) \/ Reconnect(c)
    BY <1>1, <2>1 DEF Subscribe, Subscribed, Reconnect
  <2>2. CASE Answer(c)
    BY <2>2 DEF Answer
  <2>3. CASE Expire(c)
    BY <1>1, <2>3 DEF Expire, Mishap, Underway
  <2>4. CASE Publish(c)
    BY <1>1, <2>4 DEF Publish
  <2>5. CASE Hang(c)
    BY <1>1, <2>5 DEF Hang
  <2> QED
    BY <2>1, <2>2, <2>3, <2>4, <2>5 DEF CallStep, ServiceStep
<1>4. \A s \in Calls : /\ call[s] = "answered" => call'[s] = "answered"
                       /\ StaysUnmade(s)
  BY DEF CallTypeOK, CallStep, ServiceStep, Subscribe, Answer, Expire, Subscribed, Reconnect,
     Publish, Hang, Underway, StaysUnmade
<1> QED
  BY <1>1, <1>2, <1>3, <1>4 DEF CallsKept

LEMMA NotifyKeeps ==
    ASSUME CallTypeOK, CallFacts, NEW c \in Calls, Notify(c) \/ NotifyFails(c)
    PROVE  /\ CallsKept /\ \A s \in Calls \ {c} : StaysUnmade(s)
           /\ NotifyFails(c) => mishaps'[c] # {}
<1>1. /\ mishaps' \in [Calls -> SUBSET CallMishaps]
      /\ \A s \in Calls : mishaps[s] \subseteq mishaps'[s]
      /\ NotifyFails(c) => mishaps'[c] # {}
  <2>1. CASE Notify(c)
    BY <2>1 DEF CallTypeOK, CallMishaps, Notify, NotifyFails, Started
  <2>2. CASE NotifyFails(c) /\ Started(c, {"fault"})
    BY <2>2 DEF CallTypeOK, CallMishaps, Started
  <2>3. CASE NotifyFails(c) /\ Mishap(c, "fault")
    BY <2>3 DEF CallTypeOK, CallMishaps, Mishap
  <2> QED
    BY <2>1, <2>2, <2>3 DEF NotifyFails
<1>2. /\ ceremony' = [ceremony EXCEPT ![c] = "running"] \/ UNCHANGED ceremony
      /\ \/ call' = [call EXCEPT ![c] = "notified"]
         \/ call' = [call EXCEPT ![c] = "failed"] /\ mishaps'[c] # {}
      /\ call[c] = "idle" /\ heard' = heard
  BY <1>1 DEF Notify, NotifyFails, Started
<1>3. CallTypeOK'
  BY <1>1, <1>2 DEF CallTypeOK
<1>4. CallFacts'
  BY <1>1, <1>2 DEF CallTypeOK, CallFacts
<1>5. \A s \in Calls \ {c} : StaysUnmade(s)
  BY <1>2 DEF CallTypeOK, StaysUnmade
<1> QED
  BY <1>1, <1>2, <1>3, <1>4, <1>5 DEF CallsKept, CallTypeOK

-----------------------------------------------------------------------------
(* The handler.                                                            *)

(* trouble' is trouble, with or without a fault more for s.                *)
Troubled(s) == UNCHANGED trouble \/ \E t \in Faults : Suffer(s, t)

LEMMA TroubleGrows ==
    ASSUME AccountsTypeOK, NEW s \in Signups, Troubled(s)
    PROVE  /\ trouble' \in [Signups -> SUBSET FaultKinds]
           /\ \A t \in Signups : trouble[t] \subseteq trouble'[t]
           /\ trouble' # trouble => trouble'[s] # {}
  BY AccountsFaults DEF AccountsTypeOK, Troubled, Suffer

(* A step of the calls, or of the client, with every handler where it was. *)
LEMMA QuietInv ==
    ASSUME AccountsInv, CallsKept, \A t \in Signups : StaysUnmade(t),
           NEW s \in Signups, Troubled(s),
           UNCHANGED <<email, pc, owner, wallets, address, held>>
    PROVE  AccountsInv'
<1> USE DEF AccountsInv, CallsKept, StaysUnmade
<1>1. AccountsTypeOK'
  BY TroubleGrows DEF AccountsTypeOK
<1>2. Rows'
  BY DEF Rows
<1>3. Stages'
  BY TroubleGrows DEF Stages
<1>4. AllOrNothing'
  BY TroubleGrows DEF AllOrNothing, Ended, CanLogin
<1> QED
  BY <1>1, <1>2, <1>3, <1>4

(* The handler goes on, and writes no row.                                 *)
LEMMA AdvanceInv ==
    ASSUME AccountsInv, CallsKept, NEW s \in Signups, Troubled(s),
           \A t \in Signups \ {s} : StaysUnmade(t),
           NEW to \in {"free", "clear", "keygen", "keyed", "granted"},
           pc' = [pc EXCEPT ![s] = to],
           to \in {"free", "clear"} => pc[s] \in {"idle", "free"} /\ call'[s] = "idle",
           to = "keygen" => pc[s] = "user",
           to = "keyed" => pc[s] = "keygen" /\ call'[s] = "answered",
           to = "granted" => pc[s] = "wallet",
           UNCHANGED <<email, owner, wallets, address, held>>
    PROVE  AccountsInv'
<1> USE DEF AccountsInv, CallsKept, StaysUnmade
<1>1. pc'[s] = to /\ \A t \in Signups : t # s => pc'[t] = pc[t]
  BY DEF AccountsTypeOK
<1>2. AccountsTypeOK'
  BY TroubleGrows DEF AccountsTypeOK
<1>3. Rows'
  BY <1>1 DEF Rows
<1>4. Stages'
  BY <1>1, TroubleGrows DEF Stages
<1>5. AllOrNothing'
  BY <1>1, TroubleGrows DEF AllOrNothing, Ended, CanLogin
<1> QED
  BY <1>2, <1>3, <1>4, <1>5

(* The handler fails, with or without a reason on record.                  *)
LEMMA FailInv ==
    ASSUME AccountsInv, CallsKept, NEW s \in Signups, Troubled(s),
           \A t \in Signups \ {s} : StaysUnmade(t), pc' = [pc EXCEPT ![s] = "error"],
           \/ trouble'[s] # {} \/ mishaps'[s] # {}
           \/ owner[email[s]] # s /\ s \notin wallets /\ ceremony'[s] = "none",
           UNCHANGED <<email, owner, wallets, address, held>>
    PROVE  AccountsInv'
<1> USE DEF AccountsInv, CallsKept, StaysUnmade
<1>1. pc'[s] = "error" /\ \A t \in Signups : t # s => pc'[t] = pc[t]
  BY DEF AccountsTypeOK
<1>2. AccountsTypeOK'
  BY TroubleGrows DEF AccountsTypeOK
<1>3. Rows'
  BY <1>1 DEF Rows
<1>4. Stages'
  BY <1>1, TroubleGrows DEF Stages
<1>5. AllOrNothing'
  BY <1>1, TroubleGrows DEF AllOrNothing, Ended, CanLogin
<1> QED
  BY <1>2, <1>3, <1>4, <1>5

(* users has one row for an address: only who finds none writes it.        *)
LEMMA InsertUserInv ==
    ASSUME AccountsInv, NEW s \in Signups, InsertUser(s)
    PROVE  AccountsInv'
<1> USE DEF Go
<1>1. /\ CallsKept /\ \A t \in Signups : StaysUnmade(t)
      /\ pc[s] = "clear" /\ call'[s] = "idle" /\ call[s] = "idle" /\ ceremony'[s] = "none"
      /\ owner[email[s]] # s /\ s \notin wallets
  BY SameCalls DEF InsertUser, AccountsInv, AccountsTypeOK, Rows, Stages, CallFacts, tssVars
<1>2. Troubled(s)
  BY DEF InsertUser, Troubled, Suffer
<1>3. CASE /\ ~Taken(s) /\ owner' = [owner EXCEPT ![email[s]] = s]
           /\ \/ pc' = [pc EXCEPT ![s] = "user"]
              \/ pc' = [pc EXCEPT ![s] = "error"] /\ trouble'[s] # {}
  <2> USE DEF AccountsInv, CallsKept, StaysUnmade
  <2>1. /\ pc'[s] \in {"user", "error"} /\ \A t \in Signups : t # s => pc'[t] = pc[t]
        /\ pc'[s] = "error" => trouble'[s] # {}
    BY <1>3 DEF AccountsTypeOK
  <2>2. UNCHANGED <<email, wallets, address, held>>
    BY DEF InsertUser
  <2>3. /\ owner'[email[s]] = s
        /\ \A t \in Signups : t # s => /\ owner[email[t]] = t => owner'[email[t]] = t
                                       /\ owner'[email[t]] = t => owner[email[t]] = t
    BY <1>3 DEF AccountsTypeOK, Taken
  <2>4. AccountsTypeOK'
    BY <1>1, <1>2, <1>3, <2>2, TroubleGrows DEF AccountsTypeOK
  <2>5. Rows'
    BY <1>1, <2>1, <2>2, <2>3 DEF Rows
  <2>6. Stages'
    BY <1>1, <1>2, <2>1, <2>2, TroubleGrows DEF Stages
  <2>7. AllOrNothing'
    <3> SUFFICES ASSUME NEW t \in Signups, pc'[t] \in {"ok", "error"}, t # s
                 PROVE  \/ held'[t] = t /\ CanLogin(email[t])'
                        \/ owner'[email'[t]] # t /\ t \notin wallets' /\ ceremony'[t] = "none"
                        \/ trouble'[t] # {} \/ mishaps'[t] # {}
      BY <2>1 DEF AllOrNothing, Ended
    <3>1. \/ held[t] = t /\ CanLogin(email[t])
          \/ owner[email[t]] # t /\ t \notin wallets /\ ceremony[t] = "none"
          \/ trouble[t] # {} \/ mishaps[t] # {}
      BY <2>1 DEF AllOrNothing, Ended
    <3>2. held[t] = t => t \in wallets /\ owner[email[t]] = t
      BY DEF Stages, Rows
    <3> QED
      BY <1>1, <1>2, <2>2, <2>3, <3>1, <3>2, TroubleGrows DEF CanLogin
  <2> QED
    BY <1>1, <2>4, <2>5, <2>6, <2>7
<1>4. CASE pc' = [pc EXCEPT ![s] = "error"] /\ UNCHANGED owner
  BY <1>1, <1>2, <1>4, FailInv DEF InsertUser
<1> QED
  <2>1. Suffer(s, "database") => trouble'[s] # {}
    BY DEF Suffer, AccountsInv, AccountsTypeOK
  <2> QED
    BY <1>3, <1>4, <2>1 DEF InsertUser

LEMMA InsertWalletInv ==
    ASSUME AccountsInv, NEW s \in Signups, InsertWallet(s)
    PROVE  AccountsInv'
<1> USE DEF Go
<1>1. /\ CallsKept /\ \A t \in Signups : StaysUnmade(t)
      /\ pc[s] = "keyed" /\ call'[s] = "answered" /\ heard[s] = s /\ owner[email[s]] = s
  BY SameCalls DEF InsertWallet, AccountsInv, AccountsTypeOK, Rows, Stages, CallFacts, tssVars
<1>2. Troubled(s) /\ (Suffer(s, "database") => trouble'[s] # {})
  <2>1. Troubled(s)
    BY DEF InsertWallet, Troubled, Suffer
  <2>2. Suffer(s, "database") => trouble'[s] # {}
    BY DEF Suffer, AccountsInv, AccountsTypeOK
  <2> QED
    BY <2>1, <2>2
<1>3. CASE /\ wallets' = wallets \cup {s} /\ address' = [address EXCEPT ![s] = heard[s]]
           /\ \/ pc' = [pc EXCEPT ![s] = "wallet"]
              \/ pc' = [pc EXCEPT ![s] = "error"] /\ trouble'[s] # {}
  <2> USE DEF AccountsInv, CallsKept, StaysUnmade
  <2>1. /\ pc'[s] \in {"wallet", "error"} /\ \A t \in Signups : t # s => pc'[t] = pc[t]
        /\ pc'[s] = "error" => trouble'[s] # {}
    BY <1>3 DEF AccountsTypeOK
  <2>2. UNCHANGED <<email, owner, held>>
    BY DEF InsertWallet
  <2>3. address'[s] = s /\ \A t \in Signups : t # s => address'[t] = address[t]
    BY <1>1, <1>3 DEF AccountsTypeOK
  <2>4. AccountsTypeOK'
    BY <1>1, <1>2, <1>3, <2>2, TroubleGrows DEF AccountsTypeOK
  <2>5. Rows'
    BY <1>1, <1>3, <2>1, <2>2, <2>3 DEF Rows
  <2>6. Stages'
    BY <1>1, <1>2, <1>3, <2>1, <2>2, TroubleGrows DEF Stages
  <2>7. AllOrNothing'
    BY <1>1, <1>2, <1>3, <2>1, <2>2, TroubleGrows DEF AllOrNothing, Ended, CanLogin
  <2> QED
    BY <1>1, <2>4, <2>5, <2>6, <2>7
<1>4. CASE /\ pc' = [pc EXCEPT ![s] = "error"] /\ UNCHANGED <<wallets, address>>
           /\ trouble'[s] # {}
  BY <1>1, <1>2, <1>4, FailInv DEF InsertWallet
<1> QED
  BY <1>2, <1>3, <1>4 DEF InsertWallet

LEMMA RespondInv == ASSUME AccountsInv, NEW s \in Signups, Respond(s) PROVE AccountsInv'
<1> USE DEF Go, AccountsInv, CallsKept, StaysUnmade
<1>1. /\ CallsKept /\ \A t \in Signups : StaysUnmade(t)
      /\ pc[s] = "granted" /\ heard[s] = s /\ owner[email[s]] = s /\ s \in wallets
      /\ UNCHANGED <<email, owner, wallets, address, trouble>>
  BY SameCalls DEF Respond, AccountsTypeOK, Rows, Stages, CallFacts
<1>2. pc'[s] = "ok" /\ \A t \in Signups : t # s => pc'[t] = pc[t] /\ held'[t] = held[t]
  BY DEF Respond, AccountsTypeOK
<1>3. held'[s] = s \/ (held'[s] = held[s] /\ trouble[s] # {})
  BY <1>1 DEF Respond, Gone, AccountsTypeOK
<1>4. AccountsTypeOK'
  BY <1>1 DEF Respond, AccountsTypeOK
<1>5. Rows'
  BY <1>1, <1>2 DEF Rows
<1>6. Stages'
  BY <1>1, <1>2, <1>3 DEF Stages
<1>7. AllOrNothing'
  BY <1>1, <1>2, <1>3 DEF AllOrNothing, Ended, CanLogin
<1> QED
  BY <1>1, <1>4, <1>5, <1>6, <1>7

LEMMA RequestKeyInv == ASSUME AccountsInv, NEW s \in Signups, RequestKey(s) PROVE AccountsInv'
<1> USE DEF RequestKey, Go
<1>1. /\ CallsKept /\ \A t \in Signups \ {s} : StaysUnmade(t)
      /\ NotifyFails(s) => mishaps'[s] # {}
  BY NotifyKeeps DEF AccountsInv, AccountsTypeOK
<1>2. CASE pc' = [pc EXCEPT ![s] = "keygen"]
  BY <1>1, <1>2, AdvanceInv DEF Troubled
<1>3. CASE pc' = [pc EXCEPT ![s] = "error"] /\ NotifyFails(s)
  BY <1>1, <1>3, FailInv DEF Troubled
<1> QED
  BY <1>2, <1>3

LEMMA ChecksInv ==
    ASSUME AccountsInv, NEW s \in Signups, CheckEmail(s) \/ CheckAgain(s)
    PROVE  AccountsInv'
<1> USE DEF Go
<1>1. CallsKept /\ (\A t \in Signups : StaysUnmade(t)) /\ UNCHANGED tssVars
  BY SameCalls DEF CheckEmail, CheckAgain, AccountsInv, AccountsTypeOK
<1>2. /\ pc[s] \in {"idle", "free"} /\ call'[s] = "idle"
      /\ owner[email[s]] # s /\ s \notin wallets /\ ceremony'[s] = "none"
  BY <1>1 DEF CheckEmail, CheckAgain, AccountsInv, Rows, Stages, CallFacts, tssVars
<1>3. UNCHANGED <<email, owner, wallets, address, held>> /\ Troubled(s)
  BY DEF CheckEmail, CheckAgain, Troubled, Suffer
<1>4. CASE pc' = [pc EXCEPT ![s] = "error"]
  BY <1>1, <1>2, <1>3, <1>4, FailInv
<1>5. CASE \E to \in {"free", "clear"} : pc' = [pc EXCEPT ![s] = to]
  BY <1>1, <1>2, <1>3, <1>5, AdvanceInv
<1> QED
  BY <1>4, <1>5 DEF CheckEmail, CheckAgain

LEMMA KeyInv ==
    ASSUME AccountsInv, NEW s \in Signups,
           KeyFails(s) \/ KeyAnswered(s) \/ GenerateTokenPair(s) \/ Cancelled(s)
    PROVE  AccountsInv'
<1> USE DEF Go
<1>1. CallsKept /\ (\A t \in Signups : StaysUnmade(t)) /\ UNCHANGED tssVars
  BY SameCalls
  DEF KeyFails, KeyAnswered, GenerateTokenPair, Cancelled, AccountsInv, AccountsTypeOK
<1>2. UNCHANGED <<email, owner, wallets, address, held>> /\ Troubled(s)
  BY DEF KeyFails, KeyAnswered, GenerateTokenPair, Cancelled, Troubled, Suffer
<1>3. CASE KeyFails(s)
  <2>1. mishaps'[s] # {}
    BY <1>1, <1>3 DEF KeyFails, AccountsInv, CallFacts, tssVars
  <2> QED
    BY <1>1, <1>2, <1>3, <2>1, FailInv DEF KeyFails
<1>4. CASE KeyAnswered(s)
  BY <1>1, <1>2, <1>4, AdvanceInv DEF KeyAnswered, tssVars
<1>5. CASE GenerateTokenPair(s)
  <2>1. CASE pc[s] = "wallet" /\ pc' = [pc EXCEPT ![s] = "granted"]
    BY <1>1, <1>2, <2>1, AdvanceInv
  <2>2. CASE pc' = [pc EXCEPT ![s] = "error"] /\ Suffer(s, "tokens")
    <3>1. trouble'[s] # {}
      BY <2>2 DEF Suffer, AccountsInv, AccountsTypeOK
    <3> QED
      BY <1>1, <1>2, <2>2, <3>1, FailInv
  <2> QED
    BY <1>5, <2>1, <2>2 DEF GenerateTokenPair
<1>6. CASE Cancelled(s)
  BY <1>1, <1>2, <1>6, FailInv DEF Cancelled, Gone
<1> QED
  BY <1>3, <1>4, <1>5, <1>6

LEMMA NextInv == AccountsInv /\ [Next]_vars => AccountsInv'
<1> SUFFICES ASSUME AccountsInv, [Next]_vars PROVE AccountsInv'
  OBVIOUS
<1>1. ASSUME NEW s \in Signups, TssStep(s) PROVE AccountsInv'
  <2>1. CallsKept /\ \A t \in Signups : StaysUnmade(t)
    BY <1>1, TssStepKeeps DEF TssStep, AccountsInv, AccountsTypeOK
  <2> QED
    BY <1>1, <2>1, QuietInv DEF TssStep, Troubled
<1>2. ASSUME NEW s \in Signups, GiveUp(s) PROVE AccountsInv'
  <2>1. CallsKept /\ \A t \in Signups : StaysUnmade(t)
    BY <1>2, SameCalls DEF GiveUp, AccountsInv, AccountsTypeOK
  <2>2. Troubled(s)
    BY <1>2 DEF GiveUp, Troubled, Suffer
  <2> QED
    BY <1>2, <2>1, <2>2, QuietInv DEF GiveUp
<1>3. CASE UNCHANGED vars
  BY <1>3 DEF vars, tssVars, AccountsInv, AccountsTypeOK, CallTypeOK, CallFacts, Rows, Stages,
     AllOrNothing, Ended, CanLogin
<1> QED
  BY <1>1, <1>2, <1>3, ChecksInv, InsertUserInv, RequestKeyInv, KeyInv, InsertWalletInv,
     RespondInv
  DEF Next, HandlerStep

LEMMA AccountsInvariant == Spec => []AccountsInv
  BY InitInv, NextInv, PTL DEF Spec

-----------------------------------------------------------------------------
(* A client's share is that of the key whose address its account has.      *)
THEOREM AccountsHeldShare == Spec => []HeldShareFits
<1>1. AccountsInv => HeldShareFits
  BY DEF AccountsInv, Rows, Stages, HeldShareFits, CanLogin
<1> QED
  BY <1>1, AccountsInvariant, PTL

(* An address has one account at most, with one wallet and one share.      *)
THEOREM AccountsOnePerEmail == Spec => []OneAccountPerEmail
<1>1. AccountsInv => OneAccountPerEmail
  BY DEF AccountsInv, Rows, Stages, OneAccountPerEmail
<1> QED
  BY <1>1, AccountsInvariant, PTL

(* Only a recorded failure leaves half an account.                         *)
THEOREM AccountsAllOrNothing == Spec => []AllOrNothing
<1>1. AccountsInv => AllOrNothing
  BY DEF AccountsInv
<1> QED
  BY <1>1, AccountsInvariant, PTL

-----------------------------------------------------------------------------
(* The register, which Accounts implements: each step is one of the        *)
(* register's or leaves what the clients see alone.                        *)

LEMMA RegisterInitStep == Init => Register!RegisterInit
  BY AccountsPlans
  DEF Init, CallInit, Register!RegisterInit, Standing, Keys, Excused, Ended

(* Only s has come to have trouble, or a mishap.                           *)
OnlyFor(s) ==
    /\ trouble[s] \subseteq trouble'[s] /\ mishaps[s] \subseteq mishaps'[s]
    /\ \A t \in Signups \ {s} : trouble'[t] = trouble[t] /\ mishaps'[t] = mishaps[t]

LEMMA ExcusedGrows ==
    ASSUME AccountsTypeOK, NEW s \in Signups, OnlyFor(s)
    PROVE  /\ Excused' = IF trouble'[s] # {} \/ mishaps'[s] # {} THEN Excused \cup {s} ELSE Excused
           /\ s \in Excused => Excused' = Excused
  BY DEF Excused, OnlyFor, AccountsTypeOK, CallTypeOK

(* A handler of an open signup moves.                                      *)
LEMMA StandingMoves ==
    ASSUME AccountsTypeOK, NEW s \in Signups, ~Ended(s), NEW to, pc' = [pc EXCEPT ![s] = to]
    PROVE  /\ Standing[s] = "open"
           /\ to \notin {"ok", "error"} => Standing' = Standing
           /\ to \in {"ok", "error"} => Standing' = [Standing EXCEPT ![s] = to]
<1>1. \A t \in Signups : pc'[t] = IF t = s THEN to ELSE pc[t]
  BY DEF AccountsTypeOK
<1> QED
  BY <1>1 DEF Standing, Ended

(* The rows and the client are left alone.                                 *)
LEMMA RegisterQuiet ==
    ASSUME AccountsTypeOK, NEW s \in Signups, OnlyFor(s), Standing' = Standing,
           UNCHANGED <<email, owner, wallets, address, held>>
    PROVE  [Register!RegisterNext]_(Register!registerVars)
<1>1. Keys' = Keys
  BY DEF Keys
<1>2. Excused' = Excused \cup {s} \/ Excused' = Excused
  BY ExcusedGrows
<1> QED
  BY <1>1, <1>2 DEF Register!registerVars, Register!RegisterNext, Register!Befall, Register!Excuse

LEMMA RegisterAdvance ==
    ASSUME AccountsTypeOK, NEW s \in Signups, OnlyFor(s), ~Ended(s),
           NEW to \in {"free", "clear", "keygen", "keyed", "granted"},
           pc' = [pc EXCEPT ![s] = to],
           UNCHANGED <<email, owner, wallets, address, held>>
    PROVE  [Register!RegisterNext]_(Register!registerVars)
  BY StandingMoves, RegisterQuiet

LEMMA RegisterFail ==
    ASSUME AccountsTypeOK, NEW s \in Signups, OnlyFor(s), ~Ended(s),
           pc' = [pc EXCEPT ![s] = "error"],
           owner[email[s]] # s \/ trouble'[s] # {} \/ mishaps'[s] # {},
           UNCHANGED <<email, owner, wallets, address, held>>
    PROVE  Register!RegisterNext
<1>1. Keys' = Keys /\ Register!Turn(s, "error")
  BY StandingMoves DEF Keys, Register!Turn
<1>2. CASE trouble'[s] # {} \/ mishaps'[s] # {}
  BY <1>1, <1>2, ExcusedGrows DEF Register!RegisterNext, Register!Fail, Register!Excuse
<1>3. CASE ~(trouble'[s] # {} \/ mishaps'[s] # {})
  BY <1>1, <1>3, ExcusedGrows DEF Register!RegisterNext, Register!Refuse
<1> QED
  BY <1>2, <1>3

(* After a row was written the signup goes on, or fails with its reason.   *)
LEMMA RegisterProceed ==
    ASSUME AccountsTypeOK, NEW s \in Signups, OnlyFor(s), ~Ended(s),
           NEW to \in {"user", "wallet"},
           \/ pc' = [pc EXCEPT ![s] = to] /\ UNCHANGED <<trouble, mishaps>>
           \/ pc' = [pc EXCEPT ![s] = "error"] /\ trouble'[s] # {}
    PROVE  Register!Proceed(s)
<1>1. CASE pc' = [pc EXCEPT ![s] = to] /\ UNCHANGED <<trouble, mishaps>>
  BY <1>1, StandingMoves DEF Register!Proceed, Excused
<1>2. CASE pc' = [pc EXCEPT ![s] = "error"] /\ trouble'[s] # {}
  BY <1>2, StandingMoves, ExcusedGrows DEF Register!Proceed, Register!Turn, Register!Excuse
<1> QED
  BY <1>1, <1>2

-----------------------------------------------------------------------------
(* The actions.                                                            *)

(* A fault of the handler's own is on its own record.                      *)
LEMMA TroubleOnlyFor ==
    ASSUME AccountsTypeOK, NEW s \in Signups, Troubled(s), UNCHANGED mishaps
    PROVE  OnlyFor(s) /\ \A t \in Faults : Suffer(s, t) => trouble'[s] # {}
  BY DEF AccountsTypeOK, OnlyFor, Troubled, Suffer

LEMMA RegisterCalls ==
    ASSUME AccountsInv, NEW s \in Signups, TssStep(s) \/ GiveUp(s)
    PROVE  [Register!RegisterNext]_(Register!registerVars)
<1> USE DEF AccountsInv
<1>1. Standing' = Standing
  BY DEF TssStep, GiveUp, Standing, Ended
<1>2. CASE TssStep(s)
  <2>1. OnlyFor(s)
    BY <1>2 DEF OnlyFor, AccountsTypeOK, CallTypeOK, TssStep, CallStep, ServiceStep, Subscribe,
       Answer, Expire, Subscribed, Reconnect, Publish, Hang, Mishap
  <2> QED
    BY <1>1, <1>2, <2>1, RegisterQuiet DEF TssStep
<1>3. CASE GiveUp(s)
  <2>1. OnlyFor(s)
    BY <1>3, TroubleOnlyFor DEF GiveUp, Troubled, Suffer, tssVars
  <2> QED
    BY <1>1, <1>3, <2>1, RegisterQuiet DEF GiveUp
<1> QED
  BY <1>2, <1>3

LEMMA RegisterChecks ==
    ASSUME AccountsInv, NEW s \in Signups, CheckEmail(s) \/ CheckAgain(s)
    PROVE  [Register!RegisterNext]_(Register!registerVars)
<1> USE DEF Go, AccountsInv
<1>1. /\ pc[s] \in {"idle", "free"} /\ owner[email[s]] # s
      /\ UNCHANGED <<tssVars, email, owner, wallets, address, held>>
  BY DEF CheckEmail, CheckAgain, Rows
<1>2. OnlyFor(s)
  BY <1>1, TroubleOnlyFor DEF CheckEmail, CheckAgain, Troubled, Suffer, tssVars
<1>3. CASE pc' = [pc EXCEPT ![s] = "error"]
  BY <1>1, <1>2, <1>3, RegisterFail DEF Ended
<1>4. CASE \E to \in {"free", "clear"} : pc' = [pc EXCEPT ![s] = to]
  BY <1>1, <1>2, <1>4, RegisterAdvance DEF Ended
<1> QED
  BY <1>3, <1>4 DEF CheckEmail, CheckAgain

(* users has one row for an address, so who writes one claims it.          *)
LEMMA RegisterUser ==
    ASSUME AccountsInv, NEW s \in Signups, InsertUser(s)
    PROVE  Register!RegisterNext
<1> USE DEF Go, AccountsInv
<1>1. /\ pc[s] = "clear" /\ owner[email[s]] # s
      /\ UNCHANGED <<tssVars, email, wallets, address, held>>
  BY DEF InsertUser, Rows
<1>2. OnlyFor(s) /\ (Suffer(s, "database") => trouble'[s] # {})
  <2>1. Troubled(s) /\ (Suffer(s, "database") => "database" \in Faults)
    BY DEF InsertUser, Troubled, Suffer
  <2> QED
    BY <1>1, <2>1, TroubleOnlyFor DEF tssVars
<1>3. CASE /\ ~Taken(s) /\ owner' = [owner EXCEPT ![email[s]] = s]
           /\ \/ Go(s, "clear", "user") /\ UNCHANGED trouble
              \/ Go(s, "clear", "error") /\ Suffer(s, "database")
  <2>1. Register!Proceed(s)
    BY <1>1, <1>2, <1>3, RegisterProceed DEF Ended, tssVars
  <2>2. Keys' = Keys
    BY <1>1 DEF Keys
  <2> QED
    BY <1>1, <1>3, <2>1, <2>2 DEF Taken, Register!RegisterNext, Register!Claim
<1>4. CASE Go(s, "clear", "error") /\ UNCHANGED owner
  BY <1>1, <1>2, <1>4, RegisterFail DEF Ended
<1> QED
  BY <1>3, <1>4 DEF InsertUser

LEMMA RegisterRequest ==
    ASSUME AccountsInv, NEW s \in Signups, RequestKey(s)
    PROVE  [Register!RegisterNext]_(Register!registerVars)
<1> USE DEF RequestKey, Go, AccountsInv
<1>1. Rivals(s) = {} /\ \A t \in Signups : s \notin Rivals(t)
  BY DEF Rivals
<1>2. OnlyFor(s)
  <2>1. ASSUME NEW own \in SUBSET CallMishaps, Started(s, own) PROVE OnlyFor(s)
    BY <1>1, <2>1 DEF OnlyFor, AccountsTypeOK, CallTypeOK, Started
  <2>2. CASE Mishap(s, "fault")
    BY <2>2 DEF OnlyFor, AccountsTypeOK, CallTypeOK, Mishap
  <2>3. {} \in SUBSET CallMishaps /\ {"fault"} \in SUBSET CallMishaps
    BY DEF CallMishaps
  <2> QED
    BY <2>1, <2>2, <2>3 DEF Notify, NotifyFails
<1>3. NotifyFails(s) => mishaps'[s] # {}
  BY NotifyKeeps DEF AccountsTypeOK
<1>4. CASE Go(s, "user", "keygen")
  BY <1>2, <1>4, RegisterAdvance DEF Ended
<1>5. CASE Go(s, "user", "error") /\ NotifyFails(s)
  BY <1>2, <1>3, <1>5, RegisterFail DEF Ended
<1> QED
  BY <1>4, <1>5

LEMMA RegisterKey ==
    ASSUME AccountsInv, NEW s \in Signups,
           KeyFails(s) \/ KeyAnswered(s) \/ GenerateTokenPair(s) \/ Cancelled(s)
    PROVE  [Register!RegisterNext]_(Register!registerVars)
<1> USE DEF Go, AccountsInv
<1>1. /\ ~Ended(s) /\ Troubled(s)
      /\ UNCHANGED <<tssVars, email, owner, wallets, address, held>>
  BY DEF KeyFails, KeyAnswered, GenerateTokenPair, Cancelled, Troubled, Suffer, Ended
<1>2. OnlyFor(s) /\ (Suffer(s, "tokens") => trouble'[s] # {})
  BY <1>1, TroubleOnlyFor DEF tssVars, Suffer
<1>3. CASE KeyFails(s)
  BY <1>1, <1>2, <1>3, RegisterFail DEF KeyFails, CallFacts, tssVars
<1>4. CASE KeyAnswered(s)
  BY <1>1, <1>2, <1>4, RegisterAdvance DEF KeyAnswered
<1>5. CASE GenerateTokenPair(s)
  BY <1>1, <1>2, <1>5, RegisterAdvance, RegisterFail DEF GenerateTokenPair
<1>6. CASE Cancelled(s)
  BY <1>1, <1>2, <1>6, RegisterFail DEF Cancelled, Gone
<1> QED
  BY <1>3, <1>4, <1>5, <1>6

(* The wallet is of the key made for this signup's user: it heard its own. *)
LEMMA RegisterWallet ==
    ASSUME AccountsInv, NEW s \in Signups, InsertWallet(s)
    PROVE  Register!RegisterNext
<1> USE DEF Go, AccountsInv
<1>1. /\ pc[s] = "keyed" /\ heard[s] = s /\ owner[email[s]] = s /\ s \notin wallets
      /\ UNCHANGED <<tssVars, email, owner, held>>
  BY DEF InsertWallet, Rows, Stages, CallFacts
<1>2. OnlyFor(s) /\ (Suffer(s, "database") => trouble'[s] # {})
  <2>1. Troubled(s) /\ (Suffer(s, "database") => "database" \in Faults)
    BY DEF InsertWallet, Troubled, Suffer
  <2> QED
    BY <1>1, <2>1, TroubleOnlyFor DEF tssVars
<1>3. CASE /\ wallets' = wallets \cup {s} /\ address' = [address EXCEPT ![s] = heard[s]]
           /\ \/ Go(s, "keyed", "wallet") /\ UNCHANGED trouble
              \/ Go(s, "keyed", "error") /\ Suffer(s, "database")
  <2>1. Register!Proceed(s)
    BY <1>1, <1>2, <1>3, RegisterProceed DEF Ended, tssVars
  <2>2. Keys[s] = NoCall /\ Keys' = [Keys EXCEPT ![s] = s]
    BY <1>1, <1>3 DEF Keys, AccountsTypeOK
  <2> QED
    BY <1>1, <2>1, <2>2 DEF Register!RegisterNext, Register!Open
<1>4. CASE Go(s, "keyed", "error") /\ Suffer(s, "database") /\ UNCHANGED <<wallets, address>>
  BY <1>1, <1>2, <1>4, RegisterFail DEF Ended
<1> QED
  BY <1>3, <1>4 DEF InsertWallet

LEMMA RegisterRespond ==
    ASSUME AccountsInv, NEW s \in Signups, Respond(s)
    PROVE  Register!RegisterNext
<1> USE DEF Go, AccountsInv, Respond
<1>1. pc[s] = "granted" /\ heard[s] = s /\ s \in wallets /\ address[s] = s
  BY DEF Rows, Stages, CallFacts
<1>2. Register!Turn(s, "ok")
  BY <1>1, StandingMoves DEF Register!Turn, Ended
<1>3. Keys' = Keys /\ Keys[s] = s /\ Excused' = Excused
  BY <1>1 DEF Keys, Excused, tssVars
<1>4. held' = [held EXCEPT ![s] = s] \/ (s \in Excused /\ UNCHANGED held)
  BY <1>1 DEF Gone, Excused
<1> QED
  BY <1>2, <1>3, <1>4 DEF Register!RegisterNext, Register!Grant

LEMMA RegisterStep ==
    ASSUME AccountsInv, [Next]_vars
    PROVE  [Register!RegisterNext]_(Register!registerVars)
<1>1. CASE UNCHANGED vars
  BY <1>1 DEF vars, tssVars, Register!registerVars, Standing, Keys, Excused, Ended
<1> QED
  BY <1>1, RegisterCalls, RegisterChecks, RegisterUser, RegisterRequest, RegisterKey,
     RegisterWallet, RegisterRespond
  DEF Next, HandlerStep

(* Signups keep the register: an address is claimed once and for good, its *)
(* account is opened with the key made for it, and a signup that ends with *)
(* less has claimed nothing or has its excuse on record (Signup,           *)
(* CreateUser).                                                            *)
THEOREM AccountsRegister == Spec => ImplementsRegister
<1>1. AccountsInv /\ [Next]_vars => [Register!RegisterNext]_(Register!registerVars)
  BY RegisterStep
<1> QED
  BY RegisterInitStep, AccountsInvariant, <1>1, PTL
     DEF Spec, ImplementsRegister, Register!RegisterSpec

-----------------------------------------------------------------------------
(* What the register promises, from the register alone.                    *)

LEMMA RegisterInvInit == Register!RegisterInit => Register!RegisterInv
  BY DEF Register!RegisterInit, Register!RegisterInv, Register!RegisterTypeOK, Register!Promises

LEMMA RegisterInvStep ==
    ASSUME Register!RegisterInv, [Register!RegisterNext]_(Register!registerVars)
    PROVE  Register!RegisterInv' /\ Register!Kept
<1> USE DEF Register!RegisterInv, Register!RegisterTypeOK, Register!Promises, Register!Kept
<1>1. CASE UNCHANGED Register!registerVars
  BY <1>1 DEF Register!registerVars
<1>2. ASSUME NEW s \in Signups, Register!Claim(s)
      PROVE  Register!RegisterInv' /\ Register!Kept
  BY <1>2 DEF Register!Claim, Register!Proceed, Register!Turn, Register!Excuse
<1>3. ASSUME NEW s \in Signups, Register!Open(s)
      PROVE  Register!RegisterInv' /\ Register!Kept
  BY <1>3 DEF Register!Open, Register!Proceed, Register!Turn, Register!Excuse
<1>4. ASSUME NEW s \in Signups, Register!Grant(s)
      PROVE  Register!RegisterInv' /\ Register!Kept
  BY <1>4 DEF Register!Grant, Register!Turn
<1>5. ASSUME NEW s \in Signups, Register!Refuse(s) \/ Register!Fail(s) \/ Register!Befall(s)
      PROVE  Register!RegisterInv' /\ Register!Kept
  BY <1>5 DEF Register!Refuse, Register!Fail, Register!Befall, Register!Turn, Register!Excuse
<1> QED
  BY <1>1, <1>2, <1>3, <1>4, <1>5 DEF Register!RegisterNext

(* A granted share is that of the account's key, an address has one        *)
(* account, and who ends with nothing has claimed nothing or is excused.   *)
THEOREM RegisterPromises == ImplementsRegister => []Register!Promises
<1>1. Register!RegisterInv => Register!Promises
  BY DEF Register!RegisterInv
<1>2. Register!RegisterInv /\ [Register!RegisterNext]_(Register!registerVars)
        => Register!RegisterInv'
  BY RegisterInvStep
<1> QED
  BY RegisterInvInit, <1>1, <1>2, PTL DEF ImplementsRegister, Register!RegisterSpec

(* And no step takes a claim, an account's key, a client's share or an     *)
(* answer back: a signup neither loses its address to a later one nor has  *)
(* its key replaced.                                                       *)
THEOREM RegisterKept == ImplementsRegister => Register!PromisesKept
<1>1. Register!RegisterInv /\ [Register!RegisterNext]_(Register!registerVars)
        => Register!RegisterInv' /\ Register!Kept
  BY RegisterInvStep
<1> QED
  BY RegisterInvInit, <1>1, PTL DEF ImplementsRegister, Register!RegisterSpec, Register!PromisesKept

(* Together: sign-up keeps the register's promises (auth.go, user.go).     *)
THEOREM AccountsPromises == Spec => []Register!Promises /\ Register!PromisesKept
  BY AccountsRegister, RegisterPromises, RegisterKept, PTL

-----------------------------------------------------------------------------
(***************************************************************************)
(* Tokens: TokensInv is inductive, for any number of requests, any token   *)
(* lifetime and any span of time.  A refresh token that was exchanged or   *)
(* refused is accepted again only when another request made the same one.  *)
(*                                                                         *)
(* Two facts carry the argument.  A request signs once, so twins stay      *)
(* twins; and a token that is put into Redis while a client already has it *)
(* was made by two requests, the one that answered and the one that        *)
(* stores.                                                                 *)
(***************************************************************************)
USE TokensTimes, TokensNone

LEMMA TokensInitInv == TokensInit => TokensInv
  BY DEF TokensInit, TokensInv, TokensTypeOK, Seconds, States, SpentIsRefused

(* Storing a token that a client has, or that was spent, makes it a twin.  *)
LEMMA StoredAgainIsTwin ==
    ASSUME TokensInv, NEW r \in Reqs, at[r] = "storing", NEW t \in hands, made[r] = t
    PROVE  Twins(t)
<1>1. PICK q \in Reqs : at[q] = "answered" /\ made[q] = t
  BY DEF TokensInv
<1> QED
  BY <1>1 DEF Twins

(* A step that stores nothing new and signs nothing keeps every twin and   *)
(* accepts no token that was not accepted before.                          *)
LEMMA QuietStep ==
    ASSUME TokensInv, made' = made, now' \in Nat, now' >= now, stored' \in {stored, None},
           NEW t \in Seconds, Accepted(t)'
    PROVE  Accepted(t) /\ Twins(t)' = Twins(t)
  BY DEF TokensInv, TokensTypeOK, Accepted, Expired, Seconds, Twins

LEMMA TickInv == ASSUME TokensInv, Tick PROVE TokensInv'
<1> USE DEF TokensInv, Tick
<1>1. TokensTypeOK'
  BY DEF TokensTypeOK, Seconds
<1>2. \A t \in Seconds : Accepted(t)' => Accepted(t) /\ Twins(t)' = Twins(t)
  BY QuietStep DEF TokensTypeOK, Seconds
<1>3. SpentIsRefused'
  BY <1>2 DEF SpentIsRefused, TokensTypeOK
<1>4. \A r \in Reqs : presented[r] # None => presented[r] \in Seconds
  BY DEF TokensTypeOK
<1> QED
  BY <1>1, <1>2, <1>3, <1>4

LEMMA SignInInv == ASSUME TokensInv, NEW r \in Reqs, SignIn(r) PROVE TokensInv'
<1> USE DEF TokensInv, SignIn
<1>1. TokensTypeOK'
  BY DEF TokensTypeOK, States
<1>2. SpentIsRefused'
  BY DEF SpentIsRefused, Accepted, Expired, Twins
<1>3. \A q \in Reqs \ {r} : at'[q] = at[q]
  BY DEF TokensTypeOK
<1>4. at[r] = "idle" /\ at'[r] = "revoking"
  BY DEF TokensTypeOK
<1> QED
  BY <1>1, <1>2, <1>3, <1>4 DEF Accepted, Expired, Twins

LEMMA VerifyTokenInv ==
    ASSUME TokensInv, NEW r \in Reqs, NEW t \in Seconds, VerifyToken(r, t) \/ VerifyFails(r, t)
    PROVE  TokensInv'
<1> USE DEF TokensInv
<1>1. /\ at[r] = "idle" /\ t \in hands
      /\ presented' = [presented EXCEPT ![r] = t]
      /\ UNCHANGED <<now, stored, made, hands>>
      /\ \/ at' = [at EXCEPT ![r] = "revoking"] /\ spent' = spent
         \/ at' = [at EXCEPT ![r] = "failed"] /\ spent' = spent
         \/ at' = [at EXCEPT ![r] = "failed"] /\ spent' = spent \cup {t} /\ ~Accepted(t)
  BY DEF VerifyToken, VerifyFails
<1>2. TokensTypeOK'
  BY <1>1 DEF TokensTypeOK, States
<1>3. \A u : /\ Accepted(u)' = Accepted(u)
             /\ Twins(u)' = Twins(u)
  BY <1>1 DEF Accepted, Expired, Twins
<1>4. SpentIsRefused'
  BY <1>1, <1>3 DEF SpentIsRefused
<1>5. \A q \in Reqs \ {r} : at'[q] = at[q] /\ presented'[q] = presented[q]
  BY <1>1 DEF TokensTypeOK
<1>6. at'[r] \in {"revoking", "failed"} /\ presented'[r] = t
  BY <1>1 DEF TokensTypeOK
<1>7. \A u \in hands' : \E q \in Reqs : at'[q] = "answered" /\ made'[q] = u
  BY <1>1, <1>5
<1>8. \A q \in Reqs : at'[q] \in {"signing", "storing", "stored", "answered"}
          => at'[q] = at[q] /\ presented'[q] = presented[q]
  BY <1>5, <1>6
<1>9. spent' \subseteq hands'
  BY <1>1
<1>10. \A q \in Reqs : at'[q] \in {"idle", "revoking", "signing"} => made'[q] = None
  BY <1>1, <1>5
<1> QED
  BY <1>1, <1>2, <1>3, <1>4, <1>5, <1>6, <1>7, <1>8, <1>9, <1>10

(* After RevokeToken nothing is accepted, whoever's token it was.          *)
LEMMA RevokeInv ==
    ASSUME TokensInv, NEW r \in Reqs, Revoke(r) \/ RevokeFails(r)
    PROVE  TokensInv'
<1> USE DEF TokensInv
<1>1. /\ at[r] = "revoking"
      /\ UNCHANGED <<now, presented, made, hands, spent>>
      /\ \/ at' = [at EXCEPT ![r] = "signing"] /\ stored' = None
         \/ at' = [at EXCEPT ![r] = "failed"] /\ stored' \in {stored, None}
  BY DEF Revoke, RevokeFails
<1>2. TokensTypeOK'
  BY <1>1 DEF TokensTypeOK, States
<1>3. \A t \in Seconds : Accepted(t)' => Accepted(t) /\ Twins(t)' = Twins(t)
  BY <1>1, QuietStep DEF TokensTypeOK, Seconds
<1>4. SpentIsRefused'
  BY <1>1, <1>3 DEF SpentIsRefused, TokensTypeOK
<1>5. \A q \in Reqs \ {r} : at'[q] = at[q]
  BY <1>1 DEF TokensTypeOK
<1>6. \/ at'[r] = "signing" /\ stored' = None
      \/ at'[r] = "failed"
  BY <1>1 DEF TokensTypeOK
<1>7. \A t \in hands' : \E q \in Reqs : at'[q] = "answered" /\ made'[q] = t
  BY <1>1, <1>5
<1>8. ASSUME NEW q \in Reqs, at'[q] \in {"signing", "storing", "stored"},
             presented'[q] # None, Accepted(presented[q])'
      PROVE  Twins(presented[q])'
  <2>1. presented[q] \in Seconds /\ presented' = presented
    BY <1>1, <1>8 DEF TokensTypeOK
  <2>2. stored' # None
    BY <2>1, <1>8 DEF Accepted, Seconds
  <2>3. q # r
    BY <1>6, <1>8, <2>2
  <2> QED
    BY <1>3, <1>5, <1>8, <2>1, <2>3
<1> QED
  BY <1>1, <1>2, <1>4, <1>5, <1>6, <1>7, <1>8

(* The one step that changes made: what was None becomes this second.      *)
LEMMA SignInv == ASSUME TokensInv, NEW r \in Reqs, Sign(r) PROVE TokensInv'
<1> USE DEF TokensInv, Sign
<1>1. TokensTypeOK'
  BY DEF TokensTypeOK, States
<1>2. \A q \in Reqs \ {r} : at'[q] = at[q] /\ made'[q] = made[q]
  BY DEF TokensTypeOK
<1>3. made[r] = None /\ made'[r] = now /\ at'[r] = "storing" /\ now # None
  BY DEF TokensTypeOK, Seconds
<1>4. \A t \in Seconds : Twins(t) => Twins(t)'
  BY <1>2, <1>3 DEF Twins, Seconds
<1>5. \A t \in Seconds : Accepted(t)' = Accepted(t)
  BY DEF Accepted, Expired
<1>6. SpentIsRefused'
  BY <1>4, <1>5 DEF SpentIsRefused, TokensTypeOK
<1>7. \A t \in hands' : \E q \in Reqs : at'[q] = "answered" /\ made'[q] = t
  BY <1>2
<1>8. \A q \in Reqs : presented[q] # None => presented[q] \in Seconds
  BY DEF TokensTypeOK
<1> QED
  <2>1. \A q \in Reqs : at'[q] \in {"storing", "stored", "answered"} => made'[q] # None
    BY <1>2, <1>3
  <2>2. \A q \in Reqs : at'[q] \in {"idle", "revoking", "signing"} => made'[q] = None
    BY <1>2, <1>3
  <2>3. ASSUME NEW q \in Reqs, at'[q] \in {"signing", "storing", "stored"},
               presented'[q] # None, Accepted(presented[q])'
        PROVE  Twins(presented[q])'
    <3>1. presented[q] \in Seconds /\ presented' = presented /\ Accepted(presented[q])
      BY <1>5, <1>8, <2>3
    <3>2. at[q] \in {"signing", "storing", "stored"}
      BY <1>2, <2>3
    <3> QED
      BY <1>4, <2>3, <3>1, <3>2
  <2> QED
    BY <1>1, <1>6, <1>7, <2>1, <2>2, <2>3

(* What a Set leaves in Redis, whether or not it returned an error.        *)
LEMMA StoreInv ==
    ASSUME TokensInv, NEW r \in Reqs, Store(r) \/ StoreFails(r)
    PROVE  TokensInv'
<1> USE DEF TokensInv
<1>1. /\ at[r] = "storing"
      /\ UNCHANGED <<now, presented, made, hands, spent>>
      /\ stored' \in {stored, made[r]}
      /\ \/ at' = [at EXCEPT ![r] = "stored"]
         \/ at' = [at EXCEPT ![r] = "failed"]
  BY DEF Store, StoreFails, AfterFailedSet
<1>2. TokensTypeOK'
  BY <1>1 DEF TokensTypeOK, States
<1>3. \A t \in hands : Accepted(t)' => Accepted(t) \/ Twins(t)
  BY <1>1, StoredAgainIsTwin DEF Accepted, Expired
<1>4. \A t : Twins(t)' = Twins(t)
  BY <1>1 DEF Twins
<1>5. SpentIsRefused'
  BY <1>1, <1>3, <1>4 DEF SpentIsRefused
<1>6. \A q \in Reqs \ {r} : at'[q] = at[q]
  BY <1>1 DEF TokensTypeOK
<1>7. at'[r] \in {"stored", "failed"}
  BY <1>1 DEF TokensTypeOK
<1>8. \A t \in hands' : \E q \in Reqs : at'[q] = "answered" /\ made'[q] = t
  BY <1>1, <1>6
<1>9. ASSUME NEW q \in Reqs, at'[q] \in {"signing", "storing", "stored"},
             presented'[q] # None, Accepted(presented[q])'
      PROVE  Twins(presented[q])'
  <2>1. presented[q] \in hands /\ presented' = presented
    BY <1>1, <1>9
  <2>2. at[q] \in {"signing", "storing", "stored"}
    BY <1>1, <1>6, <1>9
  <2>3. Accepted(presented[q]) \/ Twins(presented[q])
    BY <1>1, <1>3, <1>9, <2>1 DEF Accepted, Expired
  <2> QED
    BY <1>1, <2>1, <2>2, <2>3 DEF Twins
<1> QED
  BY <1>1, <1>2, <1>4, <1>5, <1>6, <1>7, <1>8, <1>9

(* The exchanged token is spent: Revoke had removed it, so if it is        *)
(* accepted it is a twin.                                                  *)
LEMMA HandOutInv == ASSUME TokensInv, NEW r \in Reqs, HandOut(r) PROVE TokensInv'
<1> USE DEF TokensInv, HandOut
<1>1. TokensTypeOK'
  BY DEF TokensTypeOK, States
<1>2. \A t : /\ Accepted(t)' = Accepted(t)
             /\ Twins(t)' = Twins(t)
  BY DEF Accepted, Expired, Twins
<1>3. presented[r] # None /\ Accepted(presented[r]) => Twins(presented[r])
  OBVIOUS
<1>4. SpentIsRefused'
  BY <1>2, <1>3 DEF SpentIsRefused
<1>5. \A q \in Reqs \ {r} : at'[q] = at[q]
  BY DEF TokensTypeOK
<1>6. at'[r] = "answered" /\ made'[r] = made[r]
  BY DEF TokensTypeOK
<1>7. \A t \in hands' : \E q \in Reqs : at'[q] = "answered" /\ made'[q] = t
  BY <1>5, <1>6
<1>8. spent' \subseteq hands'
  OBVIOUS
<1> QED
  BY <1>1, <1>2, <1>4, <1>5, <1>6, <1>7, <1>8

LEMMA AnswerLostInv == ASSUME TokensInv, NEW r \in Reqs, AnswerLost(r) PROVE TokensInv'
<1> USE DEF TokensInv, AnswerLost
<1>1. TokensTypeOK'
  BY DEF TokensTypeOK, States
<1>2. \A t : /\ Accepted(t)' = Accepted(t)
             /\ Twins(t)' = Twins(t)
  BY DEF Accepted, Expired, Twins
<1>3. SpentIsRefused'
  BY <1>2 DEF SpentIsRefused
<1>4. \A q \in Reqs \ {r} : at'[q] = at[q]
  BY DEF TokensTypeOK
<1>5. at'[r] = "failed"
  BY DEF TokensTypeOK
<1>6. \A t \in hands' : \E q \in Reqs : at'[q] = "answered" /\ made'[q] = t
  BY <1>4
<1> QED
  BY <1>1, <1>2, <1>3, <1>4, <1>5, <1>6

(* Every step of the manager keeps the invariant.                          *)
LEMMA TokensNextInv == TokensInv /\ [TokensNext]_tokensVars => TokensInv'
<1> SUFFICES ASSUME TokensInv, [TokensNext]_tokensVars PROVE TokensInv'
  OBVIOUS
<1>1. CASE UNCHANGED tokensVars
  BY <1>1 DEF tokensVars, TokensInv, TokensTypeOK, SpentIsRefused, Accepted, Expired, Twins
<1>2. CASE TokensNext
  BY <1>2, TickInv, SignInInv, VerifyTokenInv, RevokeInv, SignInv, StoreInv, HandOutInv,
     AnswerLostInv DEF TokensNext
<1> QED
  BY <1>1, <1>2

(* Type correctness of the refresh tokens of a user (pkg/token).           *)
THEOREM TokensTypeCorrect == TokensSpec => []TokensTypeOK
<1>1. TokensInv => TokensTypeOK
  BY DEF TokensInv
<1> QED
  BY TokensInitInv, TokensNextInv, <1>1, PTL DEF TokensSpec

(* GenerateToken and VerifyToken accept no token again that was exchanged  *)
(* or refused, however requests overlap and whichever calls of Redis fail, *)
(* unless two requests made it in one second.                              *)
THEOREM TokensSpentIsRefused == TokensSpec => []SpentIsRefused
<1>1. TokensInv => SpentIsRefused
  BY DEF TokensInv
<1> QED
  BY TokensInitInv, TokensNextInv, <1>1, PTL DEF TokensSpec
=============================================================================
