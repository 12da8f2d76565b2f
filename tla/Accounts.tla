------------------------------ MODULE Accounts ------------------------------
(***************************************************************************)
(* Signing up: AuthService.Signup of src/backend/internal/service/auth.go. *)
(* One request writes a users row, has a key generated by the TSS service, *)
(* writes a wallets row, and hands the client its key share.  There is no  *)
(* transaction around these and nothing takes a step back; the share is in *)
(* the response and nowhere else.                                          *)
(*                                                                         *)
(* A users row and a wallets row are named by the signup that wrote them;  *)
(* a user's id is new, so every key generation has a session of its own.   *)
(***************************************************************************)
EXTENDS TssClient

CONSTANTS Emails, \* addresses to sign up with
          Plans,  \* which address each signup may be for
          Faults  \* see FaultKinds

(*   database  a query fails, or its answer is lost                        *)
(*   tokens    the token pair cannot be made or stored                     *)
(*   gone      the client's page is closed, or does not get the answer     *)
FaultKinds == {"database", "tokens", "gone"}

Signups == Calls

ASSUME AccountsPlans   == Plans \subseteq [Signups -> Emails]
ASSUME AccountsFaults  == Faults \subseteq FaultKinds
ASSUME AccountsSession == \A s, t \in Signups : Session[s] = Session[t] => s = t

VARIABLES
  email,   \* the address of each signup
  pc,      \* where each signup's handler is
  owner,   \* users: the signup that wrote the row of each address
  wallets, \* wallets: the signups that wrote one, for the user they made
  address, \* the key generation whose address is in that row
  held,    \* the key share each client has been given
  trouble  \* history: the faults each signup has met

vars == <<tssVars, email, pc, owner, wallets, address, held, trouble>>

AccountsTypeOK ==
    /\ CallTypeOK
    /\ email   \in [Signups -> Emails]
    /\ pc      \in [Signups -> {"idle", "free", "clear", "user", "keygen", "keyed",
                                "wallet", "granted", "ok", "error"}]
    /\ owner   \in [Emails -> Signups \cup {NoCall}]
    /\ wallets \subseteq Signups
    /\ address \in [Signups -> Signups \cup {NoCall}]
    /\ held    \in [Signups -> Signups \cup {NoCall}]
    /\ trouble \in [Signups -> SUBSET FaultKinds]

Init ==
    /\ CallInit
    /\ email   \in Plans
    /\ pc      = [s \in Signups |-> "idle"]
    /\ owner   = [e \in Emails |-> NoCall]
    /\ wallets = {}
    /\ address = [s \in Signups |-> NoCall]
    /\ held    = [s \in Signups |-> NoCall]
    /\ trouble = [s \in Signups |-> {}]

Go(s, from, to) == pc[s] = from /\ pc' = [pc EXCEPT ![s] = to]

Suffer(s, t) == /\ t \in Faults
                /\ trouble' = [trouble EXCEPT ![s] = @ \cup {t}]

Active(s) == pc[s] \notin {"idle", "ok", "error"}
Ended(s)  == pc[s] \in {"ok", "error"}

(* The request's context is cancelled: what asks for it fails.             *)
Gone(s) == "gone" \in trouble[s]

Taken(s) == owner[email[s]] # NoCall

-----------------------------------------------------------------------------
(* Signup refuses an address it finds.  Every error of the query counts as *)
(* not found.                                                              *)
CheckEmail(s) ==
    /\ \/ Go(s, "idle", IF Taken(s) THEN "error" ELSE "free") /\ UNCHANGED trouble
       \/ Go(s, "idle", "free") /\ Suffer(s, "database")
    /\ UNCHANGED <<tssVars, email, owner, wallets, address, held>>

(* CreateUser looks again, after the password has been hashed; here only   *)
(* "no rows" is not found.                                                 *)
CheckAgain(s) ==
    /\ ~Gone(s)
    /\ \/ Go(s, "free", IF Taken(s) THEN "error" ELSE "clear") /\ UNCHANGED trouble
       \/ Go(s, "free", "error") /\ Suffer(s, "database")
    /\ UNCHANGED <<tssVars, email, owner, wallets, address, held>>

(* Mutant of InsertUser: users.email is not UNIQUE.                        *)
InsertUserAnyway(s) ==
    /\ ~Gone(s)
    /\ Go(s, "clear", "user")
    /\ owner' = [owner EXCEPT ![email[s]] = s]
    /\ UNCHANGED <<tssVars, email, wallets, address, held, trouble>>

(* The row is written unless the address has one by now; an error may come *)
(* back for a row that was written.                                        *)
InsertUser(s) ==
    /\ ~Gone(s)
    /\ \/ /\ ~Taken(s)
          /\ owner' = [owner EXCEPT ![email[s]] = s]
          /\ \/ Go(s, "clear", "user") /\ UNCHANGED trouble
             \/ Go(s, "clear", "error") /\ Suffer(s, "database")
       \/ Taken(s) /\ Go(s, "clear", "error") /\ UNCHANGED <<owner, trouble>>
       \/ Go(s, "clear", "error") /\ Suffer(s, "database") /\ UNCHANGED owner
    /\ UNCHANGED <<tssVars, email, wallets, address, held>>

(* tssClient.CreateWallet is called with the new user's id.                *)
RequestKey(s) ==
    /\ ~Gone(s)
    /\ \/ Go(s, "user", "keygen") /\ Notify(s)
       \/ Go(s, "user", "error") /\ NotifyFails(s)
    /\ UNCHANGED <<email, owner, wallets, address, held, trouble>>

KeyFails(s) ==
    /\ call[s] = "failed"
    /\ Go(s, "keygen", "error")
    /\ UNCHANGED <<tssVars, email, owner, wallets, address, held, trouble>>

KeyAnswered(s) ==
    /\ call[s] = "answered"
    /\ Go(s, "keygen", "keyed")
    /\ UNCHANGED <<tssVars, email, owner, wallets, address, held, trouble>>

InsertWallet(s) ==
    /\ ~Gone(s)
    /\ \/ /\ wallets' = wallets \cup {s}
          /\ address' = [address EXCEPT ![s] = heard[s]]
          /\ \/ Go(s, "keyed", "wallet") /\ UNCHANGED trouble
             \/ Go(s, "keyed", "error") /\ Suffer(s, "database")
       \/ Go(s, "keyed", "error") /\ Suffer(s, "database") /\ UNCHANGED <<wallets, address>>
    /\ UNCHANGED <<tssVars, email, owner, held>>

GenerateTokenPair(s) ==
    /\ ~Gone(s)
    /\ \/ Go(s, "wallet", "granted") /\ UNCHANGED trouble
       \/ Go(s, "wallet", "error") /\ Suffer(s, "tokens")
    /\ UNCHANGED <<tssVars, email, owner, wallets, address, held>>

(* Mutant of Respond: shareData is left out, as GoogleOauth leaves it.     *)
RespondWithoutShare(s) ==
    /\ Go(s, "granted", "ok")
    /\ UNCHANGED <<tssVars, email, owner, wallets, address, held, trouble>>

(* The response carries the share to a client that is still there.         *)
Respond(s) ==
    /\ Go(s, "granted", "ok")
    /\ held' = IF Gone(s) THEN held ELSE [held EXCEPT ![s] = heard[s]]
    /\ UNCHANGED <<tssVars, email, owner, wallets, address, trouble>>

(* The client closes the connection.                                       *)
GiveUp(s) ==
    /\ Active(s) /\ ~Gone(s)
    /\ Suffer(s, "gone")
    /\ UNCHANGED <<tssVars, email, pc, owner, wallets, address, held>>

(* The next call that is given the cancelled context returns its error.    *)
Cancelled(s) ==
    /\ Gone(s)
    /\ \E stage \in {"free", "clear", "user", "keyed", "wallet"} : Go(s, stage, "error")
    /\ UNCHANGED <<tssVars, email, owner, wallets, address, held, trouble>>

-----------------------------------------------------------------------------
HandlerStep(s) ==
    \/ CheckAgain(s)
    \/ InsertUser(s)
    \/ RequestKey(s)
    \/ KeyFails(s)
    \/ KeyAnswered(s)
    \/ InsertWallet(s)
    \/ GenerateTokenPair(s)
    \/ Respond(s)
    \/ Cancelled(s)

TssStep(s) ==
    /\ CallStep(s) \/ ServiceStep(s)
    /\ UNCHANGED <<email, pc, owner, wallets, address, held, trouble>>

Next == \E s \in Signups :
    \/ CheckEmail(s)
    \/ HandlerStep(s)
    \/ GiveUp(s)
    \/ TssStep(s)

(* A handler that was started runs to its end.                             *)
Fairness ==
    /\ CallFairness
    /\ \A s \in Signups : WF_vars(HandlerStep(s))

Spec == Init /\ [][Next]_vars
FairSpec == Spec /\ Fairness

-----------------------------------------------------------------------------
(* Login finds the user's row and then the user's wallet.                  *)
CanLogin(e) == owner[e] # NoCall /\ owner[e] \in wallets

(* The share a client was given is that of its own key generation, and the *)
(* account it signed up for is the one that has this key's address.        *)
HeldShareFits ==
    \A s \in Signups : held[s] # NoCall =>
        /\ held[s] = s /\ address[s] = s
        /\ owner[email[s]] = s /\ CanLogin(email[s])

(* However signups for one address interleave, one client at most is given *)
(* a share for it, and the address has the wallet of one user at most.     *)
OneAccountPerEmail ==
    \A s, t \in Signups : s # t /\ email[s] = email[t] =>
        /\ held[s] = NoCall \/ held[t] = NoCall
        /\ ~(s \in wallets /\ t \in wallets)

(* A signup that has ended has made an account its client can use, or has  *)
(* made nothing, unless one of the recorded failures came in between.      *)
AllOrNothing ==
    \A s \in Signups : Ended(s) =>
        \/ held[s] = s /\ CanLogin(email[s])
        \/ owner[email[s]] # s /\ s \notin wallets /\ ceremony[s] = "none"
        \/ trouble[s] # {} \/ mishaps[s] # {}

(* What a signup's client sees of all this.                                *)
Standing == [s \in Signups |-> IF Ended(s) THEN pc[s] ELSE "open"]

Keys == [s \in Signups |-> IF s \in wallets THEN address[s] ELSE NoCall]

Excused == {s \in Signups : trouble[s] # {} \/ mishaps[s] # {}}

Register == INSTANCE AccountRegister WITH
    Nobody <- NoCall, standing <- Standing, key <- Keys, share <- held, excused <- Excused

(* Signups, interleaved and failing as they may, keep the register: an     *)
(* address is claimed once and for good, its account is opened once with   *)
(* the key made for it, and only that key's share is granted (Signup,      *)
(* CreateUser).                                                            *)
ImplementsRegister == Register!RegisterSpec

(* Every signup ends, also when the key it waits for never comes: that     *)
(* wait has a deadline.  The calls to the database have none of their own; *)
(* they are taken to return, an error or not (Signup, CreateUser).         *)
SignupsEnd == \A s \in Signups : Active(s) ~> Ended(s)
=============================================================================
