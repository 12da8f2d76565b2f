-------------------------- MODULE AccountRegister --------------------------
(***************************************************************************)
(* What signing up is, to those who sign up: an address is claimed by one  *)
(* signup for good, the account is opened with a key made for it, and the  *)
(* client is granted the share of that key.  A signup that ends without    *)
(* all of this has claimed nothing, or has its excuse on record.           *)
(***************************************************************************)
CONSTANTS Signups, Emails, Nobody

VARIABLES
  email,    \* the address of each signup
  standing, \* open, or answered: ok, error
  owner,    \* the signup that claimed each address
  key,      \* the key each signup's account was opened with
  share,    \* the key whose share each client has been granted
  excused   \* signups to which something happened

registerVars == <<email, standing, owner, key, share, excused>>

RegisterTypeOK ==
    /\ email    \in [Signups -> Emails]
    /\ standing \in [Signups -> {"open", "ok", "error"}]
    /\ owner    \in [Emails -> Signups \cup {Nobody}]
    /\ key      \in [Signups -> Signups \cup {Nobody}]
    /\ share    \in [Signups -> Signups \cup {Nobody}]
    /\ excused  \subseteq Signups

RegisterInit ==
    /\ email    \in [Signups -> Emails]
    /\ standing = [s \in Signups |-> "open"]
    /\ owner    = [e \in Emails |-> Nobody]
    /\ key      = [s \in Signups |-> Nobody]
    /\ share    = [s \in Signups |-> Nobody]
    /\ excused  = {}

Turn(s, to) == standing[s] = "open" /\ standing' = [standing EXCEPT ![s] = to]

Excuse(s) == excused' = excused \cup {s}

(* s goes on, or ends here although what it did is done.                   *)
Proceed(s) ==
    \/ standing[s] = "open" /\ UNCHANGED <<standing, excused>>
    \/ Turn(s, "error") /\ Excuse(s)

Claim(s) ==
    /\ owner[email[s]] = Nobody
    /\ owner' = [owner EXCEPT ![email[s]] = s]
    /\ Proceed(s)
    /\ UNCHANGED <<email, key, share>>

Open(s) ==
    /\ owner[email[s]] = s /\ key[s] = Nobody
    /\ key' = [key EXCEPT ![s] = s]
    /\ Proceed(s)
    /\ UNCHANGED <<email, owner, share>>

(* The client is answered, with the share unless it is no longer there.    *)
Grant(s) ==
    /\ key[s] # Nobody
    /\ Turn(s, "ok")
    /\ \/ share' = [share EXCEPT ![s] = key[s]]
       \/ s \in excused /\ UNCHANGED share
    /\ UNCHANGED <<email, owner, key, excused>>

(* The address is not this signup's.                                       *)
Refuse(s) ==
    /\ owner[email[s]] # s
    /\ Turn(s, "error")
    /\ UNCHANGED <<email, owner, key, share, excused>>

Fail(s) ==
    /\ Turn(s, "error") /\ Excuse(s)
    /\ UNCHANGED <<email, owner, key, share>>

Befall(s) ==
    /\ Excuse(s)
    /\ UNCHANGED <<email, standing, owner, key, share>>

RegisterNext == \E s \in Signups :
    \/ Claim(s) \/ Open(s) \/ Grant(s)
    \/ Refuse(s) \/ Fail(s) \/ Befall(s)

RegisterSpec == RegisterInit /\ [][RegisterNext]_registerVars

-----------------------------------------------------------------------------
(* The register's promises.  A share that was granted is that of the key   *)
(* the account has, and the account is at the client's own address; two    *)
(* signups for one address are never both opened; and a signup that ended  *)
(* with neither a share nor an excuse has claimed nothing.                 *)
Promises ==
    /\ \A s \in Signups : share[s] # Nobody =>
         share[s] = key[s] /\ owner[email[s]] = s /\ standing[s] = "ok"
    /\ \A s, t \in Signups : email[s] = email[t] /\ key[s] # Nobody /\ key[t] # Nobody => s = t
    /\ \A s \in Signups : standing[s] # "open" =>
         share[s] # Nobody \/ owner[email[s]] # s \/ s \in excused

(* What makes them inductive.                                              *)
RegisterInv ==
    /\ RegisterTypeOK
    /\ \A s \in Signups : key[s] # Nobody => key[s] = s /\ owner[email[s]] = s
    /\ Promises

(* What no step takes back: a claim, an account's key, a client's share    *)
(* and an answer.                                                          *)
Kept ==
    /\ \A e \in Emails : owner[e] # Nobody => owner'[e] = owner[e]
    /\ \A s \in Signups :
         /\ key[s] # Nobody => key'[s] = key[s]
         /\ share[s] # Nobody => share'[s] = share[s]
         /\ standing[s] # "open" => standing'[s] = standing[s]

PromisesKept == [][Kept]_registerVars
=============================================================================
