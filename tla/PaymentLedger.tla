--------------------------- MODULE PaymentLedger ---------------------------
(***************************************************************************)
(* What a user is promised of transfers, with nothing of nonces, gas and   *)
(* ceremonies: a request is open until it is handed to the node, which     *)
(* happens once, and is then answered for good.  What the answer says and  *)
(* what the node has may differ only for requests that are on record: in   *)
(* doubt, crossed by another one, or forgotten by the node.                *)
(***************************************************************************)
EXTENDS FiniteSets

CONSTANTS Requests, Payments

VARIABLES
  payment,   \* what each request is to pay
  status,    \* new, open, handed to the node, or answered: ok, error
  node,      \* what the node has and has not settled
  chain,     \* what is settled
  doubt,     \* requests of which an answer was lost on the way to the client
  crossed,   \* requests that were open beside another
  repeated,  \* requests for a payment another had been made for, unfailed
  forgotten  \* requests the node has forgotten

ledgerVars == <<payment, status, node, chain, doubt, crossed, repeated, forgotten>>

LedgerTypeOK ==
    /\ payment   \in [Requests -> Payments]
    /\ status    \in [Requests -> {"new", "open", "handed", "ok", "error"}]
    /\ node      \subseteq Requests
    /\ chain     \subseteq Requests
    /\ doubt     \subseteq Requests
    /\ crossed   \subseteq Requests
    /\ repeated  \subseteq Requests
    /\ forgotten \subseteq Requests

LedgerInit ==
    /\ payment \in [Requests -> Payments]
    /\ status  = [r \in Requests |-> "new"]
    /\ node = {} /\ chain = {}
    /\ doubt = {} /\ crossed = {} /\ repeated = {} /\ forgotten = {}

Turn(r, from, to) == status[r] = from /\ status' = [status EXCEPT ![r] = to]

(* Those of S, and r, have met: if there are any.                          *)
Meeting(r, S) == IF S = {} THEN {} ELSE S \cup {r}

Unanswered == {q \in Requests : status[q] \in {"open", "handed"}}

Unfailed(r) == {q \in Requests \ {r} : payment[q] = payment[r] /\ status[q] \notin {"new", "error"}}

(* A request is made, and may be refused at once.                          *)
Ask(r) ==
    /\ Turn(r, "new", "open") \/ Turn(r, "new", "error")
    /\ crossed'  = crossed \cup Meeting(r, Unanswered)
    /\ repeated' = repeated \cup Meeting(r, Unfailed(r))
    /\ UNCHANGED <<payment, node, chain, doubt, forgotten>>

(* The node has r now, perhaps in the place of requests that were crossed. *)
Takes(r) ==
    /\ r \in node' /\ node' \subseteq node \cup {r}
    /\ node \ node' \subseteq crossed

Hand(r) ==
    /\ Turn(r, "open", "handed")
    /\ Takes(r)
    /\ UNCHANGED <<payment, chain, doubt, crossed, repeated, forgotten>>

(* Nobody knows whether the node has it.                                   *)
HandInDoubt(r) ==
    /\ Turn(r, "open", "error")
    /\ Takes(r) \/ UNCHANGED node
    /\ doubt' = doubt \cup {r}
    /\ UNCHANGED <<payment, chain, crossed, repeated, forgotten>>

(* It fails, and the node has not heard of it.                             *)
Fail(r) ==
    /\ Turn(r, "open", "error")
    /\ UNCHANGED <<payment, node, chain, doubt, crossed, repeated, forgotten>>

(* It fails although it was handed over.                                   *)
FailHanded(r) ==
    /\ Turn(r, "handed", "error")
    /\ doubt' = doubt \cup {r}
    /\ UNCHANGED <<payment, node, chain, crossed, repeated, forgotten>>

Confirm(r) ==
    /\ Turn(r, "handed", "ok")
    /\ UNCHANGED <<payment, node, chain, doubt, crossed, repeated, forgotten>>

(* The client is gone, or will not get the answer.                         *)
Desert(r) ==
    /\ status[r] \in {"open", "handed", "ok"}
    /\ doubt' = doubt \cup {r}
    /\ UNCHANGED <<payment, status, node, chain, crossed, repeated, forgotten>>

Settle(r) ==
    /\ r \in node
    /\ node' = node \ {r} /\ chain' = chain \cup {r}
    /\ UNCHANGED <<payment, status, doubt, crossed, repeated, forgotten>>

Forget(r) ==
    /\ r \in node
    /\ node' = node \ {r} /\ forgotten' = forgotten \cup {r}
    /\ UNCHANGED <<payment, status, chain, doubt, crossed, repeated>>

LedgerNext == \E r \in Requests :
    \/ Ask(r)
    \/ Hand(r) \/ HandInDoubt(r) \/ Fail(r)
    \/ Confirm(r) \/ FailHanded(r) \/ Desert(r)
    \/ Settle(r) \/ Forget(r)

LedgerSpec == LedgerInit /\ [][LedgerNext]_ledgerVars

-----------------------------------------------------------------------------

(* The ledger's promises.  An error means that nothing is or will be paid, *)
(* unless the request is in doubt; a success, that it is or will be paid,  *)
(* unless it was crossed or forgotten; and a payment is settled once,      *)
(* unless a request for it is in doubt or was repeated.                    *)
Promises ==
    /\ \A r \in Requests : status[r] = "error" /\ r \in node \cup chain => r \in doubt
    /\ \A r \in Requests : status[r] = "ok" /\ r \notin node \cup chain
                             => r \in crossed \cup forgotten
    /\ \A q, r \in chain : q # r /\ payment[q] = payment[r]
                             => {q, r} \cap (doubt \cup repeated) # {}

(* What makes them inductive.                                              *)
LedgerInv ==
    /\ LedgerTypeOK
    /\ \A r \in Requests : status[r] \in {"new", "open"} => r \notin node \cup chain
    /\ \A r \in Requests : status[r] \in {"handed", "ok"} /\ r \notin node \cup chain
                             => r \in crossed \cup forgotten
    /\ \A q, r \in Requests : /\ q # r /\ payment[q] = payment[r]
                              /\ status[q] \notin {"new", "error"}
                              /\ status[r] \notin {"new", "error"}
                              => r \in repeated
    /\ Promises
=============================================================================
