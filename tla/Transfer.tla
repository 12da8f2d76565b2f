------------------------------ MODULE Transfer ------------------------------
(***************************************************************************)
(* One user's transfers: CreateAndSubmitTransaction of                     *)
(* src/backend/internal/service/transaction.go, from the balance check to  *)
(* the record in the database, over the TSS client and the Ethereum node.  *)
(* Every request reads the nonce, then has the transaction signed (which   *)
(* takes seconds), then sends it: nothing keeps two requests of a user     *)
(* apart in between.                                                       *)
(*                                                                         *)
(* The node is external: a set of accepted transactions with at most one   *)
(* per nonce, replaced only at a higher gas price, and mined in the order  *)
(* of their nonces.  A transaction is named by the request that built it.  *)
(***************************************************************************)
EXTENDS TssClient, FiniteSetsExt

CONSTANTS Payments,   \* what the user means to pay
          Plans,      \* which payment each request may be for
          Amount,     \* of each payment
          GasPrices,  \* what SuggestGasPrice may return
          Funds,      \* the wallet's balance
          Faults      \* see FaultKinds

(*   read     the database or the node fails before the signature          *)
(*   send     the node is not reached, or its answer is lost               *)
(*   record   the database fails on the record                             *)
(*   evict    the node forgets a transaction it had accepted               *)
(*   gone     the client times out, or does not get the answer             *)
FaultKinds == {"read", "send", "record", "evict", "gone"}

ASSUME TransferPlans   == Plans \subseteq [Calls -> Payments]
ASSUME TransferAmount  == Amount \in [Payments -> Nat]
ASSUME TransferGas     == GasPrices \subseteq Nat
ASSUME TransferFunds   == Funds \in Nat
ASSUME TransferFaults  == Faults \subseteq FaultKinds

Requests == Calls

VARIABLES
  payment,  \* the payment each request is to make
  pc,       \* where each request's handler is
  tx,       \* the transaction each request built
  pool,     \* accepted by the node and not yet mined
  mined,    \* in the chain
  recorded, \* in the transactions table
  trouble   \* history: what has gone wrong for each request, see Troubles

chain == <<pool, mined>>
vars  == <<tssVars, payment, pc, tx, chain, recorded, trouble>>

(*   concurrent  another handler of the user was active at the same time   *)
(*   unmade      a read failed, or the balance did not cover it            *)
(*   unsure      the node's or the database's answer was lost              *)
(*   evict, gone   as in FaultKinds                                        *)
(*   again       the payment was sent twice with no error in between       *)
Troubles == {"concurrent", "unmade", "unsure", "evict", "gone", "again"}

NoTx == [nonce |-> -1, price |-> 0]
Txs  == [nonce : 0..(Cardinality(Requests) - 1), price : GasPrices]

TransferTypeOK ==
    /\ CallTypeOK
    /\ payment  \in [Requests -> Payments]
    /\ pc       \in [Requests -> {"idle", "checked", "built", "signing", "signed",
                                  "sent", "ok", "error"}]
    /\ tx       \in [Requests -> Txs \cup {NoTx}]
    /\ pool     \subseteq Requests
    /\ mined    \subseteq Requests
    /\ recorded \subseteq Requests
    /\ trouble  \in [Requests -> SUBSET Troubles]

Init ==
    /\ CallInit
    /\ payment  \in Plans
    /\ pc       = [r \in Requests |-> "idle"]
    /\ tx       = [r \in Requests |-> NoTx]
    /\ pool     = {}
    /\ mined    = {}
    /\ recorded = {}
    /\ trouble  = [r \in Requests |-> {}]

Go(r, from, to) == pc[r] = from /\ pc' = [pc EXCEPT ![r] = to]

Active(r) == pc[r] \notin {"idle", "ok", "error"}

(* The request's context is cancelled: what asks for it fails.             *)
Gone(r) == "gone" \in trouble[r]

Suffer(r, t) == trouble' = [trouble EXCEPT ![r] = @ \cup {t}]

-----------------------------------------------------------------------------
(* The node.                                                               *)

Cost(r) == Amount[payment[r]] + tx[r].price

Balance == Funds - MapThenSumSet(Cost, mined)

SameNonce(r) == {q \in pool : tx[q].nonce = tx[r].nonce}

(* Mutant of PendingNonce: the nonce of the latest block is asked for.     *)
LatestNonce == Cardinality(mined)

(* Mutant of PendingNonce: the backend adds its own active requests.       *)
PendingAndActive ==
    Cardinality(mined \cup pool) + Cardinality({q \in Requests : Active(q)})

(* PendingNonceAt: the first nonce neither mined nor taken in the pool.    *)
PendingNonce ==
    Min({n \in Cardinality(mined)..Cardinality(Requests) : \A q \in pool : tx[q].nonce # n})

Fresh(r) == /\ tx[r].nonce >= Cardinality(mined)
            /\ \A q \in SameNonce(r) : tx[q].price < tx[r].price

Covered(r) == MapThenSumSet(Cost, (pool \ SameNonce(r)) \cup {r}) <= Balance

Accept(r) == /\ Fresh(r) /\ Covered(r)
             /\ pool' = (pool \ SameNonce(r)) \cup {r}

Mine(r) ==
    /\ r \in pool /\ tx[r].nonce = Cardinality(mined)
    /\ pool' = pool \ {r}
    /\ mined' = mined \cup {r}
    /\ UNCHANGED <<tssVars, payment, pc, tx, recorded, trouble>>

Evict(r) ==
    /\ "evict" \in Faults
    /\ r \in pool
    /\ pool' = pool \ {r}
    /\ Suffer(r, "evict")
    /\ UNCHANGED <<tssVars, payment, pc, tx, mined, recorded>>

-----------------------------------------------------------------------------
(* The handler.                                                            *)

(* What a second request for the payment meets.  The dialog covers its     *)
(* input while a payment is loading, which keeps the mouse away and not    *)
(* the keyboard, and this backend's answer of success leaves it open.      *)
Unfailed(r) ==
    {q \in Requests \ {r} : payment[q] = payment[r] /\ pc[q] \notin {"idle", "error"}}

Submitted(r, t) ==
    LET of(q, kind, others) ==
            IF others # {} /\ q \in others \cup {r} THEN {kind} ELSE {}
    IN  trouble' = [q \in Requests |->
            trouble[q] \cup of(q, "concurrent", {p \in Requests : Active(p)})
                       \cup of(q, "again", Unfailed(r))
                       \cup (IF q = r THEN t ELSE {})]

(* IsEnoughBalance: the amount, without gas, against the latest block.     *)
CheckBalance(r) ==
    /\ \/ /\ Balance >= Amount[payment[r]]
          /\ Go(r, "idle", "checked")
          /\ Submitted(r, {})
       \/ /\ Balance < Amount[payment[r]]
          /\ Go(r, "idle", "error")
          /\ Submitted(r, {"unmade"})
    /\ UNCHANGED <<tssVars, payment, tx, chain, recorded>>

(* CreateTransaction: the nonce and the gas price of this moment.          *)
CreateTransaction(r) ==
    /\ ~Gone(r)
    /\ Go(r, "checked", "built")
    /\ \E g \in GasPrices : tx' = [tx EXCEPT ![r] = [nonce |-> PendingNonce, price |-> g]]
    /\ UNCHANGED <<tssVars, payment, chain, recorded, trouble>>

(* One of the reads before the signature fails.                            *)
ReadFails(r) ==
    /\ "read" \in Faults
    /\ Go(r, "checked", "error")
    /\ Suffer(r, "unmade")
    /\ UNCHANGED <<tssVars, payment, tx, chain, recorded>>

(* tssClient.Sign is called with the transaction's hash.                   *)
RequestSignature(r) ==
    /\ ~Gone(r)
    /\ \/ Go(r, "built", "signing") /\ Notify(r)
       \/ Go(r, "built", "error") /\ NotifyFails(r)
    /\ UNCHANGED <<payment, tx, chain, recorded, trouble>>

SigningFails(r) ==
    /\ call[r] = "failed"
    /\ Go(r, "signing", "error")
    /\ UNCHANGED <<tssVars, payment, tx, chain, recorded, trouble>>

(* Mutant of Recovers: the recovered address is not compared.              *)
RecoversAny(r) == heard[r] \in Requests

(* A recovery id makes the wallet's address of the signature and the hash: *)
(* the ceremony that was heard signed the very transaction.                *)
Recovers(r) == /\ tx[heard[r]] = tx[r]
               /\ payment[heard[r]] = payment[r]

(* ConvertDERToEthSignature, WithSignature.                                *)
ConvertSignature(r) ==
    /\ call[r] = "answered"
    /\ Go(r, "signing", IF Recovers(r) THEN "signed" ELSE "error")
    /\ UNCHANGED <<tssVars, payment, tx, chain, recorded, trouble>>

SendTransaction(r) ==
    /\ ~Gone(r)
    /\ \/ Go(r, "signed", "sent") /\ Accept(r) /\ UNCHANGED trouble
       \/ Go(r, "signed", "error") /\ ~Fresh(r) /\ UNCHANGED <<pool, trouble>>
       \/ Go(r, "signed", "error") /\ ~Covered(r) /\ Suffer(r, "unmade") /\ UNCHANGED pool
    /\ UNCHANGED <<tssVars, payment, tx, mined, recorded>>

(* Mutant of SendFails: a lost answer is asked for again.                  *)
SendAgain(r) ==
    /\ "send" \in Faults
    /\ Go(r, "signed", "signed")
    /\ Accept(r) \/ UNCHANGED pool
    /\ Suffer(r, "unsure")
    /\ UNCHANGED <<tssVars, payment, tx, mined, recorded>>

(* The node is not reached, or has accepted and its answer is lost, or the *)
(* request's context ends in between.                                      *)
SendFails(r) ==
    /\ "send" \in Faults
    /\ Go(r, "signed", "error")
    /\ Accept(r) \/ UNCHANGED pool
    /\ Suffer(r, "unsure")
    /\ UNCHANGED <<tssVars, payment, tx, mined, recorded>>

(* Mutant of CreateRecord: the context is looked at once more.             *)
RecordOrExpire(r) ==
    /\ \/ Go(r, "sent", "ok") /\ recorded' = recorded \cup {r}
       \/ Go(r, "sent", "error") /\ UNCHANGED recorded
    /\ UNCHANGED <<tssVars, payment, tx, chain, trouble>>

CreateRecord(r) ==
    /\ ~Gone(r)
    /\ Go(r, "sent", "ok")
    /\ recorded' = recorded \cup {r}
    /\ UNCHANGED <<tssVars, payment, tx, chain, trouble>>

(* The insert fails, or is done and its answer lost: the request fails     *)
(* with the transaction in the node's hands.                               *)
RecordFails(r) ==
    /\ "record" \in Faults
    /\ Go(r, "sent", "error")
    /\ recorded' = recorded \cup {r} \/ UNCHANGED recorded
    /\ Suffer(r, "unsure")
    /\ UNCHANGED <<tssVars, payment, tx, chain>>

(* The client closes the connection: its 10 s are over, or it is lost with *)
(* the answer under way.                                                   *)
GiveUp(r) ==
    /\ "gone" \in Faults
    /\ (Active(r) \/ pc[r] = "ok") /\ ~Gone(r)
    /\ Suffer(r, "gone")
    /\ UNCHANGED <<tssVars, payment, pc, tx, chain, recorded>>

(* The next call that is given the cancelled context returns its error.    *)
Cancelled(r) ==
    /\ Gone(r)
    /\ \E stage \in {"checked", "built", "signed", "sent"} : Go(r, stage, "error")
    /\ UNCHANGED <<tssVars, payment, tx, chain, recorded, trouble>>

-----------------------------------------------------------------------------
HandlerStep(r) ==
    \/ CreateTransaction(r)
    \/ RequestSignature(r)
    \/ SigningFails(r)
    \/ ConvertSignature(r)
    \/ SendTransaction(r)
    \/ CreateRecord(r)
    \/ Cancelled(r)

TssStep(r) ==
    /\ CallStep(r) \/ ServiceStep(r)
    /\ UNCHANGED <<payment, pc, tx, chain, recorded, trouble>>

Next == \E r \in Requests :
    \/ CheckBalance(r)
    \/ HandlerStep(r)
    \/ ReadFails(r)
    \/ SendFails(r)
    \/ RecordFails(r)
    \/ GiveUp(r)
    \/ TssStep(r)
    \/ Mine(r)
    \/ Evict(r)

(* A handler that was started runs, and a transaction that can be mined is. *)
Fairness ==
    /\ CallFairness
    /\ \A r \in Requests : WF_vars(HandlerStep(r))
    /\ WF_vars(\E r \in Requests : Mine(r))

Spec == Init /\ [][Next]_vars
FairSpec == Spec /\ Fairness

-----------------------------------------------------------------------------
(* What the node accepts under a request's name was signed in a ceremony   *)
(* the service completed, over that very transaction, whichever request of *)
(* the user had asked for it.                                              *)
AcceptedIsSigned ==
    \A r \in pool \cup mined :
        \E d \in Requests : /\ ceremony[d] = "published"
                            /\ tx[d] = tx[r] /\ payment[d] = payment[r]

(* After these a client cannot tell from an error that nothing was spent.  *)
Unsure == {"unsure", "gone"}

(* A request that ended in an error has not spent anything, unless the     *)
(* node's answer, the record or the client was lost after the node had     *)
(* accepted.                                                               *)
ErrorMeansUnpaid ==
    \A r \in Requests : pc[r] = "error" /\ r \in pool \cup mined
        => trouble[r] \cap Unsure # {}

(* A payment the user tries again after an error is made twice only then:  *)
(* CreateAndSubmitTransaction has no key that would tell the two apart.    *)
PaidOnce ==
    \A q, r \in mined : q # r /\ payment[q] = payment[r]
        => (trouble[q] \cup trouble[r]) \cap (Unsure \cup {"again"}) # {}

(* A request that was answered with success is, or will be, in the chain,  *)
(* unless the node forgot it or a concurrent request of the user, given    *)
(* the same nonce and a higher gas price, replaced it.                     *)
OkIsPaid ==
    \A r \in Requests : pc[r] = "ok" /\ r \notin pool \cup mined
        => trouble[r] \cap {"concurrent", "evict"} # {}

(* What the user sees of all this: a request is open until the node has    *)
(* the transaction, and the ledger's records are what trouble says.        *)
Shown(stage) ==
    CASE stage = "idle" -> "new"
      [] stage = "sent" -> "handed"
      [] stage \in {"ok", "error"} -> stage
      [] OTHER -> "open"

LedgerStatus == [r \in Requests |-> Shown(pc[r])]

With(t) == {r \in Requests : t \in trouble[r]}

InDoubt == {r \in Requests : trouble[r] \cap Unsure # {}}

Ledger == INSTANCE PaymentLedger WITH
    status <- LedgerStatus, node <- pool, chain <- mined, doubt <- InDoubt,
    crossed <- With("concurrent"), repeated <- With("again"), forgotten <- With("evict")

(* The handlers, the service and the node keep the ledger: a request is    *)
(* handed over at most once, before it is answered, and what an answer and *)
(* the node may disagree on is on record (CreateAndSubmitTransaction).     *)
ImplementsLedger == Ledger!LedgerSpec

(* Every request ends, also when the result it waits for never comes or    *)
(* another request takes it: that wait has a deadline.  The calls to the   *)
(* node and the database have none of their own; they are taken to return, *)
(* an error or not (CreateAndSubmitTransaction).                           *)
RequestsEnd == \A r \in Requests : Active(r) ~> pc[r] \in {"ok", "error"}

(* A request on its own, to which nothing happened, ends in the chain.     *)
LoneRequestsPaid ==
    \A r \in Requests : Active(r) ~>
        \/ pc[r] = "ok" /\ r \in mined
        \/ trouble[r] \ {"again"} # {} \/ mishaps[r] # {}
        \/ \E q \in Requests : "evict" \in trouble[q]
=============================================================================
