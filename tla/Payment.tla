------------------------------- MODULE Payment -------------------------------
(***************************************************************************)
(* Paying a bill at the client: the payment page (pages/payment), its      *)
(* drawer of vouchers and its drawer for the security code                 *)
(* (components/payment).                                                   *)
(*                                                                         *)
(* The payment service is external: a voucher has one price for the bill,  *)
(* the answer to its application, and a payment is charged the price of    *)
(* the voucher it names.  There is one bill, a page load that may show     *)
(* another forgets everything.  The page's own state ends with the page,   *)
(* requests only with a page load.                                         *)
(***************************************************************************)
EXTENDS Naturals, FiniteSets

CONSTANTS
  Codes,   \* what may be typed as a voucher's code
  Empty,   \* an empty input
  Listed,  \* the vouchers the drawer lists
  MinOf,   \* min_condition of each
  Full,    \* the amount of the bill
  PriceOf, \* what is left to pay with a voucher
  Applies, \* requests to apply a voucher
  Sends,   \* payments
  None

ASSUME PaymentCodes  == Empty \in Codes /\ Listed \subseteq Codes
ASSUME PaymentPrices == Full \in Nat /\ MinOf \in [Listed -> Nat] /\ PriceOf \in [Codes -> Nat]
ASSUME PaymentNone   == None \notin Codes \cup Nat
ASSUME PaymentIds    == Applies \cap Sends = {}

VARIABLES
  page,        \* what is on the screen
  cached,      \* the query has its data
  failed,      \* isError: the page shows PageNotFound
  fetch,       \* the query's request: of this page, or of an earlier one
  newAmount,   \* the total shown
  voucherCode, \* the voucher a payment names
  payOpen,     \* isOpen
  voucherOpen, \* isOpenVoucher
  typed,       \* the input of the voucher drawer
  list,        \* the drawer's request for the vouchers
  code,        \* the voucher each application sent
  value,       \* what its handler reads from its input when it is answered
  bound,       \* applications whose input is the one on the screen
  ours,        \* requests of the page on the screen
  pc,          \* where each application is
  isLoading,   \* of the security code's drawer
  sent,        \* history: what a payment named, what was shown, and slips then
  reply,       \* where each payment is
  slips        \* history: why the total may not be the voucher's price

drawers   == <<payOpen, voucherOpen, typed, list, bound, isLoading>>
total     == <<newAmount, voucherCode, slips>>
queryVars == <<cached, failed, fetch>>
applyVars == <<code, value, pc>>
sendVars  == <<sent, reply>>
vars == <<page, queryVars, total, drawers, ours, applyVars, sendVars>>

Slips  == {"edited", "refetched", "cached"}
Totals == {Full, None} \cup {PriceOf[c] : c \in Codes}
Bodies == [voucher : Codes \cup {None}, shown : Totals, slips : SUBSET Slips]

PaymentTypeOK ==
    /\ page        \in {"elsewhere", "payment", "results"}
    /\ cached      \in BOOLEAN
    /\ failed      \in BOOLEAN
    /\ fetch       \in {"none", "ours", "others"}
    /\ newAmount   \in Totals
    /\ voucherCode \in Codes \cup {None}
    /\ payOpen     \in BOOLEAN
    /\ voucherOpen \in BOOLEAN
    /\ typed       \in Codes
    /\ list        \in {"none", "asked", "shown"}
    /\ code        \in [Applies -> Codes \cup {None}]
    /\ value       \in [Applies -> Codes \cup {None}]
    /\ bound       \subseteq Applies
    /\ ours        \subseteq Applies \cup Sends
    /\ pc          \in [Applies -> {"idle", "flying", "over"}]
    /\ isLoading   \in BOOLEAN
    /\ sent        \in [Sends -> Bodies \cup {None}]
    /\ reply       \in [Sends -> {"idle", "flying", "ok", "failed"}]
    /\ slips       \subseteq Slips

Init ==
    /\ page        = "elsewhere"
    /\ cached      = FALSE
    /\ failed      = FALSE
    /\ fetch       = "none"
    /\ newAmount   = None
    /\ voucherCode = None
    /\ payOpen     = FALSE
    /\ voucherOpen = FALSE
    /\ typed       = Empty
    /\ list        = "none"
    /\ code        = [a \in Applies |-> None]
    /\ value       = [a \in Applies |-> None]
    /\ bound       = {}
    /\ ours        = {}
    /\ pc          = [a \in Applies |-> "idle"]
    /\ isLoading   = FALSE
    /\ sent        = [s \in Sends |-> None]
    /\ reply       = [s \in Sends |-> "idle"]
    /\ slips       = {}

-----------------------------------------------------------------------------
(* The page and its query.                                                 *)

(* The drawers are part of the page while the bill is on it.               *)
HasBill == page = "payment" /\ cached /\ ~failed
BillVanishes == /\ typed' = Empty /\ list' = "none" /\ bound' = {} /\ isLoading' = FALSE
BillAppears  == /\ typed' = Empty /\ list' = "asked" /\ bound' = {} /\ isLoading' = FALSE

PageEnds == /\ newAmount' = None /\ voucherCode' = None /\ slips' = {}
            /\ payOpen' = FALSE /\ voucherOpen' = FALSE /\ ours' = {}

(* Coming back to the page.  Data younger than the staleTime are not       *)
(* fetched: then nothing sets the total.                                   *)
EnterPage(stale) ==
    /\ page # "payment"
    /\ page'  = "payment"
    /\ stale  \/ cached
    /\ fetch' = IF fetch # "none" THEN "others" ELSE IF stale THEN "ours" ELSE "none"
    /\ newAmount' = None /\ voucherCode' = None /\ slips' = IF cached THEN {"cached"} ELSE {}
    /\ payOpen' = FALSE /\ voucherOpen' = FALSE /\ ours' = {}
    /\ IF cached /\ ~failed THEN BillAppears ELSE BillVanishes
    /\ UNCHANGED <<cached, failed, applyVars, sendVars>>

LeavePage ==
    /\ page # "elsewhere"
    /\ page' = "elsewhere"
    /\ fetch' = IF fetch = "none" THEN "none" ELSE "others"
    /\ PageEnds
    /\ BillVanishes
    /\ UNCHANGED <<cached, failed, applyVars, sendVars>>

(* A page load: the scanner sets window.location.                          *)
LoadPage ==
    /\ page' = "payment"
    /\ cached' = FALSE /\ failed' = FALSE /\ fetch' = "ours"
    /\ PageEnds
    /\ BillVanishes
    /\ pc'    = [a \in Applies |-> IF pc[a] = "flying" THEN "over" ELSE pc[a]]
    /\ reply' = [s \in Sends |-> IF reply[s] = "flying" THEN "failed" ELSE reply[s]]
    /\ UNCHANGED <<code, value, sent>>

(* The window gets the focus back, or the network, and the data are old.   *)
Refetch ==
    /\ page = "payment"
    /\ fetch = "none"
    /\ fetch' = "ours"
    /\ UNCHANGED <<page, cached, failed, total, drawers, ours, applyVars, sendVars>>

(* queryFn sets the total of the page that started it, and leaves the      *)
(* voucher.                                                                *)
Fetched ==
    /\ fetch # "none"
    /\ fetch'  = "none"
    /\ cached' = TRUE /\ failed' = FALSE
    /\ IF fetch = "ours"
       THEN /\ newAmount' = Full
            /\ slips' = IF voucherCode = None THEN {} ELSE {"refetched"}
       ELSE /\ UNCHANGED newAmount
            /\ slips' = IF page = "payment" /\ newAmount = None THEN {"cached"} ELSE slips
    /\ IF page = "payment" /\ ~HasBill
       THEN BillAppears /\ UNCHANGED <<payOpen, voucherOpen>>
       ELSE UNCHANGED drawers
    /\ UNCHANGED <<page, voucherCode, ours, applyVars, sendVars>>

FetchFails ==
    /\ fetch # "none"
    /\ fetch'  = "none"
    /\ failed' = TRUE
    /\ BillVanishes
    /\ ours' = ours \ Sends
    /\ UNCHANGED <<page, cached, total, payOpen, voucherOpen, applyVars, sendVars>>

-----------------------------------------------------------------------------
(* Vouchers.                                                               *)

(* handleOpenVoucher.  A drawer that closes takes its input along.         *)
ToggleVouchers ==
    /\ HasBill /\ ~payOpen
    /\ voucherOpen' = ~voucherOpen
    /\ typed' = Empty
    /\ bound' = {}
    /\ UNCHANGED <<page, queryVars, total, payOpen, list, isLoading, ours, applyVars, sendVars>>

ListAnswered ==
    /\ list = "asked"
    /\ list' = "shown"
    /\ UNCHANGED <<page, queryVars, total, payOpen, voucherOpen, typed, bound, isLoading, ours, applyVars, sendVars>>

(* The input is not disabled while an application waits.                   *)
Type(c) ==
    /\ HasBill /\ voucherOpen
    /\ c # typed
    /\ typed' = c
    /\ value' = [a \in Applies |-> IF a \in bound THEN c ELSE value[a]]
    /\ UNCHANGED <<page, queryVars, total, payOpen, voucherOpen, list, bound, isLoading, ours, code, pc, sendVars>>

Ask(a, c) ==
    /\ HasBill /\ voucherOpen
    /\ pc[a]  = "idle"
    /\ pc'    = [pc EXCEPT ![a] = "flying"]
    /\ code'  = [code EXCEPT ![a] = c]
    /\ value' = [value EXCEPT ![a] = c]
    /\ ours'  = ours \cup {a}
    /\ UNCHANGED <<page, queryVars, total, payOpen, voucherOpen, typed, list, isLoading, sendVars>>

(* handleApplyVoucher reads current.value again after the answer.          *)
ApplyTyped(a) ==
    /\ Ask(a, typed)
    /\ bound' = bound \cup {a}

Usable(c) == c \in Listed /\ Full > MinOf[c]

(* handleAvailableApplyVoucher keeps the code it was called with.          *)
ApplyListed(a, c) ==
    /\ list = "shown"
    /\ Usable(c)
    /\ Ask(a, c)
    /\ UNCHANGED bound

(* Mutant of TakeVoucher: a second voucher changes the total only.         *)
KeepVoucher(c, amount) ==
    /\ newAmount'   = amount
    /\ voucherCode' = IF voucherCode = None THEN c ELSE voucherCode

(* The page's handleApplyVoucher: the total and the voucher it takes.      *)
TakeVoucher(c, amount) ==
    /\ newAmount'   = amount
    /\ voucherCode' = c

VoucherApplied(a) ==
    /\ pc[a] = "flying"
    /\ pc'   = [pc EXCEPT ![a] = "over"]
    /\ IF a \in ours
       THEN /\ TakeVoucher(value[a], PriceOf[code[a]])
            /\ slips' = IF value[a] = code[a] THEN {} ELSE {"edited"}
            /\ voucherOpen' = FALSE
            /\ typed' = Empty
            /\ bound' = {}
            /\ list'  = IF list = "asked" THEN "shown" ELSE list
       ELSE UNCHANGED <<total, voucherOpen, typed, bound, list>>
    /\ UNCHANGED <<page, queryVars, payOpen, isLoading, ours, code, value, sendVars>>

VoucherRefused(a) ==
    /\ pc[a] = "flying"
    /\ pc'   = [pc EXCEPT ![a] = "over"]
    /\ UNCHANGED <<page, queryVars, total, drawers, ours, code, value, sendVars>>

-----------------------------------------------------------------------------
(* The payment.                                                            *)

(* handleClose.                                                            *)
TogglePay ==
    /\ HasBill /\ ~voucherOpen
    /\ payOpen' = ~payOpen
    /\ UNCHANGED <<page, queryVars, total, voucherOpen, typed, list, bound, isLoading, ours, applyVars, sendVars>>

(* The body of a payment, the total beside it.                             *)
Body == [voucher |-> voucherCode, shown |-> newAmount, slips |-> slips]

(* handleChangeOTP with the sixth digit: nothing is disabled meanwhile.    *)
Pay(s) ==
    /\ HasBill /\ payOpen
    /\ reply[s]  = "idle"
    /\ reply'    = [reply EXCEPT ![s] = "flying"]
    /\ sent'     = [sent EXCEPT ![s] = Body]
    /\ ours'     = ours \cup {s}
    /\ isLoading' = TRUE
    /\ UNCHANGED <<page, queryVars, total, payOpen, voucherOpen, typed, list, bound, applyVars>>

(* navigate() to the results, from whatever page.                          *)
Paid(s) ==
    /\ reply[s] = "flying"
    /\ reply' = [reply EXCEPT ![s] = "ok"]
    /\ page'  = "results"
    /\ fetch' = IF fetch = "none" THEN "none" ELSE "others"
    /\ PageEnds
    /\ BillVanishes
    /\ UNCHANGED <<cached, failed, applyVars, sent>>

PayFails(s) ==
    /\ reply[s] = "flying"
    /\ reply' = [reply EXCEPT ![s] = "failed"]
    /\ isLoading' = (isLoading /\ s \notin ours)
    /\ UNCHANGED <<page, queryVars, total, payOpen, voucherOpen, typed, list, bound, ours, applyVars, sent>>

Next ==
    \/ \E stale \in BOOLEAN : EnterPage(stale)
    \/ LeavePage \/ LoadPage \/ Refetch \/ Fetched \/ FetchFails
    \/ ToggleVouchers \/ ListAnswered \/ TogglePay
    \/ \E c \in Codes : Type(c)
    \/ \E a \in Applies : \/ ApplyTyped(a) \/ VoucherApplied(a) \/ VoucherRefused(a)
                          \/ \E c \in Codes : ApplyListed(a, c)
    \/ \E s \in Sends : Pay(s) \/ Paid(s) \/ PayFails(s)

Spec == Init /\ [][Next]_vars

-----------------------------------------------------------------------------
Price(v) == IF v = None THEN Full ELSE PriceOf[v]

(* A payment is charged what the page showed when its code was typed, with *)
(* applications answered in any order, refetches and pages left.  The code *)
(* lets them differ in three ways: the voucher's input was edited while    *)
(* its application was under way, a refetch set the total back and left    *)
(* the voucher, or the bill came from the cache and the total is not set.  *)
ShownIsCharged ==
    \A s \in Sends : sent[s] # None => sent[s].shown = Price(sent[s].voucher) \/ sent[s].slips # {}

(* Inductive: so does the page, whenever it can be paid.                   *)
PaymentInv ==
    /\ PaymentTypeOK
    /\ ShownIsCharged
    /\ HasBill \/ newAmount # None => newAmount = Price(voucherCode) \/ slips # {}
    /\ newAmount = None => voucherCode = None
    /\ \A a \in Applies : pc[a] = "flying" => code[a] \in Codes /\ value[a] \in Codes
=============================================================================
