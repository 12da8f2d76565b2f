---------------------------- MODULE PaymentProofs ----------------------------
(***************************************************************************)
(* PaymentInv is inductive, for any vouchers and prices and any number of  *)
(* applications and payments: whenever the bill is on the page, the total  *)
(* is the price of the voucher a payment would name, or one of the three   *)
(* slips has happened since the voucher was taken.                         *)
(***************************************************************************)
EXTENDS Payment, TLAPS

USE PaymentCodes, PaymentPrices, PaymentNone, PaymentIds

(* The total of the page is the price of its voucher, or it slipped.       *)
TotalFits ==
    /\ HasBill \/ newAmount # None => newAmount = Price(voucherCode) \/ slips # {}
    /\ newAmount = None => voucherCode = None

(* What an application under way sent, and what its handler would read.    *)
FlyingFits == \A a \in Applies : pc[a] = "flying" => code[a] \in Codes /\ value[a] \in Codes

LEMMA Parts == PaymentInv <=> PaymentTypeOK /\ ShownIsCharged /\ TotalFits /\ FlyingFits
  BY DEF PaymentInv, TotalFits, FlyingFits

LEMMA InitInv == Init => PaymentInv
  BY DEF Init, PaymentInv, PaymentTypeOK, Totals, Slips, ShownIsCharged, HasBill

(* A page that has just begun, or is gone, has no voucher and no total.    *)
LEMMA PageEndsFits ==
    ASSUME PaymentInv, PageEnds, ~HasBill'
    PROVE  TotalFits'
  BY DEF PageEnds, TotalFits

LEMMA PriceIsNat ==
    ASSUME NEW c \in Codes
    PROVE  PriceOf[c] \in Nat /\ Price(c) = PriceOf[c] /\ PriceOf[c] # None
  BY DEF Price

-----------------------------------------------------------------------------
(* The page and its query.                                                 *)

LEMMA EnterPageInv ==
    ASSUME PaymentInv, NEW stale \in BOOLEAN, EnterPage(stale)
    PROVE  PaymentInv'
<1> USE DEF EnterPage, applyVars, sendVars
<1>1. PaymentTypeOK /\ ShownIsCharged /\ FlyingFits
  BY Parts
<1>2. /\ typed' = Empty /\ list' \in {"none", "asked"} /\ bound' = {} /\ isLoading' = FALSE
  BY DEF BillAppears, BillVanishes
<1>3. PaymentTypeOK'
  BY <1>1, <1>2 DEF PaymentTypeOK, Totals, Slips
<1>4. ShownIsCharged'
  BY <1>1 DEF ShownIsCharged, Price
<1>5. TotalFits'
  BY DEF TotalFits, HasBill
<1>6. FlyingFits'
  BY <1>1 DEF FlyingFits
<1> QED
  BY <1>3, <1>4, <1>5, <1>6, PTL, Parts

LEMMA LeavePageInv == ASSUME PaymentInv, LeavePage PROVE PaymentInv'
<1> USE DEF LeavePage, applyVars, sendVars
<1>1. PaymentTypeOK /\ ShownIsCharged /\ FlyingFits
  BY Parts
<1>2. PaymentTypeOK'
  BY <1>1 DEF PaymentTypeOK, PageEnds, BillVanishes, Totals, Slips
<1>3. ShownIsCharged'
  BY <1>1 DEF ShownIsCharged, Price
<1>4. TotalFits'
  BY PageEndsFits DEF HasBill
<1>5. FlyingFits'
  BY <1>1 DEF FlyingFits
<1> QED
  BY <1>2, <1>3, <1>4, <1>5, PTL, Parts

LEMMA LoadPageInv == ASSUME PaymentInv, LoadPage PROVE PaymentInv'
<1> USE DEF LoadPage
<1>1. PaymentTypeOK /\ ShownIsCharged /\ TotalFits /\ FlyingFits
  BY Parts
<1>2. PaymentTypeOK'
  BY <1>1 DEF PaymentTypeOK, PageEnds, BillVanishes, Totals, Slips
<1>3. ShownIsCharged'
  BY <1>1 DEF ShownIsCharged, Price
<1>4. TotalFits'
  BY PageEndsFits DEF HasBill
<1>5. FlyingFits'
  BY <1>1 DEF FlyingFits
<1> QED
  BY <1>2, <1>3, <1>4, <1>5, PTL, Parts

LEMMA RefetchInv == ASSUME PaymentInv, Refetch PROVE PaymentInv'
<1> USE DEF Refetch, total, drawers, applyVars, sendVars
<1>1. PaymentTypeOK /\ ShownIsCharged /\ TotalFits /\ FlyingFits
  BY Parts
<1>2. PaymentTypeOK'
  BY <1>1 DEF PaymentTypeOK
<1>3. ShownIsCharged'
  BY <1>1 DEF ShownIsCharged, Price
<1>4. TotalFits'
  BY <1>1 DEF TotalFits, HasBill, Price
<1>5. FlyingFits'
  BY <1>1 DEF FlyingFits
<1> QED
  BY <1>2, <1>3, <1>4, <1>5, PTL, Parts

(* queryFn sets the total back; with a voucher taken that is a slip.       *)
LEMMA FetchedInv == ASSUME PaymentInv, Fetched PROVE PaymentInv'
<1> USE DEF Fetched, applyVars, sendVars
<1>1. PaymentTypeOK /\ ShownIsCharged /\ TotalFits /\ FlyingFits
  BY Parts
<1>2. /\ typed' \in {typed, Empty} /\ list' \in {list, "asked"}
      /\ bound' \in {bound, {}} /\ isLoading' \in {isLoading, FALSE}
      /\ UNCHANGED <<payOpen, voucherOpen>>
  BY DEF BillAppears, drawers
<1>3. newAmount' \in Totals /\ slips' \subseteq Slips
  BY <1>1 DEF PaymentTypeOK, Totals, Slips
<1>4. PaymentTypeOK'
  BY <1>1, <1>2, <1>3 DEF PaymentTypeOK
<1>5. ShownIsCharged'
  BY <1>1 DEF ShownIsCharged, Price
<1>6. TotalFits'
  BY <1>1 DEF TotalFits, HasBill, Price
<1>7. FlyingFits'
  BY <1>1 DEF FlyingFits
<1> QED
  BY <1>4, <1>5, <1>6, <1>7, PTL, Parts

LEMMA FetchFailsInv == ASSUME PaymentInv, FetchFails PROVE PaymentInv'
<1> USE DEF FetchFails, total, applyVars, sendVars
<1>1. PaymentTypeOK /\ ShownIsCharged /\ TotalFits /\ FlyingFits
  BY Parts
<1>2. PaymentTypeOK'
  BY <1>1 DEF PaymentTypeOK, BillVanishes
<1>3. ShownIsCharged'
  BY <1>1 DEF ShownIsCharged, Price
<1>4. TotalFits'
  BY <1>1 DEF TotalFits, HasBill, Price
<1>5. FlyingFits'
  BY <1>1 DEF FlyingFits
<1> QED
  BY <1>2, <1>3, <1>4, <1>5, PTL, Parts

-----------------------------------------------------------------------------
(* Vouchers.                                                               *)

LEMMA ToggleVouchersInv == ASSUME PaymentInv, ToggleVouchers PROVE PaymentInv'
<1> USE DEF ToggleVouchers, queryVars, total, applyVars, sendVars
<1>1. PaymentTypeOK /\ ShownIsCharged /\ TotalFits /\ FlyingFits
  BY Parts
<1>2. PaymentTypeOK'
  BY <1>1 DEF PaymentTypeOK
<1>3. ShownIsCharged'
  BY <1>1 DEF ShownIsCharged, Price
<1>4. TotalFits'
  BY <1>1 DEF TotalFits, HasBill, Price
<1>5. FlyingFits'
  BY <1>1 DEF FlyingFits
<1> QED
  BY <1>2, <1>3, <1>4, <1>5, PTL, Parts

LEMMA ListAnsweredInv == ASSUME PaymentInv, ListAnswered PROVE PaymentInv'
<1> USE DEF ListAnswered, queryVars, total, applyVars, sendVars
<1>1. PaymentTypeOK /\ ShownIsCharged /\ TotalFits /\ FlyingFits
  BY Parts
<1>2. PaymentTypeOK'
  BY <1>1 DEF PaymentTypeOK
<1>3. ShownIsCharged'
  BY <1>1 DEF ShownIsCharged, Price
<1>4. TotalFits'
  BY <1>1 DEF TotalFits, HasBill, Price
<1>5. FlyingFits'
  BY <1>1 DEF FlyingFits
<1> QED
  BY <1>2, <1>3, <1>4, <1>5, PTL, Parts

(* What is typed while an application waits is what its handler reads.     *)
LEMMA TypeInv == ASSUME PaymentInv, NEW c \in Codes, Type(c) PROVE PaymentInv'
<1> USE DEF Type, queryVars, total, sendVars
<1>1. PaymentTypeOK /\ ShownIsCharged /\ TotalFits /\ FlyingFits
  BY Parts
<1>2. value' \in [Applies -> Codes \cup {None}]
  BY <1>1 DEF PaymentTypeOK
<1>3. PaymentTypeOK'
  BY <1>1, <1>2 DEF PaymentTypeOK
<1>4. ShownIsCharged'
  BY <1>1 DEF ShownIsCharged, Price
<1>5. TotalFits'
  BY <1>1 DEF TotalFits, HasBill, Price
<1>6. FlyingFits'
  BY <1>1 DEF FlyingFits, PaymentTypeOK
<1> QED
  BY <1>3, <1>4, <1>5, <1>6, PTL, Parts

LEMMA AskInv ==
    ASSUME PaymentInv, NEW a \in Applies, NEW c \in Codes, Ask(a, c), bound' \subseteq Applies
    PROVE  PaymentInv'
<1> USE DEF Ask, queryVars, total, sendVars
<1>1. PaymentTypeOK /\ ShownIsCharged /\ TotalFits /\ FlyingFits
  BY Parts
<1>2. PaymentTypeOK'
  BY <1>1 DEF PaymentTypeOK
<1>3. ShownIsCharged'
  BY <1>1 DEF ShownIsCharged, Price
<1>4. TotalFits'
  BY <1>1 DEF TotalFits, HasBill, Price
<1>5. FlyingFits'
  BY <1>1 DEF FlyingFits, PaymentTypeOK
<1> QED
  BY <1>2, <1>3, <1>4, <1>5, PTL, Parts

LEMMA ApplyTypedInv == ASSUME PaymentInv, NEW a \in Applies, ApplyTyped(a) PROVE PaymentInv'
<1>1. typed \in Codes /\ bound' \subseteq Applies
  BY DEF PaymentInv, PaymentTypeOK, ApplyTyped
<1> QED
  BY <1>1, AskInv DEF ApplyTyped

LEMMA ApplyListedInv ==
    ASSUME PaymentInv, NEW a \in Applies, NEW c \in Codes, ApplyListed(a, c)
    PROVE  PaymentInv'
<1>1. bound' \subseteq Applies
  BY DEF PaymentInv, PaymentTypeOK, ApplyListed
<1> QED
  BY <1>1, AskInv DEF ApplyListed

(* The page takes the amount of the answer and the code of the input: one  *)
(* voucher's unless the input was edited.                                  *)
LEMMA VoucherAppliedInv ==
    ASSUME PaymentInv, NEW a \in Applies, VoucherApplied(a)
    PROVE  PaymentInv'
<1> USE DEF VoucherApplied, queryVars, sendVars
<1>1. PaymentTypeOK /\ ShownIsCharged /\ TotalFits /\ FlyingFits
  BY Parts
<1>2. code[a] \in Codes /\ value[a] \in Codes
  BY <1>1 DEF FlyingFits
<1>3. Price(value[a]) = PriceOf[value[a]] /\ PriceOf[code[a]] \in Nat
  BY <1>2, PriceIsNat
<1>4. \/ /\ newAmount' = PriceOf[code[a]] /\ voucherCode' = value[a]
         /\ slips' = IF value[a] = code[a] THEN {} ELSE {"edited"}
      \/ UNCHANGED total
  BY DEF TakeVoucher
<1>5. /\ typed' \in Codes /\ list' \in {"none", "asked", "shown"}
      /\ bound' \subseteq Applies /\ voucherOpen' \in BOOLEAN
  BY <1>1 DEF PaymentTypeOK
<1>6. PaymentTypeOK'
  BY <1>1, <1>2, <1>4, <1>5 DEF PaymentTypeOK, total, Totals, Slips
<1>7. ShownIsCharged'
  BY <1>1 DEF ShownIsCharged, Price
<1>8. TotalFits'
  BY <1>1, <1>3, <1>4 DEF TotalFits, HasBill, Price, total
<1>9. FlyingFits'
  BY <1>1 DEF FlyingFits, PaymentTypeOK
<1> QED
  BY <1>6, <1>7, <1>8, <1>9, PTL, Parts

LEMMA VoucherRefusedInv ==
    ASSUME PaymentInv, NEW a \in Applies, VoucherRefused(a)
    PROVE  PaymentInv'
<1> USE DEF VoucherRefused, queryVars, total, drawers, sendVars
<1>1. PaymentTypeOK /\ ShownIsCharged /\ TotalFits /\ FlyingFits
  BY Parts
<1>2. PaymentTypeOK'
  BY <1>1 DEF PaymentTypeOK
<1>3. ShownIsCharged'
  BY <1>1 DEF ShownIsCharged, Price
<1>4. TotalFits'
  BY <1>1 DEF TotalFits, HasBill, Price
<1>5. FlyingFits'
  BY <1>1 DEF FlyingFits, PaymentTypeOK
<1> QED
  BY <1>2, <1>3, <1>4, <1>5, PTL, Parts

-----------------------------------------------------------------------------
(* The payment.                                                            *)

LEMMA TogglePayInv == ASSUME PaymentInv, TogglePay PROVE PaymentInv'
<1> USE DEF TogglePay, queryVars, total, applyVars, sendVars
<1>1. PaymentTypeOK /\ ShownIsCharged /\ TotalFits /\ FlyingFits
  BY Parts
<1>2. PaymentTypeOK'
  BY <1>1 DEF PaymentTypeOK
<1>3. ShownIsCharged'
  BY <1>1 DEF ShownIsCharged, Price
<1>4. TotalFits'
  BY <1>1 DEF TotalFits, HasBill, Price
<1>5. FlyingFits'
  BY <1>1 DEF FlyingFits
<1> QED
  BY <1>2, <1>3, <1>4, <1>5, PTL, Parts

(* The body names the voucher of the page, which the total fits.           *)
LEMMA PayInv == ASSUME PaymentInv, NEW s \in Sends, Pay(s) PROVE PaymentInv'
<1> USE DEF Pay, queryVars, total, applyVars
<1>1. PaymentTypeOK /\ ShownIsCharged /\ TotalFits /\ FlyingFits
  BY Parts
<1>2. Body \in Bodies
  BY <1>1 DEF PaymentTypeOK, Body, Bodies
<1>3. Body.shown = Price(Body.voucher) \/ Body.slips # {}
  BY <1>1 DEF TotalFits, Body
<1>4. PaymentTypeOK'
  BY <1>1, <1>2 DEF PaymentTypeOK
<1>5. ShownIsCharged'
  BY <1>1, <1>3 DEF ShownIsCharged, Price, PaymentTypeOK
<1>6. TotalFits'
  BY <1>1 DEF TotalFits, HasBill, Price
<1>7. FlyingFits'
  BY <1>1 DEF FlyingFits
<1> QED
  BY <1>4, <1>5, <1>6, <1>7, PTL, Parts

LEMMA PaidInv == ASSUME PaymentInv, NEW s \in Sends, Paid(s) PROVE PaymentInv'
<1> USE DEF Paid, applyVars
<1>1. PaymentTypeOK /\ ShownIsCharged /\ TotalFits /\ FlyingFits
  BY Parts
<1>2. PaymentTypeOK'
  BY <1>1 DEF PaymentTypeOK, PageEnds, BillVanishes, Totals, Slips
<1>3. ShownIsCharged'
  BY <1>1 DEF ShownIsCharged, Price
<1>4. TotalFits'
  BY PageEndsFits DEF HasBill
<1>5. FlyingFits'
  BY <1>1 DEF FlyingFits
<1> QED
  BY <1>2, <1>3, <1>4, <1>5, PTL, Parts

LEMMA PayFailsInv == ASSUME PaymentInv, NEW s \in Sends, PayFails(s) PROVE PaymentInv'
<1> USE DEF PayFails, queryVars, total, applyVars
<1>1. PaymentTypeOK /\ ShownIsCharged /\ TotalFits /\ FlyingFits
  BY Parts
<1>2. PaymentTypeOK'
  BY <1>1 DEF PaymentTypeOK
<1>3. ShownIsCharged'
  BY <1>1 DEF ShownIsCharged, Price
<1>4. TotalFits'
  BY <1>1 DEF TotalFits, HasBill, Price
<1>5. FlyingFits'
  BY <1>1 DEF FlyingFits
<1> QED
  BY <1>2, <1>3, <1>4, <1>5, PTL, Parts

-----------------------------------------------------------------------------
(* Every step of the page, its requests and its drawers keeps PaymentInv.  *)
LEMMA NextInv == PaymentInv /\ [Next]_vars => PaymentInv'
<1> SUFFICES ASSUME PaymentInv, [Next]_vars PROVE PaymentInv'
  OBVIOUS
<1>1. CASE UNCHANGED vars
  BY <1>1 DEF vars, queryVars, total, drawers, applyVars, sendVars,
     PaymentInv, PaymentTypeOK, ShownIsCharged, HasBill, Price
<1>2. CASE Next
  BY <1>2, EnterPageInv, LeavePageInv, LoadPageInv, RefetchInv, FetchedInv, FetchFailsInv,
     ToggleVouchersInv, ListAnsweredInv, TypeInv, ApplyTypedInv, ApplyListedInv,
     VoucherAppliedInv, VoucherRefusedInv, TogglePayInv, PayInv, PaidInv, PayFailsInv DEF Next
<1> QED
  BY <1>1, <1>2

(* Type correctness of the payment page (pages/payment/payment.tsx).       *)
THEOREM PaymentTypeCorrect == Spec => []PaymentTypeOK
<1>1. PaymentInv => PaymentTypeOK
  BY DEF PaymentInv
<1> QED
  BY InitInv, NextInv, <1>1, PTL DEF Spec

(* What a payment is charged is what the page showed when its code was     *)
(* typed, whatever vouchers were applied, answered late or given up, but   *)
(* for the three slips the page and its voucher drawer leave.              *)
THEOREM PaymentShownIsCharged == Spec => []ShownIsCharged
<1>1. PaymentInv => ShownIsCharged
  BY DEF PaymentInv
<1> QED
  BY InitInv, NextInv, <1>1, PTL DEF Spec
=============================================================================
