------------------------- MODULE TransferPagesProofs -------------------------
(***************************************************************************)
(* PagesInv is inductive, for any accounts, addresses, links, amounts and  *)
(* balances and any number of requests.                                    *)
(*                                                                         *)
(* The conjuncts are proved in four groups: the types, what the page on    *)
(* the screen knows of the profile, the search and the link, the dialog    *)
(* with its form, and the requests that were sent.                         *)
(***************************************************************************)
EXTENDS TransferPages, TLAPS

USE PagesMe, PagesNone, PagesNoForm, PagesTexts, PagesAddress, PagesLinks, PagesNumbers

(* The search has a profile, which is the user's own or being renewed; the *)
(* link's page has the answer for its own link or none.                    *)
Admitted ==
    /\ page \in {"search", "amount"} => profile # None /\ api = "payload"
    /\ page \in {"search", "amount"} => profile = Me \/ asking \/ failed
    /\ searching = "false" => page = "search" /\ found # None
    /\ page = "link" => link # None
    /\ linkUser \in {None, link}

DialogFits ==
    /\ form # None => page \in {"amount", "link"}
    /\ page = "amount" => form # None
    /\ form # None => form.from = Me \/ form.unsure
    /\ form = None => here = {}
    /\ here # {} \/ ~isLoading
    /\ PaysTheLink /\ OpenIsCovered /\ PaidIsUnseen /\ LoadingIsPending

LEMMA Parts == PagesInv <=> PagesTypeOK /\ Admitted /\ DialogFits /\ FromOwnWallet
  BY DEF PagesInv, Admitted, DialogFits

LEMMA InitInv == Init => PagesInv
<1> SUFFICES ASSUME Init PROVE PagesInv
  OBVIOUS
<1> USE DEF Init
<1>1. PagesTypeOK
  <2>1. /\ sent \in [Sends -> Forms \cup {None}]
        /\ reply \in [Sends -> {"none", "flying", "paid", "refused", "lost"}]
    OBVIOUS
  <2>2. page \in Pages /\ balance \in Balances \cup {0}
    BY DEF Pages
  <2> QED
    BY <2>1, <2>2 DEF PagesTypeOK
<1>2. Admitted
  BY DEF Admitted
<1>3. DialogFits
  BY DEF DialogFits, PaysTheLink, OpenIsCovered, PaidIsUnseen, LoadingIsPending
<1>4. FromOwnWallet
  BY DEF FromOwnWallet
<1> QED
  BY <1>1, <1>2, <1>3, <1>4, Parts

(* Steps that touch nothing but flags keep the types.                      *)
LEMMA FlagsTyped ==
    ASSUME PagesTypeOK,
           asking' \in BOOLEAN, failed' \in BOOLEAN, updated' \in BOOLEAN,
           isOpen' \in BOOLEAN, isLoading' \in BOOLEAN, fell' \in BOOLEAN,
           UNCHANGED <<api, page, due, found, searching, link, linkUser, form, sent, reply, here>>,
           profile' \in Users \cup {None}, balance' \in Balances \cup {0}
    PROVE  PagesTypeOK'
<1>1. /\ api' \in {"payload", "data"} /\ page' \in Pages
      /\ due' \in Texts \cup {None} /\ found' \in Texts \cup {None}
      /\ searching' \in {"null", "true", "false"}
      /\ link' \in Links \cup {None} /\ linkUser' \in Links \cup {None}
      /\ form' \in Forms \cup {None}
  BY DEF PagesTypeOK
<1>2. /\ sent' \in [Sends -> Forms \cup {None}]
      /\ reply' \in [Sends -> {"none", "flying", "paid", "refused", "lost"}]
      /\ here' \subseteq Sends
  BY DEF PagesTypeOK
<1> QED
  BY <1>1, <1>2, Zenon DEF PagesTypeOK

(* With the page its dialog goes: nothing is left that could be sent.      *)
LEMMA DialogLeft == ASSUME LeaveDialog, page' # "amount" PROVE DialogFits'
  BY DEF LeaveDialog, DialogFits, PaysTheLink, OpenIsCovered, PaidIsUnseen, LoadingIsPending

(* What was sent before is not touched.                                    *)
LEMMA SentKept == ASSUME FromOwnWallet, UNCHANGED sent PROVE FromOwnWallet'
  BY DEF FromOwnWallet

-----------------------------------------------------------------------------
(* The profile.                                                            *)

LEMMA BreakInv == ASSUME PagesInv, Break PROVE PagesInv'
<1> USE DEF Break, profileVars, linkVars
<1>0. PagesTypeOK /\ Admitted /\ DialogFits /\ FromOwnWallet
  BY Parts
<1>1. PagesTypeOK'
  BY <1>0 DEF PagesTypeOK, Pages, LeaveSearch, LeaveDialog
<1>2. Admitted'
  BY <1>0 DEF Admitted, LeaveSearch
<1>3. DialogFits'
  BY DialogLeft
<1>4. FromOwnWallet'
  BY <1>0, SentKept
<1> QED
  BY <1>1, <1>2, <1>3, <1>4, PTL, Parts

LEMMA ProfileAnsweredInv == ASSUME PagesInv, ProfileAnswered PROVE PagesInv'
<1> USE DEF ProfileAnswered, searchVars, linkVars, dialogVars
<1>0. PagesTypeOK /\ Admitted /\ DialogFits /\ FromOwnWallet
  BY Parts
<1>1. PagesTypeOK'
  <2>1. CASE LeaveSearch /\ LeaveDialog /\ page' = "broken"
    BY <1>0, <2>1 DEF PagesTypeOK, Pages, LeaveSearch, LeaveDialog
  <2>2. CASE UNCHANGED <<page, searchVars, dialogVars>>
    <3>1. /\ asking' \in BOOLEAN /\ failed' \in BOOLEAN /\ updated' \in BOOLEAN
          /\ isOpen' \in BOOLEAN /\ isLoading' \in BOOLEAN /\ fell' \in BOOLEAN
      BY <1>0, <2>2, Zenon DEF PagesTypeOK
    <3>2. /\ UNCHANGED <<api, page, due, found, searching, link, linkUser, form, sent, reply, here>>
          /\ profile' \in Users \cup {None} /\ balance' \in Balances \cup {0}
      BY <1>0, <2>2 DEF PagesTypeOK
    <3> QED
      BY <1>0, <3>1, <3>2, FlagsTyped
  <2>3. CASE /\ UNCHANGED <<page, searchVars, form, isOpen, isLoading, here>>
             /\ balance' \in Balances /\ fell' = (fell \/ (isOpen /\ balance' < balance))
    <3>1. /\ asking' \in BOOLEAN /\ failed' \in BOOLEAN /\ updated' \in BOOLEAN
          /\ isOpen' \in BOOLEAN /\ isLoading' \in BOOLEAN /\ fell' \in BOOLEAN
      BY <1>0, <2>3, Zenon DEF PagesTypeOK
    <3>2. /\ UNCHANGED <<api, page, due, found, searching, link, linkUser, form, sent, reply, here>>
          /\ profile' \in Users \cup {None} /\ balance' \in Balances \cup {0}
      BY <1>0, <2>3 DEF PagesTypeOK
    <3> QED
      BY <1>0, <3>1, <3>2, FlagsTyped
  <2> QED
    BY <2>1, <2>2, <2>3
<1>2. Admitted'
  BY <1>0 DEF Admitted, LeaveSearch
<1>3. DialogFits'
  <2>1. CASE LeaveDialog /\ page' = "broken"
    BY <2>1, DialogLeft
  <2>2. CASE page' = page /\ UNCHANGED dialogVars
    BY <1>0, <2>2 DEF DialogFits, PaysTheLink, OpenIsCovered, PaidIsUnseen, LoadingIsPending
  <2>3. CASE /\ page = "link" /\ page' = page
             /\ UNCHANGED <<form, isOpen, isLoading, here>>
             /\ balance' \in Balances /\ fell' = (fell \/ (isOpen /\ balance' < balance))
    <3>1. ASSUME isOpen PROVE form.amount <= balance' \/ fell'
      <4>1. /\ form \in Forms /\ form.amount # None
            /\ form.amount <= balance \/ fell
        BY <1>0, <3>1 DEF DialogFits, OpenIsCovered, PagesTypeOK
      <4>2. form.amount \in Nat
        BY <4>1 DEF Forms
      <4>3. balance \in Nat /\ balance' \in Nat
        BY <1>0, <2>3 DEF PagesTypeOK
      <4>4. CASE fell \/ balance' < balance
        BY <2>3, <3>1, <4>4, Zenon
      <4>5. CASE ~(balance' < balance) /\ form.amount <= balance
        BY <4>2, <4>3, <4>5
      <4> QED
        BY <4>1, <4>4, <4>5
    <3> QED
      BY <1>0, <2>3, <3>1 DEF DialogFits, PaysTheLink, OpenIsCovered, PaidIsUnseen, LoadingIsPending
  <2> QED
    BY <2>1, <2>2, <2>3
<1>4. FromOwnWallet'
  BY <1>0, SentKept
<1> QED
  BY <1>1, <1>2, <1>3, <1>4, PTL, Parts

LEMMA ProfileFailsInv == ASSUME PagesInv, ProfileFails PROVE PagesInv'
<1> USE DEF ProfileFails, searchVars, linkVars, dialogVars
<1>0. PagesTypeOK /\ Admitted /\ DialogFits /\ FromOwnWallet
  BY Parts
<1>1. PagesTypeOK'
  <2>1. /\ asking' \in BOOLEAN /\ failed' \in BOOLEAN /\ updated' \in BOOLEAN
        /\ isOpen' \in BOOLEAN /\ isLoading' \in BOOLEAN /\ fell' \in BOOLEAN
    BY <1>0, Zenon DEF PagesTypeOK
  <2>2. /\ UNCHANGED <<api, page, due, found, searching, link, linkUser, form, sent, reply, here>>
        /\ profile' \in Users \cup {None} /\ balance' \in Balances \cup {0}
    BY <1>0 DEF PagesTypeOK
  <2> QED
    BY <1>0, <2>1, <2>2, FlagsTyped
<1>2. Admitted'
  BY <1>0 DEF Admitted
<1>3. DialogFits'
  BY <1>0 DEF DialogFits, PaysTheLink, OpenIsCovered, PaidIsUnseen, LoadingIsPending
<1>4. FromOwnWallet'
  BY <1>0, SentKept
<1> QED
  BY <1>1, <1>2, <1>3, <1>4, PTL, Parts

LEMMA ProfileExpiresInv == ASSUME PagesInv, ProfileExpires PROVE PagesInv'
<1> USE DEF ProfileExpires, searchVars, linkVars, dialogVars
<1>0. PagesTypeOK /\ Admitted /\ DialogFits /\ FromOwnWallet
  BY Parts
<1>1. PagesTypeOK'
  BY <1>0 DEF PagesTypeOK, Pages
<1>2. Admitted'
  BY <1>0 DEF Admitted
<1>3. DialogFits'
  BY <1>0 DEF DialogFits, PaysTheLink, OpenIsCovered, PaidIsUnseen, LoadingIsPending
<1>4. FromOwnWallet'
  BY <1>0, SentKept
<1> QED
  BY <1>1, <1>2, <1>3, <1>4, PTL, Parts

LEMMA ProfilePolledInv == ASSUME PagesInv, ProfilePolled PROVE PagesInv'
<1> USE DEF ProfilePolled, searchVars, linkVars, dialogVars
<1>0. PagesTypeOK /\ Admitted /\ DialogFits /\ FromOwnWallet
  BY Parts
<1>1. PagesTypeOK'
  BY <1>0 DEF PagesTypeOK, Pages
<1>2. Admitted'
  BY <1>0 DEF Admitted
<1>3. DialogFits'
  BY <1>0 DEF DialogFits, PaysTheLink, OpenIsCovered, PaidIsUnseen, LoadingIsPending
<1>4. FromOwnWallet'
  BY <1>0, SentKept
<1> QED
  BY <1>1, <1>2, <1>3, <1>4, PTL, Parts

LEMMA OpenHomeInv == ASSUME PagesInv, OpenHome PROVE PagesInv'
<1> USE DEF OpenHome, RefetchOnMount, linkVars
<1>0. PagesTypeOK /\ Admitted /\ DialogFits /\ FromOwnWallet
  BY Parts
<1>1. PagesTypeOK'
  BY <1>0 DEF PagesTypeOK, Pages, LeaveSearch, LeaveDialog
<1>2. Admitted'
  BY <1>0 DEF Admitted, LeaveSearch
<1>3. DialogFits'
  BY DialogLeft
<1>4. FromOwnWallet'
  BY <1>0, SentKept
<1> QED
  BY <1>1, <1>2, <1>3, <1>4, PTL, Parts

LEMMA HomeUpdatesInv == ASSUME PagesInv, HomeUpdates PROVE PagesInv'
<1> USE DEF HomeUpdates, searchVars, linkVars, dialogVars
<1>0. PagesTypeOK /\ Admitted /\ DialogFits /\ FromOwnWallet
  BY Parts
<1>1. PagesTypeOK'
  <2>1. /\ asking' \in BOOLEAN /\ failed' \in BOOLEAN /\ updated' \in BOOLEAN
        /\ isOpen' \in BOOLEAN /\ isLoading' \in BOOLEAN /\ fell' \in BOOLEAN
    BY <1>0, Zenon DEF PagesTypeOK
  <2>2. /\ UNCHANGED <<api, page, due, found, searching, link, linkUser, form, sent, reply, here>>
        /\ profile' \in Users \cup {None} /\ balance' \in Balances \cup {0}
    BY <1>0 DEF PagesTypeOK
  <2> QED
    BY <1>0, <2>1, <2>2, FlagsTyped
<1>2. Admitted'
  BY <1>0 DEF Admitted
<1>3. DialogFits'
  BY <1>0 DEF DialogFits, PaysTheLink, OpenIsCovered, PaidIsUnseen, LoadingIsPending
<1>4. FromOwnWallet'
  BY <1>0, SentKept
<1> QED
  BY <1>1, <1>2, <1>3, <1>4, PTL, Parts

-----------------------------------------------------------------------------
(* The wizard.                                                             *)

LEMMA OpenTransferInv == ASSUME PagesInv, OpenTransfer PROVE PagesInv'
<1> USE DEF OpenTransfer, linkVars
<1>0. PagesTypeOK /\ Admitted /\ DialogFits /\ FromOwnWallet
  BY Parts
<1>1. PagesTypeOK'
  BY <1>0 DEF PagesTypeOK, Pages, LeaveSearch, LeaveDialog
<1>2. Admitted'
  BY <1>0 DEF Admitted, LeaveSearch
<1>3. DialogFits'
  BY DialogLeft
<1>4. FromOwnWallet'
  BY <1>0, SentKept
<1> QED
  BY <1>1, <1>2, <1>3, <1>4, PTL, Parts

(* The refetch of the search page keeps another account's profile unsure.  *)
LEMMA SelectCurrencyInv == ASSUME PagesInv, SelectCurrency PROVE PagesInv'
<1> USE DEF SelectCurrency, CurrenciesShown, RefetchOnMount, linkVars, dialogVars
<1>0. PagesTypeOK /\ Admitted /\ DialogFits /\ FromOwnWallet
  BY Parts
<1>1. PagesTypeOK'
  BY <1>0 DEF PagesTypeOK, Pages, LeaveSearch, LeaveDialog
<1>2. Admitted'
  BY <1>0 DEF Admitted, LeaveSearch
<1>3. DialogFits'
  BY <1>0 DEF DialogFits, PaysTheLink, OpenIsCovered, PaidIsUnseen, LoadingIsPending
<1>4. FromOwnWallet'
  BY <1>0, SentKept
<1> QED
  BY <1>1, <1>2, <1>3, <1>4, PTL, Parts

LEMMA TypeReceiverInv == ASSUME PagesInv, TypeReceiver PROVE PagesInv'
<1> USE DEF TypeReceiver, profileVars, linkVars, dialogVars
<1>0. PagesTypeOK /\ Admitted /\ DialogFits /\ FromOwnWallet
  BY Parts
<1>1. PagesTypeOK'
  BY <1>0 DEF PagesTypeOK, Pages
<1>2. Admitted'
  BY <1>0 DEF Admitted
<1>3. DialogFits'
  BY <1>0 DEF DialogFits, PaysTheLink, OpenIsCovered, PaidIsUnseen, LoadingIsPending
<1>4. FromOwnWallet'
  BY <1>0, SentKept
<1> QED
  BY <1>1, <1>2, <1>3, <1>4, PTL, Parts

LEMMA SearchInv == ASSUME PagesInv, Search PROVE PagesInv'
<1> USE DEF Search, profileVars, linkVars, dialogVars
<1>0. PagesTypeOK /\ Admitted /\ DialogFits /\ FromOwnWallet
  BY Parts
<1>1. PagesTypeOK'
  BY <1>0 DEF PagesTypeOK, Pages
<1>2. Admitted'
  BY <1>0 DEF Admitted
<1>3. DialogFits'
  BY <1>0 DEF DialogFits, PaysTheLink, OpenIsCovered, PaidIsUnseen, LoadingIsPending
<1>4. FromOwnWallet'
  BY <1>0, SentKept
<1> QED
  BY <1>1, <1>2, <1>3, <1>4, PTL, Parts

(* The form takes a profile that is the user's own or marked unsure.       *)
LEMMA SelectUserInv == ASSUME PagesInv, SelectUser PROVE PagesInv'
<1> USE DEF SelectUser, ReceiverShown, NewForm, profileVars, linkVars
<1>0. PagesTypeOK /\ Admitted /\ DialogFits /\ FromOwnWallet
  BY Parts
<1>a. /\ profile \in Users /\ found \in Texts
      /\ form' = [from |-> profile, to |-> found, amount |-> None, unsure |-> asking \/ failed]
      /\ form' \in Forms /\ form' # None
  <2>1. page \in {"search", "amount"} /\ profile # None /\ found # None
    BY <1>0 DEF Admitted
  <2>2. profile \in Users /\ found \in Texts
    BY <1>0, <2>1 DEF PagesTypeOK
  <2>3. (asking \/ failed) \in BOOLEAN
    OBVIOUS
  <2>4. form' \in Forms
    BY <2>2, <2>3 DEF Forms
  <2> QED
    BY <2>2, <2>4
<1>1. PagesTypeOK'
  BY <1>0, <1>a DEF PagesTypeOK, Pages, LeaveSearch
<1>2. Admitted'
  BY <1>0 DEF Admitted, LeaveSearch
<1>3. DialogFits'
  <2>1. form'.from = Me \/ form'.unsure
    <3>1. form'.from = profile /\ form'.unsure = (asking \/ failed)
      BY <1>a
    <3>2. profile = Me \/ asking \/ failed
      BY <1>0 DEF Admitted
    <3> QED
      BY <3>1, <3>2
  <2> QED
    BY <1>a, <2>1 DEF DialogFits, PaysTheLink, OpenIsCovered, PaidIsUnseen, LoadingIsPending
<1>4. FromOwnWallet'
  BY <1>0, SentKept
<1> QED
  BY <1>1, <1>2, <1>3, <1>4, PTL, Parts

LEMMA StepBackInv == ASSUME PagesInv, StepBack PROVE PagesInv'
<1> USE DEF StepBack, RefetchOnMount, linkVars
<1>0. PagesTypeOK /\ Admitted /\ DialogFits /\ FromOwnWallet
  BY Parts
<1>1. PagesTypeOK'
  BY <1>0 DEF PagesTypeOK, Pages, LeaveSearch, LeaveDialog
<1>2. Admitted'
  BY <1>0 DEF Admitted, LeaveSearch
<1>3. DialogFits'
  BY DialogLeft
<1>4. FromOwnWallet'
  BY <1>0, SentKept
<1> QED
  BY <1>1, <1>2, <1>3, <1>4, PTL, Parts

(* Only the "0" of before the answer is replaced, by something greater.    *)
LEMMA BalanceAnsweredInv == ASSUME PagesInv, BalanceAnswered PROVE PagesInv'
<1> USE DEF BalanceAnswered, profileVars, searchVars, linkVars
<1>0. PagesTypeOK /\ Admitted /\ DialogFits /\ FromOwnWallet
  BY Parts
<1>1. PagesTypeOK'
  BY <1>0 DEF PagesTypeOK, Pages
<1>2. Admitted'
  BY <1>0 DEF Admitted
<1>3. DialogFits'
  <2>1. ASSUME isOpen PROVE form.amount \in Nat /\ form.amount <= 0
    <3>1. form \in Forms /\ form.amount # None /\ form.amount <= 0
      BY <1>0, <2>1 DEF DialogFits, OpenIsCovered, PagesTypeOK
    <3> QED
      BY <3>1 DEF Forms
  <2>2. isOpen => form.amount <= balance'
    BY <2>1
  <2> QED
    BY <1>0, <2>2 DEF DialogFits, PaysTheLink, OpenIsCovered, PaidIsUnseen, LoadingIsPending
<1>4. FromOwnWallet'
  BY <1>0, SentKept
<1> QED
  BY <1>1, <1>2, <1>3, <1>4, PTL, Parts

-----------------------------------------------------------------------------
(* The page of a receive link.                                             *)

LEMMA OpenLinkInv == ASSUME PagesInv, OpenLink PROVE PagesInv'
<1> USE DEF OpenLink, NewDocument
<1>0. PagesTypeOK /\ Admitted /\ DialogFits /\ FromOwnWallet
  BY Parts
<1>1. PagesTypeOK'
  BY <1>0 DEF PagesTypeOK, Pages, LeaveSearch, LeaveDialog
<1>2. Admitted'
  BY <1>0 DEF Admitted, LeaveSearch
<1>3. DialogFits'
  BY DialogLeft
<1>4. FromOwnWallet'
  BY <1>0, SentKept
<1> QED
  BY <1>1, <1>2, <1>3, <1>4, PTL, Parts

LEMMA ReopenLinkInv == ASSUME PagesInv, ReopenLink PROVE PagesInv'
<1> USE DEF ReopenLink, linkVars
<1>0. PagesTypeOK /\ Admitted /\ DialogFits /\ FromOwnWallet
  BY Parts
<1>1. PagesTypeOK'
  BY <1>0 DEF PagesTypeOK, Pages, LeaveSearch, LeaveDialog
<1>2. Admitted'
  BY <1>0 DEF Admitted, LeaveSearch
<1>3. DialogFits'
  BY DialogLeft
<1>4. FromOwnWallet'
  BY <1>0, SentKept
<1> QED
  BY <1>1, <1>2, <1>3, <1>4, PTL, Parts

LEMMA ReceiverAnsweredInv == ASSUME PagesInv, ReceiverAnswered PROVE PagesInv'
<1> USE DEF ReceiverAnswered, profileVars, searchVars, dialogVars
<1>0. PagesTypeOK /\ Admitted /\ DialogFits /\ FromOwnWallet
  BY Parts
<1>1. PagesTypeOK'
  BY <1>0 DEF PagesTypeOK, Pages
<1>2. Admitted'
  BY <1>0 DEF Admitted
<1>3. DialogFits'
  BY <1>0 DEF DialogFits, PaysTheLink, OpenIsCovered, PaidIsUnseen, LoadingIsPending
<1>4. FromOwnWallet'
  BY <1>0, SentKept
<1> QED
  BY <1>1, <1>2, <1>3, <1>4, PTL, Parts

(* The answer that is cached is the one for the link of this document.     *)
LEMMA DrawLinkInv == ASSUME PagesInv, DrawLink PROVE PagesInv'
<1> USE DEF DrawLink, NewForm, profileVars, searchVars, linkVars
<1>0. PagesTypeOK /\ Admitted /\ DialogFits /\ FromOwnWallet
  BY Parts
<1>a. /\ linkUser \in Links /\ linkUser = link
      /\ form' = [from |-> Me, to |-> linkUser, amount |-> None, unsure |-> FALSE]
      /\ form' \in Forms /\ form' # None
  <2>1. linkUser \in Links /\ linkUser = link
    BY <1>0 DEF Admitted, PagesTypeOK
  <2>2. form' \in Forms
    BY <2>1 DEF Forms
  <2> QED
    BY <2>1, <2>2
<1>1. PagesTypeOK'
  BY <1>0, <1>a DEF PagesTypeOK
<1>2. Admitted'
  BY <1>0 DEF Admitted
<1>3. DialogFits'
  BY <1>0, <1>a DEF Admitted, DialogFits, PaysTheLink, OpenIsCovered, PaidIsUnseen, LoadingIsPending
<1>4. FromOwnWallet'
  BY <1>0, SentKept
<1> QED
  BY <1>1, <1>2, <1>3, <1>4, PTL, Parts

-----------------------------------------------------------------------------
(* The amount and the dialog.                                              *)

LEMMA TypeAmountInv == ASSUME PagesInv, TypeAmount PROVE PagesInv'
<1> USE DEF TypeAmount, AmountShown, LinkShown, DialogCovers, profileVars, searchVars, linkVars
<1>0. PagesTypeOK /\ Admitted /\ DialogFits /\ FromOwnWallet
  BY Parts
<1>a. /\ form # None /\ form' \in Forms /\ form' # None
      /\ form'.from = form.from /\ form'.to = form.to /\ form'.unsure = form.unsure
  <2>1. form \in Forms /\ form # None
    BY <1>0 DEF PagesTypeOK, DialogFits
  <2>2. PICK a \in Amounts : form' = [form EXCEPT !.amount = a]
    OBVIOUS
  <2>3. form' \in Forms
    BY <2>1, <2>2 DEF Forms
  <2> QED
    BY <2>1, <2>2, <2>3 DEF Forms
<1>1. PagesTypeOK'
  BY <1>0, <1>a DEF PagesTypeOK
<1>2. Admitted'
  BY <1>0 DEF Admitted
<1>3. DialogFits'
  BY <1>0, <1>a DEF DialogFits, PaysTheLink, OpenIsCovered, PaidIsUnseen, LoadingIsPending
<1>4. FromOwnWallet'
  BY <1>0, SentKept
<1> QED
  BY <1>1, <1>2, <1>3, <1>4, PTL, Parts

LEMMA ToggleInv == ASSUME PagesInv, Toggle PROVE PagesInv'
<1> USE DEF Toggle, AmountFits, LinkAmountFits, AmountShown, LinkShown,
            profileVars, searchVars, linkVars
<1>0. PagesTypeOK /\ Admitted /\ DialogFits /\ FromOwnWallet
  BY Parts
<1>1. PagesTypeOK'
  <2>1. /\ asking' \in BOOLEAN /\ failed' \in BOOLEAN /\ updated' \in BOOLEAN
        /\ isOpen' \in BOOLEAN /\ isLoading' \in BOOLEAN /\ fell' \in BOOLEAN
    BY <1>0, Zenon DEF PagesTypeOK
  <2>2. /\ UNCHANGED <<api, page, due, found, searching, link, linkUser, form, sent, reply, here>>
        /\ profile' \in Users \cup {None} /\ balance' \in Balances \cup {0}
    BY <1>0 DEF PagesTypeOK
  <2> QED
    BY <1>0, <2>1, <2>2, FlagsTyped
<1>2. Admitted'
  BY <1>0 DEF Admitted
<1>3. DialogFits'
  <2>1. /\ form # None /\ form.amount # None
        /\ form.amount <= balance
        /\ page = "link" => form.amount \in Allowed
    BY <1>0 DEF DialogFits
  <2>2. OpenIsCovered'
    BY <2>1 DEF OpenIsCovered
  <2> QED
    BY <1>0, <2>2 DEF DialogFits, PaysTheLink, PaidIsUnseen, LoadingIsPending
<1>4. FromOwnWallet'
  BY <1>0, SentKept
<1> QED
  BY <1>1, <1>2, <1>3, <1>4, PTL, Parts

(* What is sent is the form, which the open dialog has.                    *)
LEMMA EnterCodeInv == ASSUME PagesInv, NEW s \in Sends, EnterCode(s) PROVE PagesInv'
<1> USE DEF EnterCode, profileVars, searchVars, linkVars
<1>0. PagesTypeOK /\ Admitted /\ DialogFits /\ FromOwnWallet
  BY Parts
<1>a. form \in Forms /\ form # None
  BY <1>0 DEF DialogFits, OpenIsCovered, PagesTypeOK
<1>1. PagesTypeOK'
  BY <1>0, <1>a DEF PagesTypeOK
<1>2. Admitted'
  BY <1>0 DEF Admitted
<1>3. DialogFits'
  BY <1>0, <1>a DEF PagesTypeOK, DialogFits, PaysTheLink, OpenIsCovered, PaidIsUnseen, LoadingIsPending
<1>4. FromOwnWallet'
  BY <1>0, <1>a DEF DialogFits, FromOwnWallet, PagesTypeOK
<1> QED
  BY <1>1, <1>2, <1>3, <1>4, PTL, Parts

LEMMA ShowReceiptInv == ASSUME PagesInv, ShowReceipt PROVE PagesInv'
<1> USE DEF ShowReceipt, profileVars, searchVars, linkVars, dialogVars
<1>0. PagesTypeOK /\ Admitted /\ DialogFits /\ FromOwnWallet
  BY Parts
<1>1. PagesTypeOK'
  BY <1>0 DEF PagesTypeOK, Pages
<1>2. Admitted'
  BY <1>0 DEF Admitted
<1>3. DialogFits'
  BY <1>0 DEF DialogFits, PaysTheLink, OpenIsCovered, PaidIsUnseen, LoadingIsPending
<1>4. FromOwnWallet'
  BY <1>0, SentKept
<1> QED
  BY <1>1, <1>2, <1>3, <1>4, PTL, Parts

LEMMA SendPaidInv == ASSUME PagesInv, NEW s \in Sends, SendPaid(s) PROVE PagesInv'
<1> USE DEF SendPaid, linkVars
<1>0. PagesTypeOK /\ Admitted /\ DialogFits /\ FromOwnWallet
  BY Parts
<1>1. PagesTypeOK'
  BY <1>0 DEF PagesTypeOK, Pages, LeaveSearch, LeaveDialog
<1>2. Admitted'
  BY <1>0 DEF Admitted, LeaveSearch
<1>3. DialogFits'
  BY DialogLeft
<1>4. FromOwnWallet'
  BY <1>0, SentKept
<1> QED
  BY <1>1, <1>2, <1>3, <1>4, PTL, Parts

(* The overlay goes with the first answer to a request of this dialog.     *)
LEMMA SendAnsweredInv ==
    ASSUME PagesInv, NEW s \in Sends, SendPaidUnseen(s) \/ SendRefused(s)
    PROVE  PagesInv'
<1> USE DEF SendPaidUnseen, SendRefused, StopLoading, profileVars, searchVars, linkVars
<1>0. PagesTypeOK /\ Admitted /\ DialogFits /\ FromOwnWallet
  BY Parts
<1>1. PagesTypeOK'
  <2>1. /\ isLoading' \in BOOLEAN
        /\ reply' \in [Sends -> {"none", "flying", "paid", "refused", "lost"}]
    BY <1>0 DEF PagesTypeOK
  <2>2. UNCHANGED <<api, page, profile, asking, failed, updated, due, found, searching, link,
                    linkUser, form, balance, isOpen, here, fell, sent>>
    OBVIOUS
  <2> HIDE DEF SendPaidUnseen, SendRefused
  <2> QED
    BY <1>0, <2>1, <2>2 DEF PagesTypeOK
<1>2. Admitted'
  BY <1>0 DEF Admitted
<1>3. DialogFits'
  <2>1. \A q \in Sends \ {s} : reply'[q] = reply[q]
    BY <1>0 DEF PagesTypeOK
  <2>2. LoadingIsPending'
    BY <1>0, <2>1 DEF DialogFits, LoadingIsPending, PagesTypeOK
  <2>3. here' # {} \/ ~isLoading'
    BY <2>2 DEF LoadingIsPending
  <2>4. PaidIsUnseen'
    BY <1>0, <2>1 DEF DialogFits, PaidIsUnseen, PagesTypeOK
  <2> QED
    BY <1>0, <2>2, <2>3, <2>4 DEF DialogFits, PaysTheLink, OpenIsCovered
<1>4. FromOwnWallet'
  BY <1>0, SentKept
<1> QED
  BY <1>1, <1>2, <1>3, <1>4, PTL, Parts

-----------------------------------------------------------------------------
(* Every step of the pages, their queries and requests keeps PagesInv.     *)
LEMMA NextInv == PagesInv /\ [Next]_vars => PagesInv'
<1> SUFFICES ASSUME PagesInv, [Next]_vars PROVE PagesInv'
  OBVIOUS
<1>1. CASE UNCHANGED vars
  BY <1>1 DEF vars, profileVars, searchVars, linkVars, dialogVars, PagesInv, PagesTypeOK,
     FromOwnWallet, PaysTheLink, OpenIsCovered, PaidIsUnseen, LoadingIsPending
<1>2. CASE Next
  BY <1>2, BreakInv, ProfileAnsweredInv, ProfileFailsInv, ProfileExpiresInv, ProfilePolledInv,
     OpenHomeInv, HomeUpdatesInv, OpenTransferInv, SelectCurrencyInv, TypeReceiverInv, SearchInv,
     SelectUserInv, StepBackInv, BalanceAnsweredInv, OpenLinkInv, ReopenLinkInv,
     ReceiverAnsweredInv, DrawLinkInv, TypeAmountInv, ToggleInv, EnterCodeInv, ShowReceiptInv,
     SendPaidInv, SendAnsweredInv
     DEF Next, SelectBreaks, SearchBreaks, LinkBreaks
<1> QED
  BY <1>1, <1>2

(* Type correctness of the pages that send money to a user.                *)
THEOREM PagesTypeCorrect == Spec => []PagesTypeOK
<1>1. PagesInv => PagesTypeOK
  BY DEF PagesInv
<1> QED
  BY InitInv, NextInv, <1>1, PTL DEF Spec

(* A request of the wizard names the wallet of the user who is signed in,  *)
(* unless the search page's refetch was slower than the user or failed.    *)
THEOREM PagesFromOwnWallet == Spec => []FromOwnWallet
<1>1. PagesInv => FromOwnWallet
  BY DEF PagesInv
<1> QED
  BY InitInv, NextInv, <1>1, PTL DEF Spec

(* What the page of a receive link is about to send goes to the receiver   *)
(* of the link that is open, though all links share one query key.         *)
THEOREM PagesPaysTheLink == Spec => []PaysTheLink
<1>1. PagesInv => PaysTheLink
  BY DEF PagesInv
<1> QED
  BY InitInv, NextInv, <1>1, PTL DEF Spec

(* A request is sent for the amount that was checked, covered by the      *)
(* balance on the page unless that fell under the open dialog of a link's  *)
(* page, within that page's limits, and after no earlier request of the    *)
(* dialog that is known to be paid, this repository's backend excepted.    *)
THEOREM PagesSentAsChecked == Spec => SentAsChecked
<1> DEFINE Checked(s) ==
        /\ form # None /\ form.amount # None
        /\ form.amount <= balance \/ (page = "link" /\ fell)
        /\ page = "link" => form.amount \in Allowed
        /\ \A t \in here : reply[t] = "paid" => api = "payload"
<1>1. ASSUME PagesInv, Next, NEW s \in Sends, reply[s] = "none", reply'[s] # "none"
      PROVE  Checked(s)
  <2>1. reply \in [Sends -> {"none", "flying", "paid", "refused", "lost"}]
    BY <1>1 DEF PagesInv, PagesTypeOK
  <2>2. ~UNCHANGED reply
    BY <1>1
  <2>3. ~OpenLink
    BY <1>1, <2>1 DEF OpenLink, NewDocument
  <2>4. ASSUME NEW q \in Sends PROVE ~SendPaid(q) /\ ~SendPaidUnseen(q) /\ ~SendRefused(q)
    BY <1>1, <2>1, <2>4 DEF SendPaid, SendPaidUnseen, SendRefused
  <2>5. PICK q \in Sends : EnterCode(q)
    BY <1>1, <2>2, <2>3, <2>4 DEF Next, ProfileAnswered, ProfileFails, ProfileExpires,
       ProfilePolled, OpenHome, HomeUpdates, OpenTransfer, SelectCurrency, SelectBreaks,
       TypeReceiver, Search, SearchBreaks, SelectUser, StepBack, BalanceAnswered, ReopenLink,
       ReceiverAnswered, DrawLink, LinkBreaks, TypeAmount, Toggle, ShowReceipt, Break
  <2> QED
    BY <1>1, <2>5 DEF EnterCode, PagesInv, OpenIsCovered, PaidIsUnseen
<1>2. PagesInv /\ [Next]_vars
      => [\A s \in Sends : reply[s] = "none" /\ reply'[s] # "none" => Checked(s)]_vars
  BY <1>1
<1> QED
  BY InitInv, NextInv, <1>2, PTL DEF Spec, SentAsChecked

(* The dialog's overlay is up only while a request it made is under way.   *)
THEOREM PagesLoadingIsPending == Spec => []LoadingIsPending
<1>1. PagesInv => LoadingIsPending
  BY DEF PagesInv
<1> QED
  BY InitInv, NextInv, <1>1, PTL DEF Spec
=============================================================================
