------------------------------ MODULE CardPages ------------------------------
(***************************************************************************)
(* The client's pages about credit cards: the list with its form and its   *)
(* delete dialog (pages/credit-card), and deposits and withdrawals         *)
(* (pages/deposit-withdraw), over the query cache both share               *)
(* (redux/features/credit-card).                                           *)
(*                                                                         *)
(* The endpoints are not served by this repository's backend: the service  *)
(* is external, a set of linked cards that somebody else may change too.   *)
(* A card is its number; "" is no number.  What a CVC is is its length,    *)
(* what an expiry is is whether it has passed.                             *)
(***************************************************************************)
EXTENDS Naturals, FiniteSets

CONSTANTS
  Numbers,    \* what may be typed as a card number
  Empty,      \* the empty number
  TypeOf,     \* cardType() of the payment library
  Lengths,    \* how many digits of a CVC may be typed
  Currencies, \* a card cannot deposit "ETH"; "VND" is chosen at first
  Amounts,    \* what may be typed as an amount
  NaN,        \* one that parseFloat makes nothing of
  Fits,       \* amounts between the least and the greatest of a currency
  Adds, Deletes, Sends, \* the requests of a behaviour, bounds
  None

ASSUME CardsEmpty  == Empty \in Numbers
ASSUME CardsTypes  == /\ TypeOf \in [Numbers -> {"visa", "mastercard", "amex", "other", "none"}]
                      /\ TypeOf[Empty] = "none"
ASSUME CardsFits   == Fits \subseteq Currencies \X Amounts
ASSUME CardsLengths == Lengths \subseteq 0..4
ASSUME CardsVND    == "VND" \in Currencies
ASSUME CardsNaN    == NaN \in Amounts

VARIABLES
  page,     \* what is on the screen
  linked,   \* the service's cards
  listed,   \* the cached list
  asking,   \* the list is being fetched
  failed,   \* the first fetch of the page failed: there is no list, nor isLoading
  addOpen,  \* the modal with the form
  form,     \* formData; cardType is "type"
  cvvLength,
  adding,   \* the request this form waits for
  added,    \* history: the body of each addition
  addReply,
  deleteId, \* the card the delete dialog is about
  deleting, \* the deletion whose isLoading the page shows
  ours,     \* the deletions of the page on the screen
  deleted,  \* the card of each deletion
  delReply,
  card,     \* isSelectedCard
  currency, \* isSelectedCurrency
  modal,    \* which of the two modals is open
  amount,   \* the amount in each of them
  drawer,   \* the dialog for the security code is open
  mine,     \* the payments under way that this page sent
  sent,     \* history: the body of each payment
  reply,
  leaving   \* navigations that wait for their timer

listVars  == <<linked, listed, asking, failed>>
formVars  == <<addOpen, form, cvvLength, adding>>
addVars   == <<formVars, added, addReply>>
delVars   == <<deleteId, deleting, ours, deleted, delReply>>
moveForm  == <<card, currency, modal, amount, drawer, mine>>
moveVars  == <<moveForm, sent, reply, leaving>>
cardsVars == <<page, listVars, addVars, delVars, moveVars>>

MoveKinds  == {"deposit", "withdraw"}
Forms  == [number : Numbers, type : {"visa", "mastercard", "amex", "other", "none", "credit", "debit"},
           cvc : 0..4, expiry : {"none", "past", "future"}]
Bodies == [kind : MoveKinds, card : Numbers \cup {None}, currency : Currencies, amount : Amounts]
Replies == {"none", "flying", "ok", "failed"}

ASSUME CardsNone ==
    None \notin Numbers \cup Currencies \cup Amounts \cup MoveKinds \cup Forms

ListTypeOK ==
    /\ page      \in {"elsewhere", "cards", "move", "result"}
    /\ linked    \subseteq Numbers
    /\ listed    \in (SUBSET Numbers) \cup {None}
    /\ asking    \in BOOLEAN
    /\ failed   \in BOOLEAN

AddTypeOK ==
    /\ addOpen   \in BOOLEAN
    /\ form      \in Forms
    /\ cvvLength \in {3, 4}
    /\ adding    \in Adds \cup {None}
    /\ added     \in [Adds -> Forms \cup {None}]
    /\ addReply  \in [Adds -> Replies]

DelTypeOK ==
    /\ deleteId  \in Numbers \cup {None}
    /\ deleting  \in Deletes \cup {None}
    /\ ours      \subseteq Deletes
    /\ deleted   \in [Deletes -> Numbers \cup {None}]
    /\ delReply  \in [Deletes -> Replies]

MoveTypeOK ==
    /\ card      \in Numbers \cup {None}
    /\ currency  \in Currencies
    /\ modal     \in MoveKinds \cup {None}
    /\ amount    \in [MoveKinds -> Amounts \cup {None}]
    /\ drawer    \in BOOLEAN
    /\ mine      \subseteq Sends
    /\ sent      \in [Sends -> Bodies \cup {None}]
    /\ reply     \in [Sends -> Replies]
    /\ leaving   \subseteq Sends

CardsTypeOK == ListTypeOK /\ AddTypeOK /\ DelTypeOK /\ MoveTypeOK

EmptyForm == [number |-> Empty, type |-> "credit", cvc |-> 0, expiry |-> "none"]
NoAmounts == [k \in MoveKinds |-> None]

CardsInit ==
    /\ page      = "elsewhere"
    /\ linked    \in SUBSET {n \in Numbers : TypeOf[n] # "none"}
    /\ listed    = None
    /\ asking    = FALSE
    /\ failed   = FALSE
    /\ addOpen   = FALSE
    /\ form      = EmptyForm
    /\ cvvLength = 3
    /\ adding    = None
    /\ added     = [a \in Adds |-> None]
    /\ addReply  = [a \in Adds |-> "none"]
    /\ deleteId  = None
    /\ deleting  = None
    /\ ours      = {}
    /\ deleted   = [d \in Deletes |-> None]
    /\ delReply  = [d \in Deletes |-> "none"]
    /\ card      = None
    /\ currency  = "VND"
    /\ modal     = None
    /\ amount    = NoAmounts
    /\ drawer    = FALSE
    /\ mine      = {}
    /\ sent      = [s \in Sends |-> None]
    /\ reply     = [s \in Sends |-> "none"]
    /\ leaving   = {}

-----------------------------------------------------------------------------
(* The list and its cache.                                                 *)

(* The tags of an addition or a deletion ask for the list again, if a page *)
(* that reads it is there.                                                 *)
Invalidate == asking' = (asking \/ page \in {"cards", "move"})

(* An unmounted form and page lose their state; the requests go on.        *)
CloseForm == /\ addOpen' = FALSE
             /\ form' = EmptyForm /\ cvvLength' = 3
             /\ adding' = None
LeaveCards == CloseForm /\ deleteId' = None /\ deleting' = None /\ ours' = {}
LeaveMove  == /\ card' = None /\ modal' = None /\ amount' = NoAmounts /\ drawer' = FALSE
              /\ currency' = "VND" /\ mine' = {}

OpenPage(p) ==
    /\ page # p
    /\ page' = p
    /\ asking' = (asking \/ p = "move" \/ (p = "cards" /\ listed = None))
    /\ failed' = FALSE
    /\ LeaveCards /\ LeaveMove
    /\ UNCHANGED <<linked, listed, added, addReply, deleted, delReply, sent, reply, leaving>>

ListAnswered ==
    /\ asking
    /\ asking' = FALSE
    /\ listed' = linked /\ failed' = FALSE
    /\ UNCHANGED <<page, linked, addVars, delVars, moveVars>>

ListFails ==
    /\ asking
    /\ asking' = FALSE
    /\ failed' = (listed = None /\ page \in {"cards", "move"})
    /\ UNCHANGED <<page, linked, listed, addVars, delVars, moveVars>>

(* The list's page asks every 20 s.                                        *)
ListPolled ==
    /\ page = "cards" /\ ~asking
    /\ asking' = TRUE
    /\ UNCHANGED <<page, linked, listed, failed, addVars, delVars, moveVars>>

(* Another device of the user removes a card.                              *)
RemovedElsewhere ==
    /\ \E n \in linked : linked' = linked \ {n}
    /\ UNCHANGED <<page, listed, asking, failed, addVars, delVars, moveVars>>

-----------------------------------------------------------------------------
(* Adding a card.                                                          *)

(* Until the first fetch has ended there is a loading page; when it failed *)
(* the page has the form and no cards.                                     *)
CardsShown == page = "cards" /\ (listed # None \/ failed)

(* The button is behind the open modals.                                   *)
OpenForm ==
    /\ CardsShown /\ ~addOpen /\ deleteId = None
    /\ addOpen' = TRUE
    /\ UNCHANGED <<page, listVars, form, cvvLength, adding, added, addReply, delVars, moveVars>>

DismissForm ==
    /\ addOpen
    /\ CloseForm
    /\ UNCHANGED <<page, listVars, added, addReply, delVars, moveVars>>

(* Mutant of CvvLengthOf: it is set when the form is opened only.          *)
CvvLengthKept(n) == cvvLength

CvvLengthOf(n) == IF TypeOf[n] = "amex" THEN 4 ELSE 3

(* handleChange of the number: the type and the length of the CVC follow.  *)
TypeNumber(n) ==
    /\ form' = [form EXCEPT !.number = n,
                            !.type = IF TypeOf[n] = "none" THEN "debit" ELSE TypeOf[n]]
    /\ cvvLength' = CvvLengthOf(n)

(* The field is "cvc", so formatCVC is not called: maxLength is the only   *)
(* bound, and does not shorten what is there.                              *)
TypeCvc(k) == k <= cvvLength /\ form' = [form EXCEPT !.cvc = k] /\ UNCHANGED cvvLength

PickExpiry(e) == form' = [form EXCEPT !.expiry = e] /\ UNCHANGED cvvLength

EditForm ==
    /\ addOpen
    /\ \/ \E n \in Numbers : TypeNumber(n)
       \/ \E k \in Lengths : TypeCvc(k)
       \/ \E e \in {"past", "future"} : PickExpiry(e)
    /\ UNCHANGED <<page, listVars, addOpen, adding, added, addReply, delVars, moveVars>>

validateCardData ==
    /\ TypeOf[form.number] # "none"
    /\ form.expiry = "future"
    /\ form.cvc = cvvLength

(* The button is disabled while this form's request is under way.          *)
SubmitCard(a) ==
    /\ addOpen /\ adding = None
    /\ validateCardData
    /\ added[a] = None
    /\ added'    = [added EXCEPT ![a] = form]
    /\ addReply' = [addReply EXCEPT ![a] = "flying"]
    /\ adding'   = a
    /\ UNCHANGED <<page, listVars, addOpen, form, cvvLength, delVars, moveVars>>

(* resetForm leaves the length of the CVC, and takes what was typed since. *)
AddAnswered(a) ==
    /\ addReply[a] = "flying"
    /\ addReply' = [addReply EXCEPT ![a] = "ok"]
    /\ linked' = linked \cup {added[a].number}
    /\ Invalidate
    /\ IF adding = a THEN form' = EmptyForm /\ adding' = None ELSE UNCHANGED <<form, adding>>
    /\ UNCHANGED <<page, listed, failed, addOpen, cvvLength, added, delVars, moveVars>>

AddFails(a) ==
    /\ addReply[a] = "flying"
    /\ addReply' = [addReply EXCEPT ![a] = "failed"]
    /\ adding' = IF adding = a THEN None ELSE adding
    /\ UNCHANGED <<page, listVars, addOpen, form, cvvLength, added, delVars, moveVars>>

-----------------------------------------------------------------------------
(* Deleting a card.                                                        *)

handleDeleteCard ==
    /\ CardsShown /\ ~addOpen /\ deleteId = None
    /\ deleting = None
    /\ listed # None /\ deleteId' \in listed
    /\ UNCHANGED <<page, listVars, addVars, deleting, ours, deleted, delReply, moveVars>>

CancelDelete ==
    /\ deleteId # None
    /\ deleteId' = None
    /\ UNCHANGED <<page, listVars, addVars, deleting, ours, deleted, delReply, moveVars>>

(* The dialog stays, and may be confirmed again; the list is hidden until  *)
(* the newest deletion is answered.                                        *)
confirmDeleteCard(d) ==
    /\ deleteId # None
    /\ delReply[d] = "none"
    /\ deleted'  = [deleted EXCEPT ![d] = deleteId]
    /\ delReply' = [delReply EXCEPT ![d] = "flying"]
    /\ deleting' = d /\ ours' = ours \cup {d}
    /\ UNCHANGED <<page, listVars, addVars, deleteId, moveVars>>

(* Whatever the dialog is about by now, it closes.                         *)
DeleteReturns(d, r) ==
    /\ delReply[d] = "flying"
    /\ delReply' = [delReply EXCEPT ![d] = r]
    /\ deleting' = IF deleting = d THEN None ELSE deleting
    /\ deleteId' = IF d \in ours THEN None ELSE deleteId
    /\ linked' = IF r = "ok" THEN linked \ {deleted[d]} ELSE linked
    /\ Invalidate
    /\ UNCHANGED <<page, listed, failed, addVars, ours, deleted, moveVars>>

-----------------------------------------------------------------------------
(* Deposits and withdrawals.                                               *)

(* What the page shows once the profile and the list are there, or could   *)
(* not be fetched; with an empty list it only links to the cards' page.    *)
MoveShown == page = "move" /\ listed # {} /\ (listed # None \/ failed)

(* Cards of two kinds are offered.                                         *)
Offered == {n \in Numbers : /\ listed # None /\ n \in listed
                            /\ TypeOf[n] \in {"visa", "mastercard"}}

(* The page behind a modal cannot be used.                                 *)
Choose ==
    /\ MoveShown /\ modal = None
    /\ \/ card' \in Offered /\ UNCHANGED currency
       \/ currency' \in Currencies /\ UNCHANGED card
    /\ UNCHANGED <<page, listVars, addVars, delVars, modal, amount, drawer, mine, sent, reply,
                   leaving>>

(* Both modals keep what was typed in them while they are closed.          *)
OpenModal ==
    /\ MoveShown /\ modal = None
    /\ modal' \in MoveKinds
    /\ UNCHANGED <<page, listVars, addVars, delVars, card, currency, amount, drawer, mine, sent,
                   reply, leaving>>

CloseModal ==
    /\ modal # None /\ ~drawer
    /\ modal' = None
    /\ UNCHANGED <<page, listVars, addVars, delVars, card, currency, amount, drawer, mine, sent,
                   reply, leaving>>

(* The field is not there for deposits of ETH.                             *)
DepositTakes == modal = "deposit" /\ currency # "ETH"

WithdrawTakes == modal = "withdraw"

(* handleAmountChange: in VND what is not a number is not taken over.      *)
handleAmountChange ==
    /\ DepositTakes \/ WithdrawTakes
    /\ ~drawer
    /\ \E a \in Amounts :
          /\ currency = "VND" => a # NaN
          /\ amount' = [amount EXCEPT ![modal] = a]
    /\ UNCHANGED <<page, listVars, addVars, delVars, card, currency, modal, drawer, mine, sent, reply,
                   leaving>>

(* Mutant of InBounds: the bounds are checked when the amount is typed.    *)
InBoundsOnce(k) == amount[k] # None

(* NaN is neither below the least nor above the greatest amount.           *)
InBounds(k) == amount[k] # None /\ (<<currency, amount[k]>> \in Fits \/ amount[k] = NaN)

(* The chosen card is looked up in the list of this moment.                *)
CardFound == card # None /\ listed # None /\ card \in listed

handleConfirmDeposit ==
    /\ DepositTakes /\ ~drawer
    /\ InBounds("deposit")
    /\ CardFound
    /\ drawer' = TRUE
    /\ UNCHANGED <<page, listVars, addVars, delVars, card, currency, modal, amount, mine, sent, reply,
                   leaving>>

handleConfirmWithdraw ==
    /\ WithdrawTakes /\ ~drawer
    /\ InBounds("withdraw")
    /\ CardFound
    /\ drawer' = TRUE
    /\ UNCHANGED <<page, listVars, addVars, delVars, card, currency, modal, amount, mine, sent, reply,
                   leaving>>

(* The dialog is over everything until it is closed.                       *)
CloseDrawer ==
    /\ drawer
    /\ drawer' = FALSE
    /\ UNCHANGED <<page, listVars, addVars, delVars, card, currency, modal, amount, mine, sent, reply,
                   leaving>>

(* The sixth digit; the body has the page's choices of this moment.        *)
handleChangeOTP(s) ==
    /\ drawer
    /\ reply[s] = "none"
    /\ sent' = [sent EXCEPT ![s] =
                   [kind |-> modal, card |-> card, currency |-> currency, amount |-> amount[modal]]]
    /\ reply' = [reply EXCEPT ![s] = "flying"]
    /\ mine' = mine \cup {s}
    /\ UNCHANGED <<page, listVars, addVars, delVars, card, currency, modal, amount, drawer, leaving>>

(* 200: the dialog closes, whatever it is open for by now (onClose of a    *)
(* page that was left does nothing), and a timer will leave the page.      *)
Moved(s) ==
    /\ reply[s] = "flying"
    /\ reply' = [reply EXCEPT ![s] = "ok"]
    /\ leaving' = leaving \cup {s}
    /\ drawer' = (drawer /\ ~(s \in mine /\ modal = sent[s].kind))
    /\ mine' = mine \ {s}
    /\ UNCHANGED <<page, listVars, addVars, delVars, card, currency, modal, amount, sent>>

(* An error of any kind; the dialog stays open.                            *)
MoveFails(s) ==
    /\ reply[s] = "flying"
    /\ reply' = [reply EXCEPT ![s] = "failed"]
    /\ mine' = mine \ {s}
    /\ UNCHANGED <<page, listVars, addVars, delVars, card, currency, modal, amount, drawer, sent,
                   leaving>>

(* setTimeout(..., 1000 or 2000): from whatever page the user is on.       *)
Navigate(s) ==
    /\ s \in leaving
    /\ leaving' = leaving \ {s}
    /\ page' = "result"
    /\ LeaveCards /\ LeaveMove
    /\ failed' = FALSE
    /\ UNCHANGED <<linked, listed, asking, added, addReply, deleted, delReply, sent, reply>>

CardsNext ==
    \/ \E p \in {"elsewhere", "cards", "move"} : OpenPage(p)
    \/ ListAnswered \/ ListFails \/ ListPolled \/ RemovedElsewhere
    \/ OpenForm \/ DismissForm \/ EditForm
    \/ \E a \in Adds : SubmitCard(a) \/ AddAnswered(a) \/ AddFails(a)
    \/ handleDeleteCard \/ CancelDelete
    \/ \E d \in Deletes : confirmDeleteCard(d) \/ \E r \in {"ok", "failed"} : DeleteReturns(d, r)
    \/ Choose \/ OpenModal \/ CloseModal \/ handleAmountChange
    \/ handleConfirmDeposit \/ handleConfirmWithdraw \/ CloseDrawer
    \/ \E s \in Sends : handleChangeOTP(s) \/ Moved(s) \/ MoveFails(s) \/ Navigate(s)

CardsSpec == CardsInit /\ [][CardsNext]_cardsVars

-----------------------------------------------------------------------------
(* The properties.                                                         *)

(* A card that is submitted has a known type, is sent under that type, has *)
(* a CVC as long as that type wants and has not expired, in whatever order *)
(* the fields were typed, changed and reset (add-credit-card.tsx).         *)
SubmittedFits ==
    \A a \in Adds : added[a] # None =>
        /\ added[a].type = TypeOf[added[a].number] /\ added[a].type # "none"
        /\ added[a].cvc = (IF added[a].type = "amex" THEN 4 ELSE 3)
        /\ added[a].expiry = "future"

(* A deposit or a withdrawal is sent with an amount that the bounds of its *)
(* currency allow, or that is no number, from a card of an offered type,   *)
(* and never deposits ETH, though currency, card and amount are chosen in  *)
(* different places that outlive each other (pages/deposit-withdraw).      *)
MovedInBounds ==
    \A s \in Sends : sent[s] # None =>
        /\ <<sent[s].currency, sent[s].amount>> \in Fits \/ sent[s].amount = NaN
        /\ sent[s].card # None /\ TypeOf[sent[s].card] \in {"visa", "mastercard"}
        /\ sent[s].kind = "deposit" => sent[s].currency # "ETH"

(* What makes SubmittedFits inductive: once there is a number, its type    *)
(* and the length of the CVC go with it.                                   *)
AddInv ==
    /\ AddTypeOK
    /\ form.number # Empty =>
         /\ form.type = (IF TypeOf[form.number] = "none" THEN "debit" ELSE TypeOf[form.number])
         /\ cvvLength = (IF TypeOf[form.number] = "amex" THEN 4 ELSE 3)
    /\ \A a \in Adds : addReply[a] # "none" => added[a] # None
    /\ SubmittedFits

(* What makes MovedInBounds inductive: nothing under an open dialog        *)
(* changes.                                                                *)
MoveInv ==
    /\ MoveTypeOK
    /\ card # None => TypeOf[card] \in {"visa", "mastercard"}
    /\ drawer => /\ modal # None /\ card # None
                 /\ amount[modal] # None
                 /\ <<currency, amount[modal]>> \in Fits \/ amount[modal] = NaN
                 /\ modal = "deposit" => currency # "ETH"
    /\ MovedInBounds

CardsInv == ListTypeOK /\ AddInv /\ DelTypeOK /\ MoveInv
=============================================================================
