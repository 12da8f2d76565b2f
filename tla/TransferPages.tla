---------------------------- MODULE TransferPages ----------------------------
(***************************************************************************)
(* The client's pages that send money to a user: Home, the transfer        *)
(* wizard of pages/transfer, the page a receive link opens                 *)
(* (pages/receive/transfer.tsx), and the security-code dialog both share   *)
(* (components/transfer/drawer_security.tsx).                              *)
(*                                                                         *)
(* The pages read the profile from a cache that another account may have   *)
(* filled, copy it into the form when the amount page appears, and send    *)
(* the form when the sixth digit is typed; every fetch, timer and answer   *)
(* comes when it likes, also after the page that asked has gone.           *)
(***************************************************************************)
EXTENDS Naturals

CONSTANTS
  Users,    \* accounts of this browser; Me is signed in
  Me,
  Texts,    \* what may be typed as a receiver, Blank included
  Blank,
  Lower,    \* value.toLowerCase()
  Address,  \* of each user's wallet, as the backend writes it
  Links,    \* receive links, each for one receiver
  Amounts,  \* what may be typed as an amount
  Allowed,  \* those between the least and the greatest of a receive link
  Balances, \* what the balance may be
  Sends,    \* the requests of a behaviour, a bound
  None

ASSUME PagesMe      == Me \in Users
ASSUME PagesNone    == None \notin Users \cup Texts \cup Links \cup Amounts
ASSUME PagesTexts   == Blank \in Texts /\ Lower \in [Texts -> Texts]
ASSUME PagesAddress == Address \in [Users -> Texts]
ASSUME PagesLinks   == Links \cap Texts = {}
ASSUME PagesNumbers == Amounts \subseteq Nat /\ Allowed \subseteq Amounts /\ Balances \subseteq Nat \ {0}

VARIABLES
  api,       \* the shape of the answers: this repository's backend has
             \* "payload", the service of the older pages "data"
  page,      \* what is on the screen
  profile,   \* whose profile is cached
  asking,    \* the profile is being fetched
  failed,    \* the last fetch that was answered was refused, or got lost
  updated,   \* state.wallet.isUpdated
  due,       \* what the search's debounce timer holds
  found,     \* the receiver the search shows
  searching, \* SearchUser's isLoading
  link,      \* the receive link of this document
  linkUser,  \* the cached answer of its "receive-user" query
  form,      \* dataSend of the amount page or the link's page
  balance,   \* the balance that page shows
  isOpen,    \* the dialog is open
  isLoading, \* the dialog's overlay
  sent,      \* history: the body of each request, and how it was come by
  reply,     \* of each request
  here,      \* the requests of the dialog on the screen
  fell       \* history: the balance fell since the dialog was opened

profileVars == <<profile, asking, failed, updated>>
searchVars  == <<due, found, searching>>
linkVars    == <<link, linkUser>>
dialogVars  == <<form, balance, isOpen, isLoading, here, fell>>
vars == <<api, page, profileVars, searchVars, linkVars, dialogVars, sent, reply>>

(* dataSend; "unsure" is history: when it was copied the profile was still *)
(* being fetched, or could not be.                                         *)
Forms  == [from : Users, to : Texts \cup Links, amount : Amounts \cup {None}, unsure : BOOLEAN]
ASSUME PagesNoForm == None \notin Forms
Pages  == {"home", "select", "search", "amount", "link", "result", "receipt", "broken"}

PagesTypeOK ==
    /\ api       \in {"payload", "data"}
    /\ page      \in Pages
    /\ profile   \in Users \cup {None}
    /\ asking    \in BOOLEAN
    /\ failed    \in BOOLEAN
    /\ updated   \in BOOLEAN
    /\ due       \in Texts \cup {None}
    /\ found     \in Texts \cup {None}
    /\ searching \in {"null", "true", "false"}
    /\ link      \in Links \cup {None}
    /\ linkUser  \in Links \cup {None}
    /\ form      \in Forms \cup {None}
    /\ balance   \in Balances \cup {0}
    /\ isOpen    \in BOOLEAN
    /\ isLoading \in BOOLEAN
    /\ sent      \in [Sends -> Forms \cup {None}]
    /\ reply     \in [Sends -> {"none", "flying", "paid", "refused", "lost"}]
    /\ here      \subseteq Sends
    /\ fell      \in BOOLEAN

Init ==
    /\ api       \in {"payload", "data"}
    /\ page      \in {"home", "select"}
    /\ profile   \in Users \cup {None}
    /\ asking    = (page = "home" \/ profile = None)
    /\ failed    = FALSE
    /\ updated   = FALSE
    /\ due       = None
    /\ found     = None
    /\ searching = "null"
    /\ link      = None
    /\ linkUser  = None
    /\ form      = None
    /\ balance   = 0
    /\ isOpen    = FALSE
    /\ isLoading = FALSE
    /\ sent      = [s \in Sends |-> None]
    /\ reply     = [s \in Sends |-> "none"]
    /\ here      = {}
    /\ fell      = FALSE

-----------------------------------------------------------------------------
(* What the pages have in common.                                          *)

(* The search box is left: its state and its timer go with it.             *)
LeaveSearch == /\ due'       = None
               /\ found'     = None
               /\ searching' = "null"

(* The page with the dialog is left; its requests are not aborted.         *)
LeaveDialog == /\ form'      = None
               /\ balance'   = 0
               /\ isOpen'    = FALSE
               /\ isLoading' = FALSE
               /\ here'      = {}
               /\ fell'      = FALSE

(* Mutant of RefetchOnMount: the cached profile is taken as it is.         *)
NoRefetch == UNCHANGED asking

(* refetchOnMountOrArgChange: asked again, unless it is being asked.       *)
RefetchOnMount == asking' = TRUE

(* A form as the page copies it when it appears.                           *)
NewForm(from, to, unsure) ==
    /\ form'      = [from |-> from, to |-> to, amount |-> None, unsure |-> unsure]
    /\ isOpen'    = FALSE
    /\ isLoading' = FALSE
    /\ here'      = {}
    /\ fell'      = FALSE

(* A property of undefined is read while a page is drawn: the tree is gone *)
(* and only a new document helps.                                          *)
Break == /\ page' = "broken"
         /\ LeaveSearch /\ LeaveDialog
         /\ UNCHANGED <<api, profileVars, linkVars, sent, reply>>

-----------------------------------------------------------------------------
(* The profile.                                                            *)

(* The answer is the profile of whoever is signed in; a page that reads    *)
(* fields the answer lacks breaks.                                         *)
ProfileAnswered ==
    /\ asking /\ page # "broken"
    /\ profile' = Me /\ asking' = FALSE /\ failed' = FALSE
    /\ \/ /\ \/ page \in {"home", "result", "receipt"}
             \/ page \in {"select", "search", "amount"} /\ api = "payload"
          /\ UNCHANGED <<page, searchVars, dialogVars>>
       \/ /\ page = "link" /\ api = "data"
          /\ balance' \in Balances
          /\ fell' = (fell \/ (isOpen /\ balance' < balance))
          /\ UNCHANGED <<page, searchVars, form, isOpen, isLoading, here>>
       \/ /\ \/ page = "link" /\ api = "payload"
             \/ page \in {"select", "search", "amount"} /\ api = "data"
          /\ page' = "broken"
          /\ LeaveSearch /\ LeaveDialog
    /\ UNCHANGED <<api, updated, linkVars, sent, reply>>

(* What was cached stays.                                                  *)
ProfileFails ==
    /\ asking /\ page # "broken"
    /\ profile # None \/ page \notin {"select", "search", "amount"}
    /\ asking' = FALSE /\ failed' = TRUE
    /\ UNCHANGED <<api, page, profile, updated, searchVars, linkVars, dialogVars,
                   sent, reply>>

(* The profile of another account goes 20 s after its last reader.         *)
ProfileExpires ==
    /\ page \in {"result", "receipt"} /\ ~asking /\ profile # None
    /\ profile' = None
    /\ UNCHANGED <<api, page, asking, failed, updated, searchVars, linkVars, dialogVars,
                   sent, reply>>

(* The link's page asks every 20 s.                                        *)
ProfilePolled ==
    /\ page = "link" /\ ~asking
    /\ asking' = TRUE
    /\ UNCHANGED <<api, page, profile, failed, updated, searchVars, linkVars, dialogVars,
                   sent, reply>>

(* Home mounts from any page; the wizard's state and the dialog's go.      *)
OpenHome ==
    /\ page \notin {"home", "broken"}
    /\ page' = "home"
    /\ RefetchOnMount
    /\ LeaveSearch /\ LeaveDialog
    /\ UNCHANGED <<api, profile, failed, updated, linkVars, sent, reply>>

(* Home's effect: the refetch is dropped when one is already under way,    *)
(* the flag goes down in either case.                                      *)
HomeUpdates ==
    /\ page = "home" /\ updated
    /\ updated' = FALSE
    /\ asking' = TRUE
    /\ UNCHANGED <<api, page, profile, failed, searchVars, linkVars, dialogVars, sent, reply>>

-----------------------------------------------------------------------------
(* The wizard.                                                             *)

(* The links of Home and of the receipt.  Transfer reads the cache as it   *)
(* is, and asks only when there is nothing.                                *)
OpenTransfer ==
    /\ page \in {"home", "receipt"}
    /\ page' = "select"
    /\ asking' = (asking \/ profile = None)
    /\ LeaveSearch /\ LeaveDialog
    /\ UNCHANGED <<api, profile, failed, updated, linkVars, sent, reply>>

(* The three currencies are shown once the profile is there.               *)
CurrenciesShown == page = "select" /\ profile # None /\ api = "payload"

SelectCurrency ==
    /\ CurrenciesShown
    /\ page' = "search"
    /\ RefetchOnMount
    /\ LeaveSearch
    /\ UNCHANGED <<api, profile, failed, updated, linkVars, dialogVars, sent, reply>>

(* The profile of the select page could not be had, or has another shape.  *)
SelectBreaks ==
    /\ page = "select"
    /\ \/ profile = None /\ asking /\ api = "payload"
       \/ profile # None /\ api = "data"
    /\ Break

(* A key in the search box: the timer starts again; what was found stays.  *)
TypeReceiver ==
    /\ page = "search"
    /\ \E t \in Texts : due' = Lower[t]
    /\ UNCHANGED <<api, page, profileVars, found, searching, linkVars, dialogVars, sent, reply>>

OwnWallet == due # Blank /\ due = Address[profile]

(* The debounced search, a second after the last key.  The user's own      *)
(* wallet is refused, which shows again what was found before; nothing     *)
(* else is looked up.                                                      *)
Search ==
    /\ page = "search" /\ due # None
    /\ due' = None
    /\ searching' = "false"
    /\ \/ OwnWallet /\ found # None /\ UNCHANGED found
       \/ ~OwnWallet /\ found' = due
    /\ UNCHANGED <<api, page, profileVars, linkVars, dialogVars, sent, reply>>

(* ... and when nothing was found before, there is nothing to show.        *)
SearchBreaks == page = "search" /\ due # None /\ OwnWallet /\ found = None /\ Break

ReceiverShown == page = "search" /\ searching = "false"

(* The receiver that is shown is taken, and the amount page appears.       *)
SelectUser ==
    /\ ReceiverShown
    /\ page' = "amount"
    /\ NewForm(profile, found, asking \/ failed) /\ balance' = 0
    /\ LeaveSearch
    /\ UNCHANGED <<api, profileVars, linkVars, sent, reply>>

(* The back arrows.                                                        *)
StepBack ==
    /\ \/ page = "search" /\ page' = "select" /\ UNCHANGED asking
       \/ page = "amount" /\ ~isOpen /\ page' = "search" /\ RefetchOnMount
    /\ LeaveSearch /\ LeaveDialog
    /\ UNCHANGED <<api, profile, failed, updated, linkVars, sent, reply>>

(* InputAmount's effect; until it is answered the balance is "0".          *)
BalanceAnswered ==
    /\ page = "amount" /\ balance = 0
    /\ balance' \in Balances
    /\ UNCHANGED <<api, page, profileVars, searchVars, linkVars, form, isOpen, isLoading, here,
                   fell, sent, reply>>

-----------------------------------------------------------------------------
(* The page of a receive link.                                             *)

(* Mutant of NewDocument: the scanner navigates inside the application.    *)
SameDocument == UNCHANGED <<linkUser, reply>>

(* What a page load forgets: the cache of the queries and the answers that *)
(* were under way; the profile's cache is persisted.                       *)
NewDocument ==
    /\ linkUser' = None
    /\ reply'    = [s \in Sends |-> IF reply[s] = "flying" THEN "lost" ELSE reply[s]]

(* ScanQR sets window.location to what it decodes; a link from elsewhere   *)
(* is a page load too.                                                     *)
OpenLink ==
    /\ \E l \in Links : link' = l
    /\ NewDocument
    /\ page'   = "link"
    /\ asking' = (profile = None)
    /\ LeaveSearch /\ LeaveDialog
    /\ UNCHANGED <<api, profile, failed, updated, sent>>

(* The browser's back button: the same link, its query still cached.       *)
ReopenLink ==
    /\ page \in {"result", "receipt"} /\ link # None
    /\ page'   = "link"
    /\ asking' = (asking \/ profile = None)
    /\ LeaveSearch /\ LeaveDialog
    /\ UNCHANGED <<api, profile, failed, updated, linkVars, sent, reply>>

(* getUserByEmail; the query's key is "receive-user" for every link.       *)
ReceiverAnswered ==
    /\ page = "link" /\ linkUser = None
    /\ linkUser' = link
    /\ UNCHANGED <<api, page, profileVars, searchVars, link, dialogVars, sent, reply>>

(* The form is copied from the query's answer when it is first there.  The *)
(* body names no sender: the server takes the one of the token.  The       *)
(* balance is that of the profile in the cache, if there is one.           *)
DrawLink ==
    /\ page = "link" /\ linkUser # None /\ form = None
    /\ profile = None \/ api = "data"
    /\ NewForm(Me, linkUser, FALSE)
    /\ balance' \in CASE profile = None -> {0}
                       [] profile # None /\ balance # 0 -> {balance}
                       [] OTHER -> Balances
    /\ UNCHANGED <<api, page, profileVars, searchVars, linkVars, sent, reply>>

(* No receiver, or a profile of the wrong shape.                           *)
LinkBreaks ==
    /\ page = "link"
    /\ linkUser = None \/ (profile # None /\ api = "payload")
    /\ Break

-----------------------------------------------------------------------------
(* The amount and the dialog, on both pages.                               *)

AmountShown == page = "amount"

LinkShown == page = "link" /\ form # None

(* The open dialog is modal.                                               *)
DialogCovers == isOpen

TypeAmount ==
    /\ (AmountShown \/ LinkShown) /\ ~DialogCovers
    /\ \E a \in Amounts : form' = [form EXCEPT !.amount = a]
    /\ UNCHANGED <<api, page, profileVars, searchVars, linkVars, balance, isOpen, isLoading,
                   here, fell, sent, reply>>

(* handleSubmit of the wizard: "0" is an amount.                           *)
AmountFits == form.amount # None /\ form.amount <= balance

(* handleSubmit of the link's page.                                        *)
LinkAmountFits == AmountFits /\ form.amount \in Allowed

(* The button opens the dialog, and every way to close it asks again; what *)
(* does not fit leaves it as it is.                                        *)
Toggle ==
    /\ (AmountShown /\ AmountFits) \/ (LinkShown /\ LinkAmountFits)
    /\ isOpen' = ~isOpen /\ fell' = FALSE
    /\ UNCHANGED <<api, page, profileVars, searchVars, linkVars, form, balance, isLoading, here,
                   sent, reply>>

(* The sixth digit.  The overlay stops the mouse and not the keyboard.     *)
EnterCode(s) ==
    /\ isOpen
    /\ reply[s] = "none"
    /\ sent'  = [sent EXCEPT ![s] = form]
    /\ reply' = [reply EXCEPT ![s] = "flying"]
    /\ here'  = here \cup {s}
    /\ isLoading' = TRUE
    /\ UNCHANGED <<api, page, profileVars, searchVars, linkVars, form, balance, isOpen, fell>>

(* Mutant of StopLoading: the error path forgets the overlay.              *)
KeepLoading(s) == UNCHANGED isLoading

(* setIsLoading(false) of the dialog that asked, if it is still there.     *)
StopLoading(s) == isLoading' = (isLoading /\ s \notin here)

(* TransferResults has asked for the payment; with or without an answer it *)
(* says that the payment was made.                                         *)
ShowReceipt ==
    /\ page = "result"
    /\ page' = "receipt"
    /\ UNCHANGED <<api, profileVars, searchVars, linkVars, dialogVars, sent, reply>>

(* Mutant of SendPaid: the page with the dialog is not left.               *)
PaidStays(s) ==
    /\ reply[s] = "flying" /\ api = "data" /\ page # "broken"
    /\ reply'   = [reply EXCEPT ![s] = "paid"]
    /\ updated' = TRUE
    /\ StopLoading(s)
    /\ UNCHANGED <<api, page, profile, asking, failed, searchVars, linkVars, form, balance, isOpen,
                   here, fell, sent>>

(* 200: the result page, wherever the user is by now.                      *)
SendPaid(s) ==
    /\ reply[s] = "flying" /\ api = "data" /\ page # "broken"
    /\ reply'   = [reply EXCEPT ![s] = "paid"]
    /\ page'    = "result"
    /\ updated' = TRUE
    /\ LeaveSearch /\ LeaveDialog
    /\ UNCHANGED <<api, profile, asking, failed, linkVars, sent>>

(* 200 of this repository's backend: reading response.data.data._id fails, *)
(* and then so does reading the message of that failure: the payment is    *)
(* made and the dialog says nothing.                                       *)
SendPaidUnseen(s) ==
    /\ reply[s] = "flying" /\ api = "payload"
    /\ reply' = [reply EXCEPT ![s] = "paid"]
    /\ StopLoading(s)
    /\ UNCHANGED <<api, page, profileVars, searchVars, linkVars, form, balance, isOpen, here, fell,
                   sent>>

(* An error, or no answer in the 10 s of createAxios.                      *)
SendRefused(s) ==
    /\ reply[s] = "flying"
    /\ reply' = [reply EXCEPT ![s] = "refused"]
    /\ StopLoading(s)
    /\ UNCHANGED <<api, page, profileVars, searchVars, linkVars, form, balance, isOpen, here, fell,
                   sent>>

Next == \/ ProfileAnswered \/ ProfileFails \/ ProfileExpires \/ ProfilePolled
        \/ OpenHome \/ HomeUpdates
        \/ OpenTransfer \/ SelectCurrency \/ SelectBreaks
        \/ TypeReceiver \/ Search \/ SearchBreaks \/ SelectUser \/ StepBack
        \/ BalanceAnswered
        \/ OpenLink \/ ReopenLink \/ ReceiverAnswered \/ DrawLink \/ LinkBreaks
        \/ TypeAmount \/ Toggle
        \/ \E s \in Sends : EnterCode(s) \/ SendPaid(s) \/ SendPaidUnseen(s) \/ SendRefused(s)
        \/ ShowReceipt

Spec == Init /\ [][Next]_vars

-----------------------------------------------------------------------------
(* The properties.                                                         *)

(* A request of the wizard names the wallet of the user who is signed in,  *)
(* not that of the account whose profile the browser still had, unless the *)
(* search page's refetch was slower than the user or failed                *)
(* (search_user.tsx refetches, input_amount.tsx copies).                   *)
FromOwnWallet ==
    \A s \in Sends : sent[s] # None => sent[s].from = Me \/ sent[s].unsure

(* What a link's page is about to send goes to the receiver of the link    *)
(* that is open, though the query's key does not tell links apart          *)
(* (receive/transfer.tsx).                                                 *)
PaysTheLink == page = "link" /\ form # None => form.to = link

(* A request is sent for the amount that was checked, though every sixth   *)
(* digit sends again, the balance is fetched meanwhile and other requests  *)
(* may be under way: it is covered by the balance on the page, unless that *)
(* fell under the open dialog of a link's page, which polls it; on that    *)
(* page it is between the least and the greatest amount; and no earlier    *)
(* request of the dialog is known to be paid, except to this repository's  *)
(* backend, whose success the dialog cannot read                           *)
(* (components/transfer/drawer_security.tsx, input_amount.tsx,             *)
(* receive/transfer.tsx).                                                  *)
SentAsChecked ==
    [][\A s \in Sends : reply[s] = "none" /\ reply'[s] # "none" =>
          /\ form # None /\ form.amount # None
          /\ form.amount <= balance \/ (page = "link" /\ fell)
          /\ page = "link" => form.amount \in Allowed
          /\ \A t \in here : reply[t] = "paid" => api = "payload"]_vars

(* The dialog is covered only while a request it made is under way, also   *)
(* when several were sent, or the page was left and opened again           *)
(* (components/transfer/drawer_security.tsx).                              *)
LoadingIsPending == isLoading => \E s \in here : reply[s] = "flying"

(* While the dialog is open the checks of handleSubmit still hold.         *)
OpenIsCovered ==
    isOpen => /\ form # None /\ form.amount # None
              /\ form.amount <= balance \/ (page = "link" /\ fell)
              /\ page = "link" => form.amount \in Allowed

(* A dialog that knows of a payment is gone.                               *)
PaidIsUnseen == \A t \in here : reply[t] = "paid" => api = "payload"

(* What makes them inductive.                                              *)
PagesInv ==
    /\ PagesTypeOK
    /\ page \in {"search", "amount"} => profile # None /\ api = "payload"
    /\ page \in {"search", "amount"} => profile = Me \/ asking \/ failed
    /\ searching = "false" => page = "search" /\ found # None
    /\ page = "link" => link # None
    /\ linkUser \in {None, link}
    /\ form # None => page \in {"amount", "link"}
    /\ page = "amount" => form # None
    /\ form # None => form.from = Me \/ form.unsure
    /\ form = None => here = {}
    /\ here # {} \/ ~isLoading
    /\ OpenIsCovered /\ PaidIsUnseen
    /\ FromOwnWallet /\ PaysTheLink /\ LoadingIsPending
=============================================================================
