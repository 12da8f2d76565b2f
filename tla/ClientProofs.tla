---------------------------- MODULE ClientProofs ----------------------------
(***************************************************************************)
(* The safety of what the client does behind its pages and on the pages    *)
(* about cards.                                                            *)
(*                                                                         *)
(* TokenRefresh: RefreshInv is inductive, for any calls of the two kinds   *)
(* of client and each service.  UncrossedKnows carries the argument: until *)
(* another call or a sign-in sets the token, a call finds in the store the *)
(* one it was sent with, and it refreshes only when that was refused.      *)
(*                                                                         *)
(* CardPages: AddInv and MoveInv are inductive, each over its own          *)
(* variables, for any cards, currencies, amounts and requests.             *)
(***************************************************************************)
EXTENDS TokenRefresh, CardPages, TLAPS

USE RefreshKinds, RefreshTokens

LEMMA RefreshInitInv == RefreshInit => RefreshInv
<1> SUFFICES ASSUME RefreshInit PROVE RefreshInv
  OBVIOUS
<1>1. RefreshTypeOK
  <2>1. kind \in [Calls -> {"axios", "rtk"}]
    BY DEF RefreshInit
  <2>2. 0 \in 0..MaxTokens
    OBVIOUS
  <2> QED
    BY <2>1, <2>2 DEF RefreshInit, RefreshTypeOK, States
<1>2. OneRefresh /\ UncrossedKnows
  BY DEF RefreshInit, OneRefresh, Holding, UncrossedKnows, UnderWay, Queued, Refreshing
<1> QED
  BY <1>1, <1>2 DEF RefreshInv

(* The flag follows the calls that hold it.                                *)
LEMMA HoldersKept ==
    ASSUME OneRefresh, UNCHANGED isRefreshing, \A c \in Calls : Holding(c)' = Holding(c)
    PROVE  OneRefresh'
  BY DEF OneRefresh

(* A step that neither sets the token, except to none, nor starts a        *)
(* refresh.                                                                *)
LEMMA KnowledgeKept ==
    ASSUME RefreshTypeOK, RefreshTypeOK', UncrossedKnows, crossed \subseteq crossed', expired <= expired',
           token' = token \/ token' = 0,
           \A d \in Calls :
              \/ d \notin UnderWay'
              \/ auth'[d] = auth[d] /\ pc'[d] = pc[d] /\ retried'[d] = retried[d]
              \/ /\ auth'[d] = auth[d] /\ retried'[d] = retried[d]
                 /\ Refreshing(d) /\ Refreshing(d)'
    PROVE  UncrossedKnows'
<1> SUFFICES ASSUME NEW d \in Calls, d \in UnderWay'
             PROVE  /\ d \notin crossed' /\ ~(pc'[d] = "flying" /\ retried'[d])
                          => token' \in {auth'[d], 0}
                    /\ d \in Queued' \/ Refreshing(d)' => retried'[d] /\ auth'[d] <= expired'
  BY DEF UncrossedKnows, UnderWay, Queued
<1>1. auth'[d] = auth[d] /\ retried'[d] = retried[d] /\ auth[d] \in Nat /\ expired \in Nat /\ expired' \in Nat
  BY DEF RefreshTypeOK
<1>2. CASE pc'[d] = pc[d]
  BY <1>1, <1>2 DEF UncrossedKnows, UnderWay, Queued, Refreshing
<1>3. CASE Refreshing(d) /\ Refreshing(d)'
  BY <1>1, <1>3 DEF UncrossedKnows, UnderWay, Queued, Refreshing
<1> QED
  BY <1>2, <1>3

(* Signing in crosses whatever is under way, and touches no call.          *)
LEMMA LoginInv == ASSUME RefreshInv, Login PROVE RefreshInv'
<1>1. RefreshTypeOK'
  BY DEF RefreshInv, RefreshTypeOK, Login, Mint, callVars, UnderWay
<1>2. OneRefresh'
  BY HoldersKept DEF RefreshInv, Login, callVars, Holding, Refreshing
<1>3. UncrossedKnows'
  BY DEF RefreshInv, Login, callVars, UncrossedKnows, UnderWay, Queued, Refreshing
<1> QED
  BY <1>1, <1>2, <1>3 DEF RefreshInv

LEMMA TokenExpiresInv == ASSUME RefreshInv, TokenExpires PROVE RefreshInv'
<1> USE DEF RefreshInv
<1>1. RefreshTypeOK'
  BY DEF RefreshTypeOK, TokenExpires, callVars, storeVars, history
<1>2. OneRefresh'
  BY HoldersKept DEF TokenExpires, callVars, storeVars, Holding, Refreshing
<1>3. expired <= expired'
  BY DEF TokenExpires, RefreshTypeOK
<1> QED
  BY <1>1, <1>2, <1>3, KnowledgeKept DEF TokenExpires, callVars, storeVars, history

(* A call that holds nothing is sent, queued, answered or given up.        *)
LEMMA SmallStepsInv ==
    ASSUME RefreshInv, NEW c \in Calls, Request(c) \/ Answered(c) \/ GivenUp(c) \/ AxiosQueue(c)
    PROVE  RefreshInv'
<1> USE DEF RefreshInv
<1>1. PICK to \in {"flying", "done", "failed", "queued"} :
        pc[c] \in {"idle", "flying"} /\ pc' = [pc EXCEPT ![c] = to]
  BY DEF Request, Answered, GivenUp, AxiosQueue, Unauthorized, Go
<1>2. /\ auth' \in [Calls -> 0..MaxTokens] /\ retried' \in [Calls -> BOOLEAN]
      /\ UNCHANGED <<kind, service, fresh, storeVars, serviceVars, history>>
      /\ \A d \in Calls \ {c} : pc'[d] = pc[d] /\ auth'[d] = auth[d] /\ retried'[d] = retried[d]
  BY <1>1 DEF RefreshTypeOK, Request, Answered, GivenUp, AxiosQueue
<1>3. RefreshTypeOK'
  BY <1>1, <1>2 DEF RefreshTypeOK, States, storeVars, serviceVars, history
<1>4. pc'[c] = to
  BY <1>1 DEF RefreshTypeOK
<1>5. OneRefresh'
  BY <1>1, <1>2, <1>4, HoldersKept DEF Holding, Refreshing, storeVars
<1>6. UncrossedKnows'
  <2>1. CASE to \in {"done", "failed"}
    BY <1>2, <1>3, <1>4, <2>1, KnowledgeKept
       DEF UnderWay, Refreshing, storeVars, serviceVars, history, RefreshTypeOK
  <2>2. CASE to = "flying"
    <3>1. auth'[c] = token
      BY <1>1, <1>4, <2>2 DEF Request, Answered, GivenUp, AxiosQueue, Go, RefreshTypeOK
    <3> QED
      BY <1>2, <1>4, <2>2, <3>1
         DEF UncrossedKnows, UnderWay, Queued, Refreshing, storeVars, serviceVars, history
  <2>3. CASE to = "queued"
    <3>1. pc[c] = "flying" /\ ~retried[c] /\ auth' = auth /\ auth[c] <= expired /\ retried'[c]
      BY <1>1, <1>4, <2>3
         DEF Request, Answered, GivenUp, AxiosQueue, Unauthorized, Accepted, Go, RefreshTypeOK
    <3> QED
      BY <1>2, <1>4, <2>3, <3>1
         DEF UncrossedKnows, UnderWay, Queued, Refreshing, storeVars, serviceVars, history
  <2> QED
    BY <1>1, <2>1, <2>2, <2>3
<1> QED
  BY <1>3, <1>5, <1>6

(* What the service answers does not end the refresh.                      *)
LEMMA ServeRefreshInv == ASSUME RefreshInv, NEW c \in Calls, ServeRefresh(c) PROVE RefreshInv'
<1> USE DEF RefreshInv
<1>1. /\ pc[c] = "refreshing"
      /\ UNCHANGED <<kind, service, auth, retried, storeVars, expired, history>>
  BY DEF ServeRefresh
<1>2. PICK to \in {"minted", "refused", "barred", "empty"} : pc' = [pc EXCEPT ![c] = to]
  BY DEF ServeRefresh, Go
<1>3. minted' \in 0..MaxTokens /\ fresh' \in [Calls -> 0..MaxTokens]
  BY DEF ServeRefresh, Mint, RefreshTypeOK
<1>4. RefreshTypeOK'
  BY <1>1, <1>2, <1>3 DEF RefreshTypeOK, States, storeVars, history
<1>5. pc'[c] = to /\ \A d \in Calls \ {c} : pc'[d] = pc[d]
  BY <1>2 DEF RefreshTypeOK
<1>6. OneRefresh'
  BY <1>1, <1>5, HoldersKept DEF Holding, Refreshing, storeVars
<1>7. expired <= expired'
  BY <1>1 DEF RefreshTypeOK
<1>8. Refreshing(c) /\ Refreshing(c)'
  BY <1>1, <1>5 DEF Refreshing
<1>9. UncrossedKnows'
  BY <1>1, <1>4, <1>5, <1>7, <1>8, KnowledgeKept DEF storeVars, history
<1> QED
  BY <1>4, <1>6, <1>9

(* A refresh starts for a token that was refused, and for the axios client *)
(* when the flag is down.                                                  *)
LEMMA StartRefreshInv ==
    ASSUME RefreshInv, NEW c \in Calls, AxiosRefresh(c) \/ QueryRefresh(c)
    PROVE  RefreshInv'
<1> USE DEF RefreshInv
<1>1. /\ pc[c] = "flying" /\ ~retried[c] /\ auth[c] <= expired
      /\ pc' = [pc EXCEPT ![c] = "refreshing"] /\ retried' = [retried EXCEPT ![c] = TRUE]
      /\ UNCHANGED <<kind, service, auth, fresh, token, serviceVars, history>>
      /\ \/ kind[c] = "axios" /\ isRefreshing = FALSE /\ isRefreshing' = TRUE
         \/ kind[c] # "axios" /\ isRefreshing' = isRefreshing
  BY DEF AxiosRefresh, QueryRefresh, StartRefresh, Unauthorized, Accepted, Go, MayRefresh,
         RefreshTypeOK
<1>2. RefreshTypeOK'
  BY <1>1 DEF RefreshTypeOK, States, serviceVars, history
<1>3. /\ \A d \in Calls \ {c} : pc'[d] = pc[d] /\ retried'[d] = retried[d]
      /\ pc'[c] = "refreshing" /\ retried'[c]
  BY <1>1 DEF RefreshTypeOK
<1>4. /\ \A d \in Calls \ {c} : Holding(d)' = Holding(d)
      /\ Holding(c)' = (kind[c] = "axios") /\ ~Holding(c)
  BY <1>1, <1>3 DEF Refreshing, Holding
<1>5. OneRefresh'
  <2>1. CASE kind[c] = "axios" /\ isRefreshing = FALSE /\ isRefreshing' = TRUE
    <3>1. \A d \in Calls : Holding(d)' <=> d = c
      BY <1>4, <2>1 DEF OneRefresh
    <3>2. isRefreshing' /\ Holding(c)'
      BY <2>1, <3>1
    <3>3. \A d, e \in Calls : Holding(d)' /\ Holding(e)' => d = e
      BY <3>1
    <3> QED
      BY <3>2, <3>3 DEF OneRefresh
  <2>2. CASE kind[c] # "axios" /\ isRefreshing' = isRefreshing
    <3>1. Holding(c)' = Holding(c)
      BY <1>1, <1>3, <2>2 DEF Holding
    <3> QED
      BY <1>4, <2>2, <3>1, HoldersKept
  <2> QED
    BY <1>1, <2>1, <2>2
<1>6. UncrossedKnows'
  BY <1>1, <1>3 DEF UncrossedKnows, UnderWay, Queued, Refreshing, serviceVars, history
<1> QED
  BY <1>2, <1>5, <1>6

(* A refresh ends and whatever held the flag lets it go.                   *)
LEMMA HolderGone ==
    ASSUME OneRefresh, NEW c \in Calls, Refreshing(c), UNCHANGED kind,
           pc'[c] \in {"flying", "failed"},
           \A d \in Calls \ {c} : pc'[d] = pc[d] \/ (pc[d] = "queued" /\ pc'[d] = "flying"),
           isRefreshing' = (IF kind[c] = "axios" THEN FALSE ELSE isRefreshing)
    PROVE  OneRefresh'
<1>1. /\ \A d \in Calls \ {c} : Holding(d)' = Holding(d)
      /\ ~Holding(c)' /\ Holding(c) = (kind[c] = "axios")
  BY DEF Refreshing, Holding
<1> QED
  BY <1>1 DEF OneRefresh

(* A refresh that brought a token crosses all the others; its own call is  *)
(* not asked again.                                                        *)
LEMMA RefreshedInv ==
    ASSUME RefreshInv, NEW c \in Calls, AxiosRefreshed(c) \/ QueryRefreshed(c)
    PROVE  RefreshInv'
<1> USE DEF RefreshInv
<1>1. RefreshTypeOK /\ kind[c] \in {"axios", "rtk"} /\ Given(c) \in 0..MaxTokens
  BY DEF RefreshTypeOK, Given
<1>2. /\ Refreshing(c) /\ token' = Given(c) /\ crossed' = crossed \cup (UnderWay \ {c})
      /\ isRefreshing' = (IF kind[c] = "axios" THEN FALSE ELSE isRefreshing)
      /\ UNCHANGED <<kind, service, retried, fresh, serviceVars, dropped>>
  BY <1>1 DEF AxiosRefreshed, QueryRefreshed, TakeToken, Refreshing
<1>3. /\ pc' \in [Calls -> States] /\ pc'[c] = "flying"
      /\ \A d \in Calls \ {c} : /\ pc'[d] = pc[d] \/ (pc[d] = "queued" /\ pc'[d] = "flying")
                               /\ auth'[d] = auth[d]
  BY <1>1 DEF AxiosRefreshed, QueryRefreshed, OnRefreshed, Queued, Go, RefreshTypeOK, States
<1>4. auth' \in [Calls -> 0..MaxTokens]
  BY <1>1 DEF AxiosRefreshed, QueryRefreshed, RefreshTypeOK
<1>5. RefreshTypeOK'
  BY <1>1, <1>2, <1>3, <1>4 DEF RefreshTypeOK, serviceVars, UnderWay
<1>6. OneRefresh'
  BY <1>2, <1>3, HolderGone
<1>7. UncrossedKnows'
  <2>1. \A d \in Calls \ {c} : d \in UnderWay' => d \in crossed'
    BY <1>2, <1>3 DEF UnderWay, Refreshing
  <2>2. \A d \in Calls : d \in Queued' \/ Refreshing(d)' => retried'[d] /\ auth'[d] <= expired'
    BY <1>2, <1>3 DEF UncrossedKnows, Queued, Refreshing, serviceVars
  <2>3. retried'[c]
    BY <1>2 DEF UncrossedKnows
  <2> QED
    BY <1>3, <2>1, <2>2, <2>3 DEF UncrossedKnows
<1> QED
  BY <1>5, <1>6, <1>7

(* A refresh that fails leaves the others where they are.                  *)
LEMMA FailsInv ==
    ASSUME RefreshInv, NEW c \in Calls, AxiosFails(c) \/ SignOut(c)
    PROVE  RefreshInv'
<1> USE DEF RefreshInv
<1>1. /\ Refreshing(c) /\ pc' = [pc EXCEPT ![c] = "failed"]
      /\ isRefreshing' = (IF kind[c] = "axios" THEN FALSE ELSE isRefreshing)
      /\ token' = token \/ token' = 0
      /\ dropped' \subseteq dropped \cup Queued
      /\ UNCHANGED <<kind, service, auth, retried, fresh, serviceVars, crossed>>
  BY DEF AxiosFails, SignOut, Go, RefreshTypeOK, history
<1>2. RefreshTypeOK'
  <2>1. token' \in 0..MaxTokens /\ dropped' \subseteq Calls
    BY <1>1 DEF RefreshTypeOK, Queued
  <2>2. isRefreshing' \in BOOLEAN
    BY <1>1, Zenon DEF RefreshTypeOK
  <2> QED
    BY <1>1, <2>1, <2>2 DEF RefreshTypeOK, States, serviceVars
<1>3. pc'[c] = "failed" /\ \A d \in Calls \ {c} : pc'[d] = pc[d]
  BY <1>1 DEF RefreshTypeOK
<1>4. OneRefresh'
  BY <1>1, <1>3, HolderGone
<1>5. UncrossedKnows'
  <2>1. c \notin UnderWay' /\ expired <= expired'
    BY <1>1, <1>3 DEF UnderWay, Refreshing, serviceVars, RefreshTypeOK
  <2> QED
    BY <1>1, <1>2, <1>3, <2>1, KnowledgeKept
<1> QED
  BY <1>2, <1>4, <1>5

(* The call that waits for itself, or whose answer was not expected, holds *)
(* the flag for ever.                                                      *)
LEMMA HeldForEverInv ==
    ASSUME RefreshInv, NEW c \in Calls, AxiosStuck(c) \/ AxiosLeft(c)
    PROVE  RefreshInv'
<1> USE DEF RefreshInv
<1>1. PICK to \in {"stuck", "left"} : pc' = [pc EXCEPT ![c] = to]
  BY DEF AxiosStuck, AxiosLeft, Go
<1>2. /\ Refreshing(c) /\ kind[c] = "axios"
      /\ UNCHANGED <<kind, service, auth, retried, fresh, storeVars, serviceVars, history>>
  BY DEF AxiosStuck, AxiosLeft, Refreshing
<1>3. RefreshTypeOK'
  BY <1>1, <1>2 DEF RefreshTypeOK, States, storeVars, serviceVars, history
<1>4. pc'[c] = to /\ \A d \in Calls \ {c} : pc'[d] = pc[d]
  BY <1>1 DEF RefreshTypeOK
<1>5. \A d \in Calls : Holding(d)' = Holding(d)
  BY <1>2, <1>4 DEF Refreshing, Holding
<1>6. c \notin UnderWay' /\ expired <= expired'
  BY <1>2, <1>4 DEF UnderWay, Refreshing, serviceVars, RefreshTypeOK
<1>7. UncrossedKnows'
  BY <1>2, <1>3, <1>4, <1>6, KnowledgeKept DEF storeVars, history
<1> QED
  BY <1>2, <1>3, <1>5, <1>7, HoldersKept DEF storeVars

LEMMA RefreshNextInv == RefreshInv /\ [RefreshNext]_refreshVars => RefreshInv'
<1> SUFFICES ASSUME RefreshInv, [RefreshNext]_refreshVars PROVE RefreshInv'
  OBVIOUS
<1>1. CASE UNCHANGED refreshVars
  BY <1>1 DEF RefreshInv, RefreshTypeOK, OneRefresh, Holding, UncrossedKnows, UnderWay, Queued,
     Refreshing, refreshVars, callVars, storeVars, serviceVars, history
<1>2. CASE RefreshNext
  BY <1>2, LoginInv, TokenExpiresInv, SmallStepsInv, ServeRefreshInv, StartRefreshInv,
     RefreshedInv, FailsInv, HeldForEverInv DEF RefreshNext, CallNext
<1> QED
  BY <1>1, <1>2

LEMMA RefreshInvariant == RefreshSpec => []RefreshInv
  BY RefreshInitInv, RefreshNextInv, PTL DEF RefreshSpec

(* The type invariant.                                                     *)
THEOREM RefreshTypeCorrect == RefreshSpec => []RefreshTypeOK
<1>1. RefreshInv => RefreshTypeOK
  BY DEF RefreshInv
<1> QED
  BY RefreshInvariant, <1>1, PTL

(* However many requests are refused at once, the axios client has one     *)
(* refresh under way, and its flag says whether it has (axios.config.ts).  *)
THEOREM RefreshOneRefresh == RefreshSpec => []OneRefresh
<1>1. RefreshInv => OneRefresh
  BY DEF RefreshInv
<1> QED
  BY RefreshInvariant, <1>1, PTL

(* A token that the service still accepts is removed only at the end of    *)
(* the refresh of a request that is older than the token, whichever        *)
(* service answers (apiSlice.ts).                                          *)
THEOREM RefreshOlderSignsOut == RefreshSpec => OnlyOlderSignsOut
<1> DEFINE Older == token > expired /\ token' = 0 =>
                       \E c \in crossed : Refreshing(c) /\ ~Refreshing(c)'
<1>1. RefreshInv /\ [RefreshNext]_refreshVars => [Older]_refreshVars
  <2> SUFFICES ASSUME RefreshInv, RefreshNext, token > expired, token' = 0
               PROVE  \E c \in crossed : Refreshing(c) /\ ~Refreshing(c)'
    BY DEF refreshVars
  <2>1. token \in Nat /\ expired \in Nat /\ token # 0 /\ token' # token
    BY DEF RefreshInv, RefreshTypeOK
  <2>2. PICK c \in Calls : CallNext(c)
    BY <2>1 DEF RefreshNext, Login, TokenExpires, storeVars
  <2>3. AxiosRefreshed(c) \/ QueryRefreshed(c) \/ SignOut(c)
    BY <2>1, <2>2 DEF CallNext, Request, Answered, GivenUp, AxiosRefresh, AxiosQueue,
       QueryRefresh, StartRefresh, ServeRefresh, AxiosFails, AxiosStuck, AxiosLeft, storeVars
  <2>4. Refreshing(c) /\ pc'[c] \in {"flying", "failed"}
    BY <2>3 DEF AxiosRefreshed, QueryRefreshed, SignOut, OnRefreshed, Go, Refreshing,
       RefreshInv, RefreshTypeOK
  <2>5. c \in crossed
    <3>1. SUFFICES ASSUME c \notin crossed PROVE FALSE
      OBVIOUS
    <3>2. token = auth[c] /\ auth[c] <= expired
      BY <2>1, <2>4, <3>1 DEF RefreshInv, UncrossedKnows, UnderWay, Refreshing
    <3> QED
      BY <2>1, <3>2
  <2> QED
    BY <2>4, <2>5 DEF Refreshing
<1> QED
  BY RefreshInvariant, <1>1, PTL DEF RefreshSpec, OnlyOlderSignsOut

-----------------------------------------------------------------------------
(* The pages about cards: each part of the invariant is over variables of  *)
(* its own, so a step concerns one part or two.                            *)

USE CardsEmpty, CardsTypes, CardsFits, CardsLengths, CardsVND, CardsNaN, CardsNone

LEMMA EmptyFormIsForm == EmptyForm \in Forms /\ EmptyForm.number = Empty
  BY DEF EmptyForm, Forms

LEMMA CardsInitInv == CardsInit => CardsInv
<1> SUFFICES ASSUME CardsInit PROVE CardsInv
  OBVIOUS
<1>1. ListTypeOK /\ DelTypeOK
  BY DEF CardsInit, ListTypeOK, DelTypeOK, Replies
<1>2. AddInv
  BY EmptyFormIsForm DEF CardsInit, AddInv, AddTypeOK, Replies, SubmittedFits
<1>3. MoveInv
  BY DEF CardsInit, MoveInv, MoveTypeOK, MoveKinds, NoAmounts, Replies, MovedInBounds
<1> QED
  BY <1>1, <1>2, <1>3 DEF CardsInv

LEMMA AddKept == ASSUME AddInv, UNCHANGED addVars PROVE AddInv'
  BY DEF AddInv, AddTypeOK, SubmittedFits, addVars, formVars

LEMMA DelKept == ASSUME DelTypeOK, UNCHANGED delVars PROVE DelTypeOK'
  BY DEF DelTypeOK, delVars

LEMMA MoveKept == ASSUME MoveInv, UNCHANGED moveVars PROVE MoveInv'
  BY DEF MoveInv, MoveTypeOK, MovedInBounds, moveVars, moveForm

LEMMA ListKept == ASSUME ListTypeOK, UNCHANGED <<page, listVars>> PROVE ListTypeOK'
  BY DEF ListTypeOK, listVars

(* A page that is left keeps nothing but what it has sent.                 *)
LEMMA LeaveInv ==
    ASSUME CardsInv, LeaveCards, LeaveMove, leaving' \subseteq Sends,
           UNCHANGED <<added, addReply, deleted, delReply, sent, reply>>
    PROVE  AddInv' /\ DelTypeOK' /\ MoveInv'
<1>1. AddInv'
  <2>1. AddTypeOK'
    BY EmptyFormIsForm DEF CardsInv, AddInv, AddTypeOK, LeaveCards, CloseForm
  <2> QED
    BY <2>1, EmptyFormIsForm DEF CardsInv, AddInv, LeaveCards, CloseForm, SubmittedFits
<1>2. DelTypeOK'
  BY DEF CardsInv, DelTypeOK, LeaveCards
<1>3. MoveInv'
  <2>1. MoveTypeOK'
    BY DEF CardsInv, MoveInv, MoveTypeOK, LeaveMove, NoAmounts
  <2> QED
    BY <2>1 DEF CardsInv, MoveInv, LeaveMove, MovedInBounds
<1> QED
  BY <1>1, <1>2, <1>3

LEMMA OpenPageInv ==
    ASSUME CardsInv, NEW p \in {"elsewhere", "cards", "move"}, OpenPage(p)
    PROVE  CardsInv'
<1>1. ListTypeOK'
  BY DEF CardsInv, ListTypeOK, OpenPage
<1> QED
  BY <1>1, LeaveInv DEF CardsInv, MoveInv, MoveTypeOK, OpenPage

LEMMA NavigateInv == ASSUME CardsInv, NEW s \in Sends, Navigate(s) PROVE CardsInv'
<1>1. ListTypeOK'
  BY DEF CardsInv, ListTypeOK, Navigate, listVars
<1> QED
  BY <1>1, LeaveInv DEF CardsInv, MoveInv, MoveTypeOK, Navigate

LEMMA ListStepsInv ==
    ASSUME CardsInv, ListAnswered \/ ListFails \/ ListPolled \/ RemovedElsewhere
    PROVE  CardsInv'
<1>1. ListTypeOK'
  BY DEF CardsInv, ListTypeOK, ListAnswered, ListFails, ListPolled, RemovedElsewhere
<1>2. UNCHANGED <<addVars, delVars, moveVars>>
  BY DEF ListAnswered, ListFails, ListPolled, RemovedElsewhere
<1> QED
  BY <1>1, <1>2, AddKept, DelKept, MoveKept DEF CardsInv

(* Opening, closing and editing the form: a number brings its type and the *)
(* length of its CVC along.                                                *)
LEMMA FormInv == ASSUME CardsInv, OpenForm \/ DismissForm \/ EditForm PROVE CardsInv'
<1> USE DEF CardsInv, AddInv
<1>1. UNCHANGED <<page, listVars, added, addReply, delVars, moveVars>>
  BY DEF OpenForm, DismissForm, EditForm
<1>2. SubmittedFits' /\ \A a \in Adds : addReply'[a] # "none" => added'[a] # None
  BY <1>1 DEF SubmittedFits
<1>3. CASE OpenForm
  BY <1>1, <1>2, <1>3, ListKept, DelKept, MoveKept DEF OpenForm, AddTypeOK
<1>4. CASE DismissForm
  <2>1. AddTypeOK'
    BY <1>1, <1>4, EmptyFormIsForm DEF DismissForm, CloseForm, AddTypeOK
  <2> QED
    BY <1>1, <1>2, <1>4, <2>1, EmptyFormIsForm, ListKept, DelKept, MoveKept
       DEF DismissForm, CloseForm
<1>5. ASSUME EditForm, NEW n \in Numbers, TypeNumber(n) PROVE CardsInv'
  <2>1. /\ form' = [form EXCEPT !.number = n,
                                !.type = IF TypeOf[n] = "none" THEN "debit" ELSE TypeOf[n]]
        /\ cvvLength' = (IF TypeOf[n] = "amex" THEN 4 ELSE 3)
        /\ UNCHANGED <<addOpen, adding>>
    BY <1>5 DEF EditForm, TypeNumber, CvvLengthOf
  <2>2. /\ form' \in Forms /\ form'.number = n
        /\ form'.type = (IF TypeOf[n] = "none" THEN "debit" ELSE TypeOf[n])
    BY <2>1 DEF AddTypeOK, Forms
  <2> QED
    BY <1>1, <1>2, <2>1, <2>2, ListKept, DelKept, MoveKept DEF AddTypeOK
<1>6. ASSUME EditForm, NEW k \in Lengths, TypeCvc(k) PROVE CardsInv'
  <2>1. form' = [form EXCEPT !.cvc = k] /\ UNCHANGED <<addOpen, adding, cvvLength>>
    BY <1>6 DEF EditForm, TypeCvc
  <2>2. form' \in Forms /\ form'.number = form.number /\ form'.type = form.type
    BY <2>1 DEF AddTypeOK, Forms
  <2> QED
    BY <1>1, <1>2, <2>1, <2>2, ListKept, DelKept, MoveKept DEF AddTypeOK
<1>7. ASSUME EditForm, NEW e \in {"past", "future"}, PickExpiry(e) PROVE CardsInv'
  <2>1. form' = [form EXCEPT !.expiry = e] /\ UNCHANGED <<addOpen, adding, cvvLength>>
    BY <1>7 DEF EditForm, PickExpiry
  <2>2. form' \in Forms /\ form'.number = form.number /\ form'.type = form.type
    BY <2>1 DEF AddTypeOK, Forms
  <2> QED
    BY <1>1, <1>2, <2>1, <2>2, ListKept, DelKept, MoveKept DEF AddTypeOK
<1> QED
  BY <1>3, <1>4, <1>5, <1>6, <1>7 DEF EditForm

(* What is submitted was checked against the length kept beside the form,  *)
(* which is the length its type wants.                                     *)
LEMMA SubmitCardInv == ASSUME CardsInv, NEW a \in Adds, SubmitCard(a) PROVE CardsInv'
<1> USE DEF CardsInv, AddInv
<1>1. /\ added' = [added EXCEPT ![a] = form] /\ addReply' = [addReply EXCEPT ![a] = "flying"]
      /\ adding' = a
      /\ UNCHANGED <<page, listVars, addOpen, form, cvvLength, delVars, moveVars>>
  BY DEF SubmitCard
<1>2. form \in Forms /\ form # None
  BY DEF AddTypeOK
<1>3. AddTypeOK'
  BY <1>1, <1>2 DEF AddTypeOK, Replies
<1>4. /\ TypeOf[form.number] # "none" /\ form.number \in Numbers
      /\ form.type = TypeOf[form.number]
      /\ form.cvc = (IF form.type = "amex" THEN 4 ELSE 3)
      /\ form.expiry = "future"
  BY <1>2 DEF SubmitCard, validateCardData, Forms
<1>5. \A b \in Adds : added'[b] = (IF b = a THEN form ELSE added[b])
  BY <1>1 DEF AddTypeOK
<1>6. SubmittedFits'
  BY <1>4, <1>5 DEF SubmittedFits
<1>7. \A b \in Adds : addReply'[b] # "none" => added'[b] # None
  BY <1>1, <1>2, <1>5 DEF AddTypeOK
<1> QED
  BY <1>1, <1>3, <1>6, <1>7, ListKept, DelKept, MoveKept

LEMMA AddReturnsInv ==
    ASSUME CardsInv, NEW a \in Adds, AddAnswered(a) \/ AddFails(a)
    PROVE  CardsInv'
<1> USE DEF CardsInv, AddInv
<1>1. PICK r \in {"ok", "failed"} : addReply' = [addReply EXCEPT ![a] = r]
  BY DEF AddAnswered, AddFails
<1>2. /\ addReply[a] = "flying" /\ UNCHANGED <<page, listed, addOpen, cvvLength, added, delVars, moveVars>>
      /\ adding' \in {adding, None} /\ form' \in {form, EmptyForm}
  BY DEF AddAnswered, AddFails, listVars
<1>3. added[a] \in Forms
  BY <1>2 DEF AddTypeOK
<1>4. ListTypeOK'
  BY <1>3 DEF AddAnswered, AddFails, Invalidate, ListTypeOK, Forms, listVars
<1>5. AddTypeOK'
  BY <1>1, <1>2, EmptyFormIsForm DEF AddTypeOK, Replies
<1>6. \A b \in Adds : addReply'[b] # "none" => added'[b] # None
  BY <1>1, <1>2 DEF AddTypeOK
<1>7. SubmittedFits'
  BY <1>2 DEF SubmittedFits
<1>8. form'.number # Empty =>
         /\ form'.type = (IF TypeOf[form'.number] = "none" THEN "debit" ELSE TypeOf[form'.number])
         /\ cvvLength' = (IF TypeOf[form'.number] = "amex" THEN 4 ELSE 3)
  BY <1>2, EmptyFormIsForm
<1> QED
  BY <1>2, <1>4, <1>5, <1>6, <1>7, <1>8, DelKept, MoveKept

LEMMA DeleteInv ==
    ASSUME CardsInv,
           \/ handleDeleteCard \/ CancelDelete
           \/ \E d \in Deletes :
                 confirmDeleteCard(d) \/ \E r \in {"ok", "failed"} : DeleteReturns(d, r)
    PROVE  CardsInv'
<1>1. ListTypeOK' /\ UNCHANGED <<addVars, moveVars>>
  BY DEF CardsInv, ListTypeOK, handleDeleteCard, CancelDelete, confirmDeleteCard, DeleteReturns,
         Invalidate, listVars
<1>2. DelTypeOK'
  <2>1. CASE handleDeleteCard
    <3>1. deleteId' \in Numbers
      BY <2>1 DEF CardsInv, ListTypeOK, handleDeleteCard, CardsShown
    <3> QED
      BY <2>1, <3>1 DEF CardsInv, DelTypeOK, handleDeleteCard
  <2>2. CASE CancelDelete
    BY <2>2 DEF CardsInv, DelTypeOK, CancelDelete
  <2>3. ASSUME NEW d \in Deletes, confirmDeleteCard(d) PROVE DelTypeOK'
    BY <2>3 DEF CardsInv, DelTypeOK, confirmDeleteCard, Replies
  <2>4. ASSUME NEW d \in Deletes, NEW r \in {"ok", "failed"}, DeleteReturns(d, r) PROVE DelTypeOK'
    BY <2>4 DEF CardsInv, DelTypeOK, DeleteReturns, Replies
  <2> QED
    BY <2>1, <2>2, <2>3, <2>4
<1> QED
  BY <1>1, <1>2, AddKept, MoveKept DEF CardsInv

(* Choices and modals can only be used while no dialog is open.            *)
LEMMA ChoicesInv ==
    ASSUME CardsInv, Choose \/ OpenModal \/ CloseModal \/ handleAmountChange
    PROVE  CardsInv'
<1> USE DEF CardsInv, MoveInv
<1>1. UNCHANGED <<page, listVars, addVars, delVars, drawer, mine, sent, reply, leaving>> /\ ~drawer
  BY DEF Choose, OpenModal, CloseModal, handleAmountChange
<1>2. MovedInBounds'
  BY <1>1 DEF MovedInBounds
<1>3. /\ card' \in Numbers \cup {None} /\ currency' \in Currencies
      /\ modal' \in MoveKinds \cup {None} /\ amount' \in [MoveKinds -> Amounts \cup {None}]
  BY DEF Choose, OpenModal, CloseModal, handleAmountChange, MoveTypeOK, ListTypeOK, MoveShown,
         Offered, MoveKinds, DepositTakes, WithdrawTakes
<1>4. card' # None => TypeOf[card'] \in {"visa", "mastercard"}
  BY DEF Choose, OpenModal, CloseModal, handleAmountChange, Offered
<1>5. MoveTypeOK'
  BY <1>1, <1>3 DEF MoveTypeOK
<1> QED
  BY <1>1, <1>2, <1>4, <1>5, ListKept, AddKept, DelKept

(* The dialog opens over an amount in bounds and closes.                   *)
LEMMA DrawerInv ==
    ASSUME CardsInv, handleConfirmDeposit \/ handleConfirmWithdraw \/ CloseDrawer
    PROVE  CardsInv'
<1> USE DEF CardsInv, MoveInv
<1>1. /\ drawer' \in BOOLEAN
      /\ UNCHANGED <<page, listVars, addVars, delVars, card, currency, modal, amount, mine, sent,
                     reply, leaving>>
  BY DEF handleConfirmDeposit, handleConfirmWithdraw, CloseDrawer
<1>2. MoveTypeOK' /\ MovedInBounds' /\ (card' # None => TypeOf[card'] \in {"visa", "mastercard"})
  BY <1>1 DEF MoveTypeOK, MovedInBounds
<1>3. drawer' => /\ modal # None /\ card # None
                 /\ amount[modal] # None
                 /\ <<currency, amount[modal]>> \in Fits \/ amount[modal] = NaN
                 /\ modal = "deposit" => currency # "ETH"
  BY DEF handleConfirmDeposit, handleConfirmWithdraw, CloseDrawer, DepositTakes, WithdrawTakes,
         InBounds, CardFound, MoveKinds
<1> QED
  BY <1>1, <1>2, <1>3, ListKept, AddKept, DelKept

LEMMA SendInv == ASSUME CardsInv, NEW s \in Sends, handleChangeOTP(s) PROVE CardsInv'
<1> USE DEF CardsInv, MoveInv
<1> DEFINE body == [kind |-> modal, card |-> card, currency |-> currency, amount |-> amount[modal]]
<1>1. /\ drawer /\ sent' = [sent EXCEPT ![s] = body] /\ reply' = [reply EXCEPT ![s] = "flying"]
      /\ mine' = mine \cup {s}
      /\ UNCHANGED <<page, listVars, addVars, delVars, card, currency, modal, amount, drawer,
                     leaving>>
  BY DEF handleChangeOTP
<1>2. body \in Bodies
  BY <1>1 DEF MoveTypeOK, Bodies
<1>3. MoveTypeOK'
  BY <1>1, <1>2 DEF MoveTypeOK, Replies
<1>4. \A t \in Sends : sent'[t] = (IF t = s THEN body ELSE sent[t])
  BY <1>1 DEF MoveTypeOK
<1>5. MovedInBounds'
  BY <1>1, <1>4 DEF MovedInBounds
<1> QED
  BY <1>1, <1>3, <1>5, ListKept, AddKept, DelKept

LEMMA SendReturnsInv ==
    ASSUME CardsInv, NEW s \in Sends, Moved(s) \/ MoveFails(s)
    PROVE  CardsInv'
<1> USE DEF CardsInv, MoveInv
<1>1. /\ UNCHANGED <<page, listVars, addVars, delVars, card, currency, modal, amount, sent>>
      /\ leaving' \subseteq Sends /\ reply' \in [Sends -> Replies] /\ mine' = mine \ {s}
  BY DEF Moved, MoveFails, MoveTypeOK, Replies
<1>2. drawer' \in BOOLEAN /\ (drawer' => drawer)
  <2>1. CASE Moved(s)
    BY <2>1 DEF Moved
  <2>2. CASE MoveFails(s)
    BY <2>2 DEF MoveFails, MoveTypeOK
  <2> QED
    BY <2>1, <2>2
<1>3. MoveTypeOK' /\ MovedInBounds'
  BY <1>1, <1>2 DEF MoveTypeOK, MovedInBounds
<1> QED
  BY <1>1, <1>2, <1>3, ListKept, AddKept, DelKept

LEMMA CardsNextInv == CardsInv /\ [CardsNext]_cardsVars => CardsInv'
<1> SUFFICES ASSUME CardsInv, [CardsNext]_cardsVars PROVE CardsInv'
  OBVIOUS
<1>1. CASE UNCHANGED cardsVars
  BY <1>1, ListKept, AddKept, DelKept, MoveKept DEF CardsInv, cardsVars
<1>2. CASE CardsNext
  BY <1>2, OpenPageInv, ListStepsInv, FormInv, SubmitCardInv, AddReturnsInv, DeleteInv, ChoicesInv,
     DrawerInv, SendInv, SendReturnsInv, NavigateInv DEF CardsNext
<1> QED
  BY <1>1, <1>2

LEMMA CardsInvariant == CardsSpec => []CardsInv
  BY CardsInitInv, CardsNextInv, PTL DEF CardsSpec

(* The type invariant.                                                     *)
THEOREM CardsTypeCorrect == CardsSpec => []CardsTypeOK
<1>1. CardsInv => CardsTypeOK
  BY DEF CardsInv, CardsTypeOK, AddInv, MoveInv
<1> QED
  BY CardsInvariant, <1>1, PTL

(* In whatever order a form is filled in, changed, sent and reset, the     *)
(* card that is sent has a known type, goes under it and has a CVC of its  *)
(* length (add-credit-card.tsx).                                           *)
THEOREM CardsSubmittedFits == CardsSpec => []SubmittedFits
<1>1. CardsInv => SubmittedFits
  BY DEF CardsInv, AddInv
<1> QED
  BY CardsInvariant, <1>1, PTL

(* Whatever is chosen, typed, closed and opened again, a payment is sent   *)
(* within the bounds of the currency it is sent in, or with what is no     *)
(* number (pages/deposit-withdraw).                                        *)
THEOREM CardsMovedInBounds == CardsSpec => []MovedInBounds
<1>1. CardsInv => MovedInBounds
  BY DEF CardsInv, MoveInv
<1> QED
  BY CardsInvariant, <1>1, PTL
=============================================================================
