--------------------------- MODULE TransferProofs ---------------------------
(***************************************************************************)
(* The safety of transfers and of the TSS client's calls under them, for   *)
(* any finite set of requests, any payments, amounts, gas prices, funds    *)
(* and faults.                                                             *)
(***************************************************************************)
EXTENDS Transfer, FiniteSetTheorems, WellFoundedInduction, TLAPS

USE TssNoCall

Unpublished == {"running", "hung"}

(* What a call's position says of its ceremony and of what it has heard.   *)
CallStages ==
    \A c \in Calls :
      /\ call[c] = "idle" => ceremony[c] = "none" /\ heard[c] = NoCall
      /\ Underway(c) => ceremony[c] # "none"
      /\ call[c] = "answered" => heard[c] # NoCall
      /\ heard[c] # NoCall => ceremony[heard[c]] = "published"

(* Ceremonies of one session that have not ended know of each other.       *)
OverlapsKnown ==
    \A c, d \in Calls :
      /\ c # d /\ Session[c] = Session[d]
      /\ ceremony[c] \in Unpublished /\ ceremony[d] \in Unpublished
      => "overlap" \in mishaps[c]

(* A call that waits although its result was published has missed it.      *)
MissesKnown ==
    \A c \in Calls :
      Underway(c) /\ heard[c] = NoCall /\ ceremony[c] = "published" => "missed" \in mishaps[c]

CallInv ==
    CallTypeOK /\ CallStages /\ OverlapsKnown /\ MissesKnown /\ OthersResultNeedsMishap

(* What a handler's position says of its call and of the node.             *)
Stages ==
    \A r \in Requests :
      /\ pc[r] \in {"idle", "checked", "built"} => call[r] = "idle"
      /\ pc[r] \in {"idle", "checked", "built", "signing", "signed"} => r \notin pool \cup mined
      /\ pc[r] = "signed" => call[r] = "answered" /\ Recovers(r)

(* Handlers that are active together know of each other.                   *)
ConcurrencyKnown ==
    \A q, r \in Requests : q # r /\ Active(q) /\ Active(r) => "concurrent" \in trouble[r]

(* So does a transaction the node has, with a handler that may still       *)
(* replace it.                                                             *)
RivalsKnown ==
    \A q, r \in Requests :
      /\ q # r /\ r \in pool /\ tx[q].nonce = tx[r].nonce
      /\ pc[q] \in {"built", "signing", "signed"}
      => "concurrent" \in trouble[r]

(* A transaction the node took is there until the node forgets or replaces *)
(* it.                                                                     *)
SentIsKept ==
    \A r \in Requests :
      pc[r] \in {"sent", "ok"} /\ r \notin pool \cup mined
        => trouble[r] \cap {"concurrent", "evict"} # {}

(* Two requests for one payment, neither of which has failed.              *)
RepeatsKnown ==
    \A q, r \in Requests :
      /\ q # r /\ payment[q] = payment[r]
      /\ pc[q] \notin {"idle", "error"} /\ pc[r] \notin {"idle", "error"}
      => "again" \in trouble[r]

TransferInv ==
    /\ CallInv /\ TransferTypeOK /\ pool \cap mined = {}
    /\ Stages /\ AcceptedIsSigned /\ ErrorMeansUnpaid
    /\ ConcurrencyKnown /\ RivalsKnown /\ SentIsKept /\ RepeatsKnown

-----------------------------------------------------------------------------
(* The calls: each step keeps CallInv.                                     *)

LEMMA StartedInv ==
    ASSUME CallInv, NEW c \in Calls, call[c] = "idle",
           NEW to \in {"notified", "failed"}, call' = [call EXCEPT ![c] = to],
           NEW own \in SUBSET CallMishaps, Started(c, own), heard' = heard
    PROVE  CallInv'
<1> USE DEF CallInv, CallTypeOK
<1>1. ceremony[c] = "none" /\ heard[c] = NoCall
  BY DEF CallStages
<1>2. /\ \A d \in Calls : mishaps[d] \subseteq mishaps'[d]
      /\ mishaps' \in [Calls -> SUBSET CallMishaps]
  BY DEF Started, CallMishaps
<1>3. ceremony' = [ceremony EXCEPT ![c] = "running"]
  BY DEF Started
<1>4. CallTypeOK'
  BY <1>2, <1>3
<1>5. CallStages'
  BY <1>1, <1>3 DEF CallStages, Underway
<1>6. OverlapsKnown'
  <2> SUFFICES ASSUME NEW a \in Calls, NEW b \in Calls, a # b, Session[a] = Session[b],
                      ceremony'[a] \in Unpublished, ceremony'[b] \in Unpublished
               PROVE  "overlap" \in mishaps'[a]
    BY DEF OverlapsKnown
  <2>1. CASE a = c
    <3>1. b \in Rivals(c)
      BY <1>3, <2>1 DEF Rivals, Unpublished
    <3> QED
      BY <2>1, <3>1 DEF Started
  <2>2. CASE b = c
    <3>1. a \in Rivals(c)
      BY <1>3, <2>2 DEF Rivals, Unpublished
    <3> QED
      BY <3>1 DEF Started
  <2>3. CASE a # c /\ b # c
    BY <1>2, <1>3, <2>3 DEF OverlapsKnown
  <2> QED
    BY <2>1, <2>2, <2>3
<1>7. MissesKnown'
  BY <1>2, <1>3 DEF MissesKnown, Underway
<1>8. OthersResultNeedsMishap'
  BY <1>2 DEF OthersResultNeedsMishap
<1> QED
  BY <1>4, <1>5, <1>6, <1>7, <1>8

LEMMA NotifyInv == ASSUME CallInv, NEW c \in Calls, Notify(c) PROVE CallInv'
  BY StartedInv DEF Notify

LEMMA NotifyFailsInv == ASSUME CallInv, NEW c \in Calls, NotifyFails(c) PROVE CallInv'
<1> USE DEF NotifyFails
<1>1. CASE Started(c, {"fault"})
  BY <1>1, StartedInv DEF CallMishaps
<1>2. CASE UNCHANGED ceremony /\ Mishap(c, "fault")
  <2> USE DEF CallInv, CallTypeOK
  <2>1. /\ mishaps' \in [Calls -> SUBSET CallMishaps]
        /\ \A d \in Calls : mishaps[d] \subseteq mishaps'[d]
    BY <1>2 DEF Mishap, CallMishaps
  <2>2. CallTypeOK'
    BY <1>2, <2>1
  <2>3. CallStages'
    BY <1>2 DEF CallStages, Underway
  <2>4. OverlapsKnown' /\ MissesKnown' /\ OthersResultNeedsMishap'
    BY <1>2, <2>1 DEF OverlapsKnown, MissesKnown, OthersResultNeedsMishap, Underway
  <2> QED
    BY <2>2, <2>3, <2>4
<1> QED
  BY <1>1, <1>2

(* A step of the call or of its context that leaves the service alone.     *)
LEMMA PositionInv ==
    ASSUME CallInv, NEW c \in Calls, Underway(c),
           NEW to \in {"subscribing", "waiting", "answered", "failed"},
           call' = [call EXCEPT ![c] = to], to = "answered" => heard[c] # NoCall,
           UNCHANGED <<ceremony, heard>>, UNCHANGED mishaps \/ Mishap(c, "fault")
    PROVE  CallInv'
<1> USE DEF CallInv, CallTypeOK
<1>1. /\ mishaps' \in [Calls -> SUBSET CallMishaps]
      /\ \A d \in Calls : mishaps[d] \subseteq mishaps'[d]
  BY DEF Mishap, CallMishaps
<1>2. \A d \in Calls : Underway(d)' => Underway(d)
  BY DEF Underway
<1>3. CallTypeOK'
  BY <1>1
<1>4. CallStages'
  BY <1>2 DEF CallStages
<1>5. OverlapsKnown' /\ MissesKnown' /\ OthersResultNeedsMishap'
  BY <1>1, <1>2 DEF OverlapsKnown, MissesKnown, OthersResultNeedsMishap
<1> QED
  BY <1>3, <1>4, <1>5

LEMMA PublishInv == ASSUME CallInv, NEW c \in Calls, Publish(c) PROVE CallInv'
<1> USE DEF CallInv, CallTypeOK, Publish
<1>1. /\ mishaps' \in [Calls -> SUBSET CallMishaps]
      /\ \A d \in Calls : mishaps[d] \subseteq mishaps'[d]
  BY DEF Mishap, CallMishaps
<1>2. CallTypeOK'
  BY <1>1
<1>3. CallStages'
  BY DEF CallStages, Underway
<1>4. OverlapsKnown'
  BY <1>1 DEF OverlapsKnown, Unpublished
<1>5. MissesKnown'
  <2> SUFFICES ASSUME NEW d \in Calls, Underway(d), heard'[d] = NoCall, ceremony'[d] = "published"
               PROVE  "missed" \in mishaps'[d]
    BY DEF MissesKnown, Underway
  <2>1. heard[d] = NoCall
    OBVIOUS
  <2>2. CASE d = c
    BY <2>1, <2>2 DEF Underway, Mishap
  <2>3. CASE d # c
    BY <1>1, <2>1, <2>3 DEF MissesKnown
  <2> QED
    BY <2>2, <2>3
<1>6. OthersResultNeedsMishap'
  <2> SUFFICES ASSUME NEW d \in Calls, heard'[d] \notin {d, NoCall}
               PROVE  mishaps'[d] \cap {"overlap", "missed"} # {}
    BY DEF OthersResultNeedsMishap
  <2>1. CASE heard'[d] = heard[d]
    BY <1>1, <2>1 DEF OthersResultNeedsMishap
  <2>2. CASE heard'[d] # heard[d]
    <3>1. c # d /\ Session[d] = Session[c] /\ call[d] = "waiting" /\ heard[d] = NoCall
      BY <2>2
    <3>2. ceremony[d] \in Unpublished \cup {"published"}
      BY <3>1 DEF CallStages, Underway, Unpublished
    <3>3. "overlap" \in mishaps[d] \/ "missed" \in mishaps[d]
      BY <3>1, <3>2 DEF OverlapsKnown, MissesKnown, Underway, Unpublished
    <3> QED
      BY <1>1, <3>3
  <2> QED
    BY <2>1, <2>2
<1> QED
  BY <1>2, <1>3, <1>4, <1>5, <1>6

LEMMA HangInv == ASSUME CallInv, NEW c \in Calls, Hang(c) PROVE CallInv'
<1> USE DEF CallInv, CallTypeOK, Hang
<1>1. /\ mishaps' \in [Calls -> SUBSET CallMishaps]
      /\ \A d \in Calls : mishaps[d] \subseteq mishaps'[d]
  BY DEF Mishap, CallMishaps
<1>2. CallTypeOK'
  BY <1>1
<1>3. CallStages'
  BY DEF CallStages, Underway
<1>4. OverlapsKnown' /\ MissesKnown' /\ OthersResultNeedsMishap'
  BY <1>1 DEF OverlapsKnown, MissesKnown, OthersResultNeedsMishap, Underway, Unpublished
<1> QED
  BY <1>2, <1>3, <1>4

LEMMA TssStepInv ==
    ASSUME CallInv, NEW c \in Calls, CallStep(c) \/ ServiceStep(c)
    PROVE  CallInv'
<1>1. CASE Subscribe(c)
  BY <1>1, PositionInv DEF Subscribe, Underway
<1>2. CASE Answer(c)
  BY <1>2, PositionInv DEF Answer
<1>3. CASE Expire(c)
  BY <1>3, PositionInv DEF Expire
<1>4. CASE Subscribed(c)
  BY <1>4, PositionInv DEF Subscribed, Underway
<1>5. CASE Reconnect(c)
  BY <1>5, PositionInv DEF Reconnect, Underway
<1>6. CASE Publish(c) \/ Hang(c)
  BY <1>6, PublishInv, HangInv
<1> QED
  BY <1>1, <1>2, <1>3, <1>4, <1>5, <1>6 DEF CallStep, ServiceStep

(* What a handler may rely on while calls and ceremonies go on.            *)
LEMMA TssStepKeeps ==
    ASSUME CallInv, NEW c \in Calls, CallStep(c) \/ ServiceStep(c), NEW d \in Calls
    PROVE  /\ call[d] = "idle" => call'[d] = "idle"
           /\ call[d] = "answered" => call'[d] = "answered" /\ heard'[d] = heard[d]
           /\ ceremony[d] = "published" => ceremony'[d] = "published"
  BY DEF CallInv, CallTypeOK, CallStages, CallStep, ServiceStep, Subscribe, Answer, Expire,
         Subscribed, Reconnect, Publish, Hang, Underway

-----------------------------------------------------------------------------
(* The nonce.                                                              *)

LEMMA MinIsLeast ==
    ASSUME NEW S \in SUBSET Nat, S # {}
    PROVE  Min(S) \in S /\ \A y \in S : Min(S) <= y
<1>1. PICK x \in S : \A y \in S : ~(<<y, x>> \in {ss \in Nat \X Nat : ss[1] < ss[2]})
  <2>1. \E x \in S : \A y \in S : ~(<<y, x>> \in OpToRel(<, Nat))
    BY NatLessThanWellFounded, WFMin
  <2> QED
    BY <2>1 DEF OpToRel
<1>2. ASSUME NEW y \in S PROVE x <= y
  <2>1. x \in Nat /\ y \in Nat
    OBVIOUS
  <2>2. <<y, x>> \in {ss \in Nat \X Nat : ss[1] < ss[2]} <=> y < x
    BY <2>1
  <2>3. ~(y < x)
    BY <1>1, <2>2
  <2> QED
    BY <2>1, <2>3
<1> QED
  BY <1>2 DEF Min

(* The node's transactions leave a request that is not among them a free  *)
(* nonce, so PendingNonce is one that no transaction of the pool has.      *)
LEMMA PendingNonceFree ==
    ASSUME TransferInv, NEW r \in Requests, r \notin pool \cup mined
    PROVE  /\ PendingNonce \in 0..(Cardinality(Requests) - 1)
           /\ \A q \in pool : tx[q].nonce # PendingNonce
<1> DEFINE n == Cardinality(Requests)
           m == Cardinality(mined)
           free(k) == \A q \in pool : tx[q].nonce # k
           S == {k \in m..n : free(k)}
           taken == {q \in pool : tx[q].nonce \in m..(n - 1)}
           f == [q \in taken |-> tx[q].nonce]
<1>1. pool \subseteq Requests /\ mined \subseteq Requests /\ pool \cap mined = {}
  BY DEF TransferInv, TransferTypeOK
<1>2. IsFiniteSet(Requests) /\ IsFiniteSet(pool) /\ IsFiniteSet(mined) /\ IsFiniteSet(taken)
  BY <1>1, TssCalls, FS_Subset DEF Requests
<1>3. n \in Nat /\ m \in Nat /\ Cardinality(pool) \in Nat /\ Cardinality(taken) \in Nat
  BY <1>2, FS_CardinalityType
<1>4. m + Cardinality(pool) <= n - 1
  <2>1. Cardinality(Requests \ {r}) = n - 1 /\ IsFiniteSet(Requests \ {r})
    BY <1>2, FS_RemoveElement
  <2>2. Cardinality(pool \cup mined) <= Cardinality(Requests \ {r})
    <3>1. pool \cup mined \in SUBSET (Requests \ {r})
      BY <1>1
    <3> QED
      BY <2>1, <3>1, FS_Subset
  <2>3. Cardinality(pool \cup mined) = Cardinality(pool) + m - Cardinality(pool \cap mined)
    BY <1>2, FS_Union
  <2>4. Cardinality(pool \cap mined) = 0
    BY <1>1, FS_EmptySet
  <2> QED
    BY <1>3, <2>1, <2>2, <2>3, <2>4
<1>5. Cardinality(taken) <= Cardinality(pool)
  BY <1>2, FS_Subset
<1>6. \E k \in m..(n - 1) : free(k)
  <2> SUFFICES ASSUME \A k \in m..(n - 1) : ~free(k)
               PROVE  FALSE
    OBVIOUS
  <2>1. f \in Surjection(taken, m..(n - 1))
    BY DEF Surjection
  <2>2. Cardinality(m..(n - 1)) <= Cardinality(taken)
    BY <1>2, <2>1, FS_Surjection
  <2>3. Cardinality(m..(n - 1)) = n - m
    <3>1. m \in Int /\ n \in Int /\ n - 1 \in Int /\ ~(m > n - 1)
      BY <1>3, <1>4
    <3> HIDE DEF n, m
    <3>2. Cardinality(m..(n - 1)) = (n - 1) - m + 1
      BY <3>1, FS_Interval
    <3> QED
      BY <3>1, <3>2
  <2> HIDE DEF n, m, taken
  <2> QED
    BY <1>3, <1>4, <1>5, <2>2, <2>3
<1>7. S \in SUBSET Nat /\ S # {}
  BY <1>3, <1>6
<1>8. PendingNonce = Min(S)
  BY DEF PendingNonce
<1>9. Min(S) \in S /\ \A y \in S : Min(S) <= y
  BY <1>7, MinIsLeast
<1> QED
  <2>1. PICK k \in m..(n - 1) : free(k)
    BY <1>6
  <2>2. k \in S
    BY <1>3, <2>1
  <2>3. Min(S) <= k /\ Min(S) \in m..n /\ free(Min(S))
    BY <1>9, <2>2
  <2> HIDE DEF S, m, n, free
  <2>4. Min(S) \in 0..(n - 1)
    BY <1>3, <2>1, <2>3
  <2> QED
    BY <1>8, <2>3, <2>4 DEF n, free

-----------------------------------------------------------------------------
(* The handler.  A step of the calls, for what the handlers know of them.  *)

CallsKept ==
    /\ CallInv'
    /\ \A d \in Calls :
         /\ call[d] = "answered" => call'[d] = "answered" /\ heard'[d] = heard[d]
         /\ ceremony[d] = "published" => ceremony'[d] = "published"

LEMMA SameCalls == ASSUME CallInv, UNCHANGED tssVars PROVE CallsKept
<1> USE DEF tssVars
<1>1. CallInv'
  BY DEF CallInv, CallTypeOK, CallStages, OverlapsKnown, MissesKnown, OthersResultNeedsMishap,
         Underway
<1> QED
  BY <1>1 DEF CallsKept

LEMMA InitInv == Init => TransferInv
<1> SUFFICES ASSUME Init PROVE TransferInv
  OBVIOUS
<1> USE DEF Init, CallInit, Requests
<1>1. CallInv
  BY DEF CallInv, CallTypeOK, CallStages, OverlapsKnown, MissesKnown, OthersResultNeedsMishap,
         Underway, Unpublished
<1>2. TransferTypeOK
  BY <1>1, TransferPlans DEF CallInv, TransferTypeOK
<1> QED
  BY <1>1, <1>2 DEF TransferInv, Stages, AcceptedIsSigned, ErrorMeansUnpaid, ConcurrencyKnown,
     RivalsKnown, SentIsKept, RepeatsKnown, Active

(* Nothing of the request's own changes but its trouble, which grows.      *)
LEMMA TroubleInv ==
    ASSUME TransferInv, CallsKept, \A d \in Calls : call[d] = "idle" => call'[d] = "idle",
           UNCHANGED <<payment, pc, tx, chain, recorded>>,
           trouble' \in [Requests -> SUBSET Troubles],
           \A q \in Requests : trouble[q] \subseteq trouble'[q]
    PROVE  TransferInv'
<1> USE DEF TransferInv, CallsKept, chain, Requests
<1>1. TransferTypeOK'
  BY DEF TransferTypeOK, CallInv, Txs
<1>2. Stages'
  BY DEF Stages, Recovers, TransferTypeOK, CallTypeOK
<1>3. AcceptedIsSigned'
  BY DEF AcceptedIsSigned
<1>4. ErrorMeansUnpaid' /\ SentIsKept'
  BY DEF ErrorMeansUnpaid, SentIsKept
<1>5. ConcurrencyKnown' /\ RivalsKnown' /\ RepeatsKnown'
  BY DEF ConcurrencyKnown, RivalsKnown, RepeatsKnown, Active
<1> QED
  BY <1>1, <1>2, <1>3, <1>4, <1>5

(* The request fails, without a change at the node.                        *)
LEMMA FailInv ==
    ASSUME TransferInv, CallsKept, NEW r \in Requests, Active(r),
           \A d \in Calls \ {r} : call[d] = "idle" => call'[d] = "idle",
           pc' = [pc EXCEPT ![r] = "error"], UNCHANGED <<payment, tx, chain>>,
           recorded' \in SUBSET Requests,
           UNCHANGED trouble \/ \E t \in Troubles : Suffer(r, t),
           r \in pool \cup mined => trouble'[r] \cap Unsure # {}
    PROVE  TransferInv'
<1> USE DEF TransferInv, CallsKept, chain, Requests
<1>1. /\ trouble' \in [Requests -> SUBSET Troubles]
      /\ \A q \in Requests : trouble[q] \subseteq trouble'[q]
  BY DEF Suffer, TransferTypeOK
<1>2. TransferTypeOK'
  BY <1>1 DEF TransferTypeOK, CallInv, Txs
<1>3. \A q \in Requests : pc'[q] # "error" => q # r /\ pc'[q] = pc[q]
  BY DEF TransferTypeOK
<1>4. Stages'
  BY <1>3 DEF Stages, Recovers
<1>5. AcceptedIsSigned'
  BY DEF AcceptedIsSigned
<1>6. ErrorMeansUnpaid'
  BY <1>1 DEF ErrorMeansUnpaid, TransferTypeOK
<1>7. SentIsKept' /\ ConcurrencyKnown' /\ RivalsKnown' /\ RepeatsKnown'
  BY <1>1, <1>3 DEF SentIsKept, ConcurrencyKnown, RivalsKnown, RepeatsKnown, Active
<1> QED
  BY <1>2, <1>4, <1>5, <1>6, <1>7

(* The request goes on, from a stage at which the node has nothing of it.  *)
LEMMA AdvanceInv ==
    ASSUME TransferInv, CallsKept, NEW r \in Requests, Active(r),
           \A d \in Calls \ {r} : call[d] = "idle" => call'[d] = "idle",
           NEW to \in {"signing", "signed"}, pc' = [pc EXCEPT ![r] = to],
           pc[r] \in {"built", "signing"}, to = "signed" => call'[r] = "answered" /\ Recovers(r)',
           UNCHANGED <<payment, tx, chain, recorded, trouble>>
    PROVE  TransferInv'
<1> USE DEF TransferInv, CallsKept, chain, Requests
<1>1. TransferTypeOK'
  BY DEF TransferTypeOK, CallInv, Txs
<1>2. r \notin pool \cup mined
  BY DEF Stages
<1>3. \A q \in Requests : q # r => pc'[q] = pc[q]
  BY DEF TransferTypeOK
<1>4. pc'[r] = to
  BY DEF TransferTypeOK
<1>5. Stages'
  BY <1>2, <1>3, <1>4 DEF Stages, Recovers
<1>6. AcceptedIsSigned'
  BY DEF AcceptedIsSigned
<1>7. ErrorMeansUnpaid' /\ SentIsKept'
  BY <1>3, <1>4 DEF ErrorMeansUnpaid, SentIsKept
<1>8. ConcurrencyKnown' /\ RivalsKnown' /\ RepeatsKnown'
  BY <1>3, <1>4 DEF ConcurrencyKnown, RivalsKnown, RepeatsKnown, Active
<1> QED
  BY <1>1, <1>5, <1>6, <1>7, <1>8

LEMMA CheckBalanceInv ==
    ASSUME TransferInv, NEW r \in Requests, CheckBalance(r)
    PROVE  TransferInv'
<1> USE DEF TransferInv, chain, Requests
<1>1. CallsKept /\ UNCHANGED tssVars /\ UNCHANGED <<payment, tx, pool, mined, recorded>>
  BY SameCalls DEF CheckBalance
<1>2. /\ pc[r] = "idle"
      /\ \E to \in {"checked", "error"} : pc' = [pc EXCEPT ![r] = to]
      /\ \E t \in {{}, {"unmade"}} : Submitted(r, t)
  BY DEF CheckBalance, Go
<1>3. /\ trouble' \in [Requests -> SUBSET Troubles]
      /\ \A q \in Requests : trouble[q] \subseteq trouble'[q]
  BY <1>2 DEF Submitted, Troubles, TransferTypeOK
<1>4. \A q \in Requests : Active(q) => "concurrent" \in trouble'[q] /\ "concurrent" \in trouble'[r]
  BY <1>2 DEF Submitted
<1>5. \A q \in Unfailed(r) : "again" \in trouble'[q] /\ "again" \in trouble'[r]
  BY <1>2 DEF Submitted, Unfailed
<1>6. /\ \A q \in Requests : q # r => pc'[q] = pc[q]
      /\ pc'[r] \in {"checked", "error"}
  BY <1>2 DEF TransferTypeOK
<1>7. r \notin pool \cup mined /\ call'[r] = "idle"
  BY <1>1, <1>2 DEF Stages, tssVars
<1>8. TransferTypeOK'
  BY <1>1, <1>2, <1>3 DEF TransferTypeOK, CallInv, CallsKept, Txs
<1>9. Stages'
  BY <1>1, <1>6, <1>7 DEF Stages, Recovers, tssVars
<1>10. AcceptedIsSigned'
  BY <1>1 DEF AcceptedIsSigned, CallsKept
<1>11. ErrorMeansUnpaid' /\ SentIsKept'
  BY <1>1, <1>3, <1>6, <1>7 DEF ErrorMeansUnpaid, SentIsKept
<1>12. ConcurrencyKnown'
  BY <1>3, <1>4, <1>6 DEF ConcurrencyKnown, Active
<1>13. RivalsKnown'
  BY <1>1, <1>3, <1>6 DEF RivalsKnown
<1>14. RepeatsKnown'
  BY <1>1, <1>3, <1>5, <1>6 DEF RepeatsKnown, Unfailed
<1> QED
  BY <1>1, <1>8, <1>9, <1>10, <1>11, <1>12, <1>13, <1>14 DEF CallsKept

LEMMA CreateTransactionInv ==
    ASSUME TransferInv, NEW r \in Requests, CreateTransaction(r)
    PROVE  TransferInv'
<1> USE DEF TransferInv, chain, Requests
<1>1. /\ CallsKept /\ UNCHANGED tssVars
      /\ UNCHANGED <<payment, pool, mined, recorded, trouble>>
  BY SameCalls DEF CreateTransaction
<1>2. /\ pc[r] = "checked" /\ pc' = [pc EXCEPT ![r] = "built"]
      /\ r \notin pool \cup mined
  BY DEF CreateTransaction, Go, Stages
<1>3. PICK g \in GasPrices : tx' = [tx EXCEPT ![r] = [nonce |-> PendingNonce, price |-> g]]
  BY DEF CreateTransaction
<1>4. /\ PendingNonce \in 0..(Cardinality(Requests) - 1)
      /\ \A q \in pool : tx[q].nonce # PendingNonce
  BY <1>2, PendingNonceFree
<1>5. \A q \in Requests : q # r => pc'[q] = pc[q] /\ tx'[q] = tx[q]
  BY <1>2, <1>3 DEF TransferTypeOK
<1>6. pc'[r] = "built" /\ tx'[r].nonce = PendingNonce
  BY <1>2, <1>3 DEF TransferTypeOK
<1>7. call[r] = "idle" /\ ceremony[r] # "published"
  BY <1>2 DEF Stages, CallInv, CallStages
<1>8. TransferTypeOK'
  <2>1. [nonce |-> PendingNonce, price |-> g] \in Txs
    BY <1>3, <1>4 DEF Txs
  <2>2. tx' \in [Requests -> Txs' \cup {NoTx'}]
    BY <1>3, <2>1 DEF TransferTypeOK, Txs, NoTx
  <2> QED
    BY <1>1, <1>2, <2>2 DEF TransferTypeOK, CallInv, CallsKept
<1>9. \A d \in Requests : heard[d] # NoCall => tx'[heard[d]] = tx[heard[d]]
  <2> SUFFICES ASSUME NEW d \in Requests, heard[d] # NoCall
               PROVE  tx'[heard[d]] = tx[heard[d]]
    OBVIOUS
  <2>1. heard[d] \in Requests /\ ceremony[heard[d]] = "published"
    BY DEF CallInv, CallTypeOK, CallStages
  <2> QED
    BY <1>5, <1>7, <2>1
<1>10. Stages'
  <2> SUFFICES ASSUME NEW q \in Requests
               PROVE  /\ pc'[q] \in {"idle", "checked", "built"} => call[q] = "idle"
                      /\ pc'[q] \in {"idle", "checked", "built", "signing", "signed"}
                           => q \notin pool \cup mined
                      /\ pc'[q] = "signed" => call[q] = "answered" /\ Recovers(q)'
    BY <1>1 DEF Stages, tssVars
  <2>1. CASE q = r
    BY <1>2, <1>6, <1>7, <2>1
  <2>2. CASE q # r
    <3>1. pc'[q] = "signed" => Recovers(q)'
      <4> SUFFICES ASSUME pc'[q] = "signed" PROVE Recovers(q)'
        OBVIOUS
      <4>1. Recovers(q) /\ heard[q] # NoCall
        BY <1>5, <2>2 DEF Stages, CallInv, CallStages
      <4> QED
        BY <1>1, <1>5, <1>9, <2>2, <4>1 DEF Recovers, tssVars
    <3> QED
      BY <1>5, <2>2, <3>1 DEF Stages
  <2> QED
    BY <2>1, <2>2
<1>11. AcceptedIsSigned'
  <2> SUFFICES ASSUME NEW q \in pool \cup mined
               PROVE  \E d \in Requests : /\ ceremony[d] = "published"
                                          /\ tx'[d] = tx'[q] /\ payment[d] = payment[q]
    BY <1>1 DEF AcceptedIsSigned, tssVars
  <2>1. q # r /\ q \in Requests
    BY <1>2 DEF TransferTypeOK
  <2>2. PICK d \in Requests : /\ ceremony[d] = "published"
                              /\ tx[d] = tx[q] /\ payment[d] = payment[q]
    BY DEF AcceptedIsSigned
  <2>3. d # r
    BY <1>7, <2>2
  <2> QED
    BY <1>5, <2>1, <2>2, <2>3
<1>12. ErrorMeansUnpaid' /\ SentIsKept'
  BY <1>1, <1>5, <1>6 DEF ErrorMeansUnpaid, SentIsKept
<1>13. ConcurrencyKnown' /\ RepeatsKnown'
  BY <1>1, <1>2, <1>5, <1>6 DEF ConcurrencyKnown, RepeatsKnown, Active
<1>14. RivalsKnown'
  BY <1>1, <1>2, <1>4, <1>5, <1>6 DEF RivalsKnown
<1> QED
  BY <1>1, <1>8, <1>10, <1>11, <1>12, <1>13, <1>14 DEF CallsKept

(* The node takes the transaction, whether or not the handler learns it.   *)
LEMMA AcceptInv ==
    ASSUME TransferInv, NEW r \in Requests, pc[r] = "signed", Accept(r),
           UNCHANGED <<tssVars, payment, tx, mined, recorded>>,
           \/ pc' = [pc EXCEPT ![r] = "sent"] /\ UNCHANGED trouble
           \/ pc' = [pc EXCEPT ![r] = "error"] /\ Suffer(r, "unsure")
    PROVE  TransferInv'
<1> USE DEF TransferInv, chain, Requests
<1>1. CallsKept
  BY SameCalls
<1>2. /\ trouble' \in [Requests -> SUBSET Troubles]
      /\ \A q \in Requests : trouble[q] \subseteq trouble'[q]
  BY DEF Suffer, Troubles, TransferTypeOK
<1>3. /\ \A q \in Requests : q # r => pc'[q] = pc[q]
      /\ pc'[r] = "sent" \/ (pc'[r] = "error" /\ "unsure" \in trouble'[r])
  BY DEF TransferTypeOK, Suffer
<1>4. pool' = (pool \ SameNonce(r)) \cup {r} /\ r \notin pool \cup mined
  BY DEF Accept, Stages
<1>5. TransferTypeOK'
  BY <1>1, <1>2, <1>4 DEF TransferTypeOK, CallInv, CallsKept, Txs
<1>6. pool' \cap mined' = {}
  BY <1>4
<1>7. Stages'
  BY <1>3, <1>4 DEF Stages, Recovers, tssVars
<1>8. AcceptedIsSigned'
  <2>1. heard[r] \in Requests /\ ceremony[heard[r]] = "published" /\ Recovers(r)
    BY DEF Stages, CallInv, CallTypeOK, CallStages
  <2> QED
    BY <1>4, <2>1 DEF AcceptedIsSigned, Recovers, tssVars
<1>9. ErrorMeansUnpaid'
  BY <1>2, <1>3, <1>4 DEF ErrorMeansUnpaid, Unsure
<1>10. SentIsKept'
  <2> SUFFICES ASSUME NEW q \in Requests, q # r, pc[q] \in {"sent", "ok"},
                      q \in pool, q \notin pool'
               PROVE  "concurrent" \in trouble[q]
    BY <1>2, <1>3, <1>4 DEF SentIsKept
  <2>1. tx[q].nonce = tx[r].nonce
    BY <1>4 DEF SameNonce
  <2> QED
    BY <2>1 DEF RivalsKnown
<1>11. ConcurrencyKnown' /\ RepeatsKnown'
  BY <1>2, <1>3 DEF ConcurrencyKnown, RepeatsKnown, Active
<1>12. RivalsKnown'
  <2> SUFFICES ASSUME NEW q \in Requests, NEW p \in Requests, q # p, p \in pool',
                      tx[q].nonce = tx[p].nonce, pc'[q] \in {"built", "signing", "signed"}
               PROVE  "concurrent" \in trouble[p]
    BY <1>2 DEF RivalsKnown
  <2>1. q # r /\ pc[q] \in {"built", "signing", "signed"}
    BY <1>3
  <2>2. CASE p = r
    BY <2>1, <2>2 DEF ConcurrencyKnown, Active
  <2>3. CASE p # r
    BY <1>4, <2>1, <2>3 DEF RivalsKnown
  <2> QED
    BY <2>2, <2>3
<1> QED
  BY <1>1, <1>5, <1>6, <1>7, <1>8, <1>9, <1>10, <1>11, <1>12 DEF CallsKept

LEMMA CreateRecordInv ==
    ASSUME TransferInv, NEW r \in Requests, CreateRecord(r)
    PROVE  TransferInv'
<1> USE DEF TransferInv, CreateRecord, Go, chain, Requests
<1>1. CallsKept
  BY SameCalls
<1>2. TransferTypeOK'
  BY <1>1 DEF TransferTypeOK, CallInv, CallsKept, Txs
<1>3. pc'[r] = "ok" /\ \A q \in Requests : q # r => pc'[q] = pc[q]
  BY DEF TransferTypeOK
<1>4. Stages' /\ AcceptedIsSigned'
  BY <1>3 DEF Stages, Recovers, AcceptedIsSigned, tssVars
<1>5. ErrorMeansUnpaid' /\ SentIsKept'
  BY <1>3 DEF ErrorMeansUnpaid, SentIsKept
<1>6. ConcurrencyKnown' /\ RivalsKnown' /\ RepeatsKnown'
  BY <1>3 DEF ConcurrencyKnown, RivalsKnown, RepeatsKnown, Active
<1> QED
  BY <1>1, <1>2, <1>4, <1>5, <1>6 DEF CallsKept

LEMMA MineInv == ASSUME TransferInv, NEW r \in Requests, Mine(r) PROVE TransferInv'
<1> USE DEF TransferInv, Mine, Requests
<1>1. CallsKept
  BY SameCalls
<1>2. TransferTypeOK' /\ pool' \cap mined' = {}
  BY <1>1 DEF TransferTypeOK, CallInv, CallsKept, Txs
<1>3. pool' \cup mined' = pool \cup mined /\ pool' \subseteq pool
  OBVIOUS
<1>4. Stages' /\ AcceptedIsSigned'
  BY <1>3 DEF Stages, Recovers, AcceptedIsSigned, tssVars
<1>5. ErrorMeansUnpaid' /\ SentIsKept'
  BY <1>3 DEF ErrorMeansUnpaid, SentIsKept
<1>6. ConcurrencyKnown' /\ RivalsKnown' /\ RepeatsKnown'
  BY <1>3 DEF ConcurrencyKnown, RivalsKnown, RepeatsKnown, Active
<1> QED
  BY <1>1, <1>2, <1>4, <1>5, <1>6 DEF CallsKept

LEMMA EvictInv == ASSUME TransferInv, NEW r \in Requests, Evict(r) PROVE TransferInv'
<1> USE DEF TransferInv, Evict, Requests
<1>1. CallsKept
  BY SameCalls
<1>2. /\ trouble' \in [Requests -> SUBSET Troubles]
      /\ \A q \in Requests : trouble[q] \subseteq trouble'[q]
      /\ "evict" \in trouble'[r]
  BY DEF Suffer, Troubles, TransferTypeOK
<1>3. TransferTypeOK' /\ pool' \cap mined' = {}
  BY <1>1, <1>2 DEF TransferTypeOK, CallInv, CallsKept, Txs
<1>4. Stages' /\ AcceptedIsSigned'
  BY DEF Stages, Recovers, AcceptedIsSigned, tssVars
<1>5. ErrorMeansUnpaid' /\ SentIsKept'
  BY <1>2 DEF ErrorMeansUnpaid, SentIsKept
<1>6. ConcurrencyKnown' /\ RivalsKnown' /\ RepeatsKnown'
  BY <1>2 DEF ConcurrencyKnown, RivalsKnown, RepeatsKnown, Active
<1> QED
  BY <1>1, <1>3, <1>4, <1>5, <1>6 DEF CallsKept

LEMMA GiveUpInv == ASSUME TransferInv, NEW r \in Requests, GiveUp(r) PROVE TransferInv'
<1> USE DEF GiveUp
<1>1. CallsKept /\ UNCHANGED call
  BY SameCalls DEF TransferInv, tssVars
<1>2. /\ trouble' \in [Requests -> SUBSET Troubles]
      /\ \A q \in Requests : trouble[q] \subseteq trouble'[q]
  BY DEF TransferInv, TransferTypeOK, Suffer, Troubles
<1> QED
  BY <1>1, <1>2, TroubleInv DEF chain

LEMMA RequestSignatureInv ==
    ASSUME TransferInv, NEW r \in Requests, RequestSignature(r)
    PROVE  TransferInv'
<1> USE DEF RequestSignature, Go, Requests
<1>1. /\ pc[r] = "built" /\ Active(r) /\ r \notin pool \cup mined
      /\ CallInv /\ call \in [Calls -> {"idle", "notified", "subscribing", "waiting",
                                        "answered", "failed"}]
      /\ recorded \in SUBSET Requests
  BY DEF Active, TransferInv, Stages, CallInv, CallTypeOK, TransferTypeOK
<1>2. CASE pc' = [pc EXCEPT ![r] = "signing"] /\ Notify(r)
  <2>1. CallsKept
    <3>1. CallInv' /\ ceremony[r] = "none" /\ call[r] = "idle"
      BY <1>1, <1>2, NotifyInv DEF CallInv, CallStages, Notify
    <3> QED
      BY <1>1, <1>2, <3>1 DEF CallsKept, CallInv, CallTypeOK, Notify, Started
  <2>2. \A d \in Calls \ {r} : call[d] = "idle" => call'[d] = "idle"
    BY <1>1, <1>2 DEF Notify
  <2> QED
    BY <1>1, <1>2, <2>1, <2>2, AdvanceInv
<1>3. CASE pc' = [pc EXCEPT ![r] = "error"] /\ NotifyFails(r)
  <2>1. CallsKept
    <3>1. CallInv' /\ ceremony[r] = "none" /\ call[r] = "idle"
      BY <1>1, <1>3, NotifyFailsInv DEF CallInv, CallStages, NotifyFails
    <3> QED
      BY <1>1, <1>3, <3>1 DEF CallsKept, CallInv, CallTypeOK, NotifyFails, Started
  <2>2. \A d \in Calls \ {r} : call[d] = "idle" => call'[d] = "idle"
    BY <1>1, <1>3 DEF NotifyFails
  <2> QED
    BY <1>1, <1>3, <2>1, <2>2, FailInv
<1> QED
  BY <1>2, <1>3

(* The other ways a handler ends, and the two in which a handler goes on   *)
(* with what its call gave it.                                             *)
LEMMA HandlerEndsInv ==
    ASSUME TransferInv, NEW r \in Requests,
           \/ ReadFails(r) \/ SigningFails(r) \/ ConvertSignature(r) \/ SendTransaction(r)
           \/ SendFails(r) \/ RecordFails(r) \/ Cancelled(r)
    PROVE  TransferInv'
<1> USE DEF Go, Requests
<1>1. /\ CallInv /\ recorded \in SUBSET Requests
      /\ pc[r] \in {"checked", "built", "signing", "signed"} => r \notin pool \cup mined
      /\ trouble \in [Requests -> SUBSET Troubles]
  BY DEF TransferInv, TransferTypeOK, Stages
<1>2. CallsKept /\ UNCHANGED tssVars /\ UNCHANGED call /\ Active(r)
  BY <1>1, SameCalls DEF ReadFails, SigningFails, ConvertSignature, SendTransaction, SendFails,
     RecordFails, Cancelled, Active, tssVars
<1>3. CASE ReadFails(r)
  BY <1>1, <1>2, <1>3, FailInv DEF ReadFails, chain, Troubles
<1>4. CASE SigningFails(r)
  BY <1>1, <1>2, <1>4, FailInv DEF SigningFails, chain
<1>5. CASE ConvertSignature(r)
  <2>1. CASE Recovers(r)
    <3>1. Recovers(r)' /\ call'[r] = "answered"
      BY <1>2, <1>5, <2>1 DEF ConvertSignature, Recovers, tssVars
    <3> QED
      BY <1>1, <1>2, <1>5, <2>1, <3>1, AdvanceInv DEF ConvertSignature, chain
  <2>2. CASE ~Recovers(r)
    BY <1>1, <1>2, <1>5, <2>2, FailInv DEF ConvertSignature, chain
  <2> QED
    BY <2>1, <2>2
<1>6. CASE SendTransaction(r)
  <2>1. CASE pc' = [pc EXCEPT ![r] = "sent"] /\ Accept(r) /\ UNCHANGED trouble
    BY <1>6, <2>1, AcceptInv DEF SendTransaction
  <2>2. CASE pc' = [pc EXCEPT ![r] = "error"] /\ UNCHANGED <<pool, trouble>>
    BY <1>1, <1>2, <1>6, <2>2, FailInv DEF SendTransaction, chain
  <2>3. CASE pc' = [pc EXCEPT ![r] = "error"] /\ Suffer(r, "unmade") /\ UNCHANGED pool
    BY <1>1, <1>2, <1>6, <2>3, FailInv DEF SendTransaction, chain, Troubles
  <2> QED
    BY <1>6, <2>1, <2>2, <2>3 DEF SendTransaction
<1>7. CASE SendFails(r)
  <2>1. CASE Accept(r)
    BY <1>7, <2>1, AcceptInv DEF SendFails
  <2>2. CASE UNCHANGED pool
    BY <1>1, <1>2, <1>7, <2>2, FailInv DEF SendFails, chain, Troubles
  <2> QED
    BY <1>7, <2>1, <2>2 DEF SendFails
<1>8. CASE RecordFails(r)
  <2>1. trouble'[r] \cap Unsure # {}
    BY <1>1, <1>8 DEF RecordFails, Suffer, Unsure
  <2>2. recorded' \in SUBSET Requests
    BY <1>1, <1>8 DEF RecordFails
  <2> QED
    BY <1>2, <1>8, <2>1, <2>2, FailInv DEF RecordFails, chain, Troubles
<1>9. CASE Cancelled(r)
  BY <1>1, <1>2, <1>9, FailInv DEF Cancelled, Gone, Unsure, chain
<1> QED
  BY <1>3, <1>4, <1>5, <1>6, <1>7, <1>8, <1>9

LEMMA NextInv == TransferInv /\ [Next]_vars => TransferInv'
<1> SUFFICES ASSUME TransferInv, [Next]_vars PROVE TransferInv'
  OBVIOUS
<1>1. ASSUME NEW r \in Requests, TssStep(r) PROVE TransferInv'
  <2>1. CallsKept /\ \A d \in Calls : call[d] = "idle" => call'[d] = "idle"
    BY <1>1, TssStepInv, TssStepKeeps DEF TssStep, TransferInv, CallsKept, Requests
  <2> QED
    BY <1>1, <2>1, TroubleInv DEF TssStep, TransferInv, TransferTypeOK
<1>2. CASE UNCHANGED vars
  <2>1. CallsKept /\ UNCHANGED call
    BY <1>2, SameCalls DEF vars, tssVars, TransferInv
  <2> QED
    BY <1>2, <2>1, TroubleInv DEF vars, TransferInv, TransferTypeOK
<1> QED
  BY <1>1, <1>2, CheckBalanceInv, CreateTransactionInv, RequestSignatureInv, HandlerEndsInv,
     CreateRecordInv, MineInv, EvictInv, GiveUpInv
  DEF Next, HandlerStep

LEMMA TransferInvariant == Spec => []TransferInv
  BY InitInv, NextInv, PTL DEF Spec

-----------------------------------------------------------------------------
(* A call takes another call's result for its own only if the service ran  *)
(* both ceremonies at once, or its own result had gone past it.            *)
THEOREM TransferOthersResult == Spec => []OthersResultNeedsMishap
<1>1. TransferInv => OthersResultNeedsMishap
  BY DEF TransferInv, CallInv
<1> QED
  BY <1>1, TransferInvariant, PTL

(* Nothing reaches the node that the service has not signed.               *)
THEOREM TransferSigned == Spec => []AcceptedIsSigned
<1>1. TransferInv => AcceptedIsSigned
  BY DEF TransferInv
<1> QED
  BY <1>1, TransferInvariant, PTL

(* A request that ended in an error, and lost no answer, spent nothing.    *)
THEOREM TransferError == Spec => []ErrorMeansUnpaid
<1>1. TransferInv => ErrorMeansUnpaid
  BY DEF TransferInv
<1> QED
  BY <1>1, TransferInvariant, PTL

(* A request that was answered with success is kept by the node, unless it *)
(* forgets it or a concurrent request replaces it.                         *)
THEOREM TransferOk == Spec => []OkIsPaid
<1>1. TransferInv => OkIsPaid
  BY DEF TransferInv, SentIsKept, OkIsPaid
<1> QED
  BY <1>1, TransferInvariant, PTL

(* A payment is in the chain twice only if a request for it lost an answer *)
(* or was sent beside one that had not failed.                             *)
THEOREM TransferPaidOnce == Spec => []PaidOnce
<1>1. TransferInv => PaidOnce
  <2> SUFFICES ASSUME TransferInv, NEW q \in mined, NEW r \in mined, q # r,
                      payment[q] = payment[r]
               PROVE  (trouble[q] \cup trouble[r]) \cap (Unsure \cup {"again"}) # {}
    BY DEF PaidOnce
  <2>1. /\ q \in Requests /\ r \in Requests
        /\ pc[q] # "idle" /\ pc[r] # "idle"
    BY DEF TransferInv, TransferTypeOK, Stages
  <2>2. CASE pc[q] = "error" \/ pc[r] = "error"
    BY <2>1, <2>2 DEF TransferInv, ErrorMeansUnpaid
  <2>3. CASE pc[q] # "error" /\ pc[r] # "error"
    BY <2>1, <2>3 DEF TransferInv, RepeatsKnown
  <2> QED
    BY <2>2, <2>3
<1> QED
  BY <1>1, TransferInvariant, PTL

-----------------------------------------------------------------------------
(* The ledger.  What a step of the model is, seen from the client.         *)

LEMMA LedgerStatusIs ==
    /\ \A r \in Requests : LedgerStatus[r] = Shown(pc[r])
    /\ Shown("idle") = "new" /\ Shown("sent") = "handed"
    /\ Shown("ok") = "ok" /\ Shown("error") = "error"
    /\ Shown("checked") = "open" /\ Shown("built") = "open"
    /\ Shown("signing") = "open" /\ Shown("signed") = "open"
  BY DEF LedgerStatus, Shown

(* A handler that goes on turns its request's status.                      *)
LEMMA StatusTurns ==
    ASSUME TransferTypeOK, NEW r \in Requests, NEW from, NEW to, Go(r, from, to),
           NEW old, old = Shown(from), NEW new, new = Shown(to)
    PROVE  Ledger!Turn(r, old, new)
<1>1. LedgerStatus[r] = Shown(from)
  BY DEF LedgerStatus, Go
<1>2. LedgerStatus' = [LedgerStatus EXCEPT ![r] = Shown(to)]
  BY DEF LedgerStatus, TransferTypeOK, Go
<1> QED
  BY <1>1, <1>2 DEF Ledger!Turn

(* One that goes on without a word to the client does not.                 *)
LEMMA StatusStays ==
    ASSUME TransferTypeOK, NEW r \in Requests, NEW to, pc' = [pc EXCEPT ![r] = to],
           Shown(to) = Shown(pc[r])
    PROVE  LedgerStatus' = LedgerStatus
  BY DEF LedgerStatus, TransferTypeOK

(* Trouble goes on record.                                                 *)
LEMMA TroubleRecorded ==
    ASSUME TransferTypeOK, NEW r \in Requests, NEW t \in Troubles, Suffer(r, t)
    PROVE  /\ \A u \in {"concurrent", "again", "evict"} :
                 With(u)' = IF u = t THEN With(u) \cup {r} ELSE With(u)
           /\ InDoubt' = IF t \in Unsure THEN InDoubt \cup {r} ELSE InDoubt
<1>1. \A q \in Requests : trouble'[q] = IF q = r THEN trouble[q] \cup {t} ELSE trouble[q]
  BY DEF TransferTypeOK, Suffer
<1>2. \A u : With(u)' = IF u = t THEN With(u) \cup {r} ELSE With(u)
  BY <1>1 DEF With
<1>3. InDoubt' = IF t \in Unsure THEN InDoubt \cup {r} ELSE InDoubt
  BY <1>1 DEF InDoubt, Unsure
<1> QED
  BY <1>2, <1>3

LEMMA RecordsKept ==
    ASSUME UNCHANGED trouble
    PROVE  InDoubt' = InDoubt /\ \A u : With(u)' = With(u)
  BY DEF InDoubt, With

(* A step of which the client and the node see nothing.                    *)
LEMMA LedgerStutters ==
    ASSUME TransferTypeOK, LedgerStatus' = LedgerStatus, UNCHANGED <<payment, chain, trouble>>
    PROVE  UNCHANGED Ledger!ledgerVars
  BY RecordsKept DEF Ledger!ledgerVars, chain

LEMMA LedgerInitStep == Init => Ledger!LedgerInit
<1> SUFFICES ASSUME Init PROVE Ledger!LedgerInit
  OBVIOUS
<1>1. payment \in [Requests -> Payments]
  BY TransferPlans DEF Init, Requests
<1>2. LedgerStatus = [r \in Requests |-> "new"]
  BY DEF Init, LedgerStatus, Shown
<1>3. InDoubt = {} /\ \A t : With(t) = {}
  BY DEF Init, InDoubt, With
<1> QED
  BY <1>1, <1>2, <1>3 DEF Init, Ledger!LedgerInit

(* The request meets the same requests in the ledger as in the model.      *)
LEMMA LedgerAsk ==
    ASSUME TransferTypeOK, NEW r \in Requests, CheckBalance(r)
    PROVE  Ledger!Ask(r)
<1>1. Ledger!Unanswered = {q \in Requests : Active(q)}
  <2>1. \A q \in Requests : LedgerStatus[q] \in {"open", "handed"} <=> Active(q)
    BY DEF LedgerStatus, Shown, Active, TransferTypeOK
  <2> QED
    BY <2>1 DEF Ledger!Unanswered
<1>2. Ledger!Unfailed(r) = Unfailed(r)
  <2>1. \A q \in Requests : LedgerStatus[q] \notin {"new", "error"} <=> pc[q] \notin {"idle", "error"}
    BY DEF LedgerStatus, Shown, TransferTypeOK
  <2> QED
    BY <2>1 DEF Ledger!Unfailed, Unfailed
<1>3. PICK t \in {{}, {"unmade"}} : Submitted(r, t)
  BY DEF CheckBalance
<1> DEFINE of(q, kind, others) ==
              IF others # {} /\ q \in others \cup {r} THEN {kind} ELSE {}
<1>4. \A q \in Requests : trouble'[q] =
          trouble[q] \cup of(q, "concurrent", {p \in Requests : Active(p)})
                     \cup of(q, "again", Unfailed(r))
                     \cup (IF q = r THEN t ELSE {})
  BY <1>3 DEF Submitted
<1>5. With("concurrent")' = With("concurrent") \cup Ledger!Meeting(r, Ledger!Unanswered)
  BY <1>1, <1>4 DEF With, Ledger!Meeting
<1>6. With("again")' = With("again") \cup Ledger!Meeting(r, Ledger!Unfailed(r))
  BY <1>2, <1>4 DEF With, Ledger!Meeting, Unfailed
<1>7. With("evict")' = With("evict") /\ InDoubt' = InDoubt
  BY <1>4 DEF With, InDoubt, Unsure
<1>8. Ledger!Turn(r, "new", "open") \/ Ledger!Turn(r, "new", "error")
  BY StatusTurns, LedgerStatusIs DEF CheckBalance
<1> QED
  BY <1>5, <1>6, <1>7, <1>8 DEF Ledger!Ask, CheckBalance, chain

(* What a request puts out of the pool had been crossed by it.             *)
LEMMA LedgerTakes ==
    ASSUME TransferInv, NEW r \in Requests, pc[r] = "signed", Accept(r)
    PROVE  Ledger!Takes(r)
<1>1. pool' = (pool \ SameNonce(r)) \cup {r}
  BY DEF Accept
<1>2. ASSUME NEW q \in pool, q \notin pool' PROVE q \in With("concurrent")
  <2>1. q # r /\ q \in Requests /\ tx[q].nonce = tx[r].nonce
    BY <1>1, <1>2 DEF SameNonce, TransferInv, TransferTypeOK
  <2> QED
    BY <2>1 DEF TransferInv, RivalsKnown, With
<1> QED
  BY <1>1, <1>2 DEF Ledger!Takes

(* A handler that fails before it sends.                                   *)
LEMMA LedgerFails ==
    ASSUME TransferTypeOK, NEW r \in Requests,
           pc[r] \in {"checked", "built", "signing", "signed"}, pc' = [pc EXCEPT ![r] = "error"],
           UNCHANGED <<payment, chain>>, UNCHANGED trouble \/ Suffer(r, "unmade")
    PROVE  Ledger!Fail(r)
<1>1. Ledger!Turn(r, "open", "error")
  BY StatusTurns, LedgerStatusIs DEF Go
<1>2. InDoubt' = InDoubt /\ \A u \in {"concurrent", "again", "evict"} : With(u)' = With(u)
  BY TroubleRecorded, RecordsKept DEF Troubles, Unsure
<1> QED
  BY <1>1, <1>2 DEF Ledger!Fail, chain

LEMMA LedgerFailsHanded ==
    ASSUME TransferTypeOK, NEW r \in Requests, pc[r] = "sent", pc' = [pc EXCEPT ![r] = "error"],
           UNCHANGED <<payment, chain>>,
           (UNCHANGED trouble /\ Gone(r)) \/ Suffer(r, "unsure")
    PROVE  Ledger!FailHanded(r)
<1>1. Ledger!Turn(r, "handed", "error")
  BY StatusTurns, LedgerStatusIs DEF Go
<1>2. \A u \in {"concurrent", "again", "evict"} : With(u)' = With(u)
  BY TroubleRecorded, RecordsKept DEF Troubles
<1>3. InDoubt' = InDoubt \cup {r}
  <2>1. CASE UNCHANGED trouble /\ Gone(r)
    BY <2>1, RecordsKept DEF InDoubt, Gone, Unsure
  <2>2. CASE Suffer(r, "unsure")
    BY <2>2, TroubleRecorded DEF Troubles, Unsure
  <2> QED
    BY <2>1, <2>2
<1> QED
  BY <1>1, <1>2, <1>3 DEF Ledger!FailHanded, chain

LEMMA LedgerHandler ==
    ASSUME TransferInv, NEW r \in Requests, HandlerStep(r) \/ ReadFails(r)
    PROVE  [Ledger!LedgerNext]_(Ledger!ledgerVars)
<1>1. TransferTypeOK
  BY DEF TransferInv
<1>2. CASE CreateTransaction(r)
  BY <1>1, <1>2, StatusStays, LedgerStatusIs, LedgerStutters DEF CreateTransaction, Go
<1>3. CASE RequestSignature(r)
  <2>1. CASE Go(r, "built", "signing")
    BY <1>1, <1>3, <2>1, StatusStays, LedgerStatusIs, LedgerStutters DEF RequestSignature, Go
  <2>2. CASE Go(r, "built", "error")
    BY <1>1, <1>3, <2>2, LedgerFails DEF RequestSignature, Go, Ledger!LedgerNext
  <2> QED
    BY <1>3, <2>1, <2>2 DEF RequestSignature
<1>4. CASE SigningFails(r) \/ ReadFails(r)
  BY <1>1, <1>4, LedgerFails DEF SigningFails, ReadFails, Go, Ledger!LedgerNext
<1>5. CASE ConvertSignature(r)
  <2>1. CASE Recovers(r)
    BY <1>1, <1>5, <2>1, StatusStays, LedgerStatusIs, LedgerStutters DEF ConvertSignature, Go
  <2>2. CASE ~Recovers(r)
    BY <1>1, <1>5, <2>2, LedgerFails DEF ConvertSignature, Go, Ledger!LedgerNext
  <2> QED
    BY <2>1, <2>2
<1>6. CASE SendTransaction(r)
  <2>1. CASE Go(r, "signed", "sent") /\ Accept(r) /\ UNCHANGED trouble
    <3>1. Ledger!Turn(r, "open", "handed")
      BY <1>1, <2>1, StatusTurns, LedgerStatusIs
    <3>2. Ledger!Hand(r)
      BY <1>6, <2>1, <3>1, LedgerTakes, RecordsKept DEF SendTransaction, Go, Ledger!Hand
    <3> QED
      BY <3>2 DEF Ledger!LedgerNext
  <2>2. CASE Go(r, "signed", "error") /\ UNCHANGED pool /\ (UNCHANGED trouble \/ Suffer(r, "unmade"))
    BY <1>1, <1>6, <2>2, LedgerFails DEF SendTransaction, Go, chain, Ledger!LedgerNext
  <2> QED
    BY <1>6, <2>1, <2>2 DEF SendTransaction
<1>7. CASE CreateRecord(r)
  <2>1. Ledger!Turn(r, "handed", "ok")
    BY <1>1, <1>7, StatusTurns, LedgerStatusIs DEF CreateRecord
  <2> QED
    BY <1>7, <2>1, RecordsKept DEF CreateRecord, chain, Ledger!Confirm, Ledger!LedgerNext
<1>8. CASE Cancelled(r)
  <2>1. PICK stage \in {"checked", "built", "signed", "sent"} : Go(r, stage, "error")
    BY <1>8 DEF Cancelled
  <2>2. CASE stage = "sent"
    BY <1>1, <1>8, <2>1, <2>2, LedgerFailsHanded DEF Cancelled, Go, Ledger!LedgerNext
  <2>3. CASE stage # "sent"
    BY <1>1, <1>8, <2>1, <2>3, LedgerFails DEF Cancelled, Go, Ledger!LedgerNext
  <2> QED
    BY <2>2, <2>3
<1> QED
  BY <1>2, <1>3, <1>4, <1>5, <1>6, <1>7, <1>8 DEF HandlerStep

(* What happens to a handler and to its transaction.                       *)
LEMMA LedgerEvents ==
    ASSUME TransferInv, NEW r \in Requests,
           SendFails(r) \/ RecordFails(r) \/ GiveUp(r) \/ Mine(r) \/ Evict(r)
    PROVE  Ledger!LedgerNext
<1>1. TransferTypeOK
  BY DEF TransferInv
<1>2. CASE SendFails(r)
  <2>1. Ledger!Turn(r, "open", "error")
    BY <1>1, <1>2, StatusTurns, LedgerStatusIs DEF SendFails
  <2>2. Ledger!Takes(r) \/ UNCHANGED pool
    BY <1>2, LedgerTakes DEF SendFails, Go
  <2>3. /\ InDoubt' = InDoubt \cup {r}
        /\ \A u \in {"concurrent", "again", "evict"} : With(u)' = With(u)
    BY <1>1, <1>2, TroubleRecorded DEF SendFails, Troubles, Unsure
  <2> QED
    BY <1>2, <2>1, <2>2, <2>3 DEF SendFails, Ledger!HandInDoubt, Ledger!LedgerNext
<1>3. CASE RecordFails(r)
  BY <1>1, <1>3, LedgerFailsHanded DEF RecordFails, Go, Ledger!LedgerNext
<1>4. CASE GiveUp(r)
  <2>1. LedgerStatus' = LedgerStatus
    BY <1>4 DEF GiveUp, LedgerStatus
  <2>2. LedgerStatus[r] \in {"open", "handed", "ok"}
    BY <1>1, <1>4 DEF GiveUp, Active, LedgerStatus, Shown, TransferTypeOK
  <2>3. /\ InDoubt' = InDoubt \cup {r}
        /\ \A u \in {"concurrent", "again", "evict"} : With(u)' = With(u)
    BY <1>1, <1>4, TroubleRecorded DEF GiveUp, Troubles, Unsure
  <2> QED
    BY <1>4, <2>1, <2>2, <2>3 DEF GiveUp, chain, Ledger!Desert, Ledger!LedgerNext
<1>5. CASE Mine(r)
  <2>1. LedgerStatus' = LedgerStatus
    BY <1>5 DEF Mine, LedgerStatus
  <2> QED
    BY <1>5, <2>1, RecordsKept DEF Mine, Ledger!Settle, Ledger!LedgerNext
<1>6. CASE Evict(r)
  <2>1. LedgerStatus' = LedgerStatus
    BY <1>6 DEF Evict, LedgerStatus
  <2>2. /\ InDoubt' = InDoubt /\ With("evict")' = With("evict") \cup {r}
        /\ \A u \in {"concurrent", "again"} : With(u)' = With(u)
    BY <1>1, <1>6, TroubleRecorded DEF Evict, Troubles, Unsure
  <2> QED
    BY <1>6, <2>1, <2>2 DEF Evict, Ledger!Forget, Ledger!LedgerNext
<1> QED
  BY <1>2, <1>3, <1>4, <1>5, <1>6

(* Every step of the model is a step of the ledger, or none.               *)
LEMMA LedgerStep ==
    ASSUME TransferInv, [Next]_vars
    PROVE  [Ledger!LedgerNext]_(Ledger!ledgerVars)
<1>1. TransferTypeOK
  BY DEF TransferInv
<1>2. ASSUME UNCHANGED vars \/ \E r \in Requests : TssStep(r)
      PROVE  UNCHANGED Ledger!ledgerVars
  <2>1. UNCHANGED <<payment, pc, chain, trouble>>
    BY <1>2 DEF vars, TssStep
  <2>2. LedgerStatus' = LedgerStatus
    BY <2>1 DEF LedgerStatus
  <2> QED
    BY <1>1, <2>1, <2>2, LedgerStutters
<1>3. ASSUME NEW r \in Requests, CheckBalance(r) PROVE Ledger!LedgerNext
  BY <1>1, <1>3, LedgerAsk DEF Ledger!LedgerNext
<1> QED
  BY <1>2, <1>3, LedgerHandler, LedgerEvents DEF Next

(* The handlers, the signing service and the node together keep the        *)
(* ledger: a request is handed to the node at most once and answered for   *)
(* good, and what its answer and the node may disagree on is on record     *)
(* (CreateAndSubmitTransaction).                                           *)
THEOREM TransferLedger == Spec => ImplementsLedger
<1>1. TransferInv /\ [Next]_vars => [Ledger!LedgerNext]_(Ledger!ledgerVars)
  BY LedgerStep
<1> QED
  BY LedgerInitStep, TransferInvariant, <1>1, PTL
     DEF Spec, ImplementsLedger, Ledger!LedgerSpec

-----------------------------------------------------------------------------
(* The ledger's promises follow from the ledger alone.                     *)

LEMMA PromisesInit == Ledger!LedgerInit => Ledger!LedgerInv
  BY DEF Ledger!LedgerInit, Ledger!LedgerInv, Ledger!LedgerTypeOK, Ledger!Promises

(* A request is made, or one turns while the node has what it had.         *)
LEMMA PromisesAsk ==
    ASSUME Ledger!LedgerInv, NEW r \in Requests, Ledger!Ask(r)
    PROVE  Ledger!LedgerInv'
<1> USE DEF Ledger!LedgerInv
<1> DEFINE status == LedgerStatus
<1>1. PICK to \in {"open", "error"} : Ledger!Turn(r, "new", to)
  BY DEF Ledger!Ask
<1>2. /\ With("concurrent") \subseteq With("concurrent")'
      /\ With("again") \subseteq With("again")'
      /\ UNCHANGED <<payment, pool, mined, InDoubt, With("evict")>>
  BY DEF Ledger!Ask
<1>3. Ledger!LedgerTypeOK'
  BY <1>1 DEF Ledger!LedgerTypeOK, Ledger!Turn, Ledger!Ask, Ledger!Meeting, Ledger!Unanswered,
              Ledger!Unfailed
<1>4. /\ \A q \in Requests \ {r} : status'[q] = status[q]
      /\ status[r] = "new" /\ status'[r] = to
  BY <1>1 DEF Ledger!LedgerTypeOK, Ledger!Turn
<1>5. ASSUME NEW p \in Requests, NEW q \in Requests, p # q, payment[p] = payment[q],
             status'[p] \notin {"new", "error"}, status'[q] \notin {"new", "error"}
      PROVE  q \in With("again")'
  <2>1. CASE p # r /\ q # r
    BY <1>2, <1>4, <1>5, <2>1
  <2>2. CASE p = r
    <3>1. q \in Ledger!Unfailed(r)
      BY <1>4, <1>5, <2>2 DEF Ledger!Unfailed
    <3> QED
      BY <3>1 DEF Ledger!Ask, Ledger!Meeting
  <2>3. CASE q = r
    <3>1. p \in Ledger!Unfailed(r)
      BY <1>4, <1>5, <2>3 DEF Ledger!Unfailed
    <3> QED
      BY <2>3, <3>1 DEF Ledger!Ask, Ledger!Meeting
  <2> QED
    BY <2>1, <2>2, <2>3
<1>6. Ledger!Promises'
  BY <1>2, <1>4 DEF Ledger!Promises, Ledger!LedgerTypeOK
<1> QED
  BY <1>2, <1>3, <1>4, <1>5, <1>6

(* An open request is handed over, fails or does both.                     *)
LEMMA PromisesHand ==
    ASSUME Ledger!LedgerInv, NEW r \in Requests,
           Ledger!Hand(r) \/ Ledger!HandInDoubt(r) \/ Ledger!Fail(r)
    PROVE  Ledger!LedgerInv'
<1> USE DEF Ledger!LedgerInv
<1> DEFINE status == LedgerStatus
<1>1. PICK to \in {"handed", "error"} : Ledger!Turn(r, "open", to)
  BY DEF Ledger!Hand, Ledger!HandInDoubt, Ledger!Fail
<1>2. /\ InDoubt \subseteq InDoubt' /\ InDoubt' \subseteq InDoubt \cup {r}
      /\ UNCHANGED <<payment, mined, With("concurrent"), With("again"), With("evict")>>
      /\ Ledger!Takes(r) \/ UNCHANGED pool
      /\ to = "handed" => Ledger!Takes(r)
      /\ to = "error" => UNCHANGED pool \/ r \in InDoubt'
  BY <1>1 DEF Ledger!Hand, Ledger!HandInDoubt, Ledger!Fail, Ledger!Turn, Ledger!LedgerTypeOK
<1>3. /\ \A q \in Requests \ {r} : status'[q] = status[q]
      /\ status[r] = "open" /\ status'[r] = to
      /\ status' \in [Requests -> {"new", "open", "handed", "ok", "error"}]
  BY <1>1 DEF Ledger!LedgerTypeOK, Ledger!Turn
<1>4. /\ pool' \subseteq pool \cup {r}
      /\ \A q \in pool \ pool' : q \in With("concurrent")
      /\ to = "handed" => r \in pool'
  BY <1>2 DEF Ledger!Takes
<1>5. Ledger!LedgerTypeOK'
  BY <1>2, <1>3, <1>4 DEF Ledger!LedgerTypeOK
<1>6. Ledger!Promises'
  BY <1>2, <1>3, <1>4 DEF Ledger!Promises, Ledger!LedgerTypeOK
<1> QED
  BY <1>2, <1>3, <1>4, <1>5, <1>6

(* A request that was handed over is answered.                             *)
LEMMA PromisesAnswer ==
    ASSUME Ledger!LedgerInv, NEW r \in Requests, Ledger!Confirm(r) \/ Ledger!FailHanded(r)
    PROVE  Ledger!LedgerInv'
<1> USE DEF Ledger!LedgerInv
<1> DEFINE status == LedgerStatus
<1>1. PICK to \in {"ok", "error"} : Ledger!Turn(r, "handed", to)
  BY DEF Ledger!Confirm, Ledger!FailHanded
<1>2. /\ InDoubt \subseteq InDoubt' /\ InDoubt' \subseteq InDoubt \cup {r}
      /\ UNCHANGED <<payment, pool, mined, With("concurrent"), With("again"), With("evict")>>
      /\ to = "error" => r \in InDoubt'
  BY <1>1 DEF Ledger!Confirm, Ledger!FailHanded, Ledger!Turn, Ledger!LedgerTypeOK
<1>3. /\ \A q \in Requests \ {r} : status'[q] = status[q]
      /\ status[r] = "handed" /\ status'[r] = to
      /\ status' \in [Requests -> {"new", "open", "handed", "ok", "error"}]
  BY <1>1 DEF Ledger!LedgerTypeOK, Ledger!Turn
<1>4. Ledger!LedgerTypeOK'
  BY <1>2, <1>3 DEF Ledger!LedgerTypeOK
<1>5. Ledger!Promises'
  BY <1>2, <1>3 DEF Ledger!Promises, Ledger!LedgerTypeOK
<1> QED
  BY <1>2, <1>3, <1>4, <1>5

(* A payment is settled twice only when both requests are known to the     *)
(* records; the client and the node otherwise only lose what they have.    *)
LEMMA PromisesEvents ==
    ASSUME Ledger!LedgerInv, NEW r \in Requests,
           Ledger!Desert(r) \/ Ledger!Settle(r) \/ Ledger!Forget(r)
    PROVE  Ledger!LedgerInv'
<1> USE DEF Ledger!LedgerInv
<1> DEFINE status == LedgerStatus
<1>1. /\ UNCHANGED <<payment, LedgerStatus, With("concurrent"), With("again")>>
      /\ InDoubt \subseteq InDoubt' /\ InDoubt' \subseteq Requests
      /\ With("evict") \subseteq With("evict")' /\ With("evict")' \subseteq Requests
      /\ pool' \cup mined' \subseteq pool \cup mined
      /\ \A q \in (pool \cup mined) \ (pool' \cup mined') : q \in With("evict")'
  BY DEF Ledger!Desert, Ledger!Settle, Ledger!Forget, Ledger!LedgerTypeOK
<1>2. Ledger!LedgerTypeOK'
  BY <1>1 DEF Ledger!LedgerTypeOK
<1>3. ASSUME NEW p \in mined', NEW q \in mined', p # q, payment[p] = payment[q]
      PROVE  {p, q} \cap (InDoubt \cup With("again")) # {}
  <2>1. p \in Requests /\ q \in Requests /\ p \in pool \cup mined /\ q \in pool \cup mined
    BY <1>1 DEF Ledger!LedgerTypeOK
  <2>2. status[p] \in {"handed", "ok", "error"} /\ status[q] \in {"handed", "ok", "error"}
    BY <2>1 DEF Ledger!LedgerTypeOK
  <2> QED
    BY <1>3, <2>1, <2>2 DEF Ledger!Promises
<1>4. Ledger!Promises'
  BY <1>1, <1>3 DEF Ledger!Promises
<1> QED
  BY <1>1, <1>2, <1>4

LEMMA PromisesStep ==
    ASSUME Ledger!LedgerInv, [Ledger!LedgerNext]_(Ledger!ledgerVars)
    PROVE  Ledger!LedgerInv'
<1>1. CASE UNCHANGED Ledger!ledgerVars
  BY <1>1 DEF Ledger!ledgerVars, Ledger!LedgerInv, Ledger!LedgerTypeOK, Ledger!Promises
<1> QED
  BY <1>1, PromisesAsk, PromisesHand, PromisesAnswer, PromisesEvents DEF Ledger!LedgerNext

(* What a client may conclude from an answer, and about paying twice, from *)
(* the ledger alone and so for every program that keeps it.                *)
THEOREM LedgerPromises == ImplementsLedger => []Ledger!Promises
<1>1. Ledger!LedgerInv /\ [Ledger!LedgerNext]_(Ledger!ledgerVars) => Ledger!LedgerInv'
  BY PromisesStep
<1>2. Ledger!LedgerInv => Ledger!Promises
  BY DEF Ledger!LedgerInv
<1> QED
  BY PromisesInit, <1>1, <1>2, PTL DEF ImplementsLedger, Ledger!LedgerSpec

(* Together: the transfers keep the promises (transaction.go).             *)
THEOREM TransferPromises == Spec => []Ledger!Promises
  BY TransferLedger, LedgerPromises, PTL
=============================================================================
