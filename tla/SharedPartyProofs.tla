-------------------------- MODULE SharedPartyProofs --------------------------
(***************************************************************************)
(* SharedInv is inductive, for any number of runs and rounds: runs that do *)
(* not overlap share neither a Party nor a channel.  So is TrafficInv,     *)
(* beside it: a run that has finished has taken all of its messages; and   *)
(* ClosersReturned, from which the senders of failed runs leak.            *)
(***************************************************************************)
EXTENDS SharedParty, TLAPS

USE SharedRuns, SharedRounds

LEMMA InitInv == Init => SharedInv
  BY DEF Init, SharedInv, SharedTypeOK, Stages, StageSets, OneInside, Inside

LEMMA GetOrCreatePartyInv ==
    ASSUME SharedInv, NEW r \in Runs, GetOrCreateParty(r)
    PROVE  SharedInv'
<1> USE DEF SharedInv, GetOrCreateParty, Go, channels, senders, traffic
<1>1. SharedTypeOK'
  BY DEF SharedTypeOK, Stages, Lapses
<1>2. StageSets'
  BY DEF SharedTypeOK, StageSets
<1>3. ASSUME "overlap" \notin lapses' PROVE OneInside'
  <2>1. /\ lapses' = lapses
        /\ \A q \in Runs : ~Inside(q)
    BY <1>3 DEF Inside
  <2>2. mapped' = r /\ party'[r] = r /\ pc'[r] = "held"
    BY <1>3, <2>1 DEF SharedTypeOK, OneInside
  <2>3. \A q \in Runs \ {r} : pc'[q] = pc[q]
    BY DEF SharedTypeOK
  <2> QED
    BY <1>3, <2>1, <2>2, <2>3 DEF OneInside, Inside, SharedTypeOK
<1> QED
  BY <1>1, <1>2, <1>3

LEMMA InitPartyInv ==
    ASSUME SharedInv, NEW r \in Runs, InitParty(r)
    PROVE  SharedInv'
<1> USE DEF SharedInv, InitParty, Go, traffic
<1>0. party[r] \in Runs
  BY DEF StageSets
<1>1. SharedTypeOK'
  BY <1>0 DEF SharedTypeOK, Stages
<1>2. StageSets'
  BY <1>0 DEF SharedTypeOK, StageSets
<1>3. ASSUME "overlap" \notin lapses' PROVE OneInside'
  BY <1>0, <1>3 DEF OneInside, Inside, SharedTypeOK
<1> QED
  BY <1>1, <1>2, <1>3

LEMMA EnterLoopInv ==
    ASSUME SharedInv, NEW r \in Runs, EnterLoop(r)
    PROVE  SharedInv'
<1> USE DEF SharedInv, EnterLoop, Go, senders
<1>0. party[r] \in Runs /\ closeChan[party[r]] \in Runs
  BY DEF StageSets
<1>1. SharedTypeOK'
  BY <1>0 DEF SharedTypeOK, Stages, Msgs
<1>2. StageSets'
  BY <1>0 DEF SharedTypeOK, StageSets
<1>3. ASSUME "overlap" \notin lapses' PROVE OneInside'
  BY <1>0, <1>3 DEF OneInside, Inside, SharedTypeOK
<1> QED
  BY <1>1, <1>2, <1>3

(* A step inside the loop leaves alone everything the invariant is about.  *)
LEMMA LoopStepInv ==
    ASSUME SharedInv, NEW r \in Runs,
           SharedTypeOK',
           pc[r] \in {"looping", "spoiled"},
           pc' = pc \/ \E to \in {"spoiled", "ended"} : pc' = [pc EXCEPT ![r] = to],
           UNCHANGED <<party, mapped, channels, senders, lapses>>
    PROVE  SharedInv'
<1> USE DEF SharedInv, channels, senders
<1>1. StageSets'
  BY DEF SharedTypeOK, StageSets
<1>2. ASSUME "overlap" \notin lapses' PROVE OneInside'
  BY <1>2 DEF OneInside, Inside, SharedTypeOK
<1> QED
  BY <1>1, <1>2

LEMMA TakeOwnInv ==
    ASSUME SharedInv, NEW r \in Runs, NEW m \in Msgs, TakeOwn(r, m)
    PROVE  SharedInv'
<1> USE DEF TakeOwn, Queued
<1>1. PICK next \in round[r]..(Rounds + 1) :
        /\ round' = [round EXCEPT ![r] = next]
        /\ out' = [out EXCEPT ![party[r]] =
                     @ \cup [run : {r}, round : (round[r] + 1)..next \cap 1..Rounds]]
        /\ pc' = IF next > Rounds THEN [pc EXCEPT ![r] = "ended"] ELSE pc
  OBVIOUS
<1>2. next \in 0..(Rounds + 1)
  BY <1>1 DEF SharedInv, SharedTypeOK
<1>3. [run : {r}, round : (round[r] + 1)..next \cap 1..Rounds] \subseteq Msgs
  BY DEF Msgs
<1>4. pc' \in [Runs -> Stages] /\ round' \in [Runs -> 0..(Rounds + 1)]
  BY <1>1, <1>2 DEF SharedInv, SharedTypeOK, Stages
<1>5. out' \in [Runs -> SUBSET Msgs] /\ in' \in [Runs -> SUBSET Msgs]
  BY <1>1, <1>3 DEF SharedInv, SharedTypeOK
<1>6. m.round \in 1..Rounds
  BY DEF Msgs
<1>7. got' \in [Runs -> SUBSET (1..Rounds)]
  BY <1>6 DEF SharedInv, SharedTypeOK
<1>8. SharedTypeOK'
  BY <1>4, <1>5, <1>7 DEF SharedInv, SharedTypeOK, channels, senders
<1> QED
  BY <1>1, <1>8, LoopStepInv

LEMMA TakeForeignInv ==
    ASSUME SharedInv, NEW r \in Runs, NEW m \in Msgs, TakeForeign(r, m)
    PROVE  SharedInv'
<1> USE DEF TakeForeign
<1>1. SharedTypeOK'
  BY DEF SharedInv, SharedTypeOK, Stages, channels, senders
<1> QED
  BY <1>1, LoopStepInv

LEMMA ReturnInv ==
    ASSUME SharedInv, NEW r \in Runs, Return(r)
    PROVE  SharedInv'
<1> USE DEF SharedInv, Return, Go, senders, traffic
<1>0. captured[r] \in Runs
  BY DEF StageSets
<1>1. SharedTypeOK'
  BY <1>0 DEF SharedTypeOK, Stages, Lapses
<1>2. StageSets'
  BY DEF SharedTypeOK, StageSets
<1>3. ASSUME "overlap" \notin lapses' PROVE OneInside'
  <2>1. "overlap" \notin lapses /\ captured[r] = r /\ r \notin closed
    BY <1>3 DEF OneInside, Inside, SharedTypeOK
  <2> QED
    BY <1>3, <2>1 DEF OneInside, Inside, SharedTypeOK
<1> QED
  BY <1>1, <1>2, <1>3

LEMMA LoadShareFailsInv ==
    ASSUME SharedInv, NEW r \in Runs, LoadShareFails(r)
    PROVE  SharedInv'
<1> USE DEF SharedInv, LoadShareFails, Go, channels, senders, traffic
<1>1. SharedTypeOK'
  BY DEF SharedTypeOK, Stages
<1>2. StageSets'
  BY DEF SharedTypeOK, StageSets
<1>3. ASSUME "overlap" \notin lapses' PROVE OneInside'
  BY <1>3 DEF OneInside, Inside, SharedTypeOK
<1> QED
  BY <1>1, <1>2, <1>3

LEMMA RemovePartyInv ==
    ASSUME SharedInv, NEW r \in Runs, RemoveParty(r)
    PROVE  SharedInv'
<1> USE DEF SharedInv, RemoveParty, Go, channels, senders, traffic
<1>1. SharedTypeOK'
  BY DEF SharedTypeOK, Stages
<1>2. StageSets'
  BY DEF SharedTypeOK, StageSets
<1>3. ASSUME "overlap" \notin lapses' PROVE OneInside'
  BY <1>3 DEF OneInside, Inside, SharedTypeOK
<1> QED
  BY <1>1, <1>2, <1>3

(* The sender goroutines and the peer touch neither handlers nor channels. *)
LEMMA OutsideStepInv ==
    ASSUME SharedInv, SharedTypeOK',
           \A r \in Runs : sender'[r] # "none" => sender[r] # "none",
           "overlap" \in lapses => "overlap" \in lapses',
           "doubleclose" \in lapses' => "doubleclose" \in lapses,
           UNCHANGED <<handler, channels>>
    PROVE  SharedInv'
  BY DEF SharedInv, SharedTypeOK, StageSets, OneInside, Inside, handler, channels

LEMMA SenderStepInv ==
    ASSUME SharedInv, NEW r \in Runs, SenderStep(r)
    PROVE  SharedInv'
<1> USE DEF handler, traffic
<1>0. sender[r] # "none" => party[r] \in Runs /\ closeChan[party[r]] \in Runs
  BY DEF SharedInv, StageSets
<1>1. CASE Select(r)
  <2>1. SharedTypeOK'
    BY <1>0, <1>1 DEF SharedInv, SharedTypeOK, Select, channels
  <2> QED
    BY <1>1, <2>1, OutsideStepInv DEF Select, SharedInv, SharedTypeOK
<1>2. CASE \E m \in Msgs : Forward(r, m)
  <2>1. PICK m \in Msgs : Forward(r, m)
    BY <1>2
  <2>2. SharedTypeOK'
    BY <1>0, <2>1 DEF SharedInv, SharedTypeOK, Forward, channels
  <2> QED
    BY <2>1, <2>2, OutsideStepInv DEF Forward, SharedInv, SharedTypeOK
<1>3. CASE StopSender(r)
  <2>1. SharedTypeOK'
    BY <1>3 DEF SharedInv, SharedTypeOK, StopSender, channels, Lapses
  <2> QED
    BY <1>3, <2>1, OutsideStepInv DEF StopSender, SharedInv, SharedTypeOK
<1> QED
  BY <1>1, <1>2, <1>3 DEF SenderStep

LEMMA DeliverInv ==
    ASSUME SharedInv, NEW m \in Msgs, Deliver(m)
    PROVE  SharedInv'
<1> USE DEF Deliver, handler, senders
<1>1. lapses' \subseteq Lapses
  BY DEF SharedInv, SharedTypeOK, Lapses
<1>2. in' \in [Runs -> SUBSET Msgs]
  BY DEF SharedInv, SharedTypeOK
<1>3. "overlap" \in lapses => "overlap" \in lapses'
  OBVIOUS
<1>4. "doubleclose" \in lapses' => "doubleclose" \in lapses
  OBVIOUS
<1>5. SharedTypeOK'
  BY <1>1, <1>2 DEF SharedInv, SharedTypeOK, channels
<1> QED
  BY <1>3, <1>4, <1>5, OutsideStepInv

LEMMA NextInv ==
    ASSUME SharedInv, [Next]_vars
    PROVE  SharedInv'
<1>1. CASE UNCHANGED vars
  BY <1>1 DEF vars, SharedInv, SharedTypeOK, StageSets, OneInside, Inside
<1>2. CASE \E r \in Runs : GetOrCreateParty(r)
  BY <1>2, GetOrCreatePartyInv
<1>3. CASE \E r \in Runs : RunStep(r)
  BY <1>3, InitPartyInv, EnterLoopInv, TakeOwnInv, TakeForeignInv, ReturnInv,
     RemovePartyInv DEF RunStep
<1>4. CASE \E r \in Runs : LoadShareFails(r)
  BY <1>4, LoadShareFailsInv
<1>5. CASE \E r \in Runs : SenderStep(r)
  BY <1>5, SenderStepInv
<1>6. CASE \E m \in Msgs : Deliver(m)
  BY <1>6, DeliverInv
<1> QED
  BY <1>1, <1>2, <1>3, <1>4, <1>5, <1>6 DEF Next

(* The invariant holds in every behaviour.                                 *)
THEOREM SharedInvariant == Spec => []SharedInv
  BY InitInv, NextInv, PTL DEF Spec

(* Type correctness of the handlers that share a session id (the parties   *)
(* map, Party and its goroutines).                                         *)
THEOREM SharedTypeCorrect == Spec => []SharedTypeOK
<1>1. SharedInv => SharedTypeOK
  BY DEF SharedInv
<1> QED
  BY <1>1, SharedInvariant, PTL

(* However many ceremonies use one session id: while none of their         *)
(* handlers overlap, each has the Party and the closeChan it made, and no  *)
(* channel is closed twice (getOrCreateParty, Init, removeParty).          *)
THEOREM SharedLoneRuns == Spec => []LoneRunsShareNothing
<1>1. SharedInv => LoneRunsShareNothing
  BY DEF SharedInv, OneInside, LoneRunsShareNothing
<1> QED
  BY <1>1, SharedInvariant, PTL

-----------------------------------------------------------------------------
(* The traffic of the runs, whether or not they overlap.                   *)

LEMMA TakeOwnTraffic ==
    ASSUME SharedInv, TrafficInv, NEW r \in Runs, NEW m \in Msgs, TakeOwn(r, m)
    PROVE  TrafficInv'
<1> USE DEF SharedInv, SharedTypeOK, TakeOwn
<1>1. party[r] \in Runs /\ m.run = r /\ m.round \in 1..Rounds
  BY DEF StageSets, Msgs
<1>2. m = [run |-> r, round |-> m.round]
  BY <1>1 DEF Msgs
<1>3. /\ \A p \in Runs : in'[p] = in[p] \ (IF p = party[r] THEN {m} ELSE {})
      /\ \A q \in Runs : got'[q] = got[q] \cup (IF q = r THEN {m.round} ELSE {})
      /\ m \in in[party[r]] /\ arrived' = arrived
  BY <1>1
<1>4. PICK next \in round[r]..(Rounds + 1) :
         /\ round[r]..(next - 1) \subseteq got'[r]
         /\ round' = [round EXCEPT ![r] = next]
         /\ pc' = IF next > Rounds THEN [pc EXCEPT ![r] = "ended"] ELSE pc
  OBVIOUS
<1>5. \A p \in Runs : m \notin in'[p]
  BY <1>1, <1>3 DEF TrafficInv
<1>6. ASSUME NEW q \in Runs, NEW k \in got'[q]
      PROVE  /\ [run |-> q, round |-> k] \in arrived
             /\ \A p \in Runs : [run |-> q, round |-> k] \notin in'[p]
  <2>1. CASE k \in got[q]
    BY <1>3, <2>1 DEF TrafficInv
  <2>2. CASE k \notin got[q]
    <3>1. [run |-> q, round |-> k] = m
      BY <1>2, <1>3, <2>2
    <3> QED
      BY <1>1, <1>3, <1>5, <3>1 DEF TrafficInv
  <2> QED
    BY <2>1, <2>2
<1>7. ASSUME NEW q \in Runs, NEW k \in 1..Rounds, k < round'[q]
      PROVE  k \in got'[q]
  <2>1. CASE q # r
    BY <1>3, <1>4, <1>7, <2>1 DEF TrafficInv
  <2>2. CASE q = r /\ k < round[r]
    BY <1>3, <2>2 DEF TrafficInv
  <2>3. CASE q = r /\ k >= round[r]
    <3>1. k \in round[r]..(next - 1)
      BY <1>4, <1>7, <2>3
    <3> QED
      BY <1>4, <2>3, <3>1
  <2>4. round[r] \in Nat
    OBVIOUS
  <2> QED
    BY <2>1, <2>2, <2>3, <2>4
<1>8. \A q \in Runs : pc'[q] \in {"ended", "closed", "done"} => round'[q] > Rounds
  BY <1>4 DEF TrafficInv
<1>9. /\ \A p \in Runs : in'[p] \subseteq arrived'
      /\ \A p, q \in Runs : p # q => in'[p] \cap in'[q] = {}
  BY <1>3 DEF TrafficInv
<1> QED
  BY <1>3, <1>6, <1>7, <1>8, <1>9 DEF TrafficInv

LEMMA TakeForeignTraffic ==
    ASSUME SharedInv, TrafficInv, NEW r \in Runs, NEW m \in Msgs, TakeForeign(r, m)
    PROVE  TrafficInv'
<1> USE DEF SharedInv, SharedTypeOK, TakeForeign
<1>1. /\ \A p \in Runs : in'[p] \subseteq in[p]
      /\ \A q \in Runs : pc'[q] \in {"ended", "closed", "done"} => pc'[q] = pc[q]
  BY DEF StageSets
<1> QED
  BY <1>1 DEF TrafficInv

LEMMA DeliverTraffic ==
    ASSUME SharedInv, TrafficInv, NEW m \in Msgs, Deliver(m)
    PROVE  TrafficInv'
<1> USE DEF SharedInv, SharedTypeOK, Deliver, handler
<1>1. /\ UNCHANGED <<pc, got, round>>
      /\ m \notin arrived /\ arrived' = arrived \cup {m}
  OBVIOUS
<1>2. CASE UNCHANGED in
  BY <1>1, <1>2 DEF TrafficInv
<1>3. CASE mapped \in Runs /\ in' = [in EXCEPT ![mapped] = @ \cup {m}]
  <2>1. \A p \in Runs : in'[p] = in[p] \cup (IF p = mapped THEN {m} ELSE {})
    BY <1>3
  <2>2. \A q \in Runs : \A k \in got[q] : [run |-> q, round |-> k] # m
    BY <1>1 DEF TrafficInv
  <2>3. /\ \A p \in Runs : in'[p] \subseteq arrived'
        /\ \A p, q \in Runs : p # q => in'[p] \cap in'[q] = {}
    BY <1>1, <2>1 DEF TrafficInv
  <2>4. ASSUME NEW q \in Runs, NEW k \in got[q]
        PROVE  /\ [run |-> q, round |-> k] \in arrived'
               /\ \A p \in Runs : [run |-> q, round |-> k] \notin in'[p]
    <3>1. /\ [run |-> q, round |-> k] \in arrived
          /\ \A p \in Runs : [run |-> q, round |-> k] \notin in[p]
      BY DEF TrafficInv
    <3>2. [run |-> q, round |-> k] # m
      BY <2>2
    <3> QED
      BY <1>1, <2>1, <3>1, <3>2
  <2> QED
    BY <1>1, <2>3, <2>4 DEF TrafficInv
<1> QED
  BY <1>2, <1>3

(* The steps that move a handler, or its sender, and no message.           *)
LEMMA HandlerTraffic ==
    ASSUME SharedInv, TrafficInv, NEW r \in Runs,
           \/ GetOrCreateParty(r) \/ InitParty(r) \/ EnterLoop(r) \/ LoadShareFails(r)
           \/ Return(r) \/ RemoveParty(r)
    PROVE  TrafficInv'
<1> USE DEF SharedInv, SharedTypeOK
<1>1. /\ UNCHANGED <<in, got, arrived>>
      /\ UNCHANGED round \/ round' = [round EXCEPT ![r] = 1]
  BY DEF GetOrCreateParty, InitParty, EnterLoop, LoadShareFails, Return, RemoveParty, traffic
<1>2. \A q \in Runs : pc'[q] \in {"ended", "closed", "done"}
        => pc[q] \in {"ended", "closed"} \/ pc'[q] = pc[q]
  BY DEF GetOrCreateParty, InitParty, EnterLoop, LoadShareFails, Return, RemoveParty, Go
<1>3. round' # round => pc'[r] = "looping"
  BY DEF GetOrCreateParty, InitParty, EnterLoop, LoadShareFails, Return, RemoveParty, Go,
     traffic
<1>4. \A q \in Runs : pc'[q] \in {"ended", "closed", "done"} => round'[q] > Rounds
  BY <1>1, <1>2, <1>3 DEF TrafficInv
<1>5. \A q \in Runs : \A k \in 1..Rounds : k < round'[q] => k \in got[q]
  BY <1>1 DEF TrafficInv
<1> QED
  BY <1>1, <1>4, <1>5 DEF TrafficInv

LEMMA NextTraffic == ASSUME SharedInv, TrafficInv, [Next]_vars PROVE TrafficInv'
<1>1. CASE UNCHANGED <<pc, in, got, round, arrived>>
  BY <1>1 DEF TrafficInv
<1>2. ASSUME NEW r \in Runs, SenderStep(r)
      PROVE  UNCHANGED <<pc, in, got, round, arrived>>
  BY <1>2 DEF SenderStep, Select, Forward, StopSender, handler, traffic
<1>3. CASE UNCHANGED vars
  BY <1>1, <1>3 DEF vars, handler, traffic
<1> QED
  BY <1>1, <1>2, <1>3, TakeOwnTraffic, TakeForeignTraffic, DeliverTraffic, HandlerTraffic
  DEF Next, RunStep

LEMMA TrafficInvariant == Spec => []TrafficInv
<1>1. Init => TrafficInv
  BY DEF Init, TrafficInv
<1> QED
  BY <1>1, NextTraffic, SharedInvariant, PTL DEF Spec

(* No Party is left with a message of a run that has finished: what a      *)
(* later run of the session may trip over is of runs that have not.        *)
THEOREM SharedFinished == Spec => []FinishedLeaveNothing
<1>1. SharedInv /\ TrafficInv => FinishedLeaveNothing
  <2> SUFFICES ASSUME SharedInv, TrafficInv, NEW p \in Runs, NEW m \in in[p],
                      pc[m.run] = "done"
               PROVE  FALSE
    BY DEF FinishedLeaveNothing
  <2>1. m \in Msgs
    BY DEF SharedInv, SharedTypeOK
  <2>2. m.run \in Runs /\ m.round \in 1..Rounds /\ m = [run |-> m.run, round |-> m.round]
    BY <2>1 DEF Msgs
  <2>3. m.round \in got[m.run]
    BY <2>2 DEF TrafficInv, SharedInv, SharedTypeOK
  <2> QED
    BY <2>2, <2>3 DEF TrafficInv
<1> QED
  BY <1>1, SharedInvariant, TrafficInvariant, PTL

(* The channels a step closes, and those it captures.                      *)
LEMMA NextClosers == ASSUME SharedInv, ClosersReturned, [Next]_vars PROVE ClosersReturned'
<1> USE DEF SharedInv, SharedTypeOK
<1>1. ASSUME UNCHANGED <<sender, watched, closed>>,
             \A q \in Runs : pc[q] \in {"closed", "done"} =>
                 captured'[q] = captured[q] /\ pc'[q] \in {"closed", "done"}
      PROVE  ClosersReturned'
  BY <1>1 DEF ClosersReturned
<1>2. CASE UNCHANGED vars
  BY <1>1, <1>2 DEF vars, handler, channels, senders
<1>3. ASSUME NEW r \in Runs, GetOrCreateParty(r) \/ EnterLoop(r) \/ LoadShareFails(r)
                             \/ RemoveParty(r)
      PROVE  ClosersReturned'
  <2>1. UNCHANGED <<sender, watched, closed>>
    BY <1>3 DEF GetOrCreateParty, EnterLoop, LoadShareFails, RemoveParty, channels, senders
  <2>2. \A q \in Runs : pc[q] \in {"closed", "done"} =>
          captured'[q] = captured[q] /\ pc'[q] \in {"closed", "done"}
    BY <1>3 DEF GetOrCreateParty, EnterLoop, LoadShareFails, RemoveParty, Go, channels
  <2> QED
    BY <1>1, <2>1, <2>2
<1>4. ASSUME NEW r \in Runs, NEW m \in Msgs, TakeOwn(r, m) \/ TakeForeign(r, m)
      PROVE  ClosersReturned'
  <2>1. UNCHANGED <<sender, watched, closed, captured>>
    BY <1>4 DEF TakeOwn, TakeForeign, channels, senders
  <2>2. pc[r] \in {"looping", "spoiled"} /\ \A q \in Runs \ {r} : pc'[q] = pc[q]
    BY <1>4 DEF TakeOwn, TakeForeign
  <2> QED
    BY <1>1, <2>1, <2>2
<1>5. ASSUME NEW r \in Runs, InitParty(r) PROVE ClosersReturned'
  BY <1>5 DEF InitParty, Go, ClosersReturned
<1>6. ASSUME NEW r \in Runs, Return(r) PROVE ClosersReturned'
  <2>1. /\ UNCHANGED <<sender, watched, captured>> /\ closed' = closed \cup {captured[r]}
        /\ pc[r] = "ended" /\ pc'[r] = "closed" /\ \A q \in Runs \ {r} : pc'[q] = pc[q]
    BY <1>6 DEF Return, Go, senders
  <2> QED
    BY <2>1 DEF ClosersReturned
<1>7. ASSUME NEW r \in Runs, SenderStep(r) PROVE ClosersReturned'
  <2>1. UNCHANGED <<pc, captured, closed>>
    BY <1>7 DEF SenderStep, Select, Forward, StopSender, handler, channels
  <2>2. \A q \in Runs \ {r} : sender'[q] = sender[q] /\ watched'[q] = watched[q]
    BY <1>7 DEF SenderStep, Select, Forward, StopSender
  <2>3. sender'[r] = "off" => watched'[r] \in closed
    BY <1>7 DEF SenderStep, Select, Forward, StopSender
  <2> QED
    BY <2>1, <2>2, <2>3 DEF ClosersReturned
<1>8. ASSUME NEW m \in Msgs, Deliver(m) PROVE ClosersReturned'
  BY <1>1, <1>8 DEF Deliver, handler, channels, senders
<1> QED
  BY <1>2, <1>3, <1>4, <1>5, <1>6, <1>7, <1>8 DEF Next, RunStep

(* The sender goroutine of a run that failed stops only after another run, *)
(* which had captured the channel it watches, has returned.                *)
THEOREM SharedLeaked == Spec => []LeakedSendersWait
<1>1. Init => ClosersReturned
  BY DEF Init, ClosersReturned
<1>2. ClosersReturned => LeakedSendersWait
  BY DEF ClosersReturned, LeakedSendersWait
<1> QED
  BY <1>1, <1>2, NextClosers, SharedInvariant, PTL DEF Spec
=============================================================================
