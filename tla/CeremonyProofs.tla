--------------------------- MODULE CeremonyProofs ---------------------------
(***************************************************************************)
(* The safety of key generation and of signing, for any nodes, rounds,     *)
(* faults and stored shares.  First, CeremonyInv is preserved by every     *)
(* step the two share; then each adds what its own steps need.             *)
(***************************************************************************)
EXTENDS Keygen, Sign, TLAPS

USE CeremonyNodes, CeremonyTables, CeremonyRounds, CeremonyFaults

(* The initial state satisfies the invariant, whatever shares are stored.  *)
LEMMA InitInv == CeremonyInit /\ stored \subseteq ShareTables => CeremonyInv
<1> SUFFICES ASSUME CeremonyInit, stored \subseteq ShareTables
             PROVE  CeremonyInv
  OBVIOUS
<1>1. CeremonyTypeOK
  <2>1. pc \in [Nodes -> Stages]
    BY DEF CeremonyInit, Stages
  <2>2. round \in [Nodes -> 0..(Rounds + 1)] /\ sent \in [Nodes -> 0..Rounds]
    BY DEF CeremonyInit
  <2>3. told \in [Peers -> {"no", "skip", "due", "ok", "error"}]
    BY DEF CeremonyInit
  <2>4. sender \in [Nodes -> {"none", "on", "off"}]
    BY DEF CeremonyInit
  <2>5. inbox \in [Nodes -> SUBSET Stored] /\ got \in [Nodes -> SUBSET Stored]
    BY DEF CeremonyInit
  <2>6. net \subseteq Msgs /\ published \in BOOLEAN /\ trouble \subseteq (FaultKinds \cup Mishaps)
    BY DEF CeremonyInit
  <2> QED
    BY <2>1, <2>2, <2>3, <2>4, <2>5, <2>6 DEF CeremonyTypeOK
<1>2. SentFirst /\ DeliveredOnce /\ RoundsCollected
  BY DEF CeremonyInit, SentFirst, DeliveredOnce, RoundsCollected
<1>3. StageRounds /\ SenderStops /\ ResultReturned /\ NoneDroppedLate
  BY DEF CeremonyInit, StageRounds, SenderStops, ResultReturned, NoneDroppedLate, Returned
<1> QED
  BY <1>1, <1>2, <1>3 DEF CeremonyInv

(* A step that only moves one handler along the stages before the first    *)
(* round keeps the invariant.                                              *)
LEMMA EarlyStageInv ==
    ASSUME CeremonyInv, NEW n \in Nodes, NEW from, NEW to,
           from \in {"idle", "notifying", "spawned", "created", "ready"},
           to \in {"notifying", "declined", "spawned", "created", "ready",
                   "looping", "aborted"},
           Go(n, from, to),
           told' \in [Peers -> {"no", "skip", "due", "ok", "error"}],
           sender' \in [Nodes -> {"none", "on", "off"}],
           \A p \in Nodes : sender'[p] = "off" => sender[p] = "off",
           trouble' \subseteq (FaultKinds \cup Mishaps),
           "late" \in trouble' => "late" \in trouble,
           UNCHANGED <<round, sent, net, inbox, got, published, stored>>
    PROVE  CeremonyInv'
<1> USE DEF CeremonyInv
<1>1. CeremonyTypeOK'
  BY DEF CeremonyTypeOK, Go, Stages, Msgs, Stored
<1>2. /\ pc[n] = from /\ pc'[n] = to
      /\ \A p \in Nodes \ {n} : pc'[p] = pc[p]
  BY DEF CeremonyTypeOK, Go
<1>3. \A p \in Nodes : Returned(p)' <=> Returned(p)
  BY <1>2 DEF Returned
<1>4. SentFirst' /\ DeliveredOnce' /\ RoundsCollected'
  BY DEF SentFirst, DeliveredOnce, RoundsCollected, Collected, Payload
<1>5. StageRounds'
  BY <1>2, <1>3 DEF StageRounds, CeremonyTypeOK
<1>6. SenderStops' /\ ResultReturned' /\ NoneDroppedLate'
  BY <1>3 DEF SenderStops, ResultReturned, NoneDroppedLate
<1> QED
  BY <1>1, <1>4, <1>5, <1>6

(* A step that only moves a handler along the stages after the output, or  *)
(* records something other than a late drop, keeps the invariant.          *)
LEMMA LateStageInv ==
    ASSUME CeremonyInv, NEW n \in Nodes, NEW from, NEW to,
           from \in {"ended", "closed", "removed"},
           to \in {"closed", "removed", "done", "unsaved"},
           Go(n, from, to),
           published' \in BOOLEAN, published' => published \/ n = Coord,
           stored' \subseteq ShareTables,
           trouble' \subseteq (FaultKinds \cup Mishaps),
           "late" \in trouble' => "late" \in trouble,
           UNCHANGED <<told, round, sent, sender, net, inbox, got>>
    PROVE  CeremonyInv'
<1> USE DEF CeremonyInv
<1>1. CeremonyTypeOK'
  BY DEF CeremonyTypeOK, Go, Stages, Msgs, Stored
<1>2. /\ pc[n] = from /\ pc'[n] = to
      /\ \A p \in Nodes \ {n} : pc'[p] = pc[p]
  BY DEF CeremonyTypeOK, Go
<1>3. Returned(n)' /\ \A p \in Nodes : Returned(p) => Returned(p)'
  BY <1>2 DEF Returned
<1>4. SentFirst' /\ DeliveredOnce' /\ RoundsCollected'
  BY DEF SentFirst, DeliveredOnce, RoundsCollected, Collected, Payload
<1>5. StageRounds'
  BY <1>2, <1>3 DEF StageRounds, CeremonyTypeOK, Returned
<1>6. SenderStops' /\ ResultReturned' /\ NoneDroppedLate'
  BY <1>3 DEF SenderStops, ResultReturned, NoneDroppedLate
<1> QED
  BY <1>1, <1>4, <1>5, <1>6

(* A step that changes nothing but trouble and the notifications' record.  *)
LEMMA TroubleInv ==
    ASSUME CeremonyInv,
           told' \in [Peers -> {"no", "skip", "due", "ok", "error"}],
           trouble' \subseteq (FaultKinds \cup Mishaps),
           "late" \in trouble' => "late" \in trouble,
           UNCHANGED <<pc, round, sent, sender, net, inbox, got, published, stored>>
    PROVE  CeremonyInv'
  BY DEF CeremonyInv, CeremonyTypeOK, SentFirst, DeliveredOnce, RoundsCollected,
         Collected, Payload, StageRounds, Returned, SenderStops, ResultReturned,
         NoneDroppedLate

-----------------------------------------------------------------------------
(* The steps that move rounds and messages.                                *)

LEMMA StartRoundInv ==
    ASSUME CeremonyInv, NEW n \in Nodes, StartRound(n)
    PROVE  CeremonyInv'
<1> USE DEF CeremonyInv, StartRound
<1>1. CeremonyTypeOK'
  BY DEF CeremonyTypeOK
<1>2. round'[n] = 1 /\ \A p \in Nodes \ {n} : round'[p] = round[p]
  BY DEF CeremonyTypeOK
<1>3. SentFirst' /\ DeliveredOnce'
  BY <1>2 DEF CeremonyTypeOK, SentFirst, DeliveredOnce, Payload
<1>4. RoundsCollected'
  <2> SUFFICES ASSUME NEW p \in Nodes, NEW k \in 1..(round'[p] - 1)
               PROVE  Collected(p, k, got[p])
    BY DEF RoundsCollected, Collected
  <2>1. p # n
    BY <1>2
  <2> QED
    BY <1>2, <2>1 DEF RoundsCollected
<1>5. StageRounds' /\ SenderStops' /\ ResultReturned' /\ NoneDroppedLate'
  BY <1>2 DEF StageRounds, SenderStops, ResultReturned, NoneDroppedLate, Returned
<1> QED
  BY <1>1, <1>3, <1>4, <1>5

(* The new messages have a round beyond anything sent before, so none of   *)
(* them has been delivered.                                                *)
LEMMA SendNextInv ==
    ASSUME CeremonyInv, NEW n \in Nodes, SendNext(n)
    PROVE  CeremonyInv'
<1> USE DEF CeremonyInv, SendNext
<1>1. /\ sent[n] \in 0..Rounds /\ sent[n] + 1 \in 1..Rounds
      /\ sent'[n] = sent[n] + 1
      /\ \A p \in Nodes \ {n} : sent'[p] = sent[p]
      /\ \A p \in Nodes : sent[p] \in Int /\ sent[p] <= sent'[p]
  BY DEF CeremonyTypeOK
<1>2. \A m \in net' \ net : /\ m \in Msgs
                            /\ m.from = n /\ m.to # n
                            /\ m.round = sent[n] + 1
  BY <1>1 DEF RoundMsgs, Msgs
<1>3. CeremonyTypeOK'
  BY <1>1, <1>2 DEF CeremonyTypeOK
<1>4. SentFirst'
  <2>1. \A p \in Nodes : sent'[p] <= round'[p]
    BY <1>1 DEF SentFirst, CeremonyTypeOK
  <2>2. \A m \in net' : m.from # m.to /\ m.round <= sent'[m.from]
    <3> TAKE m \in net'
    <3>1. CASE m \in net
      BY <3>1, <1>1 DEF SentFirst, CeremonyTypeOK, Msgs
    <3>2. CASE m \notin net
      BY <3>2, <1>1, <1>2
    <3> QED
      BY <3>1, <3>2
  <2>3. \A p \in Nodes : \A s \in inbox[p] \cup got[p] : s.round <= sent'[s.from]
    BY <1>1 DEF SentFirst, CeremonyTypeOK, Stored
  <2> QED
    BY <2>1, <2>2, <2>3 DEF SentFirst
<1>5. DeliveredOnce'
  <2> SUFFICES ASSUME NEW m \in net'
               PROVE  Payload(m) \notin inbox[m.to] \cup got[m.to]
    BY DEF DeliveredOnce, Payload
  <2>1. CASE m \in net
    BY <2>1 DEF DeliveredOnce
  <2>2. CASE m \notin net
    <3>1. m.to \in Nodes /\ Payload(m).from = n /\ Payload(m).round = sent[n] + 1
      BY <2>2, <1>2 DEF Payload, Msgs
    <3>2. \A s \in inbox[m.to] \cup got[m.to] : s.round <= sent[s.from]
      BY <3>1 DEF SentFirst
    <3> QED
      BY <3>1, <3>2, <1>1
  <2> QED
    BY <2>1, <2>2
<1>6. RoundsCollected' /\ StageRounds' /\ SenderStops' /\ ResultReturned' /\ NoneDroppedLate'
  BY DEF RoundsCollected, Collected, StageRounds, SenderStops, ResultReturned,
         NoneDroppedLate, Returned
<1> QED
  BY <1>3, <1>4, <1>5, <1>6

LEMMA StopSenderInv ==
    ASSUME CeremonyInv, NEW n \in Nodes, StopSender(n)
    PROVE  CeremonyInv'
<1> USE DEF CeremonyInv, StopSender
<1>1. CeremonyTypeOK' /\ NoneDroppedLate'
  BY DEF CeremonyTypeOK, Mishaps, NoneDroppedLate
<1>2. SenderStops'
  BY DEF SenderStops, Returned, CeremonyTypeOK
<1>3. SentFirst' /\ DeliveredOnce' /\ RoundsCollected' /\ StageRounds' /\ ResultReturned'
  BY DEF SentFirst, DeliveredOnce, Payload, RoundsCollected, Collected, StageRounds,
         ResultReturned, Returned
<1> QED
  BY <1>1, <1>2, <1>3

LEMMA LoseInv ==
    ASSUME CeremonyInv, NEW m \in net, Lose(m)
    PROVE  CeremonyInv'
  BY DEF CeremonyInv, Lose, CeremonyTypeOK, FaultKinds, SentFirst, DeliveredOnce,
         Payload, RoundsCollected, Collected, StageRounds, Returned, SenderStops,
         ResultReturned, NoneDroppedLate

(* A finished party has collected every round, so nothing is still under   *)
(* way to it.                                                              *)
LEMMA NothingForFinished ==
    ASSUME CeremonyInv, NEW m \in net
    PROVE  ~Returned(m.to)
<1> USE DEF CeremonyInv
<1> SUFFICES ASSUME Returned(m.to)
             PROVE  FALSE
  OBVIOUS
<1>1. /\ m \in Msgs /\ m.to \in Nodes /\ m.from \in Nodes \ {m.to}
      /\ m.round \in 1..Rounds
  BY DEF CeremonyTypeOK, Msgs, SentFirst
<1>2. round[m.to] = Rounds + 1
  BY <1>1 DEF StageRounds
<1>3. Collected(m.to, m.round, got[m.to])
  BY <1>1, <1>2 DEF RoundsCollected
<1>4. Payload(m) \in got[m.to]
  BY <1>1, <1>3 DEF Collected, Payload
<1> QED
  BY <1>4 DEF DeliveredOnce

LEMMA ReceiveInv ==
    ASSUME CeremonyInv, NEW m \in net, Receive(m)
    PROVE  CeremonyInv'
<1> USE DEF CeremonyInv, Receive
<1>1. ~Returned(m.to)
  BY NothingForFinished
<1>2. /\ m \in Msgs /\ m.to \in Nodes /\ m.from \in Nodes
      /\ m.round <= sent[m.from] /\ Payload(m) \in Stored
      /\ Payload(m).from = m.from /\ Payload(m).round = m.round
  BY DEF CeremonyTypeOK, Msgs, Stored, SentFirst, Payload
<1>3. /\ inbox' \in [Nodes -> SUBSET Stored]
      /\ \A p \in Nodes : inbox'[p] \subseteq inbox[p] \cup {Payload(m)}
      /\ \A p \in Nodes \ {m.to} : inbox'[p] = inbox[p]
  BY <1>2 DEF CeremonyTypeOK, PartyNotFound, PartyNotInit, OnMsg
<1>4. /\ trouble' \subseteq FaultKinds \cup Mishaps
      /\ "late" \in trouble' => "late" \in trouble
  BY <1>1 DEF CeremonyTypeOK, PartyNotFound, PartyNotInit, OnMsg, Mishaps
<1>5. CeremonyTypeOK' /\ NoneDroppedLate'
  BY <1>3, <1>4 DEF CeremonyTypeOK, NoneDroppedLate
<1>6. SentFirst'
  <2>1. \A p \in Nodes : \A s \in inbox'[p] \cup got[p] : s.round <= sent[s.from]
    BY <1>2, <1>3 DEF SentFirst
  <2> QED
    BY <2>1 DEF SentFirst
<1>7. DeliveredOnce'
  <2> SUFFICES ASSUME NEW x \in net, x # m
               PROVE  Payload(x) \notin inbox'[x.to] \cup got[x.to]
    BY DEF DeliveredOnce, Payload
  <2>1. x \in Msgs /\ Payload(x) \notin inbox[x.to] \cup got[x.to]
    BY DEF DeliveredOnce, CeremonyTypeOK
  <2>2. CASE x.to = m.to
    <3>1. x.from # m.from \/ x.round # m.round
      BY <1>2, <2>1, <2>2 DEF Msgs
    <3>2. Payload(x) # Payload(m)
      BY <3>1 DEF Payload
    <3> QED
      BY <1>2, <1>3, <2>1, <2>2, <3>2
  <2>3. CASE x.to # m.to
    BY <1>3, <2>1, <2>3 DEF Msgs
  <2> QED
    BY <2>2, <2>3
<1>8. RoundsCollected' /\ StageRounds' /\ SenderStops' /\ ResultReturned'
  BY DEF RoundsCollected, Collected, StageRounds, Returned, SenderStops, ResultReturned
<1> QED
  BY <1>5, <1>6, <1>7, <1>8

(* An update passes only rounds whose messages the party now holds.        *)
LEMMA UpdateInv ==
    ASSUME CeremonyInv, NEW n \in Nodes, NEW s \in inbox[n], Update(n, s)
    PROVE  CeremonyInv'
<1> USE DEF CeremonyInv
<1>1. PICK r \in 0..(Rounds + 1) :
         /\ Settles(n, got[n] \cup {s}, r)
         /\ round' = [round EXCEPT ![n] = r]
         /\ pc' = IF r = Rounds + 1 THEN [pc EXCEPT ![n] = "ended"] ELSE pc
  BY DEF Update
<1>2. /\ pc[n] = "looping"
      /\ inbox' = [inbox EXCEPT ![n] = @ \ {s}]
      /\ got' = [got EXCEPT ![n] = @ \cup {s}]
      /\ UNCHANGED <<told, sent, sender, net, published, trouble, stored>>
  BY DEF Update
<1>3. /\ s \in Stored /\ round[n] \in 0..Rounds /\ round'[n] = r
      /\ got'[n] = got[n] \cup {s} /\ inbox'[n] = inbox[n] \ {s}
      /\ \A p \in Nodes \ {n} : /\ round'[p] = round[p] /\ pc'[p] = pc[p]
                               /\ got'[p] = got[p] /\ inbox'[p] = inbox[p]
  BY <1>1, <1>2 DEF CeremonyTypeOK, StageRounds
<1>4. pc'[n] = IF r = Rounds + 1 THEN "ended" ELSE "looping"
  BY <1>1, <1>2 DEF CeremonyTypeOK
<1>5. r >= round[n]
  BY <1>3, <1>1 DEF Settles
<1>6. CeremonyTypeOK'
  BY <1>1, <1>2, <1>3 DEF CeremonyTypeOK, Stages
<1>7. SentFirst'
  <2>1. \A p \in Nodes : sent[p] <= round'[p]
    BY <1>3, <1>5 DEF SentFirst, CeremonyTypeOK
  <2>2. \A p \in Nodes : inbox'[p] \cup got'[p] \subseteq inbox[p] \cup got[p]
    BY <1>3
  <2> QED
    BY <1>2, <2>1, <2>2 DEF SentFirst
<1>8. DeliveredOnce'
  <2>1. \A p \in Nodes : inbox'[p] \cup got'[p] \subseteq inbox[p] \cup got[p]
    BY <1>3
  <2> QED
    BY <1>2, <2>1 DEF DeliveredOnce, CeremonyTypeOK, Msgs, Payload
<1>9. RoundsCollected'
  <2> SUFFICES ASSUME NEW p \in Nodes, NEW k \in 1..(round'[p] - 1)
               PROVE  Collected(p, k, got'[p])
    BY DEF RoundsCollected, Collected
  <2>1. CASE p # n
    BY <1>3, <2>1 DEF RoundsCollected
  <2>2. CASE p = n /\ k < round[n]
    <3>1. Collected(n, k, got[n])
      BY <1>3, <2>2 DEF RoundsCollected
    <3> QED
      BY <1>3, <2>2, <3>1 DEF Collected
  <2>3. CASE p = n /\ k >= round[n]
    <3>1. round[n] # 0
      BY <1>1, <1>3, <2>3 DEF Settles
    <3>2. k \in round[n]..(r - 1)
      BY <1>3, <2>3
    <3> QED
      BY <1>1, <1>3, <2>3, <3>1, <3>2 DEF Settles
  <2> QED
    BY <1>3, <2>1, <2>2, <2>3
<1>10. \A p \in Nodes : Returned(p)' <=> Returned(p)
  BY <1>2, <1>3, <1>4 DEF Returned
<1>11. StageRounds'
  BY <1>3, <1>4, <1>10 DEF StageRounds
<1>12. SenderStops' /\ ResultReturned' /\ NoneDroppedLate'
  BY <1>2, <1>10 DEF SenderStops, ResultReturned, NoneDroppedLate
<1> QED
  BY <1>6, <1>7, <1>8, <1>9, <1>11, <1>12

-----------------------------------------------------------------------------
(* All the shared steps together.                                          *)

LEMMA EnterLoopInv ==
    ASSUME CeremonyInv, NEW n \in Nodes, EnterLoop(n)
    PROVE  CeremonyInv'
  BY EarlyStageInv DEF EnterLoop, CeremonyInv, CeremonyTypeOK

LEMMA NodeStepInv ==
    ASSUME CeremonyInv, NEW n \in Nodes, NodeStep(n)
    PROVE  CeremonyInv'
<1>1. CASE GetOrCreateParty(n)
  BY <1>1, EarlyStageInv DEF GetOrCreateParty, CeremonyInv, CeremonyTypeOK
<1>2. CASE InitParty(n)
  <2>1. /\ sender' \in [Nodes -> {"none", "on", "off"}]
        /\ \A p \in Nodes : sender'[p] = "off" => sender[p] = "off"
    BY <1>2 DEF InitParty, CeremonyInv, CeremonyTypeOK
  <2> QED
    BY <1>2, <2>1, EarlyStageInv DEF InitParty, CeremonyInv, CeremonyTypeOK
<1>3. CASE StartRound(n)
  BY <1>3, StartRoundInv
<1>4. CASE SendNext(n)
  BY <1>4, SendNextInv
<1>5. CASE StopSender(n)
  BY <1>5, StopSenderInv
<1>6. CASE \E s \in inbox[n] : Update(n, s)
  BY <1>6, UpdateInv
<1>7. CASE Return(n)
  BY <1>7, LateStageInv DEF Return, CeremonyInv, CeremonyTypeOK
<1>8. CASE RemoveParty(n)
  BY <1>8, LateStageInv DEF RemoveParty, CeremonyInv, CeremonyTypeOK
<1> QED
  BY <1>1, <1>2, <1>3, <1>4, <1>5, <1>6, <1>7, <1>8 DEF NodeStep

LEMMA ServerStepInv ==
    ASSUME CeremonyInv, ServerStep
    PROVE  CeremonyInv'
<1>1. ASSUME NEW p \in Peers, NotifyPeer(p)
      PROVE  CeremonyInv'
  <2>1. p \in Nodes /\ told' \in [Peers -> {"no", "skip", "due", "ok", "error"}]
    BY <1>1 DEF NotifyPeer, CeremonyInv, CeremonyTypeOK, Peers
  <2> QED
    BY <1>1, <2>1, EarlyStageInv DEF NotifyPeer, CeremonyInv, CeremonyTypeOK
<1>2. CASE NotifyDone
  BY <1>2, EarlyStageInv DEF NotifyDone, CeremonyInv, CeremonyTypeOK
<1>3. ASSUME NEW n \in Nodes, NodeStep(n)
      PROVE  CeremonyInv'
  BY <1>3, NodeStepInv
<1>4. ASSUME NEW m \in net, Receive(m)
      PROVE  CeremonyInv'
  BY <1>4, ReceiveInv
<1>5. CASE Publish
  BY <1>5, LateStageInv DEF Publish, CeremonyInv, CeremonyTypeOK
<1> QED
  BY <1>1, <1>2, <1>3, <1>4, <1>5 DEF ServerStep

LEMMA EnvironmentStepInv ==
    ASSUME CeremonyInv, EnvironmentStep
    PROVE  CeremonyInv'
<1>1. ASSUME NEW conns \in SUBSET Peers, Request(conns)
      PROVE  CeremonyInv'
  <2>1. told' \in [Peers -> {"no", "skip", "due", "ok", "error"}]
    BY <1>1 DEF Request
  <2>2. trouble' \subseteq FaultKinds \cup Mishaps /\ ("late" \in trouble' => "late" \in trouble)
    BY <1>1 DEF Request, CeremonyInv, CeremonyTypeOK, FaultKinds
  <2> QED
    BY <1>1, <2>1, <2>2, EarlyStageInv DEF Request, CeremonyInv, CeremonyTypeOK
<1>2. ASSUME NEW p \in Peers, NotifyError(p)
      PROVE  CeremonyInv'
  <2>1. p \in Nodes /\ told' \in [Peers -> {"no", "skip", "due", "ok", "error"}]
    BY <1>2 DEF NotifyError, CeremonyInv, CeremonyTypeOK, Peers
  <2>2. trouble' \subseteq FaultKinds \cup Mishaps /\ ("late" \in trouble' => "late" \in trouble)
    BY <1>2 DEF NotifyError, CeremonyInv, CeremonyTypeOK, FaultKinds
  <2>3. CASE UNCHANGED pc
    BY <1>2, <2>1, <2>2, <2>3, TroubleInv DEF NotifyError
  <2>4. CASE Go(p, "idle", "spawned")
    BY <1>2, <2>1, <2>2, <2>4, EarlyStageInv DEF NotifyError, CeremonyInv, CeremonyTypeOK
  <2> QED
    BY <1>2, <2>3, <2>4 DEF NotifyError
<1>3. ASSUME NEW m \in net, Lose(m)
      PROVE  CeremonyInv'
  BY <1>3, LoseInv
<1>4. CASE PublishFails
  <2>1. trouble' \subseteq FaultKinds \cup Mishaps /\ ("late" \in trouble' => "late" \in trouble)
    BY <1>4 DEF PublishFails, CeremonyInv, CeremonyTypeOK, FaultKinds
  <2> QED
    BY <1>4, <2>1, LateStageInv DEF PublishFails, CeremonyInv, CeremonyTypeOK
<1> QED
  BY <1>1, <1>2, <1>3, <1>4 DEF EnvironmentStep

-----------------------------------------------------------------------------
(* What the invariant says of a ceremony.                                  *)

(* Whoever has left round k has a message of round k of every other node,  *)
(* which that node's sender has sent.                                      *)
LEMMA LeftRoundSent ==
    ASSUME CeremonyInv, NEW n \in Nodes, NEW p \in Nodes \ {n},
           NEW k \in 1..Rounds, k < round[n]
    PROVE  k <= sent[p]
<1>1. [from |-> p, round |-> k] \in got[n]
  BY DEF CeremonyInv, RoundsCollected, Collected, CeremonyTypeOK
<1> QED
  BY <1>1 DEF CeremonyInv, SentFirst

LEMMA LeftRoundSentNext ==
    ASSUME CeremonyInv', NEW n \in Nodes, NEW p \in Nodes \ {n},
           NEW k \in 1..Rounds, k < round'[n]
    PROVE  k <= sent'[p]
<1>1. [from |-> p, round |-> k] \in got'[n]
  BY DEF CeremonyInv, RoundsCollected, Collected, CeremonyTypeOK
<1> QED
  BY <1>1 DEF CeremonyInv, SentFirst

LEMMA ReturnedSentAll ==
    ASSUME CeremonyInv
    PROVE  ReturnNeedsEveryone
<1> SUFFICES ASSUME NEW n \in Nodes, Returned(n), NEW p \in Nodes \ {n}
             PROVE  sent[p] = Rounds
  BY DEF ReturnNeedsEveryone
<1>1. round[n] = Rounds + 1 /\ sent[p] \in 0..Rounds
  BY DEF CeremonyInv, StageRounds, CeremonyTypeOK
<1>2. Rounds <= sent[p]
  BY <1>1, LeftRoundSent
<1> QED
  BY <1>1, <1>2

(* A finished party heard the others' last round, which they began after   *)
(* hearing its last but one.                                               *)
LEMMA StoppedSentAllButOne ==
    ASSUME CeremonyInv
    PROVE  OnlyLastRoundDiscarded
<1> SUFFICES ASSUME NEW n \in Nodes, sender[n] = "off"
             PROVE  sent[n] >= Rounds - 1
  BY DEF OnlyLastRoundDiscarded
<1>1. PICK p \in Nodes : p # n
  BY CeremonyPeers
<1>2. sent[p] = Rounds
  BY <1>1, ReturnedSentAll DEF ReturnNeedsEveryone, CeremonyInv, SenderStops
<1>3. round[p] >= Rounds /\ round[p] \in Int /\ sent[n] \in 0..Rounds
  BY <1>2 DEF CeremonyInv, SentFirst, CeremonyTypeOK
<1>4. CASE Rounds = 1
  BY <1>3, <1>4
<1>5. CASE Rounds > 1
  <2>1. Rounds - 1 \in 1..Rounds /\ Rounds - 1 < round[p]
    BY <1>3, <1>5
  <2> QED
    BY <1>1, <1>3, <2>1, LeftRoundSent
<1> QED
  BY <1>4, <1>5

-----------------------------------------------------------------------------
(* The rounds move as the barrier allows.                                  *)

LEMMA BarrierStart == CeremonyInit => Barrier!BarrierInit
  BY DEF CeremonyInit, Barrier!BarrierInit

LEMMA BarrierStepUpdate ==
    ASSUME CeremonyInv, CeremonyInv', NEW n \in Nodes, NEW s \in inbox[n], Update(n, s)
    PROVE  [Barrier!BarrierNext]_round
<1>1. PICK r \in 0..(Rounds + 1) : /\ Settles(n, got[n] \cup {s}, r)
                                  /\ round' = [round EXCEPT ![n] = r]
  BY DEF Update
<1>2. round[n] \in 0..Rounds /\ round'[n] = r /\ round \in [Nodes -> 0..(Rounds + 1)]
  BY <1>1 DEF Update, CeremonyInv, CeremonyTypeOK, StageRounds
<1>3. CASE r = round[n]
  BY <1>1, <1>2, <1>3
<1>4. CASE r # round[n]
  <2>1. round[n] # 0 /\ r > round[n] /\ r \in 1..(Rounds + 1) /\ r - 1 \in 1..Rounds
    BY <1>1, <1>2, <1>4 DEF Settles
  <2>2. ASSUME NEW p \in Nodes \ {n}
        PROVE  round[p] >= r - 1
    <3>1. r - 1 <= sent'[p]
      BY <1>2, <2>1, LeftRoundSentNext
    <3> QED
      BY <3>1, <2>1 DEF Update, CeremonyInv, SentFirst, CeremonyTypeOK
  <2>3. Barrier!Enter(n, r)
    BY <1>1, <2>1, <2>2 DEF Barrier!Enter
  <2> QED
    BY <2>1, <2>3 DEF Barrier!BarrierNext, Barrier!LastLevel
<1> QED
  BY <1>3, <1>4

LEMMA BarrierStepServer ==
    ASSUME CeremonyInv, CeremonyInv', ServerStep
    PROVE  [Barrier!BarrierNext]_round
<1>1. ASSUME NEW n \in Nodes, StartRound(n)
      PROVE  Barrier!BarrierNext
  <2>1. \A p \in Nodes : round[p] \in Nat
    BY DEF CeremonyInv, CeremonyTypeOK
  <2>2. Barrier!Enter(n, 1)
    BY <1>1, <2>1 DEF StartRound, Barrier!Enter
  <2> QED
    BY <2>2 DEF Barrier!BarrierNext, Barrier!LastLevel
<1>2. ASSUME NEW n \in Nodes, NEW s \in inbox[n], Update(n, s)
      PROVE  [Barrier!BarrierNext]_round
  BY <1>2, BarrierStepUpdate
<1>3. ASSUME NEW n \in Nodes, NodeStep(n)
      PROVE  [Barrier!BarrierNext]_round
  BY <1>1, <1>2, <1>3 DEF NodeStep, GetOrCreateParty, InitParty, SendNext, StopSender,
     Return, RemoveParty
<1> QED
  BY <1>3 DEF ServerStep, NotifyPeer, NotifyDone, Receive, Publish

-----------------------------------------------------------------------------
(* Key generation.                                                         *)

(* A share is in the database only when its node's handler is through.     *)
StoredReturned == \A p \in stored : pc[p] = "done"

KeygenInv == CeremonyInv /\ StoredReturned

LEMMA KeygenInitInv == KeygenInit => KeygenInv
  BY InitInv DEF KeygenInit, KeygenInv, StoredReturned

LEMMA KeygenNextInv == KeygenInv /\ [KeygenNext]_vars => KeygenInv'
<1> SUFFICES ASSUME KeygenInv, [KeygenNext]_vars
             PROVE  KeygenInv'
  OBVIOUS
<1> USE DEF KeygenInv
<1>t. /\ pc \in [Nodes -> Stages] /\ stored \subseteq Peers /\ Coord \in Nodes
      /\ Peers \subseteq Nodes
      /\ trouble \subseteq FaultKinds \cup Mishaps
  BY DEF CeremonyInv, CeremonyTypeOK, Peers
<1>1. CASE ServerStep
  <2>1. CeremonyInv'
    BY <1>1, ServerStepInv
  <2>2. stored' = stored /\ \A p \in Nodes : pc[p] = "done" => pc'[p] = "done"
    BY <1>1, <1>t DEF ServerStep, NotifyPeer, NotifyDone, NodeStep, GetOrCreateParty, InitParty,
       StartRound, SendNext, StopSender, Update, Return, RemoveParty, Receive, Publish, Go
  <2> QED
    BY <1>t, <2>1, <2>2 DEF StoredReturned
<1>2. CASE EnvironmentStep
  <2>1. CeremonyInv'
    BY <1>2, EnvironmentStepInv
  <2>2. stored' = stored /\ \A p \in Nodes : pc[p] = "done" => pc'[p] = "done"
    BY <1>2, <1>t DEF EnvironmentStep, Request, NotifyError, Lose, PublishFails, Go
  <2> QED
    BY <1>t, <2>1, <2>2 DEF StoredReturned
<1>3. ASSUME NEW n \in Nodes, PreParams(n)
      PROVE  KeygenInv'
  <2>1. CeremonyInv'
    BY <1>3, EnterLoopInv DEF PreParams
  <2> QED
    BY <1>3, <1>t, <2>1 DEF PreParams, EnterLoop, Go, StoredReturned
<1>4. ASSUME NEW n \in Nodes, PreParamsPanic(n)
      PROVE  KeygenInv'
  <2>1. /\ trouble' \subseteq FaultKinds \cup Mishaps
        /\ "late" \in trouble' => "late" \in trouble
    BY <1>4, <1>t DEF PreParamsPanic, Mishaps
  <2>2. CeremonyInv'
    BY <1>4, <2>1, TroubleInv DEF PreParamsPanic, CeremonyInv, CeremonyTypeOK
  <2> QED
    BY <1>4, <2>2 DEF PreParamsPanic, StoredReturned
<1>5. ASSUME NEW p \in Peers, InsertShare(p)
      PROVE  KeygenInv'
  <2>1. stored' \subseteq ShareTables /\ stored' \subseteq stored \cup {p}
    BY <1>5 DEF InsertShare, CeremonyInv, CeremonyTypeOK
  <2>2. CeremonyInv'
    BY <1>5, <1>t, <2>1, LateStageInv DEF InsertShare, CeremonyInv, CeremonyTypeOK
  <2> QED
    BY <1>5, <1>t, <2>1, <2>2 DEF InsertShare, Go, StoredReturned
<1>6. ASSUME NEW p \in Peers, InsertFails(p)
      PROVE  KeygenInv'
  <2>1. /\ trouble' \subseteq FaultKinds \cup Mishaps
        /\ "late" \in trouble' => "late" \in trouble
    BY <1>6, <1>t DEF InsertFails, FaultKinds
  <2>2. CeremonyInv'
    BY <1>6, <1>t, <2>1, LateStageInv DEF InsertFails, CeremonyInv, CeremonyTypeOK
  <2> QED
    BY <1>6, <1>t, <2>2 DEF InsertFails, Go, StoredReturned
<1>7. CASE UNCHANGED vars
  <2>1. CeremonyInv'
    BY <1>7, TroubleInv DEF vars, CeremonyInv, CeremonyTypeOK
  <2> QED
    BY <1>7, <2>1 DEF vars, StoredReturned
<1> QED
  BY <1>1, <1>2, <1>3, <1>4, <1>5, <1>6, <1>7 DEF KeygenNext

LEMMA KeygenInvariant == KeygenSpec => []KeygenInv
  BY KeygenInitInv, KeygenNextInv, PTL DEF KeygenSpec

-----------------------------------------------------------------------------
(* Every variable of a key generation keeps its type: the handlers of      *)
(* keygen.go and party.go take a node only through the stages listed.      *)
THEOREM KeygenTypeCorrect == KeygenSpec => []CeremonyTypeOK
<1>1. KeygenInv => CeremonyTypeOK
  BY DEF KeygenInv, CeremonyInv
<1> QED
  BY <1>1, KeygenInvariant, PTL

(* No address and no database row without every node's whole part.         *)
THEOREM KeygenOutput == KeygenSpec => []OutputNeedsEveryone
<1>1. KeygenInv => OutputNeedsEveryone
  <2> SUFFICES ASSUME KeygenInv
               PROVE  OutputNeedsEveryone
    OBVIOUS
  <2> USE DEF KeygenInv
  <2>1. ReturnNeedsEveryone
    BY ReturnedSentAll
  <2>2. published => \A p \in Peers : sent[p] = Rounds
    BY <2>1 DEF ReturnNeedsEveryone, CeremonyInv, ResultReturned, Peers
  <2>3. ASSUME NEW s \in stored
        PROVE  /\ \A p \in Nodes \ {s} : sent[p] = Rounds
               /\ pc[Coord] # "declined"
    <3>1. s \in Nodes /\ s # Coord /\ Returned(s)
      BY DEF CeremonyInv, CeremonyTypeOK, StoredReturned, Returned
    <3>2. \A p \in Nodes \ {s} : sent[p] = Rounds
      BY <2>1, <3>1 DEF ReturnNeedsEveryone
    <3>3. round[Coord] >= Rounds
      BY <3>1, <3>2 DEF CeremonyInv, SentFirst
    <3> QED
      BY <3>2, <3>3 DEF CeremonyInv, StageRounds
  <2> QED
    BY <2>2, <2>3 DEF OutputNeedsEveryone
<1> QED
  BY <1>1, KeygenInvariant, PTL

(* A sender goroutine that stops has only ever its last round to lose.     *)
THEOREM KeygenDiscard == KeygenSpec => []OnlyLastRoundDiscarded
<1>1. KeygenInv => OnlyLastRoundDiscarded
  BY StoppedSentAllButOne DEF KeygenInv
<1> QED
  BY <1>1, KeygenInvariant, PTL

(* removeParty never makes a node miss a message.                          *)
THEOREM KeygenNoLateDrop == KeygenSpec => []NoneDroppedLate
<1>1. KeygenInv => NoneDroppedLate
  BY DEF KeygenInv, CeremonyInv
<1> QED
  BY <1>1, KeygenInvariant, PTL

(* Key generation implements the abstract barrier: whatever is lost,       *)
(* dropped or reordered, no party leaves a round another has not entered.  *)
THEOREM KeygenBarrier == KeygenSpec => ImplementsBarrier
<1>1. KeygenInit => Barrier!BarrierInit
  BY BarrierStart DEF KeygenInit
<1>2. KeygenInv /\ KeygenInv' /\ [KeygenNext]_vars => [Barrier!BarrierNext]_round
  <2> SUFFICES ASSUME KeygenInv, KeygenInv', [KeygenNext]_vars
               PROVE  [Barrier!BarrierNext]_round
    OBVIOUS
  <2>1. CASE ServerStep
    BY <2>1, BarrierStepServer DEF KeygenInv
  <2>2. CASE ~ServerStep
    BY <2>2 DEF KeygenNext, vars, EnvironmentStep, Request, NotifyError, Lose, PublishFails,
       PreParams, EnterLoop, PreParamsPanic, InsertShare, InsertFails
  <2> QED
    BY <2>1, <2>2
<1> QED
  BY <1>1, <1>2, KeygenInvariant, PTL DEF KeygenSpec, ImplementsBarrier, Barrier!BarrierSpec

(* So no two nodes are ever more than one round apart.                     *)
THEOREM KeygenSkew == KeygenSpec => []Barrier!Skew
<1>1. KeygenInv => Barrier!Skew
  <2> SUFFICES ASSUME KeygenInv, NEW n \in Nodes, NEW p \in Nodes
               PROVE  round[n] <= round[p] + 1
    BY DEF Barrier!Skew
  <2> USE DEF KeygenInv
  <2>1. /\ round[n] \in 0..(Rounds + 1) /\ round[p] \in 0..(Rounds + 1)
        /\ sent[p] \in 0..Rounds /\ sent[p] <= round[p]
        /\ round[n] \in Int /\ round[p] \in Int /\ sent[p] \in Int
    BY DEF CeremonyInv, CeremonyTypeOK, SentFirst
  <2>2. CASE p = n \/ round[n] <= 1
    BY <2>1, <2>2
  <2>3. CASE p # n /\ round[n] > 1
    <3>1. round[n] - 1 \in 1..Rounds /\ round[n] - 1 < round[n]
      BY <2>1, <2>3
    <3>2. round[n] - 1 <= sent[p]
      BY <2>3, <3>1, LeftRoundSent
    <3> QED
      BY <2>1, <3>2
  <2> QED
    BY <2>1, <2>2, <2>3
<1> QED
  BY <1>1, KeygenInvariant, PTL

-----------------------------------------------------------------------------
(* Signing.                                                                *)

(* A party whose protocol has begun was given its share.                   *)
SharesLoaded == \A n \in Nodes : round[n] > 0 => CanLoad(n)
LoopLoaded   == \A n \in Nodes : pc[n] = "looping" => CanLoad(n)

SignInv == CeremonyInv /\ SharesLoaded /\ LoopLoaded

LEMMA SignInitInv == SignInit => SignInv
  BY InitInv DEF SignInit, CeremonyInit, SignInv, SharesLoaded, LoopLoaded

LEMMA SignNextInv == SignInv /\ [SignNext]_vars => SignInv'
<1> SUFFICES ASSUME SignInv, [SignNext]_vars
             PROVE  SignInv'
  OBVIOUS
<1> USE DEF SignInv
<1>t. /\ pc \in [Nodes -> Stages] /\ Coord \in Nodes /\ Peers \subseteq Nodes
      /\ trouble \subseteq FaultKinds \cup Mishaps
      /\ round \in [Nodes -> 0..(Rounds + 1)]
  BY DEF CeremonyInv, CeremonyTypeOK, Peers
<1>1. CASE ServerStep
  <2>1. CeremonyInv'
    BY <1>1, ServerStepInv
  <2>2. stored' = stored /\ \A n \in Nodes : pc'[n] = "looping" => pc[n] = "looping"
    BY <1>1, <1>t DEF ServerStep, NotifyPeer, NotifyDone, NodeStep, GetOrCreateParty, InitParty,
       StartRound, SendNext, StopSender, Update, Return, RemoveParty, Receive, Publish, Go
  <2>3. \A n \in Nodes : round'[n] > 0 => round[n] > 0 \/ pc[n] = "looping"
    BY <1>1, <1>t DEF ServerStep, NotifyPeer, NotifyDone, NodeStep, GetOrCreateParty, InitParty,
       StartRound, SendNext, StopSender, Update, Return, RemoveParty, Receive, Publish
  <2> QED
    BY <2>1, <2>2, <2>3 DEF SharesLoaded, LoopLoaded, CanLoad
<1>2. CASE EnvironmentStep
  <2>1. CeremonyInv'
    BY <1>2, EnvironmentStepInv
  <2>2. /\ stored' = stored /\ round' = round
        /\ \A n \in Nodes : pc'[n] = "looping" => pc[n] = "looping"
    BY <1>2, <1>t DEF EnvironmentStep, Request, NotifyError, Lose, PublishFails, Go
  <2> QED
    BY <2>1, <2>2 DEF SharesLoaded, LoopLoaded, CanLoad
<1>3. ASSUME NEW n \in Nodes, LoadShare(n)
      PROVE  SignInv'
  <2>1. CeremonyInv'
    BY <1>3, EnterLoopInv DEF LoadShare
  <2> QED
    BY <1>3, <1>t, <2>1 DEF LoadShare, EnterLoop, Go, SharesLoaded, LoopLoaded, CanLoad
<1>4. ASSUME NEW n \in Nodes, LoadShareFails(n)
      PROVE  SignInv'
  <2>1. /\ trouble' \subseteq FaultKinds \cup Mishaps
        /\ "late" \in trouble' => "late" \in trouble
    BY <1>4, <1>t DEF LoadShareFails, FaultKinds
  <2>2. CeremonyInv'
    BY <1>4, <2>1, EarlyStageInv DEF LoadShareFails, CeremonyInv, CeremonyTypeOK
  <2> QED
    BY <1>4, <1>t, <2>2 DEF LoadShareFails, Go, SharesLoaded, LoopLoaded, CanLoad
<1>5. CASE UNCHANGED vars
  <2>1. CeremonyInv'
    BY <1>5, TroubleInv DEF vars, CeremonyInv, CeremonyTypeOK
  <2> QED
    BY <1>5, <2>1 DEF vars, SharesLoaded, LoopLoaded, CanLoad
<1> QED
  BY <1>1, <1>2, <1>3, <1>4, <1>5 DEF SignNext

LEMMA SignInvariant == SignSpec => []SignInv
  BY SignInitInv, SignNextInv, PTL DEF SignSpec

-----------------------------------------------------------------------------
(* Nobody's Sign returns a signature before every other node has sent its  *)
(* whole part.                                                             *)
THEOREM SignReturn == SignSpec => []ReturnNeedsEveryone
<1>1. SignInv => ReturnNeedsEveryone
  BY ReturnedSentAll DEF SignInv
<1> QED
  BY <1>1, SignInvariant, PTL

(* A published signature used the stored share of every peer.              *)
THEOREM SignShares == SignSpec => []SignatureNeedsEveryShare
<1>1. SignInv => SignatureNeedsEveryShare
  <2> SUFFICES ASSUME SignInv, published, NEW p \in Peers
               PROVE  p \in stored /\ sent[p] = Rounds
    BY DEF SignatureNeedsEveryShare
  <2> USE DEF SignInv
  <2>1. p \in Nodes /\ p # Coord /\ Returned(Coord)
    BY DEF Peers, CeremonyInv, ResultReturned
  <2>2. sent[p] = Rounds
    BY <2>1, ReturnedSentAll DEF ReturnNeedsEveryone
  <2>3. round[p] > 0
    BY <2>1, <2>2 DEF CeremonyInv, CeremonyTypeOK, SentFirst
  <2> QED
    BY <2>1, <2>2, <2>3 DEF SharesLoaded, CanLoad
<1> QED
  BY <1>1, SignInvariant, PTL

(* A node without its share keeps all the others from finishing.           *)
THEOREM SignAbort == SignSpec => []AbortBlocksEveryone
<1>1. SignInv => AbortBlocksEveryone
  <2> SUFFICES ASSUME SignInv, NEW n \in Nodes, pc[n] = "aborted",
                      NEW p \in Nodes, Returned(p)
               PROVE  FALSE
    BY DEF AbortBlocksEveryone
  <2> USE DEF SignInv
  <2>1. p # n
    BY DEF Returned
  <2>2. sent[n] = Rounds
    BY <2>1, ReturnedSentAll DEF ReturnNeedsEveryone
  <2>3. round[n] = 0
    BY DEF CeremonyInv, StageRounds
  <2> QED
    BY <2>2, <2>3 DEF CeremonyInv, CeremonyTypeOK, SentFirst
<1> QED
  BY <1>1, SignInvariant, PTL

(* A signing node's sender goroutine, too, has only its last round to      *)
(* lose.                                                                   *)
THEOREM SignDiscard == SignSpec => []OnlyLastRoundDiscarded
<1>1. SignInv => OnlyLastRoundDiscarded
  BY StoppedSentAllButOne DEF SignInv
<1> QED
  BY <1>1, SignInvariant, PTL

(* Signing implements the same barrier, with a node that cannot load its   *)
(* share among the things that may happen to it.                           *)
THEOREM SignBarrier == SignSpec => ImplementsBarrier
<1>1. SignInit => Barrier!BarrierInit
  BY BarrierStart DEF SignInit
<1>2. SignInv /\ SignInv' /\ [SignNext]_vars => [Barrier!BarrierNext]_round
  <2> SUFFICES ASSUME SignInv, SignInv', [SignNext]_vars
               PROVE  [Barrier!BarrierNext]_round
    OBVIOUS
  <2>1. CASE ServerStep
    BY <2>1, BarrierStepServer DEF SignInv
  <2>2. CASE ~ServerStep
    BY <2>2 DEF SignNext, vars, EnvironmentStep, Request, NotifyError, Lose, PublishFails,
       LoadShare, EnterLoop, LoadShareFails
  <2> QED
    BY <2>1, <2>2
<1> QED
  BY <1>1, <1>2, SignInvariant, PTL DEF SignSpec, ImplementsBarrier, Barrier!BarrierSpec
=============================================================================
