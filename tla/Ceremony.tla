------------------------------ MODULE Ceremony ------------------------------
(***************************************************************************)
(* One ceremony (key generation or signing) of the TSS service for one     *)
(* session id, as src/tss/server and src/tss/party run it: a coordinator   *)
(* is asked for it, notifies the peers it is connected to, and every node  *)
(* then creates a Party, starts its sender goroutine and works through the *)
(* protocol's rounds on the messages the others stream to it.              *)
(*                                                                         *)
(* Keygen and Sign extend this module with what each does before the first *)
(* round and after the last one, and with Init and Next.                   *)
(*                                                                         *)
(* Abstractions.  The protocol's arithmetic (bnb-chain/tss-lib) is         *)
(* external: a round's messages from one node to another are one message   *)
(* [from, to, round], and a party leaves a round when it holds that        *)
(* round's message of every other node.  All nodes are goroutines of one   *)
(* process (src/tss/main.go), so a panic of one stops them all.            *)
(***************************************************************************)
EXTENDS Integers, FiniteSets

CONSTANTS Nodes,       \* the parties of the session
          Coord,       \* the node the client asks (INIT_KEYGEN / INIT_SIGN)
          ShareTables, \* the nodes with a share table: nodes 2 and 3
          Rounds,      \* message rounds of the protocol
          Faults       \* which failures of the environment may happen

(* Failures that come from outside the code of the ceremony:               *)
(*   skip     a peer is not connected when the coordinator notifies        *)
(*   notify   NotifyAction to a peer returns an error                      *)
(*   lose     a streamed message is lost, after sendToPeer's one resend    *)
(*   prepare  the pre-parameters or the key share cannot be had            *)
(*   output   the result cannot be encrypted, stored or published          *)
FaultKinds == {"skip", "notify", "lose", "prepare", "output"}

ASSUME CeremonyNodes  == Coord \in Nodes
ASSUME CeremonyPeers  == Nodes # {Coord}
ASSUME CeremonyTables == ShareTables \subseteq Nodes \ {Coord}
ASSUME CeremonyRounds == Rounds \in Nat \ {0}
ASSUME CeremonyFaults == Faults \subseteq FaultKinds

Peers == Nodes \ {Coord}

(* What can go wrong by the code's own interleavings:                      *)
(*   early    a message was dropped: its node has no Party yet, or gave up *)
(*   late     a message was dropped: its node has finished                 *)
(*   discard  the sender goroutine stopped with a message still queued     *)
(*   nilparams  a message reached a Party that Init had not set up: panic  *)
(*   panic    GeneratePreParams failed: panic                              *)
Mishaps == {"early", "late", "discard", "nilparams", "panic"}

VARIABLES
  pc,        \* where each node's handler goroutine is
  told,      \* the coordinator's notification of each peer
  round,     \* the round of each node's tss-lib party, 0 before Start
  sent,      \* how many rounds' messages each sender goroutine has sent on
  sender,    \* is the sendMessages goroutine running
  net,       \* messages handed to a sendToPeer goroutine, not yet received
  inbox,     \* Party.in: received, not yet given to the protocol
  got,       \* messages the tss-lib party has stored
  published, \* the coordinator has published the result to Redis
  stored,    \* the peers whose encrypted key share is in the database
  trouble    \* history: which faults and mishaps have happened

vars == <<pc, told, round, sent, sender, net, inbox, got, published, stored,
          trouble>>

Stages == {"idle", "notifying", "declined", "spawned", "created", "ready",
           "looping", "ended", "closed", "removed", "done", "unsaved", "aborted"}

Msgs    == [from : Nodes, to : Nodes, round : 1..Rounds]
Stored  == [from : Nodes, round : 1..Rounds]
Payload(m) == [from |-> m.from, round |-> m.round]

CeremonyTypeOK ==
    /\ pc        \in [Nodes -> Stages]
    /\ told      \in [Peers -> {"no", "skip", "due", "ok", "error"}]
    /\ round     \in [Nodes -> 0..(Rounds + 1)]
    /\ sent      \in [Nodes -> 0..Rounds]
    /\ sender    \in [Nodes -> {"none", "on", "off"}]
    /\ net       \subseteq Msgs
    /\ inbox     \in [Nodes -> SUBSET Stored]
    /\ got       \in [Nodes -> SUBSET Stored]
    /\ published \in BOOLEAN
    /\ stored    \subseteq ShareTables
    /\ trouble   \subseteq (FaultKinds \cup Mishaps)

CeremonyInit ==
    /\ pc        = [n \in Nodes |-> "idle"]
    /\ told      = [p \in Peers |-> "no"]
    /\ round     = [n \in Nodes |-> 0]
    /\ sent      = [n \in Nodes |-> 0]
    /\ sender    = [n \in Nodes |-> "none"]
    /\ net       = {}
    /\ inbox     = [n \in Nodes |-> {}]
    /\ got       = [n \in Nodes |-> {}]
    /\ published = FALSE
    /\ trouble   = {}

(* The process is running.                                                 *)
Up == trouble \cap {"nilparams", "panic"} = {}

(* The server's parties map holds this session's Party.                    *)
HasParty(n) == pc[n] \in {"created", "ready", "looping", "ended", "closed"}

(* KeyGen or Sign of the Party has returned and closed closeChan.          *)
Returned(n) == pc[n] \in {"closed", "removed", "done", "unsaved"}

Go(n, from, to) == pc[n] = from /\ pc' = [pc EXCEPT ![n] = to]

-----------------------------------------------------------------------------
(* The coordinator's notifications (InitKeygen, InitSign, notifyPeers).    *)

(* The request reaches the coordinator; conns are the peers in peerConns.  *)
Request(conns) ==
    /\ Up
    /\ conns = Peers \/ "skip" \in Faults
    /\ Go(Coord, "idle", "notifying")
    /\ told' = [p \in Peers |-> IF p \in conns THEN "due" ELSE "skip"]
    /\ trouble' = IF conns = Peers THEN trouble ELSE trouble \cup {"skip"}
    /\ UNCHANGED <<round, sent, sender, net, inbox, got, published, stored>>

(* NotifyAction at a peer: the handler starts in a goroutine and the call  *)
(* returns at once.                                                        *)
NotifyPeer(p) ==
    /\ Up
    /\ told[p] = "due"
    /\ told' = [told EXCEPT ![p] = "ok"]
    /\ Go(p, "idle", "spawned")
    /\ UNCHANGED <<round, sent, sender, net, inbox, got, published, trouble, stored>>

(* The call returns an error, whether or not the peer ran the handler.     *)
NotifyError(p) ==
    /\ Up
    /\ "notify" \in Faults
    /\ told[p] = "due"
    /\ told' = [told EXCEPT ![p] = "error"]
    /\ \/ UNCHANGED pc
       \/ Go(p, "idle", "spawned")
    /\ trouble' = trouble \cup {"notify"}
    /\ UNCHANGED <<round, sent, sender, net, inbox, got, published, stored>>

(* All calls are back: run the ceremony here too, or give it up.           *)
NotifyDone ==
    /\ Up
    /\ \A p \in Peers : told[p] # "due"
    /\ Go(Coord, "notifying",
          IF \E p \in Peers : told[p] = "error" THEN "declined" ELSE "spawned")
    /\ UNCHANGED <<told, round, sent, sender, net, inbox, got, published, trouble, stored>>

-----------------------------------------------------------------------------
(* A node's handler up to the protocol's first round.                      *)

GetOrCreateParty(n) ==
    /\ Up
    /\ Go(n, "spawned", "created")
    /\ UNCHANGED <<told, round, sent, sender, net, inbox, got, published, trouble, stored>>

(* Party.Init: parameters, closeChan, and the sender goroutine.            *)
InitParty(n) ==
    /\ Up
    /\ Go(n, "created", "ready")
    /\ sender' = [sender EXCEPT ![n] = "on"]
    /\ UNCHANGED <<told, round, sent, net, inbox, got, published, trouble, stored>>

(* The local party exists and the select loop runs; Start is a goroutine.  *)
EnterLoop(n) ==
    /\ Up
    /\ Go(n, "ready", "looping")
    /\ UNCHANGED <<told, round, sent, sender, net, inbox, got, published, trouble, stored>>

(* party.Start: round 1 begins and queues its messages on Party.out.  It   *)
(* does not look at messages stored before it ran.                         *)
StartRound(n) ==
    /\ Up
    /\ pc[n] = "looping" /\ round[n] = 0
    /\ round' = [round EXCEPT ![n] = 1]
    /\ UNCHANGED <<pc, told, sent, sender, net, inbox, got, published, trouble, stored>>

-----------------------------------------------------------------------------
(* Messages: sendMessages, createSenderFunc, sendToPeer on one side,       *)
(* StreamMessages and OnMsg on the other.                                  *)

RoundMsgs(n, r) == [from : {n}, to : Nodes \ {n}, round : {r}]

(* Mutant of SendNext: the output round is taken for one more to send.     *)
SendNextPastLast(n) ==
    /\ Up
    /\ sender[n] = "on" /\ sent[n] < round[n]
    /\ sent' = [sent EXCEPT ![n] = @ + 1]
    /\ net' = net \cup RoundMsgs(n, sent[n] + 1)
    /\ UNCHANGED <<pc, told, round, sender, inbox, got, published, trouble, stored>>

(* sendMessages takes the next round's messages off Party.out and starts a *)
(* sendToPeer goroutine for each: from here on they are unordered.         *)
SendNext(n) ==
    /\ Up
    /\ sender[n] = "on"
    /\ sent[n] < round[n] /\ sent[n] < Rounds
    /\ sent' = [sent EXCEPT ![n] = @ + 1]
    /\ net' = net \cup RoundMsgs(n, sent[n] + 1)
    /\ UNCHANGED <<pc, told, round, sender, inbox, got, published, trouble, stored>>

(* sendMessages sees closeChan closed and stops.  When messages are queued *)
(* as well, select picks either branch: what is still queued is lost.      *)
StopSender(n) ==
    /\ Up
    /\ Returned(n) /\ sender[n] = "on"
    /\ sender' = [sender EXCEPT ![n] = "off"]
    /\ trouble' = IF sent[n] < Rounds THEN trouble \cup {"discard"} ELSE trouble
    /\ UNCHANGED <<pc, told, round, sent, net, inbox, got, published, stored>>

Lose(m) ==
    /\ Up
    /\ "lose" \in Faults
    /\ m \in net
    /\ net' = net \ {m}
    /\ trouble' = trouble \cup {"lose"}
    /\ UNCHANGED <<pc, told, round, sent, sender, inbox, got, published, stored>>

(* StreamMessages receives m: no Party under the session id.               *)
PartyNotFound(m) ==
    /\ ~HasParty(m.to)
    /\ trouble' = trouble \cup {IF Returned(m.to) THEN "late" ELSE "early"}
    /\ UNCHANGED inbox

(* The Party is in the map, and Init has not given it its parameters.      *)
PartyNotInit(m) ==
    /\ pc[m.to] = "created"
    /\ trouble' = trouble \cup {"nilparams"}
    /\ UNCHANGED inbox

OnMsg(m) ==
    /\ HasParty(m.to) /\ pc[m.to] # "created"
    /\ inbox' = [inbox EXCEPT ![m.to] = @ \cup {Payload(m)}]
    /\ UNCHANGED trouble

Receive(m) ==
    /\ Up
    /\ m \in net
    /\ net' = net \ {m}
    /\ PartyNotFound(m) \/ PartyNotInit(m) \/ OnMsg(m)
    /\ UNCHANGED <<pc, told, round, sent, sender, got, published, stored>>

-----------------------------------------------------------------------------
(* The select loop of KeyGen and Sign.                                     *)

(* Mutant of Collected: two of three are taken to be enough.               *)
CollectedThreshold(n, r, g) ==
    \E p \in Nodes \ {n} : [from |-> p, round |-> r] \in g

(* g holds round r's message of every other node.                          *)
Collected(n, r, g) ==
    \A p \in Nodes \ {n} : [from |-> p, round |-> r] \in g

(* Mutant of Settles: an update advances the party by one round at most.   *)
SettlesOnce(n, g, r) ==
    IF round[n] = 0
    THEN r = 0
    ELSE r = round[n] + (IF Collected(n, round[n], g) THEN 1 ELSE 0)

(* tss-lib's Update goes on to the first round that g does not complete,   *)
(* and to the output when g completes them all; not before Start has run.  *)
Settles(n, g, r) ==
    IF round[n] = 0
    THEN r = 0
    ELSE /\ r >= round[n]
         /\ \A k \in round[n]..(r - 1) : Collected(n, k, g)
         /\ r <= Rounds => ~Collected(n, r, g)

(* case msg := <-p.in: UpdateFromBytes stores it and advances the party;   *)
(* the output goes to the end channel, on which the loop then returns.     *)
Update(n, s) ==
    /\ Up
    /\ pc[n] = "looping"
    /\ s \in inbox[n]
    /\ inbox' = [inbox EXCEPT ![n] = @ \ {s}]
    /\ got' = [got EXCEPT ![n] = @ \cup {s}]
    /\ \E r \in 0..(Rounds + 1) :
         /\ Settles(n, got[n] \cup {s}, r)
         /\ round' = [round EXCEPT ![n] = r]
         /\ pc' = IF r = Rounds + 1 THEN [pc EXCEPT ![n] = "ended"] ELSE pc
    /\ UNCHANGED <<told, sent, sender, net, published, trouble, stored>>

(* Mutant of Return: the loop also returns on a deadline of its context.   *)
ReturnOnTimeout(n) ==
    /\ Up
    /\ Go(n, "ended", "closed") \/ Go(n, "looping", "closed")
    /\ UNCHANGED <<told, round, sent, sender, net, inbox, got, published, trouble, stored>>

(* case out := <-end: KeyGen or Sign returns, and closes closeChan.        *)
Return(n) ==
    /\ Up
    /\ Go(n, "ended", "closed")
    /\ UNCHANGED <<told, round, sent, sender, net, inbox, got, published, trouble, stored>>

(* Keygen and Sign of the server return: defer s.removeParty(sessionID).   *)
RemoveParty(n) ==
    /\ Up
    /\ Go(n, "closed", "removed")
    /\ UNCHANGED <<told, round, sent, sender, net, inbox, got, published, trouble, stored>>

(* The coordinator's runKeygen and runSign publish the result.             *)
Publish ==
    /\ Up
    /\ Go(Coord, "removed", "done")
    /\ published' = TRUE
    /\ UNCHANGED <<told, round, sent, sender, net, inbox, got, trouble, stored>>

(* The result is lost: runKeygen and runSign only log the error.           *)
PublishFails ==
    /\ Up
    /\ "output" \in Faults
    /\ Go(Coord, "removed", "unsaved")
    /\ trouble' = trouble \cup {"output"}
    /\ UNCHANGED <<told, round, sent, sender, net, inbox, got, published, stored>>

-----------------------------------------------------------------------------
(* The steps the two ceremonies share, grouped for Next and for fairness.  *)

(* What a node's own goroutines do.                                        *)
NodeStep(n) ==
    \/ GetOrCreateParty(n)
    \/ InitParty(n)
    \/ StartRound(n)
    \/ SendNext(n)
    \/ StopSender(n)
    \/ \E s \in inbox[n] : Update(n, s)
    \/ Return(n)
    \/ RemoveParty(n)

ServerStep ==
    \/ \E p \in Peers : NotifyPeer(p)
    \/ NotifyDone
    \/ \E n \in Nodes : NodeStep(n)
    \/ \E m \in net : Receive(m)
    \/ Publish

EnvironmentStep ==
    \/ \E conns \in SUBSET Peers : Request(conns)
    \/ \E p \in Peers : NotifyError(p)
    \/ \E m \in net : Lose(m)
    \/ PublishFails

(* Goroutines that can run do, calls between nodes of one process come     *)
(* back, and gRPC delivers what it does not lose.  Nothing obliges a       *)
(* client to ask or the environment to fail.                               *)
ServerFairness ==
    /\ \A p \in Peers : WF_vars(NotifyPeer(p))
    /\ WF_vars(NotifyDone)
    /\ \A n \in Nodes : WF_vars(NodeStep(n))
    /\ WF_vars(\E m \in net : Receive(m))
    /\ WF_vars(Publish)

-----------------------------------------------------------------------------
(* Properties of every ceremony.                                           *)

(* The rounds of the nodes move as CeremonyBarrier allows: no message      *)
(* order, loss or drop lets a node leave a round that another node has not *)
(* entered (tss-lib behind KeyGen's and Sign's select loop).               *)
Barrier == INSTANCE CeremonyBarrier WITH level <- round
ImplementsBarrier == Barrier!BarrierSpec

(* A node whose KeyGen or Sign has returned has had every message any      *)
(* other node was to send it, so each of the others has handed its last    *)
(* round to the network: nobody finishes a ceremony alone.                 *)
ReturnNeedsEveryone ==
    \A n \in Nodes : Returned(n) => \A p \in Nodes \ {n} : sent[p] = Rounds

(* What a stopping sender goroutine can throw away (Party.sendMessages'    *)
(* select between closeChan and out) is at most the last round.            *)
OnlyLastRoundDiscarded ==
    \A n \in Nodes : sender[n] = "off" => sent[n] >= Rounds - 1

(* removeParty never costs a message its receiver: whatever StreamMessages *)
(* drops as "Party not found" was sent to a node that had not begun.       *)
NoneDroppedLate == "late" \notin trouble

-----------------------------------------------------------------------------
(* The inductive invariant behind them.                                    *)

(* Nothing is anywhere that its sender goroutine has not sent, and a       *)
(* sender sends what its party has reached.                                *)
SentFirst ==
    /\ \A n \in Nodes : sent[n] <= round[n]
    /\ \A m \in net : m.from # m.to /\ m.round <= sent[m.from]
    /\ \A n \in Nodes : \A s \in inbox[n] \cup got[n] : s.round <= sent[s.from]

(* A message is never both under way and delivered.                        *)
DeliveredOnce == \A m \in net : Payload(m) \notin inbox[m.to] \cup got[m.to]

(* A party holds the messages of every round it has left.                  *)
RoundsCollected ==
    \A n \in Nodes : \A k \in 1..(round[n] - 1) : Collected(n, k, got[n])

(* Where the handler is tells which round its party can be in.             *)
StageRounds ==
    \A n \in Nodes :
      /\ pc[n] = "looping" => round[n] <= Rounds
      /\ Returned(n) \/ pc[n] = "ended" => round[n] = Rounds + 1
      /\ pc[n] \in {"idle", "notifying", "declined", "spawned", "created", "ready", "aborted"}
            => round[n] = 0

SenderStops == \A n \in Nodes : sender[n] = "off" => Returned(n)

ResultReturned == published => Returned(Coord)

CeremonyInv ==
    /\ CeremonyTypeOK
    /\ SentFirst
    /\ DeliveredOnce
    /\ RoundsCollected
    /\ StageRounds
    /\ SenderStops
    /\ ResultReturned
    /\ NoneDroppedLate
=============================================================================
