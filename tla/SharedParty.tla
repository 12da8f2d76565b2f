----------------------------- MODULE SharedParty -----------------------------
(***************************************************************************)
(* Several ceremonies under one session id at one node.  The backend's     *)
(* session id is the user's id, so a second transaction of a user, a retry *)
(* after a timeout, or a signature asked for while the key generation is   *)
(* stuck, all meet in one entry of the server's parties map: they are      *)
(* handed the same Party, Init overwrites its closeChan, two loops take    *)
(* messages from its one in channel, and whichever returns first removes   *)
(* the entry.                                                              *)
(*                                                                         *)
(* The other nodes are one peer that answers: its message of a round comes *)
(* when it has this node's message of the round before.  A Party and a     *)
(* closeChan are named by the run that made them.                          *)
(***************************************************************************)
EXTENDS Integers, FiniteSets

CONSTANTS Runs,    \* the ceremonies started under the session id
          Rounds,  \* message rounds of each
          NoRun    \* the map has no entry

ASSUME SharedRuns   == NoRun \notin Runs
ASSUME SharedRounds == Rounds \in Nat \ {0}

VARIABLES
  pc,        \* where each run's handler is
  party,     \* the Party getOrCreateParty gave it
  mapped,    \* s.parties[sessionID]
  params,    \* the Parties that have had an Init
  closeChan, \* each Party's closeChan
  captured,  \* the channel each run's deferred close will close
  closed,    \* the channels that are closed
  sender,    \* the sendMessages goroutine each run's Init started
  watched,   \* the channel that goroutine's select waits on
  round,     \* the round each run's local party is in
  out,       \* each Party's out channel
  in,        \* each Party's in channel
  got,       \* the messages of its own each run has taken
  sent,      \* what has gone to the peer
  arrived,   \* what has come from the peer
  lapses     \* history: what has gone wrong, see Lapses

vars == <<pc, party, mapped, params, closeChan, captured, closed, sender,
          watched, round, out, in, got, sent, arrived, lapses>>

handler  == <<pc, party, mapped>>
channels == <<params, closeChan, captured, closed>>
senders  == <<sender, watched>>
traffic  == <<round, out, in, got, sent, arrived>>

(*   overlap    two handlers of the session were inside at the same time   *)
(*   drop       a message came while the map had no entry                  *)
(*   stray      a message came into a Party its run does not hold          *)
(*   discard    a stopping sender left messages on out                     *)
(*   nilparams, doubleclose   the process panicked                         *)
Lapses == {"overlap", "drop", "stray", "discard", "nilparams", "doubleclose"}

Stages == {"idle", "held", "ready", "looping", "spoiled", "ended", "closed",
           "failing", "done", "failed"}

Msgs == [run : Runs, round : 1..Rounds]

SharedTypeOK ==
    /\ pc        \in [Runs -> Stages]
    /\ party     \in [Runs -> Runs \cup {NoRun}]
    /\ mapped    \in Runs \cup {NoRun}
    /\ params    \subseteq Runs
    /\ closeChan \in [Runs -> Runs \cup {NoRun}]
    /\ captured  \in [Runs -> Runs \cup {NoRun}]
    /\ closed    \subseteq Runs
    /\ sender    \in [Runs -> {"none", "on", "waiting", "off"}]
    /\ watched   \in [Runs -> Runs \cup {NoRun}]
    /\ round     \in [Runs -> 0..(Rounds + 1)]
    /\ out       \in [Runs -> SUBSET Msgs]
    /\ in        \in [Runs -> SUBSET Msgs]
    /\ got       \in [Runs -> SUBSET (1..Rounds)]
    /\ sent      \subseteq Msgs
    /\ arrived   \subseteq Msgs
    /\ lapses    \subseteq Lapses

Init ==
    /\ pc        = [r \in Runs |-> "idle"]
    /\ party     = [r \in Runs |-> NoRun]
    /\ mapped    = NoRun
    /\ params    = {}
    /\ closeChan = [r \in Runs |-> NoRun]
    /\ captured  = [r \in Runs |-> NoRun]
    /\ closed    = {}
    /\ sender    = [r \in Runs |-> "none"]
    /\ watched   = [r \in Runs |-> NoRun]
    /\ round     = [r \in Runs |-> 0]
    /\ out       = [r \in Runs |-> {}]
    /\ in        = [r \in Runs |-> {}]
    /\ got       = [r \in Runs |-> {}]
    /\ sent      = {}
    /\ arrived   = {}
    /\ lapses    = {}

Up == lapses \cap {"nilparams", "doubleclose"} = {}

(* The handler of run r is somewhere between getOrCreateParty and the end  *)
(* of removeParty.                                                         *)
Inside(r) == pc[r] \notin {"idle", "done", "failed"}

Go(r, from, to) == pc[r] = from /\ pc' = [pc EXCEPT ![r] = to]

-----------------------------------------------------------------------------
(* The handler: Keygen or Sign of the server.                              *)

GetOrCreateParty(r) ==
    /\ Up
    /\ Go(r, "idle", "held")
    /\ mapped' = IF mapped = NoRun THEN r ELSE mapped
    /\ party' = [party EXCEPT ![r] = mapped']
    /\ lapses' = IF \E q \in Runs \ {r} : Inside(q) THEN lapses \cup {"overlap"}
                                                    ELSE lapses
    /\ UNCHANGED <<channels, senders, traffic>>

(* Party.Init: a new closeChan, and one more goroutine in sendMessages.    *)
InitParty(r) ==
    /\ Up
    /\ Go(r, "held", "ready")
    /\ params' = params \cup {party[r]}
    /\ closeChan' = [closeChan EXCEPT ![party[r]] = r]
    /\ sender' = [sender EXCEPT ![r] = "on"]
    /\ UNCHANGED <<party, mapped, captured, closed, watched, traffic, lapses>>

(* KeyGen or Sign of the Party starts: defer close(p.closeChan) evaluates  *)
(* p.closeChan here; the local party is new and queues round 1.            *)
EnterLoop(r) ==
    /\ Up
    /\ Go(r, "ready", "looping")
    /\ captured' = [captured EXCEPT ![r] = closeChan[party[r]]]
    /\ round' = [round EXCEPT ![r] = 1]
    /\ out' = [out EXCEPT ![party[r]] = @ \cup {[run |-> r, round |-> 1]}]
    /\ UNCHANGED <<party, mapped, params, closeChan, closed, senders, in, got,
                   sent, arrived, lapses>>

(* The key share cannot be loaded: nobody closes the channel Init made.    *)
LoadShareFails(r) ==
    /\ Up
    /\ Go(r, "ready", "failing")
    /\ UNCHANGED <<party, mapped, channels, senders, traffic, lapses>>

(* Mutant of Queued: the output round is taken for one more with messages. *)
QueuedPastLast(r, next) == [run : {r}, round : (round[r] + 1)..next]

(* The messages of the rounds that the local party enters on its way.      *)
Queued(r, next) == [run : {r}, round : (round[r] + 1)..next \cap 1..Rounds]

(* case msg := <-p.in, the run's own: the local party moves on as far as   *)
(* what it holds completes rounds, and queues those rounds' messages.      *)
TakeOwn(r, m) ==
    /\ Up
    /\ pc[r] = "looping"
    /\ m \in in[party[r]] /\ m.run = r
    /\ in' = [in EXCEPT ![party[r]] = @ \ {m}]
    /\ got' = [got EXCEPT ![r] = @ \cup {m.round}]
    /\ \E next \in round[r]..(Rounds + 1) :
         /\ round[r]..(next - 1) \subseteq got'[r]
         /\ next \notin got'[r]
         /\ round' = [round EXCEPT ![r] = next]
         /\ out' = [out EXCEPT ![party[r]] = @ \cup Queued(r, next)]
         /\ pc' = IF next > Rounds THEN [pc EXCEPT ![r] = "ended"] ELSE pc
    /\ UNCHANGED <<party, mapped, channels, senders, sent, arrived, lapses>>

(* The same, with a message of another run: the local party rejects it, or *)
(* keeps it in the place of its own and fails at that round for good.      *)
TakeForeign(r, m) ==
    /\ Up
    /\ pc[r] \in {"looping", "spoiled"}
    /\ m \in in[party[r]] /\ m.run # r
    /\ in' = [in EXCEPT ![party[r]] = @ \ {m}]
    /\ UNCHANGED pc \/ pc' = [pc EXCEPT ![r] = "spoiled"]
    /\ UNCHANGED <<party, mapped, channels, senders, round, out, got, sent, arrived, lapses>>

(* Mutant of Return: the deferred close is missing.                        *)
ReturnUnclosed(r) ==
    /\ Up
    /\ Go(r, "ended", "closed")
    /\ UNCHANGED <<party, mapped, channels, senders, traffic, lapses>>

(* Mutant of Return: a run may give up on a deadline of its context.       *)
ReturnOnTimeout(r) ==
    /\ Up
    /\ Go(r, "ended", "closed") \/ Go(r, "looping", "closed")
    /\ closed' = closed \cup {captured[r]}
    /\ UNCHANGED <<party, mapped, params, closeChan, captured, senders, traffic, lapses>>

(* case out := <-end: the deferred close runs, and panics when another run *)
(* has closed the channel both had captured.                               *)
Return(r) ==
    /\ Up
    /\ Go(r, "ended", "closed")
    /\ closed' = closed \cup {captured[r]}
    /\ lapses' = IF captured[r] \in closed THEN lapses \cup {"doubleclose"} ELSE lapses
    /\ UNCHANGED <<party, mapped, params, closeChan, captured, senders, traffic>>

(* Mutant of RemoveParty: a handler that fails does not remove its Party.  *)
RemoveOnSuccess(r) ==
    /\ Up
    /\ \/ Go(r, "closed", "done") /\ mapped' = NoRun
       \/ Go(r, "failing", "failed") /\ UNCHANGED mapped
    /\ UNCHANGED <<party, channels, senders, traffic, lapses>>

(* defer s.removeParty(sessionID): whatever the entry is by now.           *)
RemoveParty(r) ==
    /\ Up
    /\ Go(r, "closed", "done") \/ Go(r, "failing", "failed")
    /\ mapped' = NoRun
    /\ UNCHANGED <<party, channels, senders, traffic, lapses>>

-----------------------------------------------------------------------------
(* sendMessages: the goroutine Init(r) started.                            *)

(* select evaluates p.closeChan: the latest Init's.                        *)
Select(r) ==
    /\ Up
    /\ sender[r] = "on"
    /\ sender' = [sender EXCEPT ![r] = "waiting"]
    /\ watched' = [watched EXCEPT ![r] = closeChan[party[r]]]
    /\ UNCHANGED <<handler, channels, traffic, lapses>>

(* Mutant of Forward: the goroutine sends one message and ends.            *)
ForwardOnce(r, m) ==
    /\ Up
    /\ sender[r] = "waiting"
    /\ m \in out[party[r]]
    /\ out' = [out EXCEPT ![party[r]] = @ \ {m}]
    /\ sent' = sent \cup {m}
    /\ sender' = [sender EXCEPT ![r] = "off"]
    /\ UNCHANGED <<handler, channels, watched, round, in, got, arrived, lapses>>

(* case msg := <-p.out: any run's on this Party; then around the loop.     *)
Forward(r, m) ==
    /\ Up
    /\ sender[r] = "waiting"
    /\ m \in out[party[r]]
    /\ \A o \in out[party[r]] : o.run = m.run => m.round <= o.round
    /\ out' = [out EXCEPT ![party[r]] = @ \ {m}]
    /\ sent' = sent \cup {m}
    /\ sender' = [sender EXCEPT ![r] = "on"]
    /\ UNCHANGED <<handler, channels, watched, round, in, got, arrived, lapses>>

(* case <-p.closeChan, whether or not out is empty.                        *)
StopSender(r) ==
    /\ Up
    /\ sender[r] = "waiting" /\ watched[r] \in closed
    /\ sender' = [sender EXCEPT ![r] = "off"]
    /\ lapses' = IF out[party[r]] = {} THEN lapses ELSE lapses \cup {"discard"}
    /\ UNCHANGED <<handler, channels, watched, traffic>>

-----------------------------------------------------------------------------
(* The peer, through StreamMessages and OnMsg.                             *)

(* The peer is in round m.round of m.run: it has what precedes it.  It may *)
(* be told of a run before this node is, or when this node never is.       *)
PeerSends(m) == m.round = 1 \/ [m EXCEPT !.round = @ - 1] \in sent

Deliver(m) ==
    /\ Up
    /\ m \notin arrived /\ PeerSends(m)
    /\ arrived' = arrived \cup {m}
    /\ \/ /\ mapped = NoRun
          /\ lapses' = lapses \cup {"drop"}
          /\ UNCHANGED in
       \/ /\ mapped # NoRun /\ mapped \notin params
          /\ lapses' = lapses \cup {"nilparams"}
          /\ UNCHANGED in
       \/ /\ mapped \in params
          /\ in' = [in EXCEPT ![mapped] = @ \cup {m}]
          /\ lapses' = IF party[m.run] = mapped THEN lapses ELSE lapses \cup {"stray"}
    /\ UNCHANGED <<handler, channels, senders, round, out, got, sent>>

-----------------------------------------------------------------------------
(* What a run's handler and its sender goroutine do.                       *)
RunStep(r) ==
    \/ InitParty(r)
    \/ EnterLoop(r)
    \/ \E m \in Msgs : TakeOwn(r, m)
    \/ \E m \in Msgs : TakeForeign(r, m)
    \/ Return(r)
    \/ RemoveParty(r)

SenderStep(r) ==
    \/ Select(r)
    \/ \E m \in Msgs : Forward(r, m)
    \/ StopSender(r)

Next ==
    \/ \E r \in Runs : GetOrCreateParty(r)
    \/ \E r \in Runs : RunStep(r)
    \/ \E r \in Runs : LoadShareFails(r)
    \/ \E r \in Runs : SenderStep(r)
    \/ \E m \in Msgs : Deliver(m)

(* Goroutines that can run do, and the peer answers.                       *)
Fairness ==
    /\ \A r \in Runs : WF_vars(RunStep(r)) /\ WF_vars(SenderStep(r))
    /\ WF_vars(\E m \in Msgs : Deliver(m))

Spec == Init /\ [][Next]_vars
FairSpec == Spec /\ Fairness

-----------------------------------------------------------------------------
(* Runs that keep clear of each other do not share anything: as long as no *)
(* two handlers were inside at once, a handler that is inside has the      *)
(* Party it made itself, that Party is the map's entry, its closeChan is   *)
(* the one its Init made, and no channel is closed twice.                  *)
LoneRunsShareNothing ==
    "overlap" \notin lapses =>
      /\ "doubleclose" \notin lapses
      /\ \A r \in Runs : Inside(r) =>
           /\ party[r] = r /\ mapped = r
           /\ pc[r] # "held" => closeChan[r] = r

(* A run that finished leaves no message behind, in its own Party or any   *)
(* other: one that a run finds in its Party, and cannot use, comes of a    *)
(* run that failed here or has not ended here.                             *)
FinishedLeaveNothing ==
    \A p \in Runs : \A m \in in[p] : pc[m.run] # "done"

(* A run that failed leaks its sender goroutine: that stops only after     *)
(* another run, which had captured the channel it watches, has returned    *)
(* (sign.go, a key share that cannot be loaded).                           *)
LeakedSendersWait ==
    \A r \in Runs : pc[r] = "failed" /\ sender[r] = "off" =>
      \E q \in Runs \ {r} : captured[q] = watched[r] /\ pc[q] \in {"closed", "done"}

(* Another run's Init has overwritten the channel r's Init made.           *)
Replaced(r) == party[r] # NoRun /\ closeChan[party[r]] # r

(* The sender goroutine of a run that finished ends, unless another run's  *)
(* Init replaced the channel in the Party they share, which it would watch *)
(* next, or the process panicked; that of a run that failed leaks          *)
(* (party.go: sendMessages, and the deferred close of KeyGen and Sign).    *)
SendersEnd ==
    /\ \A r \in Runs : pc[r] = "done" ~> sender[r] = "off" \/ Replaced(r) \/ ~Up
    /\ []LeakedSendersWait

(* A run whose handler was started finishes or fails, unless one of the    *)
(* lapses happened: overlapping is one, but it is not the only one.        *)
RunsFinish ==
    \A r \in Runs : Inside(r) ~> pc[r] \in {"done", "failed"} \/ lapses # {}
-----------------------------------------------------------------------------
(* The inductive invariant behind LoneRunsShareNothing.                    *)

(* Each stage of a handler has behind it what the earlier ones set.        *)
StageSets ==
    \A r \in Runs :
      /\ pc[r] # "idle" => party[r] \in Runs
      /\ pc[r] \notin {"idle", "held"} => closeChan[party[r]] \in Runs
      /\ pc[r] \in {"looping", "spoiled", "ended", "closed"} => captured[r] \in Runs
      /\ sender[r] # "none" => pc[r] \notin {"idle", "held"}

(* Without an overlap, one run at a time has everything to itself.         *)
OneInside ==
    /\ \A q, r \in Runs : Inside(q) /\ Inside(r) => q = r
    /\ (\A r \in Runs : ~Inside(r)) => mapped = NoRun
    /\ \A r \in Runs : Inside(r) =>
         /\ party[r] = r /\ mapped = r
         /\ pc[r] # "held" => closeChan[r] = r
         /\ pc[r] \in {"looping", "spoiled", "ended", "closed"} => captured[r] = r
    /\ \A c \in closed : pc[c] \in {"closed", "done"}
    /\ "doubleclose" \notin lapses

SharedInv ==
    /\ SharedTypeOK
    /\ StageSets
    /\ "overlap" \notin lapses => OneInside

(* The invariant behind FinishedLeaveNothing: a message arrives once, in   *)
(* one Party, and is taken by its own run once; a run passes the rounds it *)
(* has the messages of.                                                    *)
TrafficInv ==
    /\ \A p \in Runs : in[p] \subseteq arrived
    /\ \A p, q \in Runs : p # q => in[p] \cap in[q] = {}
    /\ \A r \in Runs :
         /\ \A k \in got[r] : /\ [run |-> r, round |-> k] \in arrived
                              /\ \A p \in Runs : [run |-> r, round |-> k] \notin in[p]
         /\ \A k \in 1..Rounds : k < round[r] => k \in got[r]
         /\ pc[r] \in {"ended", "closed", "done"} => round[r] > Rounds

(* The invariant behind LeakedSendersWait: a sender stops on a channel     *)
(* that is closed, and a channel is closed by a run that captured it.      *)
ClosersReturned ==
    /\ \A r \in Runs : sender[r] = "off" => watched[r] \in closed
    /\ \A c \in closed :
         \E q \in Runs : captured[q] = c /\ pc[q] \in {"closed", "done"}
=============================================================================
