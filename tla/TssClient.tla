------------------------------ MODULE TssClient ------------------------------
(***************************************************************************)
(* The backend's side of a ceremony (src/backend/pkg/tss): CreateWallet    *)
(* and Sign notify the TSS service, and only then subscribe to the Redis   *)
(* channel on which the service will publish the result.  The channel is   *)
(* named by the session, a user's id, and Redis keeps nothing for those    *)
(* who subscribe later, so a call may miss its own result and may hear     *)
(* that of another call of the session.                                    *)
(*                                                                         *)
(* The service is external here: it runs a ceremony it was notified of     *)
(* and may publish its result, or never does (Ceremony and SharedParty say *)
(* when).  A module that extends this one says when a call is made.        *)
(***************************************************************************)
EXTENDS Integers, FiniteSets

CONSTANTS Calls,      \* calls of CreateWallet, or of Sign
          Session,    \* the session id of each call
          NoCall,     \* nothing heard yet
          CallFaults  \* which failures may happen, see CallFaultKinds

(*   notify    NotifyAction returns an error                               *)
(*   hang      the service never publishes the result of a ceremony        *)
(*   redis     the subscription's connection is lost and made again        *)
(*   deadline  the call's context ends: rpcTimeout, or the request's own   *)
CallFaultKinds == {"notify", "hang", "redis", "deadline"}

ASSUME TssCalls   == IsFiniteSet(Calls)
ASSUME TssSession == DOMAIN Session = Calls
ASSUME TssNoCall  == NoCall \notin Calls
ASSUME TssFaults  == CallFaults \subseteq CallFaultKinds

VARIABLES
  call,     \* where each call is
  ceremony, \* the ceremony the service runs for each call
  heard,    \* the call whose result came first on each call's subscription
  mishaps   \* history: what has gone wrong for each call, see CallMishaps

tssVars == <<call, ceremony, heard, mishaps>>

(*   fault     one of CallFaultKinds                                       *)
(*   missed    its result was published while it was not subscribed        *)
(*   overlap   another ceremony of the session ran at the same time        *)
CallMishaps == {"fault", "missed", "overlap"}

CallTypeOK ==
    /\ call     \in [Calls -> {"idle", "notified", "subscribing", "waiting",
                               "answered", "failed"}]
    /\ ceremony \in [Calls -> {"none", "running", "hung", "published"}]
    /\ heard    \in [Calls -> Calls \cup {NoCall}]
    /\ mishaps  \in [Calls -> SUBSET CallMishaps]

CallInit ==
    /\ call     = [c \in Calls |-> "idle"]
    /\ ceremony = [c \in Calls |-> "none"]
    /\ heard    = [c \in Calls |-> NoCall]
    /\ mishaps  = [c \in Calls |-> {}]

Underway(c) == call[c] \in {"notified", "subscribing", "waiting"}

(* The other calls of c's session whose ceremony the service still runs.   *)
Rivals(c) == {d \in Calls \ {c} : Session[d] = Session[c] /\ ceremony[d] \in {"running", "hung"}}

Mishap(c, m) == mishaps' = [mishaps EXCEPT ![c] = @ \cup {m}]

(* The service starts c's ceremony, beside those it has not finished.      *)
Started(c, own) ==
    /\ ceremony' = [ceremony EXCEPT ![c] = "running"]
    /\ mishaps' = [d \in Calls |->
         mishaps[d] \cup (IF d = c THEN own ELSE {})
                    \cup (IF (d = c /\ Rivals(c) # {}) \/ d \in Rivals(c)
                         THEN {"overlap"} ELSE {})]

(* The call's NotifyAction returns, with the ceremony begun.               *)
Notify(c) ==
    /\ call[c] = "idle"
    /\ call' = [call EXCEPT ![c] = "notified"]
    /\ Started(c, {})
    /\ UNCHANGED heard

(* NotifyAction fails, whether or not the service has begun.               *)
NotifyFails(c) ==
    /\ "notify" \in CallFaults
    /\ call[c] = "idle"
    /\ call' = [call EXCEPT ![c] = "failed"]
    /\ \/ Started(c, {"fault"})
       \/ UNCHANGED ceremony /\ Mishap(c, "fault")
    /\ UNCHANGED heard

(* redisClient.Subscribe writes the command and does not wait.             *)
Subscribe(c) ==
    /\ call[c] = "notified"
    /\ call' = [call EXCEPT ![c] = "subscribing"]
    /\ UNCHANGED <<ceremony, heard, mishaps>>

(* Redis has the subscription.                                             *)
Subscribed(c) ==
    /\ call[c] = "subscribing"
    /\ call' = [call EXCEPT ![c] = "waiting"]
    /\ UNCHANGED <<ceremony, heard, mishaps>>

(* The connection is lost; go-redis dials again and resubscribes.          *)
Reconnect(c) ==
    /\ "redis" \in CallFaults
    /\ call[c] = "waiting"
    /\ call' = [call EXCEPT ![c] = "subscribing"]
    /\ Mishap(c, "fault")
    /\ UNCHANGED <<ceremony, heard>>

(* Mutant of Publish: Redis keeps the result for later subscribers.        *)
PublishKept(c) ==
    /\ ceremony[c] = "running"
    /\ ceremony' = [ceremony EXCEPT ![c] = "published"]
    /\ heard' = [d \in Calls |->
                   IF Session[d] = Session[c] /\ heard[d] = NoCall THEN c ELSE heard[d]]
    /\ UNCHANGED <<call, mishaps>>

(* Mutant of Publish: the channel does not name the session.               *)
PublishToAll(c) ==
    /\ ceremony[c] = "running"
    /\ ceremony' = [ceremony EXCEPT ![c] = "published"]
    /\ heard' = [d \in Calls |->
                   IF call[d] = "waiting" /\ heard[d] = NoCall THEN c ELSE heard[d]]
    /\ UNCHANGED <<call, mishaps>>

(* The service publishes: those subscribed now get it, nobody later.       *)
Publish(c) ==
    /\ ceremony[c] = "running"
    /\ ceremony' = [ceremony EXCEPT ![c] = "published"]
    /\ heard' = [d \in Calls |->
                   IF Session[d] = Session[c] /\ call[d] = "waiting" /\ heard[d] = NoCall
                   THEN c ELSE heard[d]]
    /\ IF call[c] \in {"notified", "subscribing"} THEN Mishap(c, "missed")
                                                  ELSE UNCHANGED mishaps
    /\ UNCHANGED call

(* The service will never publish: a node misses a message, or cannot      *)
(* compute or store the result.                                            *)
Hang(c) ==
    /\ "hang" \in CallFaults
    /\ ceremony[c] = "running"
    /\ ceremony' = [ceremony EXCEPT ![c] = "hung"]
    /\ Mishap(c, "fault")
    /\ UNCHANGED <<call, heard>>

(* case msg := <-ch: the first well-formed result is the call's answer.    *)
Answer(c) ==
    /\ Underway(c)
    /\ heard[c] # NoCall
    /\ call' = [call EXCEPT ![c] = "answered"]
    /\ UNCHANGED <<ceremony, heard, mishaps>>

(* Mutant of Expire: a call that is subscribed waits without a deadline.   *)
ExpireUnsubscribed(c) ==
    /\ call[c] = "notified"
    /\ call' = [call EXCEPT ![c] = "failed"]
    /\ Mishap(c, "fault")
    /\ UNCHANGED <<ceremony, heard>>

(* case <-ctx.Done().  It may come at any time when deadlines are among    *)
(* the faults, and comes to a call that will hear nothing.                 *)
Expire(c) ==
    /\ Underway(c)
    /\ \/ "deadline" \in CallFaults
       \/ ceremony[c] # "running" /\ heard[c] = NoCall
    /\ call' = [call EXCEPT ![c] = "failed"]
    /\ Mishap(c, "fault")
    /\ UNCHANGED <<ceremony, heard>>

(* What the call itself does once made, and what the service does.         *)
CallStep(c) == Subscribe(c) \/ Answer(c) \/ Expire(c)

ServiceStep(c) == Subscribed(c) \/ Reconnect(c) \/ Publish(c) \/ Hang(c)

(* The call's goroutine runs and its context ends, Redis handles what it   *)
(* is sent, and the service publishes what does not hang.                  *)
CallFairness ==
    \A c \in Calls :
      /\ WF_tssVars(CallStep(c))
      /\ WF_tssVars(Subscribed(c))
      /\ WF_tssVars(Publish(c) \/ Hang(c))

-----------------------------------------------------------------------------
(* A call takes another call's result for its own only when the service    *)
(* ran both ceremonies at once, or its own result had gone past it: the    *)
(* channel's name tells ceremonies apart only if they follow each other.   *)
OthersResultNeedsMishap ==
    \A c \in Calls : heard[c] \notin {c, NoCall} => mishaps[c] \cap {"overlap", "missed"} # {}
=============================================================================
