------------------------------- MODULE Keygen -------------------------------
(***************************************************************************)
(* Distributed key generation for one session id: src/tss/server/keygen.go *)
(* over the ceremony of src/tss/party.  The coordinator publishes the      *)
(* address and its own share to Redis; the peers upsert theirs, each into  *)
(* its own table, and tell nobody whether that worked.                     *)
(***************************************************************************)
EXTENDS Ceremony

KeygenInit == CeremonyInit /\ stored = {}

(* GeneratePreParams succeeds: the local party exists, the loop runs.      *)
PreParams(n) == EnterLoop(n)

(* GeneratePreParams took too long or failed: panic(err).                  *)
PreParamsPanic(n) ==
    /\ Up
    /\ "prepare" \in Faults
    /\ pc[n] = "ready"
    /\ trouble' = trouble \cup {"panic"}
    /\ UNCHANGED <<pc, told, round, sent, sender, net, inbox, got, published, stored>>

(* handleKeygen after Keygen: encrypt, then upsert into the node's table.  *)
InsertShare(p) ==
    /\ Up
    /\ Go(p, "removed", "done")
    /\ stored' = stored \cup ({p} \cap ShareTables)
    /\ UNCHANGED <<told, round, sent, sender, net, inbox, got, published, trouble>>

(* Encryption or the insert fails: NotifyAction's goroutine logs it.       *)
InsertFails(p) ==
    /\ Up
    /\ "output" \in Faults
    /\ Go(p, "removed", "unsaved")
    /\ trouble' = trouble \cup {"output"}
    /\ UNCHANGED <<told, round, sent, sender, net, inbox, got, published, stored>>

KeygenNext ==
    \/ ServerStep
    \/ EnvironmentStep
    \/ \E n \in Nodes : PreParams(n)
    \/ \E n \in Nodes : PreParamsPanic(n)
    \/ \E p \in Peers : InsertShare(p)
    \/ \E p \in Peers : InsertFails(p)

KeygenFairness ==
    /\ ServerFairness
    /\ \A n \in Nodes : WF_vars(PreParams(n))
    /\ \A p \in Peers : WF_vars(InsertShare(p))

KeygenSpec == KeygenInit /\ [][KeygenNext]_vars
KeygenFairSpec == KeygenSpec /\ KeygenFairness

-----------------------------------------------------------------------------
(* A share is stored, or the address published, only when every other node *)
(* has sent its whole part of the key generation: no wallet address and no *)
(* database row comes from a ceremony somebody did not take part in, one   *)
(* the coordinator declined after a failed notification included.          *)
OutputNeedsEveryone ==
    /\ published => \A p \in Peers : sent[p] = Rounds
    /\ \A s \in stored : \A p \in Nodes \ {s} : sent[p] = Rounds
    /\ stored # {} => pc[Coord] # "declined"

(* Once asked for, a key generation is published and every share stored,   *)
(* unless one of the recorded faults and mishaps happened: the lists above *)
(* are complete, there is no further way for a ceremony to hang.           *)
Completed == published /\ stored = ShareTables
KeygenCompletes == pc[Coord] # "idle" ~> Completed \/ trouble # {}

(* tss/client/README.md:30: the client that receives the published result  *)
(* "Waits for the distributed key generation to complete".                 *)
PublishedMeansComplete == published ~> stored = ShareTables
=============================================================================
