-------------------------------- MODULE Sign --------------------------------
(***************************************************************************)
(* One threshold signature for one session id: src/tss/server/sign.go over *)
(* the ceremony of src/tss/party.  The coordinator is given its share by   *)
(* the client; a peer reads its own from its table, in which an earlier    *)
(* key generation may or may not have stored it.                           *)
(***************************************************************************)
EXTENDS Ceremony

SignInit == CeremonyInit /\ stored \in SUBSET ShareTables

(* Mutant of CanLoad: a failed read of the share is ignored.               *)
CanLoadAnyway(n) == n \in Nodes

CanLoad(n) == n = Coord \/ n \in stored

(* getDecryptedShareData succeeds; SetShareData; the loop of Sign runs.    *)
LoadShare(n) == CanLoad(n) /\ EnterLoop(n)

(* No row, no table for this node, or decryption fails: Sign returns the   *)
(* error and removes the Party, whose sender goroutine nobody stops.       *)
LoadShareFails(n) ==
    /\ Up
    /\ ~CanLoad(n) \/ "prepare" \in Faults
    /\ Go(n, "ready", "aborted")
    /\ trouble' = trouble \cup {"prepare"}
    /\ UNCHANGED <<told, round, sent, sender, net, inbox, got, published, stored>>

SignNext ==
    \/ ServerStep
    \/ EnvironmentStep
    \/ \E n \in Nodes : LoadShare(n)
    \/ \E n \in Nodes : LoadShareFails(n)

SignFairness ==
    /\ ServerFairness
    /\ \A n \in Nodes : WF_vars(LoadShare(n) \/ LoadShareFails(n))

SignSpec == SignInit /\ [][SignNext]_vars
SignFairSpec == SignSpec /\ SignFairness

-----------------------------------------------------------------------------
(* A published signature was computed with the stored share of every peer. *)
SignatureNeedsEveryShare ==
    published => \A p \in Peers : p \in stored /\ sent[p] = Rounds

(* One node that cannot load its share keeps every other node from         *)
(* finishing: there is no signature of the remaining two.                  *)
AbortBlocksEveryone ==
    (\E n \in Nodes : pc[n] = "aborted") => \A p \in Nodes : ~Returned(p)

(* Once asked for, a signature is published unless one of the recorded     *)
(* faults and mishaps happened.                                            *)
SignCompletes == pc[Coord] # "idle" ~> published \/ trouble # {}
=============================================================================
