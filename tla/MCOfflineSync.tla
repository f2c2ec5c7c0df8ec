--------------------------- MODULE MCOfflineSync ----------------------------
(* Instance of OfflineSync for TLC: two changes of one entity, each an        *)
(* upsert or a delete, and one more request at the server: a given-up one or  *)
(* a write of the other device.                                               *)
EXTENDS OfflineSync, TLC

CONSTANTS c1, c2, e1, h1

MCEntityOf == c1 :> e1 @@ c2 :> e1

MCBackoff(n) == 1

\* The changes are interchangeable: c1 is the one that is queued first.
InOrder == status'[c2] # "None" => status'[c1] # "None"

MCSpec == CloudInit /\ [][CloudNext /\ InOrder]_allVars /\ CloudFairness
=============================================================================
