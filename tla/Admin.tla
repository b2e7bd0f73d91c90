-------------------------------- MODULE Admin --------------------------------
(***************************************************************************)
(* The administration of the gateway and what it keeps: the policy store,  *)
(* the canaries, the detection rules, the organisations with the audit,    *)
(* and the recorder with the retention job.  The five share no state, and  *)
(* each property speaks of one of them: it is enough to follow one at a    *)
(* time, the one a behaviour begins with.                                  *)
(***************************************************************************)
EXTENDS PolicyStore, Canaries, Detection, Orgs, Records

VARIABLE part

vars == <<storeVars, canaryVars, detectionVars, orgVars, recordsVars, part>>

Init ==
  /\ StoreInit /\ CanaryInit /\ DetectionInit /\ OrgInit /\ RecordsInit
  /\ part \in {"store", "canaries", "detection", "orgs", "records"}
  /\ part # "records" => input = [c \in Calls |-> CHOOSE in \in Inputs[c] : TRUE]

Next ==
  /\ \/ /\ part = "store" /\ StoreNext
        /\ UNCHANGED <<canaryVars, detectionVars, orgVars, recordsVars>>
     \/ /\ part = "canaries" /\ CanaryNext
        /\ UNCHANGED <<storeVars, detectionVars, orgVars, recordsVars>>
     \/ /\ part = "detection" /\ DetectionNext
        /\ UNCHANGED <<storeVars, canaryVars, orgVars, recordsVars>>
     \/ /\ part = "orgs" /\ OrgNext
        /\ UNCHANGED <<storeVars, canaryVars, detectionVars, recordsVars>>
     \/ /\ part = "records" /\ RecordsNext
        /\ UNCHANGED <<storeVars, canaryVars, detectionVars, orgVars>>
  /\ UNCHANGED part

Spec == Init /\ [][Next]_vars
=============================================================================
