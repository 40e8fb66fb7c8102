------------------------------- MODULE Scripts -------------------------------
(***************************************************************************)
(* The maintenance scripts on one chain: they sign with the same few keys  *)
(* and are run by hand, one at a time and as often as it takes.            *)
(***************************************************************************)
EXTENDS DexDeployment, Migration, KeyRotation, OperatorHandover

VARIABLE script   \* the one being run

vars == <<script, scriptVars, tokenVars, dexVars, migrationVars, rotationVars,
          handoverVars>>

Init ==
  /\ script \in {"deploy-dex", "migrate_to_v4", "emergency-rotate-keys", "transfer-operator"}
  /\ ScriptInit /\ TokenInit /\ DexInit /\ MigrationInit /\ RotationInit /\ HandoverInit

Dex == DexNext /\ UNCHANGED <<migrationVars, rotationVars, handoverVars>>
Migrate == MigrationNext /\ UNCHANGED <<tokenVars, dexVars, rotationVars, handoverVars>>
Rotate == RotationNext /\ UNCHANGED <<tokenVars, dexVars, migrationVars, handoverVars>>
HandOver == HandoverNext /\ UNCHANGED <<dexVars, migrationVars, rotationVars>>

Next ==
  /\ \/ script = "deploy-dex" /\ Dex
     \/ script = "migrate_to_v4" /\ Migrate
     \/ script = "emergency-rotate-keys" /\ Rotate
     \/ script = "transfer-operator" /\ HandOver
  /\ UNCHANGED script

Spec == Init /\ [][Next]_vars
=============================================================================
