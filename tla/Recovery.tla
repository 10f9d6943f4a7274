------------------------------- MODULE Recovery -------------------------------
(***************************************************************************)
(* A deployment whose servers write while an operator upgrades it, rolls   *)
(* it back and backs it up.                                                *)
(***************************************************************************)
EXTENDS Deployment, Backup

vars == <<storeVars, deployVars, backupVars>>

RecoveryInit == Init /\ DeployInit /\ BackupInit

Next ==
  \/ Serve /\ UNCHANGED <<deployVars, backupVars>>
  \/ Deploy /\ UNCHANGED backupVars
  \/ BackUp /\ UNCHANGED deployVars

Spec == RecoveryInit /\ [][Next]_vars

------------------------------------------------------------------------------
(* Copies taken beside writers, upgrades and rollbacks are no worse than    *)
(* the store they were taken from: in a snapshot only those blobs are      *)
(* missing that the live store had already lost, and in a backup none.     *)
CopiesWhole ==
  /\ \A s \in snapshots : Dangling(s.store) \subseteq s.missing
  /\ \A a \in archives : a.db.rows = a.listed

=============================================================================
