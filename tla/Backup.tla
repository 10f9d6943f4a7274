-------------------------------- MODULE Backup --------------------------------
(***************************************************************************)
(* Encrypted backup of the live store, taken beside its writers, and its   *)
(* restore into absent targets by two renames.  Encryption, manifests and  *)
(* checksums appear as what they decide: which archives verify.            *)
(***************************************************************************)
EXTENDS LiveStore

CONSTANT KeyVersions   \* versions of the provider's keys

VARIABLES
  keys,      \* the version the key provider has now
  archives,  \* complete backups: manifest and payload
  bk,        \* the backup under way
  target,    \* the paths a restore is given
  rs,        \* the restore under way
  rsDied     \* a restore died between its two renames

backupVars == <<keys, archives, bk, target, rs, rsDied>>

------------------------------------------------------------------------------
(* listed: the blobs the manifest names; blobs: those in the payload.      *)
NoBackup == [at |-> "idle", db |-> NoFile, listed |-> {}, blobs |-> {}, keys |-> {}]
NoRestore == [at |-> "idle", from |-> NoBackup]

BackupInit ==
  /\ keys \in KeyVersions /\ archives = {} /\ bk = NoBackup
  /\ target = NoStore /\ rs = NoRestore /\ rsDied = FALSE

(* The provider is asked for its keys and their versions at the start. *)
CurrentKeys == {keys}

(* create_backup: the database by SQLite's backup *)
CopySource ==
  /\ bk.at = "idle" /\ Given
  /\ live.db.there /\ live.db.tables /\ live.blobs.there
  /\ bk' = [NoBackup EXCEPT !.at = "blobs", !.keys = CurrentKeys,
                            !.db = [live.db EXCEPT !.rows = Rows(live)]]
  /\ Opening
  /\ UNCHANGED <<live, aside, pc, conn, job, acked, copied, since, late>>
  /\ UNCHANGED <<keys, archives, target, rs, rsDied>>

(* The blobs that the copy of the database refers to. *)
Collected == bk.db.rows \cap live.blobs.files
\* mutant: a missing blob is passed over
CompleteOrNot == TRUE
Complete == bk.db.rows \subseteq live.blobs.files

CopyReferenced ==
  /\ bk.at = "blobs" /\ Complete
  /\ bk' = [bk EXCEPT !.at = "publish", !.listed = Collected, !.blobs = Collected]
  /\ UNCHANGED <<storeVars, keys, archives, target, rs, rsDied>>

(* Payload and manifest are renamed; without a manifest nothing verifies.  *)
Archive ==
  /\ bk.at = "publish"
  /\ archives' = archives \cup {bk} /\ bk' = NoBackup
  /\ UNCHANGED <<storeVars, keys, target, rs, rsDied>>

(* "referenced blob is missing", any other error, or death: partial files  *)
(* are deleted or lack their manifest.                                     *)
NoArchive ==
  /\ bk.at # "idle"
  /\ bk' = NoBackup
  /\ UNCHANGED <<storeVars, keys, archives, target, rs, rsDied>>

(* The provider's keys change version. *)
Rotate ==
  /\ \E k \in KeyVersions \ {keys} : keys' = k
  /\ UNCHANGED <<storeVars, archives, bk, target, rs, rsDied>>

(* A payload loses files where it is kept. *)
Damage ==
  /\ \E a \in archives :
       \E kept \in SUBSET a.blobs \ {a.blobs} :
         archives' = (archives \ {a}) \cup {[a EXCEPT !.blobs = kept]}
  /\ UNCHANGED <<storeVars, keys, bk, target, rs, rsDied>>

------------------------------------------------------------------------------
(* The manifest and the data key, under the keys of the present version.   *)
Authentic(a) == a.keys = CurrentKeys

\* mutant: the files are not compared with the manifest
IntactOrNot(a) == TRUE
(* The payload decrypts to exactly the files the manifest lists.           *)
Intact(a) == a.blobs = a.listed

(* _verified_extract: and these are exactly what the database refers to.   *)
Verified(a) == Authentic(a) /\ Intact(a) /\ a.listed = a.db.rows

Absent == ~target.db.there /\ ~target.blobs.there
Content(a) == [db |-> a.db, wal |-> {}, blobs |-> [there |-> TRUE, files |-> a.blobs]]

(* restore_backup up to its renames.  An archive without blobs has no      *)
(* directory to copy and is refused.  So may any other be when its         *)
(* database is larger than 16 MiB, which create_backup does not ask; a     *)
(* refusal changes nothing and is no step.                                  *)
Restore(a, c) ==
  /\ rs.at = "idle" /\ Absent
  /\ Verified(a) /\ a.blobs # {} /\ Ready(Content(a), c)
  /\ rs' = [at |-> "database", from |-> a]
  /\ UNCHANGED <<storeVars, keys, archives, bk, target, rsDied>>

PlaceDatabase ==
  /\ rs.at = "database"
  /\ target' = [target EXCEPT !.db = rs.from.db]
  /\ rs' = [rs EXCEPT !.at = "blobs"]
  /\ UNCHANGED <<storeVars, keys, archives, bk, rsDied>>

PlaceBlobs ==
  /\ rs.at = "blobs"
  /\ target' = [target EXCEPT !.blobs = Content(rs.from).blobs]
  /\ rs' = NoRestore
  /\ UNCHANGED <<storeVars, keys, archives, bk, rsDied>>

Withdrawn == [target EXCEPT !.db = NoFile]

RestoreFails ==
  /\ rs.at # "idle"
  /\ target' = Withdrawn
  /\ rs' = NoRestore
  /\ UNCHANGED <<storeVars, keys, archives, bk, rsDied>>

RestoreDies ==
  /\ rs.at # "idle"
  /\ rsDied' = (rsDied \/ rs.at = "blobs")
  /\ rs' = NoRestore
  /\ UNCHANGED <<storeVars, keys, archives, bk, target>>

BackUp ==
  \/ CopySource \/ CopyReferenced \/ Archive \/ NoArchive \/ Rotate \/ Damage
  \/ \E a \in archives, c \in Codes : Restore(a, c)
  \/ PlaceDatabase \/ PlaceBlobs \/ RestoreFails \/ RestoreDies

------------------------------------------------------------------------------
(* A restore leaves all of one archive or nothing: a database without its  *)
(* blobs is at the targets only while a restore is between its renames or  *)
(* after one died there, and what is complete there is the cut some backup *)
(* took, with every blob it refers to.                                     *)
RestoredWhole ==
  /\ target.db.there /\ ~target.blobs.there => rs.at = "blobs" \/ rsDied
  /\ target.blobs.there =>
       \E a \in archives : target = Content([a EXCEPT !.blobs = a.listed]) /\ Dangling(target) = {}

=============================================================================
