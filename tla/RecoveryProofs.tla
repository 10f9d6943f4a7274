---------------------------- MODULE RecoveryProofs ----------------------------
(***************************************************************************)
(* What is proved of upgrades, rollbacks, backups and restores beside      *)
(* running servers, for any writes, servers, releases and bounds: what may *)
(* be lost and what may not, in copies, switches and restores, wherever a  *)
(* command fails, cannot undo, or dies.                                     *)
(***************************************************************************)
EXTENDS Recovery, TLAPS

------------------------------------------------------------------------------
(* Types. *)

DbFile == [there : BOOLEAN, rows : SUBSET Writes, tables : BOOLEAN, ledger : Nat]
BlobDir == [there : BOOLEAN, files : SUBSET Writes]
Store == [db : DbFile, wal : SUBSET Writes, blobs : BlobDir]

Names == Versions \cup {"none"}
After == {"migrate", "record", "log"} \cup Switching

Places == {"idle", "database", "blobs", "publish"} \cup After

Operation ==
  [at : Places,
   kind : {"none", "upgrade", "rollback"}, code : Nat, to : Names,
   copy : Store, missing : SUBSET Writes, gone : SUBSET Writes,
   next : Store, failing : BOOLEAN, logged : BOOLEAN]

Snapshot == [version : Names, store : Store, missing : SUBSET Writes]

StoreTypes ==
  /\ live \in Store /\ aside \in Store
  /\ beside \in {"own", "moved", "fresh", "foreign"}
  /\ pc \in [Servers -> {"off", "opened", "up", "begun", "stored"}]
  /\ conn \in [Servers -> {"none", "live", "aside", "gone"}]
  /\ job \in [Servers -> SUBSET Writes]
  /\ acked \in SUBSET Writes /\ copied \in BOOLEAN
  /\ since \in SUBSET Writes /\ late \in SUBSET Writes

DeployTypes ==
  /\ active \in Names /\ snapshots \in SUBSET Snapshot /\ op \in Operation
  /\ dropped \in SUBSET Writes /\ broken \in BOOLEAN

BackupRecord ==
  [at : {"idle", "blobs", "publish"}, db : DbFile, listed : SUBSET Writes,
   blobs : SUBSET Writes, keys : SUBSET KeyVersions]

BackupTypes ==
  /\ keys \in KeyVersions
  /\ archives \in SUBSET BackupRecord /\ bk \in BackupRecord
  /\ target \in Store /\ rs \in [at : {"idle", "database", "blobs"}, from : BackupRecord]
  /\ rsDied \in BOOLEAN

LEMMA EmptyTypes ==
  /\ NoFile \in DbFile /\ Blank \in DbFile /\ NoDir \in BlobDir /\ NoStore \in Store
  /\ NoOp \in Operation /\ NoBackup \in BackupRecord
<1>1. NoFile \in DbFile /\ Blank \in DbFile /\ NoDir \in BlobDir
  BY DEF NoFile, Blank, NoDir, DbFile, BlobDir
<1>2. NoStore \in Store
  BY <1>1 DEF NoStore, Store
<1>3. NoOp \in Operation
  BY <1>2 DEF NoOp, Operation, Names, Places
<1> QED BY <1>1, <1>2, <1>3 DEF NoBackup, BackupRecord

(* A store whose parts are given. *)
LEMMA StoreParts ==
  ASSUME NEW s \in Store
  PROVE  /\ s.db \in DbFile /\ s.wal \in SUBSET Writes /\ s.blobs \in BlobDir
         /\ s = [db |-> s.db, wal |-> s.wal, blobs |-> s.blobs]
         /\ s.db.rows \in SUBSET Writes /\ s.db.there \in BOOLEAN /\ s.db.tables \in BOOLEAN
         /\ s.db.ledger \in Nat
         /\ s.db = [there |-> s.db.there, rows |-> s.db.rows, tables |-> s.db.tables,
                    ledger |-> s.db.ledger]
         /\ s.blobs.files \in SUBSET Writes /\ s.blobs.there \in BOOLEAN
         /\ s.blobs = [there |-> s.blobs.there, files |-> s.blobs.files]
         /\ Rows(s) \in SUBSET Writes /\ Dangling(s) \in SUBSET Writes
  BY DEF Store, DbFile, BlobDir, Rows, Dangling

LEMMA OpenedParts ==
  ASSUME NEW s \in Store
  PROVE  /\ Opened(s) \in Store
         /\ Opened(s).db.rows = s.db.rows /\ Opened(s).wal = s.wal
         /\ Opened(s).blobs.files = s.blobs.files
         /\ Opened(s).db.there /\ Opened(s).db.tables /\ Opened(s).blobs.there
<1> DEFINE d == [s.db EXCEPT !.there = TRUE, !.tables = TRUE]
           b == [s.blobs EXCEPT !.there = TRUE]
<1>1. d \in DbFile /\ d.rows = s.db.rows /\ d.there /\ d.tables
  BY StoreParts DEF DbFile
<1>2. b \in BlobDir /\ b.there /\ b.files = s.blobs.files
  BY StoreParts DEF BlobDir
<1>3. Opened(s) = [s EXCEPT !.db = d, !.blobs = b]
  BY DEF Opened
<1> HIDE DEF d, b
<1>4. /\ Opened(s) \in Store /\ Opened(s).db = d /\ Opened(s).wal = s.wal
      /\ Opened(s).blobs = b
  BY <1>1, <1>2, <1>3 DEF Store
<1> QED BY <1>1, <1>2, <1>4

LEMMA MigratedParts ==
  ASSUME NEW f \in DbFile, NEW c \in Nat
  PROVE  /\ Migrated(f, c) \in DbFile /\ Migrated(f, c).rows = f.rows
         /\ Migrated(f, c).there = f.there /\ Migrated(f, c).tables = f.tables
  BY DEF Migrated, DbFile

LEMMA DbReplaced ==
  ASSUME NEW s \in Store, NEW f \in DbFile
  PROVE  /\ [s EXCEPT !.db = f] \in Store
         /\ [s EXCEPT !.db = f].db = f /\ [s EXCEPT !.db = f].wal = s.wal
         /\ [s EXCEPT !.db = f].blobs = s.blobs
  BY DEF Store

LEMMA WalReplaced ==
  ASSUME NEW s \in Store, NEW w \in SUBSET Writes
  PROVE  /\ [s EXCEPT !.wal = w] \in Store
         /\ [s EXCEPT !.wal = w].db = s.db /\ [s EXCEPT !.wal = w].wal = w
         /\ [s EXCEPT !.wal = w].blobs = s.blobs
  BY DEF Store

LEMMA BlobsReplaced ==
  ASSUME NEW s \in Store, NEW b \in BlobDir
  PROVE  /\ [s EXCEPT !.blobs = b] \in Store
         /\ [s EXCEPT !.blobs = b].db = s.db /\ [s EXCEPT !.blobs = b].wal = s.wal
         /\ [s EXCEPT !.blobs = b].blobs = b
  BY DEF Store

------------------------------------------------------------------------------
(* Servers.  What a step of theirs does to the store, whatever command is   *)
(* under way: rows and blobs stay, and writes that become acknowledged are  *)
(* in the log, or late.                                                     *)

EmptyFiles ==
  /\ ~live.db.there => live.db.rows = {}
  /\ ~aside.db.there => aside.db.rows = {}

JobsStored == \A s \in Servers : pc[s] = "stored" => job[s] \subseteq live.blobs.files \cup late

Grows(new) ==
  /\ acked' = acked \cup new /\ copied' = copied
  /\ since' = IF copied THEN since \cup new ELSE since
  /\ late \subseteq late' /\ late' \subseteq late \cup new
  /\ new \subseteq live.blobs.files \cup late
  /\ live'.wal \subseteq live.wal \cup new
  /\ live.blobs.files \subseteq live'.blobs.files
  /\ live.blobs.there => live'.blobs.there
  /\ aside'.db.rows = aside.db.rows /\ aside'.db.there = aside.db.there
  /\ aside'.db.tables = aside.db.tables /\ aside'.blobs = aside.blobs
  /\ aside.wal \subseteq aside'.wal /\ aside'.wal \subseteq aside.wal \cup (new \cap late')
  /\ beside' = "foreign" <=> beside = "foreign"
  /\ beside = "foreign" => new \subseteq late'
  /\ beside # "foreign" =>
       /\ new \subseteq live'.wal \cup late'
       /\ live.db.rows \subseteq live'.db.rows
       /\ live'.db.rows \subseteq live.db.rows \cup live.wal
       /\ live.wal \subseteq live'.db.rows \cup live'.wal
       /\ live.db.there /\ live.db.tables => live'.db.there /\ live'.db.tables

ServersKeep == StoreTypes' /\ EmptyFiles' /\ JobsStored' /\ \E new \in SUBSET Writes : Grows(new)

LEMMA ServeStep ==
  ASSUME StoreTypes, EmptyFiles, JobsStored, Serve
  PROVE  ServersKeep
<1>t. live \in Store /\ aside \in Store
  BY DEF StoreTypes
<1>p. /\ live.db \in DbFile /\ live.wal \in SUBSET Writes /\ live.blobs \in BlobDir
      /\ aside.db \in DbFile /\ aside.wal \in SUBSET Writes /\ aside.blobs \in BlobDir
      /\ live.db.rows \in SUBSET Writes /\ live.blobs.files \in SUBSET Writes
  BY <1>t, StoreParts
<1>0. ASSUME live' \in Store, live'.db.rows = live.db.rows, live'.wal = live.wal,
             live.blobs.files \subseteq live'.blobs.files,
             live.blobs.there => live'.blobs.there,
             live.db.there /\ live.db.tables => live'.db.there /\ live'.db.tables,
             aside' \in Store, aside'.db.rows = aside.db.rows,
             aside'.db.there = aside.db.there, aside'.db.tables = aside.db.tables,
             aside'.blobs = aside.blobs, aside'.wal = aside.wal,
             UNCHANGED <<acked, copied, since, late>>, beside' = beside \/ Opening
      PROVE  Grows({})
  BY <1>0 DEF Grows, Opening
<1>1. ASSUME NEW s \in Servers, Start(s) PROVE ServersKeep
  <2>2. /\ live' = Opened(live) /\ pc' = [pc EXCEPT ![s] = "opened"]
        /\ conn' = [conn EXCEPT ![s] = "live"]
        /\ UNCHANGED <<aside, job, acked, copied, since, late>> /\ Opening
    BY <1>1 DEF Start
  <2>3. StoreTypes'
    BY <1>t, <2>2, OpenedParts DEF StoreTypes, Opening
  <2>4. Grows({})
    BY <1>0, <1>t, <2>2, OpenedParts
  <2>5. EmptyFiles'
    BY <1>t, <2>2, OpenedParts DEF EmptyFiles
  <2>6. JobsStored'
    BY <1>t, <2>2, OpenedParts DEF JobsStored, StoreTypes
  <2> QED BY <2>3, <2>4, <2>5, <2>6 DEF ServersKeep
<1>2. ASSUME NEW s \in Servers, Serving(s) PROVE ServersKeep
  <2>a. PICK c \in Codes :
          /\ live' = IF conn[s] = "live" THEN [live EXCEPT !.db = Migrated(live.db, c)] ELSE live
          /\ aside' = IF conn[s] = "aside" THEN [aside EXCEPT !.db = Migrated(aside.db, c)]
                      ELSE aside
    BY <1>2 DEF Serving
  <2>c. c \in Nat
    BY CodesAssumption
  <2>1. /\ live' = IF conn[s] = "live" THEN [live EXCEPT !.db = Migrated(live.db, c)] ELSE live
        /\ aside' = IF conn[s] = "aside" THEN [aside EXCEPT !.db = Migrated(aside.db, c)]
                    ELSE aside
        /\ pc' = [pc EXCEPT ![s] = "up"] /\ conn' = [conn EXCEPT ![s] = "none"]
        /\ UNCHANGED <<beside, job, acked, copied, since, late>>
    BY <1>2, <2>a DEF Serving
  <2>2. /\ live' \in Store /\ live'.db.rows = live.db.rows /\ live'.wal = live.wal
        /\ live'.blobs = live.blobs /\ live'.db.there = live.db.there
        /\ live'.db.tables = live.db.tables
    BY <1>t, <1>p, <2>1, <2>c, MigratedParts, DbReplaced
  <2>3. /\ aside' \in Store /\ aside'.db.rows = aside.db.rows /\ aside'.wal = aside.wal
        /\ aside'.blobs = aside.blobs /\ aside'.db.there = aside.db.there
        /\ aside'.db.tables = aside.db.tables
    BY <1>t, <1>p, <2>1, <2>c, MigratedParts, DbReplaced
  <2>4. StoreTypes'
    BY <2>1, <2>2, <2>3 DEF StoreTypes
  <2>5. Grows({})
    BY <1>0, <2>1, <2>2, <2>3
  <2>6. EmptyFiles' /\ JobsStored'
    BY <2>1, <2>2, <2>3 DEF EmptyFiles, JobsStored, StoreTypes
  <2> QED BY <2>4, <2>5, <2>6 DEF ServersKeep
<1>3. ASSUME NEW s \in Servers, Stop(s) PROVE ServersKeep
  <2>1. /\ UNCHANGED <<live, beside, aside, acked, copied, since, late>>
        /\ pc' = [pc EXCEPT ![s] = "off"] /\ conn' = [conn EXCEPT ![s] = "none"]
        /\ job' = [job EXCEPT ![s] = {}]
    BY <1>3 DEF Stop
  <2>2. StoreTypes'
    BY <2>1 DEF StoreTypes
  <2>3. Grows({})
    BY <1>0, <1>t, <2>1
  <2>4. EmptyFiles' /\ JobsStored'
    BY <2>1 DEF EmptyFiles, JobsStored, StoreTypes
  <2> QED BY <2>2, <2>3, <2>4 DEF ServersKeep
<1>4. ASSUME NEW s \in Servers, Begin(s) PROVE ServersKeep
  <2>1. PICK w \in Writes : job' = [job EXCEPT ![s] = {w}]
    BY <1>4 DEF Begin
  <2>2. /\ UNCHANGED <<live, aside, acked, copied, since, late>>
        /\ pc' = [pc EXCEPT ![s] = "begun"] /\ conn' = [conn EXCEPT ![s] = "live"] /\ Opening
    BY <1>4 DEF Begin
  <2>3. StoreTypes'
    BY <2>1, <2>2 DEF StoreTypes, Opening
  <2>4. Grows({})
    BY <1>0, <1>t, <2>2
  <2>5. EmptyFiles' /\ JobsStored'
    BY <2>1, <2>2 DEF EmptyFiles, JobsStored, StoreTypes
  <2> QED BY <2>3, <2>4, <2>5 DEF ServersKeep
<1>5. ASSUME NEW s \in Servers, CreateBlank(s) PROVE ServersKeep
  <2>1. /\ live' = [live EXCEPT !.db = Blank] /\ ~live.db.there
        /\ UNCHANGED <<aside, pc, conn, job, acked, copied, since, late>> /\ Opening
    BY <1>5 DEF CreateBlank
  <2>2. /\ live' \in Store /\ live'.db = Blank /\ live'.wal = live.wal /\ live'.blobs = live.blobs
    BY <1>t, <2>1, DbReplaced, EmptyTypes
  <2>3. Blank.rows = {} /\ Blank.there /\ live.db.rows = {}
    BY <2>1 DEF Blank, NoFile, EmptyFiles
  <2>4. StoreTypes'
    BY <2>1, <2>2 DEF StoreTypes, Opening
  <2>5. Grows({})
    BY <1>0, <1>t, <2>1, <2>2, <2>3
  <2>6. EmptyFiles' /\ JobsStored'
    BY <2>1, <2>2, <2>3 DEF EmptyFiles, JobsStored
  <2> QED BY <2>4, <2>5, <2>6 DEF ServersKeep
<1>6. ASSUME NEW s \in Servers, StoreBlob(s) PROVE ServersKeep
  <2> DEFINE b == [there |-> TRUE, files |-> live.blobs.files \cup job[s]]
  <2>1. /\ live' = [live EXCEPT !.blobs = b] /\ pc' = [pc EXCEPT ![s] = "stored"]
        /\ UNCHANGED <<beside, aside, conn, job, acked, copied, since, late>>
    BY <1>6 DEF StoreBlob
  <2>2. b \in BlobDir /\ b.there /\ b.files = live.blobs.files \cup job[s]
    BY <1>p DEF BlobDir, StoreTypes
  <2> HIDE DEF b
  <2>3. live' \in Store /\ live'.db = live.db /\ live'.wal = live.wal /\ live'.blobs = b
    BY <1>t, <2>1, <2>2, BlobsReplaced
  <2>4. StoreTypes'
    BY <2>1, <2>3 DEF StoreTypes
  <2>5. Grows({})
    BY <1>0, <1>t, <2>1, <2>2, <2>3
  <2>6. EmptyFiles' /\ JobsStored'
    BY <2>1, <2>2, <2>3 DEF EmptyFiles, JobsStored, StoreTypes
  <2> QED BY <2>4, <2>5, <2>6 DEF ServersKeep
<1>7. ASSUME NEW s \in Servers, Commit(s) PROVE ServersKeep
  <2>c. job[s] \in SUBSET Writes /\ pc[s] = "stored"
    BY <1>7 DEF StoreTypes, Commit
  <2>1. /\ live' = IF conn[s] = "live" THEN [live EXCEPT !.wal = live.wal \cup job[s]] ELSE live
        /\ aside' = IF conn[s] = "aside" THEN [aside EXCEPT !.wal = aside.wal \cup job[s]] ELSE aside
        /\ acked' = acked \cup job[s] /\ since' = IF copied THEN since \cup job[s] ELSE since
        /\ late' = IF conn[s] = "live" /\ beside # "foreign" THEN late ELSE late \cup job[s]
        /\ pc' = [pc EXCEPT ![s] = "up"] /\ conn' = [conn EXCEPT ![s] = "none"]
        /\ job' = [job EXCEPT ![s] = {}] /\ UNCHANGED <<beside, copied>>
    BY <1>7 DEF Commit
  <2>2. /\ live' \in Store /\ live'.db = live.db /\ live'.blobs = live.blobs
        /\ live'.wal = IF conn[s] = "live" THEN live.wal \cup job[s] ELSE live.wal
    BY <1>t, <1>p, <2>1, <2>c, WalReplaced
  <2>3. /\ aside' \in Store /\ aside'.db = aside.db /\ aside'.blobs = aside.blobs
        /\ aside'.wal = IF conn[s] = "aside" THEN aside.wal \cup job[s] ELSE aside.wal
    BY <1>t, <1>p, <2>1, <2>c, WalReplaced
  <2>4. StoreTypes'
    BY <2>1, <2>2, <2>3, <2>c DEF StoreTypes
  <2>5. job[s] \subseteq live.blobs.files \cup late
    BY <2>c DEF JobsStored
  <2>6. Grows(job[s])
    BY <2>1, <2>2, <2>3, <2>5 DEF Grows
  <2>7. EmptyFiles' /\ JobsStored'
    BY <2>1, <2>2, <2>3 DEF EmptyFiles, JobsStored, StoreTypes
  <2> QED BY <2>4, <2>6, <2>7, <2>c DEF ServersKeep
<1>8. CASE Checkpoint
  <2>1. /\ live' = [live EXCEPT !.db.rows = live.db.rows \cup live.wal, !.wal = {}] /\ live.db.there
        /\ UNCHANGED <<beside, aside, pc, conn, job, acked, copied, since, late>>
    BY <1>8 DEF Checkpoint
  <2> DEFINE d == [live.db EXCEPT !.rows = live.db.rows \cup live.wal]
  <2>2. /\ d \in DbFile /\ d.rows = live.db.rows \cup live.wal
        /\ d.there = live.db.there /\ d.tables = live.db.tables
    BY <1>p DEF DbFile
  <2>w. live' = [live EXCEPT !.db = d, !.wal = {}]
    BY <2>1
  <2> HIDE DEF d
  <2>3. /\ live' \in Store /\ live'.db.rows = live.db.rows \cup live.wal /\ live'.wal = {}
        /\ live'.blobs = live.blobs /\ live'.db.there = live.db.there
        /\ live'.db.tables = live.db.tables
    BY <1>t, <1>p, <2>2, <2>w DEF Store
  <2>4. StoreTypes'
    BY <2>1, <2>3 DEF StoreTypes
  <2>5. Grows({})
    BY <2>1, <2>3 DEF Grows
  <2>6. EmptyFiles' /\ JobsStored'
    BY <2>1, <2>3 DEF EmptyFiles, JobsStored
  <2> QED BY <2>4, <2>5, <2>6 DEF ServersKeep
<1>9. CASE Spoil
  <2>1. PICK kept \in SUBSET Rows(live) : live' = [live EXCEPT !.db.rows = kept, !.wal = {}]
    BY <1>9 DEF Spoil
  <2>2. /\ beside = "foreign" /\ live.db.there
        /\ UNCHANGED <<beside, aside, pc, conn, job, acked, copied, since, late>>
    BY <1>9 DEF Spoil
  <2>k. kept \in SUBSET Writes
    BY <1>t, StoreParts
  <2> DEFINE d == [live.db EXCEPT !.rows = kept]
  <2>3. d \in DbFile /\ d.there = live.db.there
    BY <1>p, <2>k DEF DbFile
  <2>w. live' = [live EXCEPT !.db = d, !.wal = {}]
    BY <2>1
  <2> HIDE DEF d
  <2>4. live' \in Store /\ live'.wal = {} /\ live'.blobs = live.blobs /\ live'.db.there
    BY <1>t, <2>2, <2>3, <2>w DEF Store
  <2>5. StoreTypes'
    BY <2>2, <2>4 DEF StoreTypes
  <2>6. Grows({})
    BY <2>2, <2>4 DEF Grows
  <2>7. EmptyFiles' /\ JobsStored'
    BY <2>2, <2>4 DEF EmptyFiles, JobsStored
  <2> QED BY <2>5, <2>6, <2>7 DEF ServersKeep
<1> QED BY <1>1, <1>2, <1>3, <1>4, <1>5, <1>6, <1>7, <1>8, <1>9 DEF Serve

------------------------------------------------------------------------------
(* The command.                                                            *)

Stores == {s.store : s \in snapshots}
Kept == UNION {Rows(s.store) : s \in snapshots}

(* Where the command is tells what it has: a copy published before the     *)
(* store is touched, and for a switch something to put in.                 *)
Phases ==
  /\ copied <=> op.at \notin {"idle", "database"}
  /\ ~At("idle") => op.kind # "none"
  /\ op.at \in {"log"} \cup Switching => op.kind = "rollback" \/ op.failing
  /\ op.kind = "rollback" \/ op.failing => op.next \in Stores
  /\ op.at \in After => op.copy \in Stores

CopyOf ==
  /\ op.copy.wal = {}
  /\ At("blobs") => Rows(op.copy) \ live.blobs.files \subseteq op.missing
  /\ At("publish") => Dangling(op.copy) \subseteq op.missing

SnapshotsWell ==
  \A s \in snapshots :
    /\ s.store.db.there /\ s.store.db.tables /\ s.store.blobs.there /\ s.store.wal = {}
    /\ Dangling(s.store) \subseteq s.missing
    /\ ~broken => s.missing \subseteq late
MissingLate == ~broken => op.missing \subseteq late

(* A foreign log is known for one, and nothing is expected of the store    *)
(* it is beside.                                                            *)
Held == IF beside = "foreign" THEN {} ELSE Rows(live)

(* Every acknowledged write is where it can be found again. *)
Unkept == acked \ (late \cup since)
Accounted ==
  /\ beside = "foreign" => broken
  /\ op.at \notin Switching => acked \ late \subseteq Held \cup Kept
  /\ copied => Unkept \subseteq Rows(op.copy) \cup Kept
  /\ copied /\ ~broken => Unkept \ op.gone \subseteq Rows(op.copy)

(* What would be live if the command failed now, and the writes that the   *)
(* failure would make late.                                                *)
Back == IF op.at \in Switching THEN Undone ELSE live
Lost == IF op.at \in Switching THEN late \cup since ELSE late
BackWhole ==
  ~broken =>
    /\ Back.db.there /\ Back.db.tables /\ Back.blobs.there
    /\ Dangling(Back) \subseteq Lost
    /\ acked \ (Lost \cup dropped) \subseteq Rows(Back)

PutIn ==
  /\ op.at \in Switching => live.wal \subseteq since
  /\ op.at \in {"old blobs", "new blobs"} /\ ~broken =>
       /\ live.db.there /\ live.db.tables
       /\ op.next.db.rows \subseteq live.db.rows
       /\ live.db.rows \subseteq op.next.db.rows \cup since

DeployInv ==
  /\ Phases /\ CopyOf /\ SnapshotsWell /\ MissingLate
  /\ Accounted /\ BackWhole /\ PutIn

(* No step of a server disturbs a command. *)
LEMMA DeployBesideServers ==
  ASSUME StoreTypes, DeployInv, NEW new \in SUBSET Writes, Grows(new), UNCHANGED deployVars
  PROVE  DeployInv'
<1>t. /\ live \in Store /\ aside \in Store /\ late \in SUBSET Writes /\ since \in SUBSET Writes
  BY DEF StoreTypes
<1>u. UNCHANGED <<op, snapshots, dropped, broken, active>>
  BY DEF deployVars
<1>r. /\ Rows(live) = live.db.rows \cup live.wal /\ Rows(live') = live'.db.rows \cup live'.wal
      /\ Dangling(live) = Rows(live) \ live.blobs.files
      /\ Dangling(live') = Rows(live') \ live'.blobs.files
  BY DEF Rows, Dangling
<1>1. Phases'
  BY <1>u DEF Grows, DeployInv, Phases, Stores, At, Switching, After
<1>2. CopyOf'
  BY <1>u DEF Grows, DeployInv, CopyOf, At
<1>3. SnapshotsWell' /\ MissingLate'
  BY <1>u DEF Grows, DeployInv, SnapshotsWell, MissingLate
<1>4. Accounted'
  <2>1. Kept' = Kept /\ Rows(op.copy)' = Rows(op.copy)
    BY <1>u DEF Kept
  <2>2. ASSUME op.at \notin Switching PROVE acked' \ late' \subseteq Held' \cup Kept
    <3>1. acked \ late \subseteq Held \cup Kept
      BY <2>2 DEF DeployInv, Accounted
    <3>2. CASE beside = "foreign"
      BY <3>1, <3>2 DEF Grows, Held
    <3>3. CASE beside # "foreign"
      <4>1. Held = Rows(live) /\ Held' = Rows(live')
        BY <3>3 DEF Grows, Held
      <4> QED BY <1>r, <3>1, <3>3, <4>1 DEF Grows
    <3> QED BY <3>2, <3>3
  <2>3. copied => Unkept' \subseteq Unkept
    BY DEF Grows, Unkept
  <2>4. beside' = "foreign" => broken'
    BY <1>u DEF Grows, DeployInv, Accounted
  <2> QED BY <1>u, <2>1, <2>2, <2>3, <2>4 DEF Grows, DeployInv, Accounted
<1>5. BackWhole'
  <2>0. CASE broken
    BY <1>u, <2>0 DEF BackWhole
  <2>f. ~broken => beside # "foreign"
    BY DEF DeployInv, Accounted
  <2>1. CASE ~broken /\ op.at \notin Switching
    <3>1. Back = live /\ Back' = live' /\ Lost = late /\ Lost' = late'
      BY <1>u, <2>1 DEF Back, Lost
    <3>2. /\ live.db.there /\ live.db.tables /\ live.blobs.there
          /\ Dangling(live) \subseteq late /\ acked \ (late \cup dropped) \subseteq Rows(live)
      BY <2>1, <3>1 DEF DeployInv, BackWhole
    <3>3. /\ live'.db.there /\ live'.db.tables /\ live'.blobs.there
          /\ Dangling(live') \subseteq late' /\ acked' \ (late' \cup dropped) \subseteq Rows(live')
      BY <1>r, <2>1, <2>f, <3>2 DEF Grows
    <3> QED BY <1>u, <3>1, <3>3 DEF BackWhole
  <2>2. CASE ~broken /\ op.at \in Switching
    <3>1. copied /\ live.wal \subseteq since
      BY <2>2 DEF DeployInv, Phases, PutIn, Switching
    <3>2. Back = Undone /\ Back' = Undone' /\ Lost = late \cup since /\ Lost' = late' \cup since'
      BY <1>u, <2>2 DEF Back, Lost
    <3>3. /\ Rows(Undone) = Undone.db.rows \cup Undone.wal
          /\ Rows(Undone)' = Undone'.db.rows \cup Undone'.wal
          /\ Dangling(Undone) = Rows(Undone) \ Undone.blobs.files
          /\ Dangling(Undone)' = Rows(Undone)' \ Undone'.blobs.files
      BY DEF Rows, Dangling
    <3>4. /\ Undone.db.rows \subseteq Undone'.db.rows
          /\ Undone'.db.rows \subseteq Undone.db.rows \cup since
      BY <1>u, <2>2, <2>f, <3>1 DEF Undone, Grows
    <3>w. /\ Undone.wal \subseteq Undone'.wal \cup since
          /\ Undone'.wal \subseteq Undone.wal \cup late' \cup since'
      <4>1. CASE op.logged
        BY <1>u, <4>1 DEF Undone, Grows
      <4>2. CASE ~op.logged
        BY <1>u, <3>1, <4>2 DEF Undone, Grows
      <4> QED BY <4>1, <4>2
    <3>5. /\ Undone.blobs.files \subseteq Undone'.blobs.files
          /\ Undone.blobs.there => Undone'.blobs.there
          /\ Undone.db.there /\ Undone.db.tables => Undone'.db.there /\ Undone'.db.tables
      BY <1>u, <2>2, <2>f DEF Undone, Grows
    <3>6. /\ Undone.db.there /\ Undone.db.tables /\ Undone.blobs.there
          /\ Dangling(Undone) \subseteq late \cup since
          /\ acked \ (late \cup since \cup dropped) \subseteq Rows(Undone)
      BY <2>2, <3>2 DEF DeployInv, BackWhole
    <3>7. acked' = acked \cup new /\ since' = since \cup new /\ late \subseteq late'
      BY <3>1 DEF Grows
    <3>8. /\ Undone'.db.there /\ Undone'.db.tables /\ Undone'.blobs.there
          /\ Dangling(Undone)' \subseteq late' \cup since'
          /\ acked' \ (late' \cup since' \cup dropped) \subseteq Rows(Undone)'
      BY <3>3, <3>4, <3>w, <3>5, <3>6, <3>7
    <3> QED BY <1>u, <3>2, <3>8 DEF BackWhole
  <2> QED BY <2>0, <2>1, <2>2
<1>6. PutIn'
  <2>f. ~broken => beside # "foreign"
    BY DEF DeployInv, Accounted
  <2>1. op.at \in Switching => copied
    BY DEF DeployInv, Phases, Switching
  <2>2. op.at \in {"old blobs", "new blobs"} => op.at \in Switching
    BY DEF Switching
  <2> QED BY <1>u, <2>f, <2>1, <2>2 DEF Grows, DeployInv, PutIn
<1> QED BY <1>1, <1>2, <1>3, <1>4, <1>5, <1>6 DEF DeployInv

------------------------------------------------------------------------------
StateInv == StoreTypes /\ DeployTypes /\ EmptyFiles /\ JobsStored /\ DeployInv

LEMMA OpParts ==
  ASSUME NEW o \in Operation
  PROVE  /\ o.at \in Places /\ o.kind \in {"none", "upgrade", "rollback"} /\ o.code \in Nat
         /\ o.to \in Names /\ o.copy \in Store /\ o.missing \in SUBSET Writes
         /\ o.gone \in SUBSET Writes /\ o.next \in Store /\ o.failing \in BOOLEAN
         /\ o.logged \in BOOLEAN
  BY DEF Operation

LEMMA Went ==
  ASSUME op \in Operation, NEW place \in Places, Goto(place)
  PROVE  /\ op' \in Operation /\ op'.at = place /\ op'.kind = op.kind /\ op'.code = op.code
         /\ op'.to = op.to /\ op'.copy = op.copy /\ op'.missing = op.missing
         /\ op'.gone = op.gone /\ op'.next = op.next /\ op'.failing = op.failing
         /\ op'.logged = op.logged
  BY DEF Operation, Goto

LEMMA FellBack ==
  ASSUME op \in Operation, FallBack
  PROVE  /\ op' \in Operation /\ op'.at = "log" /\ op'.kind = op.kind
         /\ op'.copy = op.copy /\ op'.missing = op.missing /\ op'.gone = op.gone
         /\ op'.next = op.copy /\ op'.failing
  BY DEF Operation, FallBack, Places, After

(* What the retained snapshots are good for. *)
LEMMA StoresWell ==
  ASSUME DeployTypes, SnapshotsWell, NEW s \in Stores
  PROVE  /\ s \in Store /\ s.db.there /\ s.db.tables /\ s.blobs.there /\ s.wal = {}
         /\ Rows(s) = s.db.rows /\ Rows(s) \subseteq Kept
         /\ ~broken => Dangling(s) \subseteq late
<1>1. PICK t \in snapshots : s = t.store
  BY DEF Stores
<1>2. t.store \in Store
  BY DEF DeployTypes, Snapshot
<1>3. Rows(s) \subseteq Kept
  BY <1>1 DEF Kept
<1> QED BY <1>1, <1>2, <1>3 DEF SnapshotsWell, Rows

LEMMA StoreStood ==
  ASSUME StoreTypes, EmptyFiles, JobsStored,
         UNCHANGED <<live, aside, pc, conn, job, acked, late>>,
         beside' \in {"own", "moved", "fresh", "foreign"}, copied' \in BOOLEAN, since' \in SUBSET Writes
  PROVE  StoreTypes' /\ EmptyFiles' /\ JobsStored'
  BY DEF StoreTypes, EmptyFiles, JobsStored

(* The command ends before a switch, or after one. *)
LEMMA Ended ==
  ASSUME DeployInv, op.at \notin Switching, End,
         UNCHANGED <<live, acked, late, snapshots, dropped, broken>>,
         beside' = "foreign" <=> beside = "foreign"
  PROVE  DeployInv'
<1>1. /\ op' = NoOp /\ copied' = FALSE /\ since' = {}
      /\ NoOp.at = "idle" /\ NoOp.kind = "none" /\ NoOp.failing = FALSE /\ NoOp.missing = {}
      /\ NoOp.copy = NoStore /\ NoStore.wal = {}
  BY DEF End, NoOp, NoStore
<1>2. "idle" \notin Switching /\ "idle" \notin After /\ "idle" \notin {"log"} \cup Switching
  BY DEF Switching, After
<1>3. Kept' = Kept
  BY DEF Kept
<1>4. Phases' /\ CopyOf' /\ PutIn' /\ MissingLate'
  BY <1>1, <1>2 DEF Phases, CopyOf, PutIn, MissingLate, At
<1>5. SnapshotsWell'
  BY DEF DeployInv, SnapshotsWell
<1>6. Accounted'
  BY <1>1, <1>2, <1>3 DEF DeployInv, Accounted, Held, Rows
<1>7. BackWhole'
  <2>1. Back = live /\ Lost = late /\ Back' = live /\ Lost' = late
    BY <1>1, <1>2 DEF Back, Lost
  <2> QED BY <2>1 DEF DeployInv, BackWhole, Rows, Dangling
<1> QED BY <1>4, <1>5, <1>6, <1>7 DEF DeployInv

(* The command leaves a switch that it does not complete: it ends, or falls *)
(* back to the copy it took.                                                *)
LEMMA SwitchLeft ==
  ASSUME StateInv, op.at \in Switching,
         UNCHANGED <<acked, snapshots, dropped>>,
         late \cup since \subseteq late', beside' = "foreign" => broken',
         ~broken' => ~broken /\ live' = Undone,
         End \/ (FallBack /\ UNCHANGED <<copied, since>>)
  PROVE  DeployInv'
<1>0. DeployTypes /\ DeployInv /\ op \in Operation
  BY DEF StateInv, DeployTypes
<1>1. \/ /\ op' = NoOp /\ op'.at = "idle" /\ op'.kind = "none" /\ op'.failing = FALSE
         /\ op'.missing = {} /\ op'.copy.wal = {} /\ copied' = FALSE
      \/ /\ op'.at = "log" /\ op'.failing /\ op'.next = op.copy /\ op'.copy = op.copy
         /\ op'.kind = op.kind /\ op'.missing = op.missing /\ op'.gone = op.gone
         /\ copied' = copied /\ since' = since
  BY <1>0, FellBack DEF End, NoOp, NoStore
<1>2. op'.at \notin Switching /\ (op'.at \in After => op'.at = "log")
  BY <1>1 DEF Switching, After
<1>3. Kept' = Kept /\ Stores' = Stores
  BY DEF Kept, Stores
<1>4. copied /\ op.copy \in Stores /\ op.kind # "none"
  BY <1>0 DEF DeployInv, Phases, Switching, After, At
<1>5. Rows(op.copy) \subseteq Kept
  BY <1>0, <1>4, StoresWell DEF DeployInv
<1>6. Phases'
  BY <1>1, <1>2, <1>3, <1>4 DEF Phases, At
<1>7. CopyOf' /\ PutIn'
  BY <1>0, <1>1, <1>2 DEF CopyOf, PutIn, At, DeployInv, Switching
<1>8. SnapshotsWell' /\ MissingLate'
  BY <1>0, <1>1 DEF SnapshotsWell, MissingLate, DeployInv
<1>9. Accounted'
  <2>1. Unkept \subseteq Kept
    BY <1>0, <1>4, <1>5 DEF DeployInv, Accounted
  <2>2. acked' \ late' \subseteq Kept
    BY <2>1 DEF Unkept
  <2>3. copied' => Unkept' \subseteq Unkept /\ op'.copy = op.copy /\ op'.gone = op.gone
    BY <1>1 DEF Unkept
  <2> QED BY <1>0, <1>3, <1>4, <2>2, <2>3 DEF DeployInv, Accounted
<1>a. BackWhole'
  <2>1. SUFFICES ASSUME ~broken'
                 PROVE  BackWhole'
    BY DEF BackWhole
  <2>2. Back = Undone /\ Back' = Undone /\ Lost = late \cup since /\ Lost' = late'
    BY <1>2, <2>1 DEF Back, Lost
  <2>3. Rows(Back)' = Rows(Back) /\ Dangling(Back)' = Dangling(Back)
    BY <2>2 DEF Rows, Dangling
  <2> QED BY <1>0, <2>1, <2>2, <2>3 DEF DeployInv, BackWhole
<1> QED BY <1>6, <1>7, <1>8, <1>9, <1>a DEF DeployInv

------------------------------------------------------------------------------
(* Steps of the command that leave the store as it is. *)

LEMMA CommandBegins ==
  ASSUME StateInv, At("idle"), UNCHANGED <<live, beside, aside, acked, copied, since, late, snapshots, dropped, broken>>,
         op'.at = "database", op'.kind # "none", op'.kind = "rollback" => op'.next \in Stores,
         ~op'.failing, op'.copy = NoStore, op'.missing = {}
  PROVE  DeployInv'
<1>1. NoStore.wal = {}
  BY DEF NoStore
<1>2. Kept' = Kept /\ Stores' = Stores
  BY DEF Kept, Stores
<1>3. op.at = "idle" /\ ~copied /\ "idle" \notin Switching /\ "database" \notin Switching
  BY DEF StateInv, DeployInv, Phases, At, Switching
<1>4. Phases' /\ CopyOf' /\ PutIn' /\ MissingLate'
  BY <1>1, <1>2, <1>3 DEF Phases, CopyOf, PutIn, MissingLate, At, After, Switching
<1>5. SnapshotsWell'
  BY DEF StateInv, DeployInv, SnapshotsWell
<1>6. Accounted'
  BY <1>2, <1>3 DEF StateInv, DeployInv, Accounted, Held, Rows
<1>7. BackWhole'
  <2>1. Back = live /\ Lost = late /\ Back' = live /\ Lost' = late
    BY <1>3 DEF Back, Lost
  <2> QED BY <2>1 DEF StateInv, DeployInv, BackWhole, Rows, Dangling
<1> QED BY <1>4, <1>5, <1>6, <1>7 DEF DeployInv

LEMMA CommandStep ==
  ASSUME StateInv, NEW c \in Codes, NEW v \in Versions, InitState(c, v) \/ Upgrade(c, v) \/ Rollback(c, v)
  PROVE  StateInv'
<1>t. StoreTypes /\ DeployTypes /\ EmptyFiles /\ JobsStored /\ DeployInv /\ At("idle")
  BY DEF StateInv, InitState, Upgrade, Rollback, Command
<1>c. c \in Nat /\ v \in Names
  BY CodesAssumption DEF Names
<1>s. StoreTypes' /\ EmptyFiles' /\ JobsStored'
  <2>1. UNCHANGED <<live, beside, aside, pc, conn, job, acked, copied, since, late>>
    BY DEF InitState, Upgrade, Rollback, storeVars
  <2> QED BY <1>t, <2>1, StoreStood DEF StoreTypes
<1>1. CASE InitState(c, v)
  <2>1. /\ UNCHANGED <<live, beside, aside, acked, copied, since, late, snapshots, op, dropped, broken>>
        /\ active' = v
    BY <1>1 DEF InitState, storeVars
  <2>2. DeployTypes'
    BY <1>t, <1>c, <2>1 DEF DeployTypes
  <2>3. DeployInv'
    <3>1. Kept' = Kept /\ Stores' = Stores /\ Back' = Back /\ Lost' = Lost /\ Unkept' = Unkept
      BY <2>1 DEF Kept, Stores, Back, Undone, Lost, Unkept
    <3>2. Phases' /\ CopyOf' /\ PutIn' /\ MissingLate' /\ SnapshotsWell'
      BY <1>t, <2>1, <3>1 DEF DeployInv, Phases, CopyOf, PutIn, MissingLate, SnapshotsWell, At
    <3>3. Accounted' /\ BackWhole'
      BY <1>t, <2>1, <3>1 DEF DeployInv, Accounted, BackWhole, Held, Rows, Dangling
    <3> QED BY <3>2, <3>3 DEF DeployInv
  <2> QED BY <1>s, <2>2, <2>3 DEF StateInv
<1>2. CASE Upgrade(c, v)
  <2>1. /\ op' = [NoOp EXCEPT !.at = "database", !.kind = "upgrade", !.code = c, !.to = v]
        /\ UNCHANGED <<live, beside, aside, acked, copied, since, late, active, snapshots, dropped, broken>>
    BY <1>2 DEF Upgrade
  <2>2. /\ op' \in Operation /\ op'.at = "database" /\ op'.kind = "upgrade"
        /\ op'.copy = NoStore /\ op'.missing = {} /\ ~op'.failing
    BY <1>c, <2>1, EmptyTypes DEF NoOp, Operation, Places
  <2>3. DeployInv'
    BY <1>t, <2>1, <2>2, CommandBegins
  <2>4. DeployTypes'
    BY <1>t, <2>1, <2>2 DEF DeployTypes
  <2> QED BY <1>s, <2>3, <2>4 DEF StateInv
<1>3. CASE Rollback(c, v)
  <2>1. PICK s \in snapshots :
          op' = [NoOp EXCEPT !.at = "database", !.kind = "rollback", !.code = c, !.to = v,
                             !.next = s.store]
    BY <1>3 DEF Rollback
  <2>2. UNCHANGED <<live, beside, aside, acked, copied, since, late, active, snapshots, dropped, broken>>
    BY <1>3 DEF Rollback
  <2>3. s.store \in Stores /\ s.store \in Store
    BY <1>t DEF Stores, DeployTypes, Snapshot
  <2>4. /\ op' \in Operation /\ op'.at = "database" /\ op'.kind = "rollback"
        /\ op'.next = s.store
        /\ op'.copy = NoStore /\ op'.missing = {} /\ ~op'.failing
    BY <1>c, <2>1, <2>3, EmptyTypes DEF NoOp, Operation, Places
  <2>5. DeployInv'
    BY <1>t, <2>2, <2>3, <2>4, CommandBegins
  <2>6. DeployTypes'
    BY <1>t, <2>2, <2>4 DEF DeployTypes
  <2> QED BY <1>s, <2>5, <2>6 DEF StateInv
<1> QED BY <1>1, <1>2, <1>3

(* The copy that is taken holds what the store held, and misses no blob    *)
(* that the store had.                                                     *)
LEMMA CopyDatabaseStep ==
  ASSUME StateInv, CopyDatabase
  PROVE  StateInv'
<1>t. /\ StoreTypes /\ DeployTypes /\ EmptyFiles /\ JobsStored /\ DeployInv
      /\ op \in Operation /\ live \in Store /\ op.at = "database"
  BY DEF StateInv, StoreTypes, DeployTypes, CopyDatabase, At
<1>p. /\ live.db \in DbFile /\ Rows(live) \in SUBSET Writes /\ Dangling(live) \in SUBSET Writes
      /\ op.copy \in Store /\ dropped \in SUBSET Writes
  BY <1>t, StoreParts, OpParts DEF DeployTypes
<1> DEFINE k == [op.copy EXCEPT !.db = Image(live)]
<1>k. /\ k \in Store /\ k.wal = {} /\ k.blobs = op.copy.blobs /\ Rows(k) = Rows(live)
  <2>1. Image(live) \in DbFile /\ Image(live).rows = Rows(live)
    BY <1>p DEF Image, DbFile
  <2>2. op.copy.wal = {}
    BY <1>t DEF DeployInv, CopyOf
  <2>3. k \in Store /\ k.db = Image(live) /\ k.wal = {} /\ k.blobs = op.copy.blobs
    BY <1>p, <2>1, <2>2, DbReplaced
  <2> QED BY <2>1, <2>3 DEF Rows
<1>1. /\ op' = [op EXCEPT !.at = "blobs", !.copy = k, !.missing = Dangling(live), !.gone = dropped]
      /\ copied' = TRUE
      /\ UNCHANGED <<live, beside, aside, pc, conn, job, acked, since, late>>
      /\ UNCHANGED <<active, snapshots, dropped, broken>>
  BY DEF CopyDatabase
<1> HIDE DEF k
<1>2. /\ op' \in Operation /\ op'.at = "blobs" /\ op'.copy = k /\ op'.missing = Dangling(live)
      /\ op'.gone = dropped /\ op'.kind = op.kind /\ op'.next = op.next
      /\ op'.failing = op.failing
  BY <1>t, <1>p, <1>k, <1>1 DEF Operation, Places
<1>3. StoreTypes' /\ EmptyFiles' /\ JobsStored'
  BY <1>t, <1>1, StoreStood DEF StoreTypes
<1>4. DeployTypes'
  BY <1>t, <1>1, <1>2 DEF DeployTypes
<1>5. Kept' = Kept /\ Stores' = Stores /\ "database" \notin Switching /\ "blobs" \notin Switching
  BY <1>1 DEF Kept, Stores, Switching
<1>6. ~broken => Dangling(live) \subseteq late /\ acked \ (late \cup dropped) \subseteq Rows(live)
  BY <1>t, <1>5 DEF DeployInv, BackWhole, Back, Lost
<1>7. acked \ late \subseteq Rows(live) \cup Kept
  BY <1>t, <1>5 DEF DeployInv, Accounted, Held
<1>8. Phases'
  BY <1>t, <1>1, <1>2, <1>5 DEF DeployInv, Phases, At, After, Switching
<1>9. CopyOf' /\ PutIn'
  BY <1>k, <1>1, <1>2 DEF CopyOf, PutIn, At, Dangling, Switching
<1>a. SnapshotsWell' /\ MissingLate'
  BY <1>t, <1>1, <1>2, <1>6 DEF DeployInv, SnapshotsWell, MissingLate
<1>b. Accounted'
  <2>1. beside = "foreign" => broken
    BY <1>t DEF DeployInv, Accounted
  <2>2. /\ "blobs" \notin Switching => acked' \ late' \subseteq Held' \cup Kept'
        /\ Unkept' \subseteq Rows(k) \cup Kept'
    <3>1. Held' = Held
      BY <1>1 DEF Held, Rows
    <3>2. acked \ late \subseteq Held \cup Kept
      BY <1>t, <1>5 DEF DeployInv, Accounted
    <3> QED BY <1>k, <1>1, <1>5, <1>7, <3>1, <3>2 DEF Unkept
  <2>3. ~broken => Unkept' \ dropped \subseteq Rows(k)
    BY <1>k, <1>1, <1>6 DEF Unkept
  <2>4. Rows(op.copy)' = Rows(k)
    BY <1>2 DEF Rows
  <2> QED BY <1>1, <1>2, <2>1, <2>2, <2>3, <2>4 DEF Accounted
<1>c. BackWhole'
  <2>1. Back = live /\ Lost = late /\ Back' = live /\ Lost' = late
    BY <1>t, <1>1, <1>2, <1>5 DEF Back, Lost
  <2> QED BY <1>t, <1>1, <2>1 DEF DeployInv, BackWhole, Rows, Dangling
<1> QED BY <1>3, <1>4, <1>8, <1>9, <1>a, <1>b, <1>c DEF StateInv, DeployInv

LEMMA CopyBlobsStep ==
  ASSUME StateInv, CopyBlobs
  PROVE  StateInv'
<1>t. /\ StoreTypes /\ DeployTypes /\ EmptyFiles /\ JobsStored /\ DeployInv
      /\ op \in Operation /\ live \in Store /\ op.at = "blobs"
  BY DEF StateInv, StoreTypes, DeployTypes, CopyBlobs, At
<1>p. live.blobs \in BlobDir /\ op.copy \in Store
  BY <1>t, StoreParts, OpParts
<1> DEFINE k == [op.copy EXCEPT !.blobs = live.blobs]
<1>k. /\ k \in Store /\ k.db = op.copy.db /\ k.wal = op.copy.wal /\ k.blobs = live.blobs
      /\ Rows(k) = Rows(op.copy)
  BY <1>p, BlobsReplaced DEF Rows
<1>1. /\ op' = [op EXCEPT !.at = "publish", !.copy = k]
      /\ UNCHANGED <<live, beside, aside, pc, conn, job, acked, copied, since, late>>
      /\ UNCHANGED <<active, snapshots, dropped, broken>>
  BY DEF CopyBlobs, storeVars
<1> HIDE DEF k
<1>2. /\ op' \in Operation /\ op'.at = "publish" /\ op'.copy = k /\ op'.missing = op.missing
      /\ op'.gone = op.gone /\ op'.kind = op.kind /\ op'.next = op.next
      /\ op'.failing = op.failing
  BY <1>t, <1>k, <1>1 DEF Operation, Places
<1>3. StoreTypes' /\ EmptyFiles' /\ JobsStored'
  BY <1>t, <1>1, StoreStood DEF StoreTypes
<1>4. DeployTypes'
  BY <1>t, <1>1, <1>2 DEF DeployTypes
<1>5. /\ Kept' = Kept /\ Stores' = Stores /\ Unkept' = Unkept
      /\ "blobs" \notin Switching /\ "publish" \notin Switching
  BY <1>1 DEF Kept, Stores, Unkept, Switching
<1>8. Phases'
  BY <1>t, <1>1, <1>2, <1>5 DEF DeployInv, Phases, At, After, Switching
<1>9. CopyOf' /\ PutIn'
  BY <1>t, <1>k, <1>1, <1>2 DEF DeployInv, CopyOf, PutIn, At, Dangling, Switching
<1>a. SnapshotsWell' /\ MissingLate'
  BY <1>t, <1>1, <1>2 DEF DeployInv, SnapshotsWell, MissingLate
<1>b. Accounted'
  BY <1>t, <1>k, <1>1, <1>2, <1>5 DEF DeployInv, Accounted, Held, Rows
<1>c. BackWhole'
  <2>1. Back = live /\ Lost = late /\ Back' = live /\ Lost' = late
    BY <1>t, <1>1, <1>2, <1>5 DEF Back, Lost
  <2> QED BY <1>t, <1>1, <2>1 DEF DeployInv, BackWhole, Rows, Dangling
<1> QED BY <1>3, <1>4, <1>8, <1>9, <1>a, <1>b, <1>c DEF StateInv, DeployInv

LEMMA PublishStep ==
  ASSUME StateInv, Publish
  PROVE  StateInv'
<1>t. /\ StoreTypes /\ DeployTypes /\ EmptyFiles /\ JobsStored /\ DeployInv
      /\ op \in Operation /\ op.at = "publish"
  BY DEF StateInv, StoreTypes, DeployTypes, Publish, At
<1> DEFINE new == [version |-> active, store |-> op.copy, missing |-> op.missing]
           place == IF op.kind = "upgrade" THEN "migrate" ELSE "log"
<1>1. /\ snapshots' = snapshots \cup {new} /\ Goto(place)
      /\ UNCHANGED <<live, beside, aside, pc, conn, job, acked, copied, since, late>>
      /\ UNCHANGED <<active, dropped, broken>>
  BY DEF Publish, storeVars
<1>2. op.copy.db.there /\ op.copy.db.tables /\ op.copy.blobs.there
  BY DEF Publish, Ready
<1>3. place \in Places /\ place \in {"migrate", "log"} /\ (place = "migrate" <=> op.kind = "upgrade")
  BY DEF Places, After
<1>4. new \in Snapshot /\ new.store = op.copy /\ new.missing = op.missing
  BY <1>t, OpParts DEF Snapshot, DeployTypes
<1> HIDE DEF new, place
<1>5. /\ op' \in Operation /\ op'.at = place /\ op'.copy = op.copy /\ op'.missing = op.missing
      /\ op'.gone = op.gone /\ op'.kind = op.kind /\ op'.next = op.next
      /\ op'.failing = op.failing
  BY <1>t, <1>1, <1>3, Went
<1>6. StoreTypes' /\ EmptyFiles' /\ JobsStored'
  BY <1>t, <1>1, StoreStood DEF StoreTypes
<1>7. DeployTypes'
  BY <1>t, <1>1, <1>4, <1>5 DEF DeployTypes
<1>8. /\ Kept \subseteq Kept' /\ Stores' = Stores \cup {op.copy} /\ Unkept' = Unkept
      /\ "publish" \notin Switching /\ place \notin Switching
  <2>1. Stores' = Stores \cup {op.copy}
    BY <1>1, <1>4 DEF Stores
  <2>2. Kept \subseteq Kept' /\ Unkept' = Unkept
    BY <1>1 DEF Kept, Unkept
  <2> QED BY <1>3, <2>1, <2>2 DEF Switching
<1>9. Phases'
  <2>1. op.kind # "none" /\ copied
    BY <1>t DEF DeployInv, Phases, At
  <2>2. op.kind = "rollback" \/ op.failing => op.next \in Stores
    BY <1>t DEF DeployInv, Phases
  <2>3. place = "log" => op.kind = "rollback"
    BY <1>t, <1>3, <2>1, OpParts
  <2> QED BY <1>1, <1>3, <1>5, <1>8, <2>1, <2>2, <2>3 DEF Phases, At
<1>a. CopyOf' /\ PutIn'
  BY <1>t, <1>1, <1>3, <1>5, <1>8 DEF DeployInv, CopyOf, PutIn, At, Switching
<1>b. SnapshotsWell' /\ MissingLate'
  <2>1. op.copy.wal = {} /\ Dangling(op.copy) \subseteq op.missing /\ (~broken => op.missing \subseteq late)
    BY <1>t DEF DeployInv, CopyOf, MissingLate, At
  <2> QED BY <1>t, <1>1, <1>2, <1>4, <1>5, <2>1 DEF DeployInv, SnapshotsWell, MissingLate
<1>c. Accounted'
  BY <1>t, <1>1, <1>5, <1>8 DEF DeployInv, Accounted, Held, Rows
<1>d. BackWhole'
  <2>1. Back = live /\ Lost = late /\ Back' = live /\ Lost' = late
    BY <1>t, <1>1, <1>5, <1>8 DEF Back, Lost
  <2> QED BY <1>t, <1>1, <2>1 DEF DeployInv, BackWhole, Rows, Dangling
<1> QED BY <1>6, <1>7, <1>9, <1>a, <1>b, <1>c, <1>d DEF StateInv, DeployInv

LEMMA EndingStep ==
  ASSUME StateInv, NoSnapshot \/ Record \/ Restored \/ CannotStage
  PROVE  StateInv'
<1>t. StoreTypes /\ DeployTypes /\ EmptyFiles /\ JobsStored /\ DeployInv /\ op \in Operation
  BY DEF StateInv, DeployTypes
<1>1. /\ End /\ UNCHANGED <<live, beside, aside, pc, conn, job, acked, late>>
      /\ UNCHANGED <<snapshots, dropped, broken>> /\ (active' = active \/ active' = op.to)
      /\ op.at \notin Switching
  BY DEF NoSnapshot, Record, Restored, CannotStage, StoreStays, At, Switching
<1>2. op' = NoOp /\ copied' \in BOOLEAN /\ since' \in SUBSET Writes
  BY <1>1 DEF End
<1>3. DeployInv'
  BY <1>t, <1>1, Ended
<1>4. StoreTypes' /\ EmptyFiles' /\ JobsStored'
  BY <1>t, <1>1, <1>2, StoreStood DEF StoreTypes
<1>5. DeployTypes'
  BY <1>t, <1>1, <1>2, OpParts, EmptyTypes DEF DeployTypes
<1> QED BY <1>3, <1>4, <1>5 DEF StateInv

LEMMA FailStep ==
  ASSUME StateInv, Fail
  PROVE  StateInv'
<1>t. StoreTypes /\ DeployTypes /\ EmptyFiles /\ JobsStored /\ DeployInv /\ op \in Operation
  BY DEF StateInv, DeployTypes
<1>1. /\ FallBack /\ op.at \in {"migrate", "record", "log"}
      /\ UNCHANGED <<live, beside, aside, pc, conn, job, acked, copied, since, late>>
      /\ UNCHANGED <<active, snapshots, dropped, broken>>
  BY DEF Fail, storeVars
<1>2. /\ op' \in Operation /\ op'.at = "log" /\ op'.kind = op.kind
      /\ op'.copy = op.copy /\ op'.missing = op.missing /\ op'.gone = op.gone
      /\ op'.next = op.copy /\ op'.failing
  BY <1>t, <1>1, FellBack
<1>3. StoreTypes' /\ EmptyFiles' /\ JobsStored'
  BY <1>t, <1>1, StoreStood DEF StoreTypes
<1>4. DeployTypes'
  BY <1>t, <1>1, <1>2 DEF DeployTypes
<1>5. Kept' = Kept /\ Stores' = Stores /\ Unkept' = Unkept /\ op.at \notin Switching /\ "log" \notin Switching
  BY <1>1 DEF Kept, Stores, Unkept, Switching
<1>6. Phases'
  BY <1>t, <1>1, <1>2, <1>5 DEF DeployInv, Phases, At, After
<1>7. CopyOf' /\ PutIn'
  BY <1>t, <1>1, <1>2, <1>5 DEF DeployInv, CopyOf, PutIn, At
<1>8. SnapshotsWell' /\ MissingLate'
  BY <1>t, <1>1, <1>2 DEF DeployInv, SnapshotsWell, MissingLate
<1>9. Accounted'
  BY <1>t, <1>1, <1>2, <1>5 DEF DeployInv, Accounted, Held, Rows
<1>a. BackWhole'
  <2>1. Back = live /\ Lost = late /\ Back' = live /\ Lost' = late
    BY <1>t, <1>1, <1>2, <1>5 DEF Back, Lost
  <2> QED BY <1>t, <1>1, <2>1 DEF DeployInv, BackWhole, Rows, Dangling
<1> QED BY <1>3, <1>4, <1>6, <1>7, <1>8, <1>9, <1>a DEF StateInv, DeployInv

LEMMA MigrateStep ==
  ASSUME StateInv, Migrate
  PROVE  StateInv'
<1>t. /\ StoreTypes /\ DeployTypes /\ EmptyFiles /\ JobsStored /\ DeployInv
      /\ op \in Operation /\ live \in Store /\ op.at = "migrate" /\ op.code \in Nat
  BY OpParts DEF StateInv, DeployTypes, StoreTypes, Migrate, At
<1> DEFINE o == Opened(live)
           f == Migrated(o.db, op.code)
<1>1. /\ live' = [o EXCEPT !.db = f] /\ Goto("record")
      /\ UNCHANGED <<beside, aside, pc, conn, job, acked, copied, since, late>>
      /\ UNCHANGED <<active, snapshots, dropped, broken>>
  BY DEF Migrate
<1>2. /\ o \in Store /\ o.db \in DbFile /\ o.db.rows = live.db.rows /\ o.wal = live.wal
      /\ o.blobs.files = live.blobs.files /\ o.db.there /\ o.db.tables /\ o.blobs.there
  BY <1>t, OpenedParts, StoreParts
<1>3. f \in DbFile /\ f.rows = live.db.rows /\ f.there /\ f.tables
  BY <1>t, <1>2, MigratedParts
<1> HIDE DEF o, f
<1>4. /\ live' \in Store /\ live'.db.rows = live.db.rows /\ live'.wal = live.wal
      /\ live'.blobs.files = live.blobs.files
      /\ live'.db.there /\ live'.db.tables /\ live'.blobs.there
  BY <1>1, <1>2, <1>3, DbReplaced
<1>5. /\ op' \in Operation /\ op'.at = "record" /\ op'.copy = op.copy /\ op'.missing = op.missing
      /\ op'.gone = op.gone /\ op'.kind = op.kind /\ op'.next = op.next
      /\ op'.failing = op.failing
  BY <1>t, <1>1, Went DEF Places, After
<1>6. StoreTypes' /\ EmptyFiles' /\ JobsStored'
  BY <1>t, <1>1, <1>4 DEF StoreTypes, EmptyFiles, JobsStored
<1>7. DeployTypes'
  BY <1>t, <1>1, <1>5 DEF DeployTypes
<1>8. /\ Kept' = Kept /\ Stores' = Stores /\ Unkept' = Unkept
      /\ Rows(live)' = Rows(live) /\ Dangling(live)' = Dangling(live)
      /\ op.at \notin Switching /\ "record" \notin Switching
  BY <1>t, <1>1, <1>4 DEF Kept, Stores, Unkept, Rows, Dangling, Switching
<1>9. Phases'
  BY <1>t, <1>1, <1>5, <1>8 DEF DeployInv, Phases, At, After
<1>a. CopyOf' /\ PutIn'
  BY <1>t, <1>1, <1>5, <1>8 DEF DeployInv, CopyOf, PutIn, At
<1>b. SnapshotsWell' /\ MissingLate'
  BY <1>t, <1>1, <1>5 DEF DeployInv, SnapshotsWell, MissingLate
<1>c. Accounted'
  BY <1>t, <1>1, <1>5, <1>8 DEF DeployInv, Accounted, Held
<1>d. BackWhole'
  <2>1. Back = live /\ Lost = late /\ Back' = live' /\ Lost' = late
    BY <1>t, <1>1, <1>5, <1>8 DEF Back, Lost
  <2> QED BY <1>t, <1>1, <1>4, <1>8, <2>1 DEF DeployInv, BackWhole
<1> QED BY <1>6, <1>7, <1>9, <1>a, <1>b, <1>c, <1>d DEF StateInv, DeployInv

------------------------------------------------------------------------------
(* The renames.  Until the last of them what a failure would put back is    *)
(* what was there before, with what was committed to it since.             *)

LEMMA MoveAside ==
  ASSUME StateInv, op.at \in {"log"} \cup Switching, op'.at \in Switching,
         op'.kind = op.kind, op'.copy = op.copy, op'.missing = op.missing, op'.gone = op.gone,
         op'.next = op.next, op'.failing = op.failing,
         UNCHANGED <<acked, copied, since, snapshots, dropped>>,
         broken => broken', beside' = "foreign" => broken', late \subseteq late', PutIn',
         Undone'.db = Back.db, Undone'.wal = Back.wal, Undone'.blobs = Back.blobs
  PROVE  DeployInv'
<1>1. /\ Kept' = Kept /\ Stores' = Stores /\ Unkept' \subseteq Unkept
      /\ op.at \notin {"idle", "database", "blobs", "publish"} /\ op.at \in After
      /\ op'.at \notin {"idle", "database", "blobs", "publish"} /\ op'.at \in After
  BY DEF Kept, Stores, Unkept, Switching, After
<1>2. Phases'
  BY <1>1 DEF StateInv, DeployInv, Phases, At
<1>3. CopyOf'
  BY <1>1 DEF StateInv, DeployInv, CopyOf, At
<1>4. SnapshotsWell' /\ MissingLate'
  BY DEF StateInv, DeployInv, SnapshotsWell, MissingLate
<1>5. Accounted'
  <2>1. op'.at \in Switching /\ copied /\ Rows(op.copy)' = Rows(op.copy)
    BY <1>1 DEF StateInv, DeployInv, Phases, Rows
  <2> QED BY <1>1, <2>1 DEF StateInv, DeployInv, Accounted
<1>6. BackWhole'
  <2>1. Back' = Undone' /\ Lost' = late' \cup since
    BY DEF Back, Lost
  <2>2. Lost \subseteq Lost'
    BY <2>1 DEF Lost
  <2>3. Rows(Back)' = Rows(Back) /\ Dangling(Back)' = Dangling(Back)
    BY <2>1 DEF Rows, Dangling
  <2> QED BY <2>1, <2>2, <2>3 DEF StateInv, DeployInv, BackWhole
<1> QED BY <1>2, <1>3, <1>4, <1>5, <1>6 DEF DeployInv

LEMMA Followed ==
  ASSUME StoreTypes, NEW from, NEW to \in {"none", "live", "aside", "gone"}, Follow(from, to)
  PROVE  conn' \in [Servers -> {"none", "live", "aside", "gone"}]
  BY DEF StoreTypes, Follow

LEMMA Besides ==
  ASSUME StoreTypes, DeployTypes, NEW foreign \in BOOLEAN,
         NEW other \in {"own", "moved", "fresh", "foreign"}, BesideIs(foreign, other)
  PROVE  /\ beside' \in {"own", "moved", "fresh", "foreign"} /\ broken' \in BOOLEAN
         /\ broken => broken'
         /\ beside' = "foreign" => broken'
         /\ broken' => broken \/ beside' = "foreign"
  BY DEF StoreTypes, DeployTypes, BesideIs

LEMMA MoveStep ==
  ASSUME StateInv, MoveLog \/ MoveDatabase \/ PutDatabase \/ MoveBlobs
  PROVE  StateInv'
<1>t. /\ StoreTypes /\ DeployTypes /\ EmptyFiles /\ JobsStored /\ DeployInv
      /\ op \in Operation /\ live \in Store /\ aside \in Store
  BY DEF StateInv, DeployTypes, StoreTypes
<1>p. /\ live.db \in DbFile /\ live.wal \in SUBSET Writes /\ live.blobs \in BlobDir
      /\ NoFile \in DbFile /\ NoDir \in BlobDir
      /\ NoFile.rows = {} /\ ~NoFile.there /\ NoDir.files = {}
  BY <1>t, StoreParts, EmptyTypes DEF NoFile, NoDir
<1>w. Switching \subseteq Places /\ Switching = {"old database", "new database", "old blobs", "new blobs"}
  BY DEF Places, After, Switching
<1>f. StoreTypes' /\ DeployTypes' /\ EmptyFiles' /\ JobsStored' /\ DeployInv' => StateInv'
  BY DEF StateInv
<1>1. CASE MoveLog
  <2>1. /\ aside' = [aside EXCEPT !.wal = live.wal] /\ live' = [live EXCEPT !.wal = {}]
        /\ Follow("live", "aside") /\ BesideIs(FALSE, "moved") /\ op.at = "log"
        /\ UNCHANGED <<pc, job, acked, copied, since, late, active, snapshots, dropped>>
    BY <1>1 DEF MoveLog, Stay, At
  <2>g. PICK logged \in BOOLEAN :
          (logged \/ NoLog) /\ op' = [op EXCEPT !.at = "old database", !.logged = logged]
    BY <1>1 DEF MoveLog
  <2>b. /\ beside' \in {"own", "moved", "fresh", "foreign"} /\ broken' \in BOOLEAN
        /\ (broken => broken') /\ (beside' = "foreign" => broken')
    BY <1>t, <2>1, Besides
  <2>2. /\ live' \in Store /\ live'.db = live.db /\ live'.wal = {} /\ live'.blobs = live.blobs
        /\ aside' \in Store /\ aside'.db = aside.db /\ aside'.wal = live.wal
    BY <1>t, <1>p, <2>1, WalReplaced
  <2>3. /\ op' \in Operation /\ op'.at = "old database" /\ op'.copy = op.copy /\ op'.missing = op.missing
        /\ op'.gone = op.gone /\ op'.kind = op.kind /\ op'.next = op.next
        /\ op'.failing = op.failing /\ op'.logged = logged
    BY <1>t, <1>w, <2>g DEF Operation
  <2>4. StoreTypes' /\ DeployTypes' /\ EmptyFiles' /\ JobsStored'
    BY <1>t, <2>1, <2>b, <2>2, <2>3, Followed DEF StoreTypes, DeployTypes, EmptyFiles, JobsStored
  <2>5. PutIn'
    BY <2>2, <2>3 DEF PutIn
  <2>6. Undone'.db = Back.db /\ Undone'.wal = Back.wal /\ Undone'.blobs = Back.blobs
    BY <2>1, <2>g, <2>2, <2>3 DEF Undone, Back, Switching, NoLog
  <2>7. DeployInv'
    BY <1>t, <2>1, <2>b, <2>3, <2>5, <2>6, MoveAside DEF StateInv, Switching
  <2> QED BY <1>f, <2>4, <2>7
<1>m. beside = "foreign" => broken
  BY <1>t DEF DeployInv, Accounted
<1>2. CASE MoveDatabase
  <2>1. /\ aside' = [aside EXCEPT !.db = live.db] /\ live' = [live EXCEPT !.db = NoFile]
        /\ Follow("live", "aside") /\ Goto("new database") /\ op.at = "old database"
        /\ UNCHANGED <<beside, pc, job, acked, copied, since, late, active, snapshots, dropped, broken>>
    BY <1>2 DEF MoveDatabase, Stay, At
  <2>2. /\ live' \in Store /\ live'.db = NoFile /\ live'.wal = live.wal /\ live'.blobs = live.blobs
        /\ aside' \in Store /\ aside'.db = live.db /\ aside'.wal = aside.wal
    BY <1>t, <1>p, <2>1, DbReplaced
  <2>3. /\ op' \in Operation /\ op'.at = "new database" /\ op'.copy = op.copy /\ op'.missing = op.missing
        /\ op'.gone = op.gone /\ op'.kind = op.kind /\ op'.next = op.next
        /\ op'.failing = op.failing /\ op'.logged = op.logged
    BY <1>t, <1>w, <2>1, Went
  <2>4. StoreTypes' /\ DeployTypes' /\ EmptyFiles' /\ JobsStored'
    BY <1>t, <1>p, <2>1, <2>2, <2>3, Followed DEF StoreTypes, DeployTypes, EmptyFiles, JobsStored
  <2>5. PutIn'
    BY <1>t, <2>1, <2>2, <2>3 DEF DeployInv, PutIn, Switching
  <2>6. Undone'.db = Back.db /\ Undone'.wal = Back.wal /\ Undone'.blobs = Back.blobs
    BY <2>1, <2>2, <2>3 DEF Undone, Back, Switching
  <2>7. DeployInv'
    BY <1>t, <1>m, <2>1, <2>3, <2>5, <2>6, MoveAside DEF StateInv, Switching
  <2> QED BY <1>f, <2>4, <2>7
<1>3. CASE PutDatabase
  <2>1. /\ live' = [live EXCEPT !.db = op.next.db]
        /\ Follow("live", "gone") /\ Goto("old blobs") /\ op.at = "new database"
        /\ UNCHANGED <<aside, pc, job, acked, copied, since, late, active, snapshots, dropped>>
    BY <1>3 DEF PutDatabase, Stay, At
  <2>g. PICK fresh \in BOOLEAN : BesideIs(fresh, beside)
    <3>1. (beside = "fresh") \in BOOLEAN
      OBVIOUS
    <3> QED BY <1>3, <3>1 DEF PutDatabase
  <2>b. /\ beside' \in {"own", "moved", "fresh", "foreign"} /\ broken' \in BOOLEAN
        /\ (broken => broken') /\ (beside' = "foreign" => broken')
    <3>1. beside \in {"own", "moved", "fresh", "foreign"}
      BY <1>t DEF StoreTypes
    <3> QED BY <1>t, <2>g, <3>1, Besides
  <2>n. op.next \in Stores
    BY <1>t, <2>1 DEF DeployInv, Phases, Switching
  <2>s. op.next \in Store /\ op.next.db \in DbFile /\ op.next.db.there /\ op.next.db.tables
    BY <1>t, <2>n, StoresWell, StoreParts DEF DeployInv
  <2>2. live' \in Store /\ live'.db = op.next.db /\ live'.wal = live.wal /\ live'.blobs = live.blobs
    BY <1>t, <2>s, <2>1, DbReplaced
  <2>3. /\ op' \in Operation /\ op'.at = "old blobs" /\ op'.copy = op.copy /\ op'.missing = op.missing
        /\ op'.gone = op.gone /\ op'.kind = op.kind /\ op'.next = op.next
        /\ op'.failing = op.failing /\ op'.logged = op.logged
    BY <1>t, <1>w, <2>1, Went
  <2>4. StoreTypes' /\ DeployTypes' /\ EmptyFiles' /\ JobsStored'
    BY <1>t, <2>1, <2>b, <2>2, <2>3, <2>s, Followed DEF StoreTypes, DeployTypes, EmptyFiles, JobsStored
  <2>5. PutIn'
    BY <1>t, <2>1, <2>2, <2>3, <2>s DEF DeployInv, PutIn, Switching
  <2>6. Undone'.db = Back.db /\ Undone'.wal = Back.wal /\ Undone'.blobs = Back.blobs
    BY <2>1, <2>2, <2>3 DEF Undone, Back, Switching
  <2>7. DeployInv'
    BY <1>t, <2>1, <2>b, <2>3, <2>5, <2>6, MoveAside DEF StateInv, Switching
  <2> QED BY <1>f, <2>4, <2>7
<1>4. CASE MoveBlobs
  <2>1. /\ aside' = [aside EXCEPT !.blobs = live.blobs] /\ live' = [live EXCEPT !.blobs = NoDir]
        /\ late' = late \cup Orphans /\ Goto("new blobs") /\ op.at = "old blobs"
        /\ UNCHANGED <<beside, pc, conn, job, acked, copied, since, active, snapshots, dropped, broken>>
    BY <1>4 DEF MoveBlobs, Stay, At
  <2>2. /\ live' \in Store /\ live'.db = live.db /\ live'.wal = live.wal /\ live'.blobs = NoDir
        /\ aside' \in Store /\ aside'.db = aside.db /\ aside'.wal = aside.wal
        /\ aside'.blobs = live.blobs
    BY <1>t, <1>p, <2>1, BlobsReplaced
  <2>3. /\ op' \in Operation /\ op'.at = "new blobs" /\ op'.copy = op.copy /\ op'.missing = op.missing
        /\ op'.gone = op.gone /\ op'.kind = op.kind /\ op'.next = op.next
        /\ op'.failing = op.failing /\ op'.logged = op.logged
    BY <1>t, <1>w, <2>1, Went
  <2>o. Orphans \in SUBSET Writes
    BY <1>t DEF Orphans, StoreTypes
  <2>4. StoreTypes' /\ DeployTypes'
    BY <1>t, <2>1, <2>2, <2>3, <2>o DEF StoreTypes, DeployTypes
  <2>j. EmptyFiles' /\ JobsStored'
    BY <1>t, <2>1, <2>2 DEF EmptyFiles, JobsStored, Orphans
  <2>5. PutIn'
    BY <1>t, <2>1, <2>2, <2>3 DEF DeployInv, PutIn, Switching
  <2>6. Undone'.db = Back.db /\ Undone'.wal = Back.wal /\ Undone'.blobs = Back.blobs
    BY <2>1, <2>2, <2>3 DEF Undone, Back, Switching
  <2>7. DeployInv'
    BY <1>t, <1>m, <2>1, <2>3, <2>5, <2>6, MoveAside DEF StateInv, Switching
  <2> QED BY <1>f, <2>4, <2>j, <2>7
<1> QED BY <1>1, <1>2, <1>3, <1>4

LEMMA PutBlobsStep ==
  ASSUME StateInv, PutBlobs
  PROVE  StateInv'
<1>t. /\ StoreTypes /\ DeployTypes /\ EmptyFiles /\ JobsStored /\ DeployInv
      /\ op \in Operation /\ live \in Store /\ op.at = "new blobs" /\ op.at \in Switching
      /\ late \in SUBSET Writes /\ since \in SUBSET Writes
  BY DEF StateInv, DeployTypes, StoreTypes, PutBlobs, At, Switching
<1>1. /\ live' = [live EXCEPT !.blobs = op.next.blobs] /\ live.blobs.files = {}
      /\ aside' = NoStore /\ Follow("aside", "gone") /\ late' = late \cup since
      /\ dropped' = (op.gone \cup Rows(op.copy)) \ Rows(op.next)
      /\ op' = [op EXCEPT !.at = "record", !.logged = FALSE] /\ BesideIs(FALSE, "own")
      /\ UNCHANGED <<pc, job, acked, copied, since, active, snapshots>>
  BY DEF PutBlobs, Free
<1>m. /\ beside' \in {"own", "moved", "fresh", "foreign"} /\ broken' \in BOOLEAN
      /\ (broken => broken') /\ (beside' = "foreign" => broken')
  BY <1>t, <1>1, Besides
<1>n. copied /\ op.kind # "none" /\ op.copy \in Stores /\ op.next \in Stores
  BY <1>t DEF DeployInv, Phases, At, Switching, After
<1>c. /\ op.copy \in Store /\ Rows(op.copy) \subseteq Kept /\ Rows(op.copy) \in SUBSET Writes
  BY <1>t, <1>n, StoresWell, StoreParts DEF DeployInv
<1>s. /\ op.next \in Store /\ op.next.blobs \in BlobDir /\ op.next.blobs.there
      /\ Rows(op.next) = op.next.db.rows /\ (~broken => Dangling(op.next) \subseteq late)
  BY <1>t, <1>n, StoresWell, StoreParts DEF DeployInv
<1>2. /\ live' \in Store /\ live'.db = live.db /\ live'.wal = live.wal
      /\ live'.blobs = op.next.blobs
  BY <1>t, <1>s, <1>1, BlobsReplaced
<1>w. "record" \in Places
  BY DEF Places, After
<1>3. /\ op' \in Operation /\ op'.at = "record" /\ op'.copy = op.copy /\ op'.missing = op.missing
      /\ op'.gone = op.gone /\ op'.kind = op.kind /\ op'.next = op.next
      /\ op'.failing = op.failing
  BY <1>t, <1>w, <1>1 DEF Operation
<1>4. StoreTypes'
  BY <1>t, <1>m, <1>1, <1>2, Followed, EmptyTypes DEF StoreTypes
<1>5. DeployTypes'
  BY <1>t, <1>m, <1>c, <1>1, <1>3, OpParts DEF DeployTypes
<1>6. EmptyFiles' /\ JobsStored'
  <2>1. NoStore.db = NoFile /\ NoFile.rows = {}
    BY DEF NoStore, NoFile
  <2> QED BY <1>t, <1>1, <1>2, <2>1 DEF EmptyFiles, JobsStored
<1>7. /\ Kept' = Kept /\ Stores' = Stores /\ Unkept' = Unkept /\ "record" \notin Switching
  BY <1>1 DEF Kept, Stores, Unkept, Switching
<1>8. Phases'
  BY <1>1, <1>n, <1>3, <1>7 DEF Phases, At
<1>9. CopyOf' /\ PutIn'
  BY <1>t, <1>3, <1>7 DEF DeployInv, CopyOf, PutIn, At, Switching
<1>a. SnapshotsWell' /\ MissingLate'
  BY <1>t, <1>m, <1>1, <1>3 DEF DeployInv, SnapshotsWell, MissingLate
<1>b. Accounted'
  <2>1. Unkept \subseteq Kept /\ acked' \ late' = Unkept
    BY <1>t, <1>n, <1>c, <1>1 DEF DeployInv, Accounted, Unkept
  <2>2. /\ Unkept \subseteq Rows(op.copy) \cup Kept
        /\ ~broken => Unkept \ op.gone \subseteq Rows(op.copy)
    BY <1>t, <1>n DEF DeployInv, Accounted
  <2>3. Rows(op.copy)' = Rows(op.copy) /\ op'.gone = op.gone
    BY <1>3 DEF Rows
  <2>4. ~broken' => ~broken
    BY <1>m
  <2>5. Unkept' \subseteq Rows(op.copy)' \cup Kept'
    BY <1>7, <2>2, <2>3
  <2>6. ~broken' => Unkept' \ op'.gone \subseteq Rows(op.copy)'
    BY <1>7, <2>2, <2>3, <2>4
  <2>7. acked' \ late' \subseteq Held' \cup Kept'
    BY <1>7, <2>1
  <2> QED BY <1>m, <2>5, <2>6, <2>7 DEF Accounted
<1>d. BackWhole'
  <2>1. SUFFICES ASSUME ~broken
                 PROVE  BackWhole'
    BY <1>m DEF BackWhole
  <2>2. Back' = live' /\ Lost' = late \cup since
    BY <1>1, <1>3, <1>7 DEF Back, Lost
  <2>3. /\ live.db.there /\ live.db.tables /\ live.wal \subseteq since
        /\ op.next.db.rows \subseteq live.db.rows
        /\ live.db.rows \subseteq op.next.db.rows \cup since
    BY <1>t, <2>1 DEF DeployInv, PutIn
  <2>4. Dangling(live)' \subseteq late \cup since
    <3>1. Dangling(op.next) = op.next.db.rows \ op.next.blobs.files
      BY <1>s DEF Dangling
    <3>2. Dangling(live)' = (live.db.rows \cup live.wal) \ op.next.blobs.files
      BY <1>2 DEF Dangling, Rows
    <3> QED BY <1>s, <2>1, <2>3, <3>1, <3>2
  <2>5. acked \ (late \cup since \cup dropped') \subseteq Rows(live)'
    <3>1. Unkept \ op.gone \subseteq Rows(op.copy)
      BY <1>t, <1>n, <2>1 DEF DeployInv, Accounted
    <3>2. op.next.db.rows \subseteq Rows(live)'
      BY <1>2, <2>3 DEF Rows
    <3> QED BY <1>1, <1>s, <3>1, <3>2 DEF Unkept
  <2> QED BY <1>1, <1>2, <1>s, <2>2, <2>3, <2>4, <2>5 DEF BackWhole
<1> QED BY <1>4, <1>5, <1>6, <1>8, <1>9, <1>a, <1>b, <1>d DEF StateInv, DeployInv

LEMMA UndoneType ==
  ASSUME StoreTypes, EmptyFiles
  PROVE  Undone \in Store /\ (~Undone.db.there => Undone.db.rows = {})
<1>1. live \in Store /\ aside \in Store
  BY DEF StoreTypes
<1> QED BY <1>1, StoreParts DEF Undone, Store, EmptyFiles

LEMMA LeaveStep ==
  ASSUME StateInv, SwitchFails \/ UndoFails \/ Die
  PROVE  StateInv'
<1>t. /\ StoreTypes /\ DeployTypes /\ EmptyFiles /\ JobsStored /\ DeployInv
      /\ op \in Operation /\ Undone \in Store /\ Orphans \in SUBSET Writes
      /\ late \in SUBSET Writes /\ since \in SUBSET Writes
  BY UndoneType DEF StateInv, DeployTypes, StoreTypes, Orphans
<1>n. NoStore \in Store /\ NoStore.db = NoFile /\ NoFile.rows = {} /\ NoOp \in Operation
  BY EmptyTypes DEF NoStore, NoFile
<1>e. End \/ (FallBack /\ UNCHANGED <<copied, since>>)
      => op' \in Operation /\ copied' \in BOOLEAN /\ since' \in SUBSET Writes
  <2>1. ASSUME End PROVE op' = NoOp /\ copied' = FALSE /\ since' = {}
    BY <2>1 DEF End
  <2>2. ASSUME FallBack, UNCHANGED <<copied, since>>
        PROVE op' \in Operation /\ copied' = copied /\ since' = since
    BY <1>t, <2>2, FellBack
  <2> QED BY <1>t, <1>n, <2>1, <2>2 DEF StoreTypes
<1>1. CASE SwitchFails
  <2>1. /\ op.at \in Switching /\ live' = Undone /\ aside' = NoStore
        /\ late' = late \cup since \cup Orphans
        /\ End \/ (FallBack /\ UNCHANGED <<copied, since>>)
        /\ UNCHANGED <<pc, job, acked, active, snapshots, dropped>>
    BY <1>1 DEF SwitchFails, AfterSwitch, Switching
  <2>g. PICK crosses \in BOOLEAN : BesideIs(crosses, "own")
    <3>1. UndoCrosses \in BOOLEAN
      BY DEF UndoCrosses
    <3> QED BY <1>1, <3>1 DEF SwitchFails
  <2>b. /\ beside' \in {"own", "moved", "fresh", "foreign"} /\ broken' \in BOOLEAN
        /\ (broken => broken') /\ (beside' = "foreign" => broken')
    BY <1>t, <2>g, Besides
  <2>2. conn' \in [Servers -> {"none", "live", "aside", "gone"}]
    BY <1>1, <1>t DEF SwitchFails, StoreTypes
  <2>3. DeployInv'
    <3>1. ~broken' => ~broken /\ live' = Undone
      BY <2>1, <2>b
    <3> QED BY <2>1, <2>b, <3>1, SwitchLeft
  <2>4. StoreTypes' /\ DeployTypes'
    BY <1>t, <1>n, <1>e, <2>1, <2>b, <2>2 DEF StoreTypes, DeployTypes
  <2>5. EmptyFiles'
    BY <1>t, <1>n, <2>1, UndoneType DEF EmptyFiles
  <2>6. JobsStored'
    BY <1>t, <2>1 DEF JobsStored, Orphans
  <2> QED BY <2>3, <2>4, <2>5, <2>6 DEF StateInv
<1>2. CASE UndoFails
  <2>1. /\ op.at \in Switching /\ live' = live /\ aside' = NoStore
        /\ late' = late \cup since \cup Orphans /\ broken' = TRUE /\ Follow("aside", "gone")
        /\ End \/ (FallBack /\ UNCHANGED <<copied, since>>)
        /\ UNCHANGED <<pc, job, acked, active, snapshots, dropped>>
        /\ beside' \in {"own", "foreign"}
    BY <1>2 DEF UndoFails, AfterSwitch, Switching, At
  <2>3. DeployInv'
    BY <2>1, SwitchLeft
  <2>4. StoreTypes' /\ DeployTypes'
    BY <1>t, <1>n, <1>e, <2>1, Followed DEF StoreTypes, DeployTypes
  <2>5. EmptyFiles' /\ JobsStored'
    BY <1>t, <1>n, <2>1 DEF EmptyFiles, JobsStored
  <2> QED BY <2>3, <2>4, <2>5 DEF StateInv
<1>3. CASE Die
  <2>1. /\ End /\ live' = live /\ aside' = NoStore /\ Follow("aside", "gone")
        /\ late' = IF op.at \in Switching THEN late \cup since \cup Orphans ELSE late
        /\ broken' = (broken \/ op.at \in Switching)
        /\ beside' = IF beside = "foreign" \/ DeathCrosses THEN "foreign" ELSE "own"
        /\ UNCHANGED <<pc, job, acked, active, snapshots, dropped>>
    BY <1>3 DEF Die
  <2>3. DeployInv'
    <3>1. CASE op.at \in Switching
      <4>1. broken'
        BY <2>1, <3>1
      <4> QED BY <2>1, <3>1, <4>1, SwitchLeft
    <3>2. CASE op.at \notin Switching
      <4>1. broken' = broken
        BY <1>t, <2>1, <3>2 DEF DeployTypes
      <4>2. ~DeathCrosses
        BY <3>2 DEF DeathCrosses, Switching, At
      <4>3. beside' = "foreign" <=> beside = "foreign"
        BY <2>1, <4>2
      <4> QED BY <1>t, <2>1, <3>2, <4>1, <4>3, Ended
    <3> QED BY <3>1, <3>2
  <2>b. late' \in SUBSET Writes /\ broken' \in BOOLEAN /\ beside' \in {"own", "foreign"}
    BY <1>t, <2>1
  <2>4. StoreTypes' /\ DeployTypes'
    BY <1>t, <1>n, <1>e, <2>1, <2>b, Followed DEF StoreTypes, DeployTypes
  <2>5. EmptyFiles' /\ JobsStored'
    BY <1>t, <1>n, <2>1 DEF EmptyFiles, JobsStored
  <2> QED BY <2>3, <2>4, <2>5 DEF StateInv
<1> QED BY <1>1, <1>2, <1>3

LEMMA DeployStep ==
  ASSUME StateInv, Deploy
  PROVE  StateInv'
<1>1. ASSUME NEW c \in Codes, NEW v \in Versions, InitState(c, v) \/ Upgrade(c, v) \/ Rollback(c, v)
      PROVE  StateInv'
  BY <1>1, CommandStep
<1>2. CASE CopyDatabase
  BY <1>2, CopyDatabaseStep
<1>3. CASE CopyBlobs
  BY <1>3, CopyBlobsStep
<1>4. CASE Publish
  BY <1>4, PublishStep
<1>5. CASE NoSnapshot \/ Record \/ Restored \/ CannotStage
  BY <1>5, EndingStep
<1>6. CASE Migrate
  BY <1>6, MigrateStep
<1>7. CASE Fail
  BY <1>7, FailStep
<1>8. CASE MoveLog \/ MoveDatabase \/ PutDatabase \/ MoveBlobs
  BY <1>8, MoveStep
<1>9. CASE PutBlobs
  BY <1>9, PutBlobsStep
<1>a. CASE SwitchFails \/ UndoFails \/ Die
  BY <1>a, LeaveStep
<1> QED BY <1>1, <1>2, <1>3, <1>4, <1>5, <1>6, <1>7, <1>8, <1>9, <1>a DEF Deploy

LEMMA Untouched ==
  ASSUME StateInv,
         UNCHANGED <<live, aside, pc, conn, job, acked, copied, since, late>>,
         beside' \in {"own", "moved", "fresh", "foreign"},
         beside' = "foreign" <=> beside = "foreign",
         UNCHANGED <<active, snapshots, op, dropped, broken>>
  PROVE  StateInv'
<1>t. StoreTypes /\ DeployTypes /\ EmptyFiles /\ JobsStored /\ DeployInv
  BY DEF StateInv
<1>1. StoreTypes' /\ EmptyFiles' /\ JobsStored'
  BY <1>t, StoreStood DEF StoreTypes
<1>2. DeployTypes'
  BY <1>t DEF DeployTypes
<1>3. Kept' = Kept /\ Stores' = Stores /\ Back' = Back /\ Lost' = Lost /\ Unkept' = Unkept
  BY DEF Kept, Stores, Back, Undone, Lost, Unkept
<1>4. Phases' /\ CopyOf' /\ PutIn' /\ MissingLate' /\ SnapshotsWell'
  BY <1>t, <1>3 DEF DeployInv, Phases, CopyOf, PutIn, MissingLate, SnapshotsWell, At
<1>5. Accounted' /\ BackWhole'
  BY <1>t, <1>3 DEF DeployInv, Accounted, BackWhole, Held, Rows, Dangling
<1> QED BY <1>1, <1>2, <1>4, <1>5 DEF StateInv, DeployInv

------------------------------------------------------------------------------
(* Backups and restores. *)

Cut(a) == [db |-> a.db, wal |-> {}, blobs |-> [there |-> TRUE, files |-> a.listed]]
SameCut(a, b) == a.db = b.db /\ a.listed = b.listed

(* A backup lists every blob its database refers to, and a restore works   *)
(* from the content some archive had when its manifest was written.        *)
ArchivesComplete ==
  /\ bk.at = "publish" => bk.listed = bk.db.rows
  /\ \A a \in archives : a.listed = a.db.rows

RestoreFrom ==
  /\ target.wal = {}
  /\ rs.at # "idle" =>
       /\ \E a \in archives : SameCut(a, rs.from)
       /\ rs.from.blobs = rs.from.listed /\ rs.from.db.there
       /\ ~target.blobs.there
  /\ rs.at = "database" => ~target.db.there
  /\ rs.at = "blobs" => target.db = rs.from.db

BackupInv == ArchivesComplete /\ RestoreFrom /\ RestoredWhole

LEMMA CutOf ==
  ASSUME NEW a \in BackupRecord
  PROVE  Content([a EXCEPT !.blobs = a.listed]) = Cut(a)
  BY DEF BackupRecord, Content, Cut

LEMMA Restoreds ==
  ASSUME BackupTypes
  PROVE  RestoredWhole <=>
           /\ target.db.there /\ ~target.blobs.there => rs.at = "blobs" \/ rsDied
           /\ target.blobs.there => \E a \in archives : target = Cut(a) /\ Dangling(target) = {}
  BY CutOf DEF RestoredWhole, BackupTypes

(* Steps that leave the target and the restore alone, and no cut is lost. *)
LEMMA CutsStay ==
  ASSUME BackupTypes, BackupTypes', BackupInv, UNCHANGED <<target, rs, rsDied>>,
         \A a \in archives : \E b \in archives' : SameCut(a, b)
  PROVE  RestoreFrom' /\ RestoredWhole'
<1>1. RestoreFrom'
  BY DEF BackupInv, RestoreFrom, SameCut
<1>2. RestoredWhole'
  <2>1. \A a, b : SameCut(a, b) => Cut(a) = Cut(b)
    BY DEF SameCut, Cut
  <2>2. Dangling(target)' = Dangling(target)
    BY DEF Dangling, Rows
  <2>3. /\ target.db.there /\ ~target.blobs.there => rs.at = "blobs" \/ rsDied
        /\ target.blobs.there => \E a \in archives : target = Cut(a) /\ Dangling(target) = {}
    BY Restoreds DEF BackupInv
  <2>4. /\ target'.db.there /\ ~target'.blobs.there => rs'.at = "blobs" \/ rsDied'
        /\ target'.blobs.there => \E a \in archives' : target' = Cut(a) /\ Dangling(target)' = {}
    BY <2>1, <2>2, <2>3
  <2>5. \A a \in archives' : Content([a EXCEPT !.blobs = a.listed]) = Cut(a)
    BY CutOf DEF BackupTypes
  <2> QED BY <2>4, <2>5 DEF RestoredWhole
<1> QED BY <1>1, <1>2

LEMMA BackupParts ==
  ASSUME NEW b \in BackupRecord
  PROVE  /\ b.at \in {"idle", "blobs", "publish"} /\ b.db \in DbFile /\ b.listed \in SUBSET Writes
         /\ b.blobs \in SUBSET Writes /\ b.keys \in SUBSET KeyVersions /\ b.db.rows \in SUBSET Writes
  BY DEF BackupRecord, DbFile

LEMMA BackUpTypes ==
  ASSUME StoreTypes, BackupTypes, BackUp
  PROVE  BackupTypes'
<1>t. /\ live \in Store /\ target \in Store /\ bk \in BackupRecord
      /\ rs.at \in {"idle", "database", "blobs"} /\ rs.from \in BackupRecord
      /\ NoBackup \in BackupRecord /\ NoFile \in DbFile
  BY EmptyTypes DEF StoreTypes, BackupTypes
<1>p. /\ live.db \in DbFile /\ Rows(live) \in SUBSET Writes /\ live.blobs.files \in SUBSET Writes
      /\ rs.from.db \in DbFile /\ rs.from.blobs \in SUBSET Writes /\ bk.db.rows \in SUBSET Writes
  BY <1>t, StoreParts, BackupParts
<1>n. NoRestore \in [at : {"idle", "database", "blobs"}, from : BackupRecord]
  BY <1>t DEF NoRestore
<1>1. CASE CopySource
  <2> DEFINE f == [live.db EXCEPT !.rows = Rows(live)]
  <2>1. f \in DbFile
    BY <1>p DEF DbFile
  <2>2. bk' = [NoBackup EXCEPT !.at = "blobs", !.keys = CurrentKeys, !.db = f]
    BY <1>1 DEF CopySource
  <2>3. CurrentKeys \in SUBSET KeyVersions
    BY DEF CurrentKeys, BackupTypes
  <2> HIDE DEF f
  <2>4. bk' \in BackupRecord
    BY <1>t, <2>1, <2>2, <2>3 DEF BackupRecord
  <2> QED BY <1>1, <2>4 DEF CopySource, BackupTypes
<1>2. CASE CopyReferenced
  <2>1. Collected \in SUBSET Writes
    BY <1>p DEF Collected
  <2>2. bk' \in BackupRecord
    BY <1>2, <1>t, <2>1 DEF CopyReferenced, BackupRecord
  <2> QED BY <1>2, <2>2 DEF CopyReferenced, BackupTypes
<1>3. CASE Archive \/ NoArchive
  BY <1>3, <1>t DEF Archive, NoArchive, BackupTypes
<1>4. CASE Rotate
  BY <1>4 DEF Rotate, BackupTypes
<1>5. CASE Damage
  <2>0. PICK a \in archives : \E kept \in SUBSET a.blobs :
          archives' = (archives \ {a}) \cup {[a EXCEPT !.blobs = kept]}
    BY <1>5 DEF Damage
  <2>1. PICK kept \in SUBSET a.blobs :
          archives' = (archives \ {a}) \cup {[a EXCEPT !.blobs = kept]}
    BY <2>0
  <2>2. a \in BackupRecord /\ a.blobs \in SUBSET Writes
    BY BackupParts DEF BackupTypes
  <2>3. [a EXCEPT !.blobs = kept] \in BackupRecord
    BY <2>2 DEF BackupRecord
  <2>4. UNCHANGED <<keys, bk, target, rs, rsDied>>
    BY <1>5 DEF Damage
  <2> QED BY <2>1, <2>3, <2>4 DEF BackupTypes
<1>6. ASSUME NEW a \in archives, NEW c \in Codes, Restore(a, c)
      PROVE  BackupTypes'
  BY <1>6 DEF Restore, BackupTypes
<1>7. CASE PlaceDatabase
  <2>1. target' \in Store
    BY <1>7, <1>t, <1>p, DbReplaced DEF PlaceDatabase
  <2>2. rs' \in [at : {"idle", "database", "blobs"}, from : BackupRecord]
    BY <1>7 DEF PlaceDatabase, BackupTypes
  <2> QED BY <1>7, <2>1, <2>2 DEF PlaceDatabase, BackupTypes
<1>8. CASE PlaceBlobs
  <2>1. Content(rs.from).blobs = [there |-> TRUE, files |-> rs.from.blobs]
    BY DEF Content
  <2>2. Content(rs.from).blobs \in BlobDir
    BY <1>p, <2>1 DEF BlobDir
  <2>3. target' \in Store
    BY <1>8, <1>t, <2>2, BlobsReplaced DEF PlaceBlobs
  <2> QED BY <1>8, <1>n, <2>3 DEF PlaceBlobs, BackupTypes
<1>9. CASE RestoreFails
  <2>1. target' \in Store
    BY <1>9, <1>t, DbReplaced DEF RestoreFails, Withdrawn
  <2> QED BY <1>9, <1>n, <2>1 DEF RestoreFails, BackupTypes
<1>a. CASE RestoreDies
  BY <1>a, <1>n DEF RestoreDies, BackupTypes
<1> QED BY <1>1, <1>2, <1>3, <1>4, <1>5, <1>6, <1>7, <1>8, <1>9, <1>a DEF BackUp

LEMMA BackUpStep ==
  ASSUME StoreTypes, BackupTypes, BackupInv, BackUp
  PROVE  BackupInv'
<1>0. BackupTypes'
  BY BackUpTypes
<1>t. /\ target \in Store /\ bk \in BackupRecord /\ archives \subseteq BackupRecord
      /\ rs.from \in BackupRecord
  BY DEF BackupTypes
<1>i. ArchivesComplete /\ RestoreFrom /\ RestoredWhole
  BY DEF BackupInv
<1>c. \A a \in archives' : Content([a EXCEPT !.blobs = a.listed]) = Cut(a)
  BY <1>0, CutOf DEF BackupTypes
<1>s. \A a : SameCut(a, a)
  BY DEF SameCut
<1>r. ASSUME UNCHANGED <<target, rs, rsDied>>, \A a \in archives : \E b \in archives' : SameCut(a, b)
      PROVE  RestoreFrom' /\ RestoredWhole'
  BY <1>0, <1>r, CutsStay
<1>a. UNCHANGED <<bk, archives>> => ArchivesComplete'
  BY <1>i DEF ArchivesComplete
<1>b. UNCHANGED archives => \A a \in archives : \E b \in archives' : SameCut(a, b)
  BY <1>s
<1>1. CASE CopySource \/ CopyReferenced \/ NoArchive \/ Rotate
  <2>1. UNCHANGED <<archives, target, rs, rsDied>>
    BY <1>1 DEF CopySource, CopyReferenced, NoArchive, Rotate
  <2>2. bk'.at = "publish" => bk'.listed = bk'.db.rows
    <3>1. CASE CopySource
      <4>1. bk'.at = "blobs"
        BY <3>1 DEF CopySource, NoBackup
      <4> QED BY <4>1
    <3>2. CASE CopyReferenced
      <4>1. Collected = bk.db.rows
        BY <3>2 DEF CopyReferenced, Collected, Complete
      <4>2. bk'.listed = Collected /\ bk'.db = bk.db
        BY <1>t, <3>2 DEF CopyReferenced, BackupRecord
      <4> QED BY <4>1, <4>2
    <3>3. CASE NoArchive
      <4>1. bk'.at = "idle"
        BY <3>3 DEF NoArchive, NoBackup
      <4> QED BY <4>1
    <3>4. CASE Rotate
      BY <1>i, <3>4 DEF Rotate, ArchivesComplete
    <3> QED BY <1>1, <3>1, <3>2, <3>3, <3>4
  <2>3. ArchivesComplete'
    BY <1>i, <2>1, <2>2 DEF ArchivesComplete
  <2> QED BY <1>b, <1>r, <2>1, <2>3 DEF BackupInv
<1>2. CASE Archive
  <2>1. /\ archives' = archives \cup {bk} /\ bk.listed = bk.db.rows /\ bk' = NoBackup
        /\ UNCHANGED <<target, rs, rsDied>>
    BY <1>2, <1>i DEF Archive, ArchivesComplete
  <2>2. ArchivesComplete'
    BY <1>i, <2>1 DEF ArchivesComplete, NoBackup
  <2>3. \A a \in archives : \E b \in archives' : SameCut(a, b)
    BY <1>s, <2>1
  <2> QED BY <1>r, <2>1, <2>2, <2>3 DEF BackupInv
<1>3. CASE Damage
  <2>0. PICK a \in archives : \E kept \in SUBSET a.blobs :
          archives' = (archives \ {a}) \cup {[a EXCEPT !.blobs = kept]}
    BY <1>3 DEF Damage
  <2>1. PICK kept \in SUBSET a.blobs :
          archives' = (archives \ {a}) \cup {[a EXCEPT !.blobs = kept]}
    BY <2>0
  <2> DEFINE d == [a EXCEPT !.blobs = kept]
  <2>2. d.db = a.db /\ d.listed = a.listed
    BY <1>t DEF BackupRecord
  <2>3. SameCut(a, d) /\ d \in archives'
    BY <2>1, <2>2 DEF SameCut
  <2>4. archives' = (archives \ {a}) \cup {d} /\ UNCHANGED <<bk, target, rs, rsDied>>
    BY <1>3, <2>1 DEF Damage
  <2> HIDE DEF d
  <2>5. ArchivesComplete'
    BY <1>i, <2>2, <2>4 DEF ArchivesComplete
  <2>6. \A b \in archives : \E e \in archives' : SameCut(b, e)
    BY <1>s, <2>3, <2>4
  <2> QED BY <1>r, <2>4, <2>5, <2>6 DEF BackupInv
<1>4. ASSUME NEW a \in archives, NEW c \in Codes, Restore(a, c)
      PROVE  BackupInv'
  <2>1. /\ rs.at = "idle" /\ ~target.db.there /\ ~target.blobs.there /\ a.blobs = a.listed
        /\ rs' = [at |-> "database", from |-> a]
        /\ UNCHANGED <<archives, bk, target, rsDied>>
    BY <1>4 DEF Restore, Absent, Verified, Intact
  <2>2. a.db.there
    BY <1>4 DEF Restore, Ready, Content
  <2>3. RestoreFrom'
    BY <1>i, <1>s, <2>1, <2>2 DEF RestoreFrom
  <2>4. RestoredWhole'
    BY <2>1 DEF RestoredWhole
  <2> QED BY <1>a, <2>1, <2>3, <2>4 DEF BackupInv
<1>5. CASE PlaceDatabase
  <2>1. /\ rs.at = "database" /\ target' = [target EXCEPT !.db = rs.from.db]
        /\ rs' = [rs EXCEPT !.at = "blobs"] /\ UNCHANGED <<archives, bk, rsDied>>
    BY <1>5 DEF PlaceDatabase
  <2>2. rs'.at = "blobs" /\ rs'.from = rs.from
    BY <2>1 DEF BackupTypes
  <2>3. target'.db = rs.from.db /\ target'.wal = target.wal /\ target'.blobs = target.blobs
    BY <1>t, <2>1 DEF Store
  <2>4. RestoreFrom' /\ ~target'.blobs.there
    BY <1>i, <2>1, <2>2, <2>3 DEF RestoreFrom
  <2>5. RestoredWhole'
    BY <2>2, <2>4 DEF RestoredWhole
  <2> QED BY <1>a, <2>1, <2>4, <2>5 DEF BackupInv
<1>6. CASE PlaceBlobs
  <2> DEFINE b == [there |-> TRUE, files |-> rs.from.blobs]
  <2>1. /\ rs.at = "blobs" /\ target' = [target EXCEPT !.blobs = b]
        /\ rs' = NoRestore /\ UNCHANGED <<archives, bk, rsDied>>
    BY <1>6 DEF PlaceBlobs, Content
  <2>2. rs'.at = "idle"
    BY <2>1 DEF NoRestore
  <2>3. target' = [db |-> rs.from.db, wal |-> {}, blobs |-> b]
    BY <1>t, <1>i, <2>1, StoreParts DEF RestoreFrom, Store
  <2>4. PICK a \in archives : SameCut(a, rs.from)
    BY <1>i, <2>1 DEF RestoreFrom
  <2>5. rs.from.blobs = a.listed /\ rs.from.db = a.db /\ a.listed = a.db.rows
    BY <1>i, <2>1, <2>4 DEF RestoreFrom, SameCut, ArchivesComplete
  <2>6. target' = Cut(a) /\ Dangling(target)' = {}
    BY <2>3, <2>5 DEF Cut, Dangling, Rows
  <2>7. target'.blobs.there /\ target'.wal = {}
    BY <2>3
  <2>8. RestoreFrom'
    BY <2>2, <2>7 DEF RestoreFrom
  <2>9. RestoredWhole'
    BY <1>c, <2>1, <2>6, <2>7 DEF RestoredWhole
  <2> QED BY <1>a, <2>1, <2>8, <2>9 DEF BackupInv
<1>7. CASE RestoreFails
  <2>1. /\ rs.at # "idle" /\ target' = [target EXCEPT !.db = NoFile]
        /\ rs' = NoRestore /\ UNCHANGED <<archives, bk, rsDied>>
    BY <1>7 DEF RestoreFails, Withdrawn
  <2>2. rs'.at = "idle" /\ ~NoFile.there
    BY <2>1 DEF NoRestore, NoFile
  <2>3. target'.db = NoFile /\ target'.wal = target.wal /\ target'.blobs = target.blobs
    BY <1>t, <2>1 DEF Store
  <2>4. RestoreFrom' /\ ~target'.blobs.there
    BY <1>i, <2>1, <2>2, <2>3 DEF RestoreFrom
  <2>5. RestoredWhole'
    BY <2>2, <2>3, <2>4 DEF RestoredWhole
  <2> QED BY <1>a, <2>1, <2>4, <2>5 DEF BackupInv
<1>8. CASE RestoreDies
  <2>1. /\ rs.at # "idle" /\ rsDied' = (rsDied \/ rs.at = "blobs")
        /\ rs' = NoRestore /\ UNCHANGED <<archives, bk, target>>
    BY <1>8 DEF RestoreDies
  <2>2. rs'.at = "idle"
    BY <2>1 DEF NoRestore
  <2>3. RestoreFrom' /\ ~target'.blobs.there
    BY <1>i, <2>1, <2>2 DEF RestoreFrom
  <2>4. target.db.there /\ ~target.blobs.there => rs.at = "blobs" \/ rsDied
    BY <1>i DEF RestoredWhole
  <2>5. RestoredWhole'
    BY <2>1, <2>3, <2>4 DEF RestoredWhole
  <2> QED BY <1>a, <2>1, <2>3, <2>5 DEF BackupInv
<1> QED BY <1>1, <1>2, <1>3, <1>4, <1>5, <1>6, <1>7, <1>8 DEF BackUp

------------------------------------------------------------------------------
(* The inductive invariant of the whole. *)
IInv == StateInv /\ BackupTypes /\ BackupInv

LEMMA InitIInv ==
  ASSUME RecoveryInit
  PROVE  IInv
<1>i. Init /\ DeployInit /\ BackupInit
  BY DEF RecoveryInit
<1>e. /\ NoStore \in Store /\ NoOp \in Operation /\ NoBackup \in BackupRecord
      /\ NoStore.db = NoFile /\ NoStore.wal = {} /\ NoStore.blobs = NoDir
      /\ NoFile.rows = {} /\ ~NoFile.there /\ ~NoDir.there
      /\ NoOp.at = "idle" /\ NoOp.kind = "none" /\ ~NoOp.failing /\ NoOp.copy = NoStore
      /\ NoOp.missing = {}
  BY EmptyTypes DEF NoOp, NoStore, NoFile, NoDir
<1>d. /\ active = "none" /\ snapshots = {} /\ op = NoOp /\ dropped = {} /\ broken = FALSE
  BY <1>i DEF DeployInit
<1>w. "idle" \notin Switching /\ "idle" \notin After /\ "idle" \notin {"log"} \cup Switching
  BY DEF Switching, After
<1>1. live = [db |-> [there |-> TRUE, rows |-> Existing, tables |-> TRUE, ledger |-> 1],
              wal |-> {}, blobs |-> [there |-> TRUE, files |-> Existing]]
  BY <1>i DEF Init
<1>2. /\ beside = "own" /\ aside = NoStore /\ pc = [s \in Servers |-> "off"]
      /\ conn = [s \in Servers |-> "none"] /\ job = [s \in Servers |-> {}]
      /\ acked = Existing /\ copied = FALSE /\ since = {} /\ late = {}
  BY <1>i DEF Init
<1>3. /\ live \in Store /\ live.db.there /\ live.db.tables /\ live.blobs.there
      /\ Rows(live) = Existing /\ Dangling(live) = {}
  BY <1>1, ExistingAssumption DEF Store, DbFile, BlobDir, Rows, Dangling
<1>4. StoreTypes
  BY <1>e, <1>2, <1>3, ExistingAssumption DEF StoreTypes
<1>5. DeployTypes
  BY <1>e, <1>d DEF DeployTypes, Names
<1>6. EmptyFiles /\ JobsStored
  BY <1>e, <1>2, <1>3 DEF EmptyFiles, JobsStored
<1>7. Phases /\ CopyOf /\ PutIn /\ MissingLate /\ SnapshotsWell
  BY <1>e, <1>d, <1>w, <1>2 DEF Phases, CopyOf, PutIn, MissingLate, SnapshotsWell, At
<1>8. Accounted
  BY <1>2, <1>3 DEF Accounted, Held
<1>9. BackWhole
  <2>1. Back = live /\ Lost = late
    BY <1>e, <1>d, <1>w DEF Back, Lost
  <2> QED BY <2>1, <1>2, <1>3 DEF BackWhole
<1>a. /\ archives = {} /\ bk = NoBackup /\ target = NoStore /\ rs = NoRestore /\ rsDied = FALSE
      /\ keys \in KeyVersions
  BY <1>i DEF BackupInit
<1>b. NoRestore.at = "idle" /\ NoRestore.from = NoBackup /\ NoBackup.at = "idle"
  BY DEF NoRestore, NoBackup
<1>c. BackupTypes
  BY <1>a, <1>e DEF BackupTypes, NoRestore
<1>f. BackupInv
  BY <1>a, <1>b, <1>e DEF BackupInv, ArchivesComplete, RestoreFrom, RestoredWhole
<1> QED BY <1>4, <1>5, <1>6, <1>7, <1>8, <1>9, <1>c, <1>f DEF IInv, StateInv, DeployInv

LEMMA NextIInv ==
  ASSUME IInv, [Next]_vars
  PROVE  IInv'
<1>i. /\ StateInv /\ BackupTypes /\ BackupInv
      /\ StoreTypes /\ DeployTypes /\ EmptyFiles /\ JobsStored /\ DeployInv
  BY DEF IInv, StateInv
<1>b. ASSUME UNCHANGED backupVars PROVE BackupTypes' /\ BackupInv'
  <2>1. UNCHANGED <<keys, archives, bk, target, rs, rsDied>>
    BY <1>b DEF backupVars
  <2>2. BackupTypes'
    BY <1>i, <2>1 DEF BackupTypes
  <2>3. ArchivesComplete' /\ RestoreFrom'
    BY <1>i, <2>1 DEF BackupInv, ArchivesComplete, RestoreFrom
  <2>4. RestoredWhole'
    BY <1>i, <2>1 DEF BackupInv, RestoredWhole, Dangling, Rows
  <2> QED BY <2>2, <2>3, <2>4 DEF BackupInv
<1>1. CASE Serve /\ UNCHANGED <<deployVars, backupVars>>
  <2>1. ServersKeep
    BY <1>i, <1>1, ServeStep
  <2>2. StoreTypes' /\ EmptyFiles' /\ JobsStored' /\ \E new \in SUBSET Writes : Grows(new)
    BY <2>1 DEF ServersKeep
  <2>3. DeployInv'
    BY <1>i, <1>1, <2>2, DeployBesideServers
  <2>4. DeployTypes'
    BY <1>i, <1>1 DEF DeployTypes, deployVars
  <2> QED BY <1>b, <1>1, <2>2, <2>3, <2>4 DEF IInv, StateInv
<1>2. CASE Deploy /\ UNCHANGED backupVars
  BY <1>i, <1>b, <1>2, DeployStep DEF IInv
<1>3. CASE BackUp /\ UNCHANGED deployVars
  <2>1. /\ UNCHANGED <<live, aside, pc, conn, job, acked, copied, since, late>>
        /\ beside' = beside \/ Opening
    BY <1>3 DEF BackUp, CopySource, CopyReferenced, Archive, NoArchive, Rotate, Damage, Restore,
       PlaceDatabase, PlaceBlobs, RestoreFails, RestoreDies, storeVars
  <2>2. UNCHANGED <<active, snapshots, op, dropped, broken>>
    BY <1>3 DEF deployVars
  <2>b. /\ beside' \in {"own", "moved", "fresh", "foreign"}
        /\ beside' = "foreign" <=> beside = "foreign"
    BY <1>i, <2>1 DEF StoreTypes, Opening
  <2>3. StateInv'
    BY <1>i, <2>1, <2>b, <2>2, Untouched
  <2> QED BY <1>i, <1>3, <2>3, BackUpTypes, BackUpStep DEF IInv
<1>4. CASE UNCHANGED vars
  <2>1. /\ UNCHANGED <<live, beside, aside, pc, conn, job, acked, copied, since, late>>
        /\ UNCHANGED <<active, snapshots, op, dropped, broken>> /\ UNCHANGED backupVars
    BY <1>4 DEF vars, storeVars, deployVars
  <2>2. beside' \in {"own", "moved", "fresh", "foreign"}
    BY <1>i, <2>1 DEF StoreTypes
  <2> QED BY <1>i, <1>b, <2>1, <2>2, Untouched DEF IInv
<1> QED BY <1>1, <1>2, <1>3, <1>4 DEF Next

LEMMA AlwaysIInv == Spec => []IInv
<1>1. RecoveryInit => IInv
  BY InitIInv
<1>2. IInv /\ [Next]_vars => IInv'
  BY NextIInv
<1> QED BY <1>1, <1>2, PTL DEF Spec

(* CopiesWhole: _snapshot copies the database before the blobs and         *)
(* create_backup refuses a copy whose blobs are gone, so that neither      *)
(* lacks a blob the store still had.                                       *)
THEOREM CopiesAreWhole == Spec => []CopiesWhole
<1>1. IInv => CopiesWhole
  BY DEF IInv, StateInv, DeployInv, SnapshotsWell, BackupInv, ArchivesComplete, CopiesWhole
<1> QED BY <1>1, AlwaysIInv, PTL

(* Survives: wherever transactional_upgrade or rollback_deployment fails,  *)
(* cannot undo or dies, an acknowledged write that did not meet the switch *)
(* is live or in a retained snapshot.                                      *)
THEOREM WritesSurvive == Spec => []Survives
<1>1. IInv => Survives
  <2>1. SUFFICES ASSUME IInv
                 PROVE  Survives
    OBVIOUS
  <2>2. DeployTypes /\ DeployInv
    BY <2>1 DEF IInv, StateInv
  <2>3. CASE op.at \notin Switching
    BY <2>2, <2>3 DEF DeployInv, Accounted, Held, Survives, Kept
  <2>4. CASE op.at \in Switching
    <3>1. copied /\ op.copy \in Stores
      BY <2>2, <2>4 DEF DeployInv, Phases, Switching, After
    <3>2. Rows(op.copy) \subseteq Kept
      BY <2>2, <3>1, StoresWell DEF DeployInv
    <3> QED BY <2>2, <3>1, <3>2 DEF DeployInv, Accounted, Unkept, Survives, Kept
  <2> QED BY <2>3, <2>4
<1> QED BY <1>1, AlwaysIInv, PTL

(* SwitchWhole: _replace_live and its undoing leave one store, with every  *)
(* write no rollback gave up, unless one died, could not be undone, or     *)
(* left a write-ahead log beside a database that may not be its own.       *)
THEOREM SwitchesAreWhole == Spec => []SwitchWhole
<1>1. IInv => SwitchWhole
  <2>1. "idle" \notin Switching
    BY DEF Switching
  <2> QED BY <2>1 DEF IInv, StateInv, DeployInv, BackWhole, Back, Lost, SwitchWhole, At
<1> QED BY <1>1, AlwaysIInv, PTL

(* RestoredWhole: restore_backup puts all of one archive at its targets or *)
(* nothing, unless it dies between its two renames.                        *)
THEOREM RestoresAreWhole == Spec => []RestoredWhole
<1>1. IInv => RestoredWhole
  BY DEF IInv, BackupInv
<1> QED BY <1>1, AlwaysIInv, PTL

=============================================================================
