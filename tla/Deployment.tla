------------------------------ MODULE Deployment ------------------------------
(***************************************************************************)
(* Upgrade and rollback of a deployment: a snapshot is taken, the store is *)
(* migrated or replaced by six renames, and the state file is written.     *)
(* The command may fail at any of them and undo what it did, or die.       *)
(*                                                                         *)
(* One operator gives one command at a time; nothing in the code stops     *)
(* servers meanwhile.                                                       *)
(***************************************************************************)
EXTENDS LiveStore

CONSTANTS
  Versions,      \* deployment versions, as the operator names them
  MaxFailures    \* bound on the steps that fail

ASSUME VersionsAssumption == "none" \notin Versions
ASSUME FailuresAssumption == MaxFailures \in Nat

VARIABLES
  active,     \* active_version in the state file; "none" at first
  snapshots,  \* the rollback snapshots, which nothing ever deletes
  op,         \* the command under way
  failures,
  dropped,    \* rows that rollbacks took out of the live store
  broken      \* a switch died, could not undo, or left a foreign log

StoreStays == UNCHANGED <<live, beside, aside, pc, conn, job, acked, late, commands>>

deployVars == <<active, snapshots, op, failures, dropped, broken>>

------------------------------------------------------------------------------
(* copy: the snapshot under construction, and once published the state to  *)
(* go back to.  gone: what earlier rollbacks had dropped when it was taken. *)
(* next: what the switch puts in place.  logged: it found a log to move.    *)
NoOp == [at |-> "idle", kind |-> "none", code |-> 0, to |-> "none", copy |-> NoStore,
         missing |-> {}, gone |-> {}, next |-> NoStore, failing |-> FALSE,
         logged |-> FALSE]

DeployInit ==
  /\ active = "none" /\ snapshots = {} /\ op = NoOp
  /\ failures = 0 /\ dropped = {} /\ broken = FALSE

At(place) == op.at = place
Goto(place) == op' = [op EXCEPT !.at = place]
(* The command ends, well or with an error. *)
End == op' = NoOp /\ copied' = FALSE /\ since' = {}

(* initialize_deployment_state *)
InitState(c, v) ==
  /\ At("idle") /\ active = "none" /\ Ready(live, c)
  /\ active' = v
  /\ UNCHANGED <<storeVars, snapshots, op, failures, dropped, broken>>

Command == At("idle") /\ active # "none" /\ Given

(* transactional_upgrade up to its snapshot *)
Upgrade(c, v) ==
  /\ Command /\ v # active /\ Ready(live, c)
  /\ op' = [NoOp EXCEPT !.at = "database", !.kind = "upgrade", !.code = c, !.to = v]
  /\ UNCHANGED <<live, beside, aside, pc, conn, job, acked, copied, since, late, active, snapshots, failures, dropped, broken>>

(* rollback_deployment up to its snapshot: the chosen one is staged first. *)
Rollback(c, v) ==
  /\ Command
  /\ \E s \in snapshots :
       /\ s.version = v /\ Ready(s.store, c)
       /\ op' = [NoOp EXCEPT !.at = "database", !.kind = "rollback", !.code = c, !.to = v,
                             !.next = s.store]
  /\ UNCHANGED <<live, beside, aside, pc, conn, job, acked, copied, since, late, active, snapshots, failures, dropped, broken>>

------------------------------------------------------------------------------
(* _snapshot: the database, by SQLite's backup, then the blobs. *)

\* mutant: the file is copied without its write-ahead log
ImageOfFile(s) == s.db
Image(s) == [s.db EXCEPT !.rows = Rows(s)]

CopyDatabase ==
  /\ At("database") /\ live.db.there
  /\ op' = [op EXCEPT !.at = "blobs", !.copy.db = Image(live), !.missing = Dangling(live),
                        !.gone = dropped]
  /\ copied' = TRUE
  /\ UNCHANGED <<live, beside, aside, pc, conn, job, acked, since, late, commands>>
  /\ UNCHANGED <<active, snapshots, failures, dropped, broken>>

CopyBlobs ==
  /\ At("blobs") /\ live.blobs.there
  /\ op' = [op EXCEPT !.at = "publish", !.copy.blobs = live.blobs]
  /\ UNCHANGED <<storeVars, active, snapshots, failures, dropped, broken>>

Publish ==
  /\ At("publish") /\ Ready(op.copy, op.code)
  /\ snapshots' = snapshots \cup
       {[version |-> active, store |-> op.copy, missing |-> op.missing]}
  /\ Goto(IF op.kind = "upgrade" THEN "migrate" ELSE "log")
  /\ UNCHANGED <<storeVars, active, failures, dropped, broken>>

(* No snapshot, for an error or because the copy is not ready: the command *)
(* ends and has touched nothing.                                           *)
Unready == At("publish") /\ ~Ready(op.copy, op.code)
Fault == failures < MaxFailures /\ failures' = failures + 1

NoSnapshot ==
  /\ op.at \in {"database", "blobs", "publish"}
  /\ \/ Unready /\ UNCHANGED failures
     \/ Fault
  /\ End
  /\ StoreStays
  /\ UNCHANGED <<active, snapshots, dropped, broken>>

------------------------------------------------------------------------------
(* migration_check, which opens the store as a server does *)
Migrate ==
  /\ At("migrate") /\ Known(live.db, op.code)
  /\ live' = [Opened(live) EXCEPT !.db = Migrated(@, op.code)]
  /\ Goto("record")
  /\ UNCHANGED <<beside, aside, pc, conn, job, acked, copied, since, late, commands>>
  /\ UNCHANGED <<active, snapshots, failures, dropped, broken>>

(* The last inspection and the state file. *)
Record ==
  /\ At("record") /\ ~op.failing /\ Ready(live, op.code)
  /\ active' = op.to
  /\ End
  /\ StoreStays
  /\ UNCHANGED <<snapshots, failures, dropped, broken>>

(* The end of _restore_snapshot: "previous state restored", or the error  *)
(* of its inspection; the command fails both ways.                         *)
Restored ==
  /\ At("record") /\ op.failing
  /\ End
  /\ StoreStays
  /\ UNCHANGED <<active, snapshots, failures, dropped, broken>>

(* Any exception after the snapshot: the copy just taken is staged and put *)
(* in place, unless that fails too.                                        *)
FallBack ==
  op' = [op EXCEPT !.at = "log", !.failing = TRUE, !.next = op.copy, !.logged = FALSE]

Fail ==
  /\ op.at \in {"migrate", "record", "log"} /\ ~op.failing
  /\ \/ At("migrate") /\ ~Known(live.db, op.code) /\ UNCHANGED failures
     \/ At("record") /\ ~Ready(live, op.code) /\ UNCHANGED failures
     \/ Fault
  /\ FallBack
  /\ UNCHANGED <<storeVars, active, snapshots, dropped, broken>>

(* The copy cannot be staged: the live store stays as it is. *)
CannotStage ==
  /\ At("log") /\ op.failing /\ Fault
  /\ End
  /\ StoreStays
  /\ UNCHANGED <<active, snapshots, dropped, broken>>

------------------------------------------------------------------------------
(* _replace_live: the log, if there is one, the database and the blobs are *)
(* moved aside, the staged files are moved in, and the old ones deleted.    *)

Stay == UNCHANGED <<active, snapshots, failures, dropped>>
Follow(from, to) == conn' = [s \in Servers |-> IF conn[s] = from THEN to ELSE conn[s]]
Orphans == UNION {job[s] : s \in {t \in Servers : pc[t] = "stored"}}

(* What the log at the path is to the database that stays there: foreign,  *)
(* if it may be another's.                                                  *)
BesideIs(foreign, otherwise) ==
  /\ beside' = IF beside = "foreign" \/ foreign THEN "foreign" ELSE otherwise
  /\ broken' = (broken \/ beside' = "foreign")

(* An open connection, or a crash, has left a log; else there may be none. *)
NoLog == live.wal = {} /\ \A s \in Servers : conn[s] # "live"

MoveLog ==
  /\ At("log") /\ live.db.there
  /\ \E logged \in BOOLEAN :
       /\ logged \/ NoLog
       /\ op' = [op EXCEPT !.at = "old database", !.logged = logged]
  /\ aside' = [aside EXCEPT !.wal = live.wal]
  /\ live' = [live EXCEPT !.wal = {}]
  /\ BesideIs(FALSE, "moved")
  /\ Follow("live", "aside")
  /\ UNCHANGED <<pc, job, acked, copied, since, late, commands>> /\ Stay

MoveDatabase ==
  /\ At("old database")
  /\ aside' = [aside EXCEPT !.db = live.db]
  /\ live' = [live EXCEPT !.db = NoFile]
  /\ Follow("live", "aside")
  /\ Goto("new database")
  /\ UNCHANGED <<beside, pc, job, acked, copied, since, late, commands, broken>> /\ Stay

(* A log made since the old one was moved is for the old database or for   *)
(* an empty one, and stays.                                                 *)
PutDatabase ==
  /\ At("new database")
  /\ live' = [live EXCEPT !.db = op.next.db]
  /\ BesideIs(beside = "fresh", beside)
  /\ Follow("live", "gone")
  /\ Goto("old blobs")
  /\ UNCHANGED <<aside, pc, job, acked, copied, since, late, commands>> /\ Stay

MoveBlobs ==
  /\ At("old blobs") /\ live.blobs.there
  /\ aside' = [aside EXCEPT !.blobs = live.blobs]
  /\ live' = [live EXCEPT !.blobs = NoDir]
  /\ late' = late \cup Orphans
  /\ Goto("new blobs")
  /\ UNCHANGED <<beside, pc, conn, job, acked, copied, since, commands, broken>> /\ Stay

(* A directory is renamed onto nothing or onto an empty directory. *)
Free == live.blobs.files = {}

PutBlobs ==
  /\ At("new blobs") /\ Free
  /\ live' = [live EXCEPT !.blobs = op.next.blobs]
  /\ BesideIs(FALSE, "own")
  /\ aside' = NoStore /\ Follow("aside", "gone")
  /\ late' = late \cup since
  /\ dropped' = (op.gone \cup Rows(op.copy)) \ Rows(op.next)
  /\ op' = [op EXCEPT !.at = "record", !.logged = FALSE]
  /\ UNCHANGED <<pc, job, acked, copied, since, commands>>
  /\ UNCHANGED <<active, snapshots, failures>>

\* mutant: the write-ahead log is not put back
UndoneWithoutLog ==
  [db |-> IF op.at \in {"new database", "old blobs", "new blobs"} THEN aside.db ELSE live.db,
   wal |-> {},
   blobs |-> IF op.at = "new blobs" THEN aside.blobs ELSE live.blobs]
(* The except clause puts back what was moved, last things first.  A log   *)
(* that was made meanwhile gives way to the one that was moved; if none    *)
(* was, it stays.                                                           *)
Undone ==
  [db |-> IF op.at \in {"new database", "old blobs", "new blobs"} THEN aside.db ELSE live.db,
   wal |-> IF op.logged THEN aside.wal ELSE live.wal,
   blobs |-> IF op.at = "new blobs" THEN aside.blobs ELSE live.blobs]

(* Two logs were open on the old database at once, or the one that stays   *)
(* is the new database's, or an empty one's.                                *)
UndoCrosses ==
  beside = "fresh" /\ (IF op.logged THEN op.at \in {"old database", "new database"}
                       ELSE ~At("old database"))

AfterSwitch ==
  /\ aside' = NoStore
  /\ late' = late \cup since \cup Orphans
  /\ IF op.failing THEN End ELSE FallBack /\ UNCHANGED <<copied, since>>

SwitchFails ==
  /\ op.at \in {"old database", "new database", "old blobs", "new blobs"}
  /\ At("new blobs") => Free
  /\ Fault
  /\ live' = Undone
  /\ BesideIs(UndoCrosses, "own")
  /\ conn' = [s \in Servers |-> CASE conn[s] = "aside" -> "live"
                                  [] conn[s] = "live" /\ (op.logged \/ ~At("old database")) -> "gone"
                                  [] OTHER -> conn[s]]
  /\ AfterSwitch
  /\ UNCHANGED <<pc, job, acked, commands>>
  /\ UNCHANGED <<active, snapshots, dropped>>

(* A server stored a blob where the directory was: it can neither be       *)
(* replaced nor put back, the except clause ends before it reaches the     *)
(* database, and the finally clause deletes what was moved aside.          *)
UndoFails ==
  /\ At("new blobs") /\ ~Free
  /\ broken' = TRUE
  /\ beside' = IF beside = "foreign" THEN "foreign" ELSE "own"
  /\ Follow("aside", "gone")
  /\ AfterSwitch
  /\ UNCHANGED <<live, pc, job, acked, commands>>
  /\ UNCHANGED <<active, snapshots, failures, dropped>>

(* Death of the command.  What it moved aside stays where nothing looks,   *)
(* but a connection may still have the old log open beside the database.    *)
Switching == {"old database", "new database", "old blobs", "new blobs"}

DeathCrosses ==
  \/ At("old database") /\ \E s \in Servers : conn[s] = "aside"
  \/ op.at \in {"old database", "new database"} /\ beside = "fresh"

Die ==
  /\ ~At("idle")
  /\ End
  /\ aside' = NoStore /\ Follow("aside", "gone")
  /\ late' = IF op.at \in Switching THEN late \cup since \cup Orphans ELSE late
  /\ broken' = (broken \/ op.at \in Switching)
  /\ beside' = IF beside = "foreign" \/ DeathCrosses THEN "foreign" ELSE "own"
  /\ UNCHANGED <<live, pc, job, acked, commands>>
  /\ UNCHANGED <<active, snapshots, failures, dropped>>

Deploy ==
  \/ \E c \in Codes, v \in Versions : InitState(c, v) \/ Upgrade(c, v) \/ Rollback(c, v)
  \/ CopyDatabase \/ CopyBlobs \/ Publish \/ NoSnapshot
  \/ Migrate \/ Record \/ Restored \/ Fail \/ CannotStage
  \/ MoveLog \/ MoveDatabase \/ PutDatabase \/ MoveBlobs \/ PutBlobs
  \/ SwitchFails \/ UndoFails \/ Die

------------------------------------------------------------------------------
(* No command loses an acknowledged write: it is in the live store or in a *)
(* retained snapshot, wherever a command failed, could not undo, or died,  *)
(* and whatever servers or SQLite made of half-switched files and their    *)
(* logs.  Only writes that met the switch itself, or were committed to a   *)
(* file it had taken away or to a database left beside a foreign log, may  *)
(* be in neither.                                                          *)
Survives ==
  acked \ (late \cup since) \subseteq Rows(live) \cup UNION {Rows(s.store) : s \in snapshots}

(* When no command is under way, and none died in the middle of a switch,  *)
(* failed to undo it, or left a log beside a database that may not be its  *)
(* own, the live store is one store: database and blobs are there, every   *)
(* row has its blob, and it holds every write that no rollback was asked   *)
(* to give up.                                                              *)
SwitchWhole ==
  At("idle") /\ ~broken =>
    /\ live.db.there /\ live.db.tables /\ live.blobs.there
    /\ Dangling(live) \subseteq late
    /\ acked \ (late \cup dropped) \subseteq Rows(live)

=============================================================================
