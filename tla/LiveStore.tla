------------------------------ MODULE LiveStore -------------------------------
(***************************************************************************)
(* The files of one FolioLattice deployment and the server processes that  *)
(* use them: the database at its path, its write-ahead log beside it, the  *)
(* directory of blobs.  Deployment and Backup move and copy these files    *)
(* while nothing stops a server from using them.                           *)
(*                                                                         *)
(* A connection stays with the file it opened when the path is given to    *)
(* another file.  Opening a path that has no file creates one without      *)
(* tables, and storing a blob recreates a missing directory.  SQLite takes *)
(* whatever log is beside a database for its own: one that was written for *)
(* another file may spoil it.                                               *)
(***************************************************************************)
EXTENDS Integers, FiniteSets

CONSTANTS
  Writes,    \* writes of versions; each has a content, and so a blob, of its own
  Existing,  \* those acknowledged before the model begins
  Servers,   \* server processes
  Codes,     \* releases, numbered by the last migration their code knows
  MaxCommands  \* bound on the upgrades, rollbacks and backups together

ASSUME ExistingAssumption == Existing \subseteq Writes
ASSUME CodesAssumption == Codes \subseteq Nat \ {0}
ASSUME CommandsAssumption == MaxCommands \in Nat

VARIABLES
  live,    \* what is at the paths of the deployment
  beside,  \* whose log is beside the database
  aside,   \* what a switch has moved to temporary names
  pc, conn, job,  \* servers: place, where their open file is, write
  acked,   \* writes acknowledged to their callers
  copied,  \* a command has copied the database and has not ended
  since,   \* the writes acknowledged since then
  late,    \* writes that met a switch of files
  commands \* commands ever given

storeVars == <<live, beside, aside, pc, conn, job, acked, copied, since, late, commands>>

------------------------------------------------------------------------------
Given == commands < MaxCommands /\ commands' = commands + 1

NoFile == [there |-> FALSE, rows |-> {}, tables |-> FALSE, ledger |-> 0]
Blank == [NoFile EXCEPT !.there = TRUE]
NoDir == [there |-> FALSE, files |-> {}]
NoStore == [db |-> NoFile, wal |-> {}, blobs |-> NoDir]

Rows(s) == s.db.rows \cup s.wal
(* The rows whose blobs are gone. *)
Dangling(s) == Rows(s) \ s.blobs.files

(* readiness: the schema must be exactly the one of the code that asks; no *)
(* blob is looked at.                                                       *)
Ready(s, c) == s.db.there /\ s.db.tables /\ s.db.ledger = c /\ s.blobs.there

(* _ensure_migration_ledger: "contains an unknown version" *)
Known(file, c) == file.ledger <= c

(* connect and the script of initialize: each statement commits by itself. *)
Opened(s) == [s EXCEPT !.db.there = TRUE, !.db.tables = TRUE, !.blobs.there = TRUE]
(* The rest of initialize is one transaction: it opens with an INSERT, and *)
(* every check and backfill and the ledger follow under the write lock.    *)
Migrated(file, c) == [file EXCEPT !.ledger = c]

(* beside: "own", until a switch moves the log away; then "moved", until   *)
(* somebody opens the path and makes a log there, "fresh"; "foreign" for   *)
(* good once a log may have met a database that was not its own.           *)
Opening == beside' = IF beside = "moved" THEN "fresh" ELSE beside

(* The last connection to be closed has left an empty log. *)
Init ==
  /\ beside = "own"
  /\ live = [db |-> [there |-> TRUE, rows |-> Existing, tables |-> TRUE, ledger |-> 1],
             wal |-> {}, blobs |-> [there |-> TRUE, files |-> Existing]]
  /\ aside = NoStore
  /\ pc = [s \in Servers |-> "off"]
  /\ conn = [s \in Servers |-> "none"] /\ job = [s \in Servers |-> {}]
  /\ acked = Existing /\ copied = FALSE /\ since = {} /\ late = {} /\ commands = 0

------------------------------------------------------------------------------
(* Start of a server: FolioLattice.__init__ and initialize. *)

Start(s) ==
  /\ pc[s] = "off"
  /\ live' = Opened(live)
  /\ pc' = [pc EXCEPT ![s] = "opened"] /\ conn' = [conn EXCEPT ![s] = "live"]
  /\ Opening
  /\ UNCHANGED <<aside, job, acked, copied, since, late, commands>>

File(s) == IF conn[s] = "live" THEN live.db ELSE aside.db

(* Any release may be the one that starts. *)
Serving(s) ==
  /\ pc[s] = "opened"
  /\ \E c \in Codes :
       /\ conn[s] # "gone" => Known(File(s), c)
       /\ live' = IF conn[s] = "live" THEN [live EXCEPT !.db = Migrated(@, c)] ELSE live
       /\ aside' = IF conn[s] = "aside" THEN [aside EXCEPT !.db = Migrated(@, c)] ELSE aside
  /\ pc' = [pc EXCEPT ![s] = "up"] /\ conn' = [conn EXCEPT ![s] = "none"]
  /\ UNCHANGED <<beside, job, acked, copied, since, late, commands>>

(* The ledger is refused, or the process dies, before the commit or at any *)
(* other time: SQLite rolls back, files stay.                               *)
Stop(s) ==
  /\ pc[s] # "off"
  /\ pc' = [pc EXCEPT ![s] = "off"] /\ conn' = [conn EXCEPT ![s] = "none"]
  /\ job' = [job EXCEPT ![s] = {}]
  /\ UNCHANGED <<live, beside, aside, acked, copied, since, late, commands>>

------------------------------------------------------------------------------
(* A write: connect and BEGIN IMMEDIATE, the blob file, the rows. *)

Begin(s) ==
  /\ pc[s] = "up" /\ live.db.tables
  /\ \E w \in Writes \ (acked \cup UNION {job[t] : t \in Servers}) :
       job' = [job EXCEPT ![s] = {w}]
  /\ pc' = [pc EXCEPT ![s] = "begun"] /\ conn' = [conn EXCEPT ![s] = "live"]
  /\ Opening
  /\ UNCHANGED <<live, aside, acked, copied, since, late, commands>>

(* A request in the moment the database is not at its path: "no such      *)
(* table", and a file that was not there before.                           *)
CreateBlank(s) ==
  /\ pc[s] = "up" /\ ~live.db.there
  /\ live' = [live EXCEPT !.db = Blank]
  /\ Opening
  /\ UNCHANGED <<aside, pc, conn, job, acked, copied, since, late, commands>>

StoreBlob(s) ==
  /\ pc[s] = "begun"
  /\ live' = [live EXCEPT !.blobs = [there |-> TRUE, files |-> @.files \cup job[s]]]
  /\ pc' = [pc EXCEPT ![s] = "stored"]
  /\ UNCHANGED <<beside, aside, conn, job, acked, copied, since, late, commands>>

Commit(s) ==
  /\ pc[s] = "stored"
  /\ live' = IF conn[s] = "live" THEN [live EXCEPT !.wal = @ \cup job[s]] ELSE live
  /\ aside' = IF conn[s] = "aside" THEN [aside EXCEPT !.wal = @ \cup job[s]] ELSE aside
  /\ acked' = acked \cup job[s] /\ since' = IF copied THEN since \cup job[s] ELSE since
  /\ late' = IF conn[s] = "live" /\ beside # "foreign" THEN late ELSE late \cup job[s]
  /\ pc' = [pc EXCEPT ![s] = "up"] /\ conn' = [conn EXCEPT ![s] = "none"]
  /\ job' = [job EXCEPT ![s] = {}]
  /\ UNCHANGED <<beside, copied, commands>>

(* SQLite moves the log into the database file. *)
Checkpoint ==
  /\ live.db.there /\ live.wal # {}
  /\ live' = [live EXCEPT !.db.rows = @ \cup live.wal, !.wal = {}]
  /\ UNCHANGED <<beside, aside, pc, conn, job, acked, copied, since, late, commands>>

(* A foreign log is read over the database, whose rows may be lost.  (One  *)
(* that can no longer be read refuses commands and writes, and shows no     *)
(* more than one that has lost them all.)                                   *)
Spoil ==
  /\ beside = "foreign" /\ live.db.there
  /\ \E kept \in SUBSET Rows(live) : live' = [live EXCEPT !.db.rows = kept, !.wal = {}]
  /\ UNCHANGED <<beside, aside, pc, conn, job, acked, copied, since, late, commands>>

Serve ==
  \/ Checkpoint \/ Spoil
  \/ \E s \in Servers :
       \/ Start(s) \/ Serving(s) \/ Stop(s)
       \/ Begin(s) \/ CreateBlank(s) \/ StoreBlob(s) \/ Commit(s)

=============================================================================
