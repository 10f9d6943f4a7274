# Folio Lattice: verification models

Folio Lattice keeps versioned artifacts for people and agents: a SQLite
database, a directory of content-addressed blobs beside it, an access-control
list, and a registry of external MCP servers it may call on a user's behalf.
This directory models its core in TLA+, checks the models with TLC and proves
the most important results with TLAPS. All paths below are relative to
`src/src/folio_lattice/` unless they start with `docs/`.

## 1. The system

| Component | State | Operations | What makes it correct | Hard behaviour |
|---|---|---|---|---|
| Artifact store (`service.py`) | tables `artifacts`, `versions`, `acl_grants`, `edges`; blob files | create, write, read, share, revoke, link; list, search, grep, traverse | linear history, blobs of committed versions exist, reads are of one version, tenants apart, access only through the owner | several clients, transactions that touch files, queries after the commit, process death, power loss |
| External MCP registry and broker (`service.py`, `external_mcp.py`) | tables `external_mcp_connections`, `external_mcp_audit`; concurrency slots in memory | register, status, health, revoke, tool call, resource read | no use after revocation, only approved uses, truthful audit, slots balanced | a network call inside a transaction, audit after it, check and write in two transactions |
| Rate and concurrency limiters (`resource_limits.py`, copies in `server.py`) | windows and counters in memory | allow, try_acquire, release | bounds hold, a refused call charges nothing | many keys, limits at their edge |
| Audit lifecycle (`service.py`, `audit.py`) | table `audit_events` | record, list, export with a cursor, hold, purge | an export misses nothing, held events stay, hashes verify | late timestamps, purge beside hold |
| Schema migrations (`service.py`) | ledger, tables | initialize, backfill | once, whole, and in order | two processes starting at once |
| Deployment (`deployment.py`) | live and staged database and blobs, state file | upgrade, rollback | always one complete store | death between renames |
| Backup (`backup.py`) | archive, target store | create, verify, restore | a restored store is a consistent cut | writers beside the backup, two renames |
| Backup status (`backup_ops.py`) | none; the key custody and the backup store are external | status | ready means that a backup can be restored | four calls to two systems that change meanwhile |
| Browser sessions and logins (`sessions.py`, `server.py`) | `auth_transactions`, `browser_sessions` | begin, consume, create, resolve, revoke | one callback per login, no session without its membership | expiry, concurrent suspension |
| Memberships (`auth.py`) | `oidc_memberships` | lookup, set_status, seed | suspended actors gain nothing | changed while requests run |
| OIDC verifier, JWKS cache (`auth.py`) | keys and their expiry | key, refresh | unknown keys refused, rotation followed | two refreshes at once |
| Signed relay, public client (`public_mcp.py`) | denylist of used tokens | issue, verify, revoke | a token is used once | clocks, expiry of the denylist |
| HTTP server (`server.py`), MCP tools (`mcp_protocol.py`) | slots, nonces | request admission, dispatch | order of checks | refusals half way |
| Slack adapter (`slack.py`), agent recipe (`agent_recipe.py`) | none | search and save, ensure | no duplicate, no half save | two runs at once |
| UI, renderer, bridge, sandbox, hosted identity, TLS and `ops.py` | none of their own | pages, frames, reports | - | - |

**Interaction.** HTTP requests and MCP tools end in methods of `FolioLattice`;
every method opens SQLite connections of its own, so clients meet only in the
database and the file system. A mutation starts with `BEGIN IMMEDIATE`, which
is SQLite's single write lock; a query outside a transaction sees the last
commit. The broker calls the registry's methods of `FolioLattice` and shares
the same write lock: its call fence holds the lock while an upstream is
contacted. Memberships live in the same database and are looked at by
`share_artifact` and by sessions. The Slack adapter is a client of the broker
and of the store.

The hazards of this code, each at its line, are listed in `PROJECT.json` with
the properties that catch them. Five have none, with the reason in their `note`: two processes that
initialize one database at once (`service.py:308`), a restore that dies between its renames
(`backup.py:855`), events recorded behind an export's cursor (`service.py:2854`), a saved search
whose artifact cannot be created (`slack.py:316`), and two runs of the recipe at once
(`agent_recipe.py:155`). In the last four the model has the behaviour and the code makes no promise about it.

## 2. Plan

In order of importance, with the runs; a module that composes others is named
last in its line.

| Modules | Run | Status |
|---|---|---|
| ArtifactStore, VersionedRegister (abstract) | `store_content`, `store_acl`, `store_liveness` and two disagreements | checked, refinement, twelve theorems |
| ExternalMcp, ConnectionGate (abstract) | `external_registry` and one disagreement | checked, refinement, safety, audit and slot theorems |
| AuditTrail | `audit_trail` | checked, six theorems |
| LiveStore, Deployment, Backup; Recovery | `recovery` | checked, four theorems |
| BrowserSessions | `browser_sessions` | checked, four theorems |
| Limits, RateFlow, KeyCache, McpGateway, BackupStatus (on a common Clock); Gateway | `mcp_gateway` | checked, five theorems |
| ArtifactPages, GraphWalks, AgentBundle, SlackSaves; Catalog | `catalog` | checked, four theorems |
| what migrations do to the tables | - | open |

Each `MC` module only adds the symmetry of its run. Modules that are proved about
declare their bounds as constants with named assumptions and use no RECURSIVE
operator.

## 3. ArtifactStore

`ArtifactStore.tla` models `create_artifact`, `write_version`, `read_artifact`,
`share_artifact`, `revoke_share` and `link`, `MembershipStore.set_status` as far
as sharing looks at it, and the failures around them.

| Model | Code |
|---|---|
| `tenantOf`, `owner`, `current` | columns of `artifacts` |
| `versions` (a sequence; the index is the id) | `versions`, with its chunk and full-text rows, which are a function of the content and committed with it |
| `ownerGrants`, `shares` | rows `owner_<artifact>_<action>` and the other rows of `acl_grants` |
| `edges`, `members` | `edges`, active rows of `oidc_memberships` |
| `disk` | blob files: absent, only in the page cache, durable, or torn by a power loss |
| `lock` | SQLite's write lock |
| `pc`, `job`, `pin`, `got`, `reply` | where a request is, its parameters, the version it pinned, the bytes it read, its answer |

`BeginVersion`, `StoreBlob`, `CommitCreate`/`CommitWrite`, `ReplyVersion` are the
four parts of a write: authorization and parent check under the lock, blob file,
rows and commit, and the queries after the commit that authorize again and
build the reply. A read is `ReadRow`, `ReadAdmit`, `ReadMetadata` (twice),
`ReadBytes`, `ReadChunks`: each of its queries uses its own connection, so others
run between them. `share_artifact`, `revoke_share` and `link` touch nothing
outside their transaction and are one step. `Refuse` covers the error that rolls
a transaction back. `BusyTimeout` is `busy_timeout` (35 s) and enabled whenever
another client holds the lock. `QueryFails` is the database or file error of any
query of a read, and of the queries after a commit (`create_artifact`'s two,
`write_version`'s one): the caller gets an error and the version stays. An error
before anything was stored leaves what `Crash` leaves there, so it has no action
of its own. `Crash` is the death of a process or thread
anywhere: its transaction rolls back, its blob file stays. `PowerLoss` ends
all clients and may lose or tear every file that is still only cached (the code
renames without fsync); committed rows stay, because the database runs with
`synchronous=FULL`. `Flush` writes a file back.

Not modelled: validation of parameters, the rename's temporary file, `versions`, `artifact_acl`; listing,
searching and graph walks are section 9. Requests are those of the service; the
MCP layer's extra read before `artifact_write` changes nothing.

`VersionedRegister.tla` states what the store promises for creates, writes and
reads, without locks, files or queries: each call takes effect at one moment
between its start and its answer, or never; a write takes effect only on the
version it names; a read gets the version that is latest at that moment, or the
one it names; success is answered only for what took effect. `RegisterKept` is
the refinement. `current` and `versions` map to the register's `latest` and
`writes`; `CallOf` says where each client's call stands. The moment of a write is
its commit. The moment of a read is its first query, or, if it names a version,
the query that finds this version among those of the artifact.

### Runs (module `MCArtifactStore`)

| Run | Instance | Shows |
|---|---|---|
| `store_content` | 2 tenants, 1 actor, 2 artifacts, 2 contents, 2 clients, 3 versions; create, write, read, link | `LinearHistory`, `CommittedBlobPresent`, `ReadCoherent`, `RowsInTenant`, `LinkAnsweredTruly`, `RegisterKept` |
| `store_acl` | 3 actors, 1 artifact, 2 clients, 2 versions, 2 shares, one member suspended at a time; create, write, share, revoke | `WriterAdmittedAtCommit`, `ShareProvenance`, `OneActiveGrant`, `HistoryKept`, `RefusedAfterCommitMeansRevoked` |
| `store_liveness` | 1 actor, 2 clients, power losses; create, write, read | `CallsAnswered`, `LockReleased` |
| `store_power_loss` | the same without fairness | violates `DurablyAssociated` |
| `store_failed_call` | 2 actors, a share | violates `FailedCallLeavesNoTrace` |

Two clients are enough for a race: the lock serializes the writers, and a
property of one request is disturbed by one other. Three versions give a chain
whose middle can be forked and a shared content written by two transactions, of
which one dies. Three actors are an owner, one it shares with and one the share
is passed on to; two shares are a chain of that kind or a grant, its revocation
and its renewal. `MaxVersions`, `MaxShares` and `MaxSuspended` bound the tables,
and a grant id that no row has is tried only while there are no shares; requests
under way reserve their row, so a bound never stops a request that has begun. Tenants, actors, artifacts, contents and clients are interchangeable
(symmetry), except in the liveness run.

**Fairness.** `FairSpec` asks weak fairness of `Serve(c)` for each client: the
operating system runs every thread, and each step of a request either returns or
fails within a bounded time (file I/O, or `busy_timeout` for the lock). Nothing
is assumed of failures, of the operator, or of clients that start or finish.
`CallsAnswered` also holds when the lock is never free for a particular client,
because the busy timeout answers it.

### Two disagreements with the documents

* `store_power_loss`: ADR 0003 (line 33) promises that a write becomes visible only after
  metadata and content are both durably associated. `_store_blob` does not sync
  the file before the row is committed.
* `store_failed_call`: the readiness plan (line 164) promises that failed public calls leave no
  partial visible state. `write_version` authorizes its caller again after its
  commit and refuses it if the grant was revoked in between. A database error in
  the same query fails the call as well (`QueryFails`); the run asks of refusals
  alone, so its trace is the race. `RefusedAfterCommitMeansRevoked` shows that a
  revocation is the only way to be refused after a commit; an answer can otherwise
  be lost to an error of those queries, or with the process.

### Proofs (`ArtifactStoreProofs.tla`)

For all constants that satisfy the four named assumptions (sentinels are not
ordinary values; modes are Booleans; bounds are naturals):

| Theorem | Property |
|---|---|
| `TypeCorrect` | `TypeOK` (proved only) |
| `HistoryIsLinear` | `LinearHistory` |
| `WritersAreAdmitted` | `WriterAdmittedAtCommit` |
| `TenantsStayApart` | `RowsInTenant` |
| `SharesTraceToOwner` | `ShareProvenance` |
| `GrantsAreUnique` | `OneActiveGrant` |

`TypeInv` adds to `TypeOK` that the request of a client fits its place in the
code. `HistoryInv` adds what makes `LinearHistory` inductive: whoever is between
`BeginVersion` and its commit holds the lock (`LockHeld`), artifact ids being
created are new and distinct (`FreshIds`), and what was checked under the lock -
the parent is current, the writer is admitted - still holds (`Staged`). Without
`LockHeld` a second writer could commit between a check and its commit, so
`LinearHistory` alone is not inductive. `WriterAdmittedAtCommit` follows from
`Staged` at the committing step. `GrantInv` is the conjunction of the three
properties of the grant tables, inductive together with `HistoryInv`. `StepKinds`
and `SharesStep` reduce the actions of `Next` to the few kinds that matter to each
invariant.

`ArtifactStoreAnswerProofs.tla` is about what clients are told:

| Theorem | Property |
|---|---|
| `LinksAreAnsweredTruly` | `LinkAnsweredTruly` |
| `RefusalsAfterCommitMeanRevoked` | `RefusedAfterCommitMeansRevoked` |
| `BlobsArePresent` | `CommittedBlobPresent`, as long as `~PowerMayFail` |
| `ReadsAreCoherent` | `ReadCoherent`, as long as `~PowerMayFail` |
| `HistoryIsKept` | `HistoryKept` |
| `RegisterIsKept` | `RegisterKept`, as long as `~PowerMayFail` |

`OneClientActs` says that in a step a client acts, dies, or stays as it is, so
each invariant is a fact about one client and the tables. `AnswerInv`: whoever
waits for the answer of a committed write is `Entitled` to it - it owns the
artifact or has a share row, active or revoked - so a refusal (not an error of
the query itself) means a revocation; rows are never removed (`SharesOnRecord`). `Stored`: a transaction
about to insert its row has stored its file, which is why the row of a new
version never lacks it. `ReadAt`: what a read knows at each of its places.
`Stored` and `ReadAt` need the power to stay: `store_power_loss` shows what
happens else. The refinement rests on all of these and on `PlaceInv` (a client
without a place has no request; a write waiting for its answer has its version).
`OwnMove` gives the move in the register for every step but a commit,
`CommitInRegister` the write of a commit, `GoneInRegister` the departure of
clients that die; other steps stutter.

## 4. ExternalMcp and ConnectionGate

`ExternalMcp.tla` models the broker's `register`, `status`, `health`, `revoke`,
`call_tool` and `read_resource` with the registry methods they call.

| Model | Code |
|---|---|
| `conns` | rows of `external_mcp_connections`: tenant, name, approvals, status, health |
| `audit` | rows of `external_mcp_audit`, grouped by the call that wrote them |
| `lock` | SQLite's write lock, kept over several steps only by the call fence |
| `slots` | `_active` and `_total` of `BoundedConcurrencyLimiter` |
| `pc`, `job`, `verdict`, `reply` | where a call is, its parameters, the outcome it will record, what its caller gets |
| `sent` | what reached an upstream (no code keeps it) |

`Admit` is `try_acquire`, `Refused` a refusal of the rate limiter or of the slots,
`Release` the finally clause on every way out. `Authorize`, `Deny` and
`BadArguments` are the outcomes of `authorize_external_tool` and
`authorize_external_resource`; `Prepare` is the adapter's policy check and the
credential; `Fence`/`FenceRevoked` begin `external_call_fence`, `UpstreamAnswers`
ends it with any result or failure; `RecordUse` is `_record_external_call`. A
health check runs through the same fence, and then `record_external_health`
reads the row (`HealthCheckRow`) and updates it in a later transaction
(`HealthWrite`), because its SELECT precedes the implicit BEGIN. `Revoke` and
`Register` are one transaction with their audit row. `DatabaseFails` is a
transaction that does not begin within the busy timeout or does not commit;
`Crash` the death of the process, which loses slots and transactions.

A caller is a tenant (the actor in the limiter's key is left out: one actor per
tenant). The audit outcomes `registered`, `revoked`, `healthy` stand for the
action and outcome columns together. The rate limiter refuses at any time,
whatever its counters say. `max_keys` of the concurrency limiter (4096) is above
its total (32) and never bites. The transport, URL validation and policy
documents are outside the model; `list_connections`, `audit` and `authorize_tool`
only read or repeat `Authorize`.

`ConnectionGate.tla` is what the registry promises to whoever revokes a
connection: uses start only while it is active, and the revocation waits for
those in flight. `GateKept` is the refinement: `status` is the column, `using` the
clients that are with an upstream.

### Runs (module `MCExternalMcp`)

| Run | Instance | Shows |
|---|---|---|
| `external_registry` | 2 tenants, 2 connections, 1 name, 1 item (as a tool and as a resource), 3 clients, 3 calls, 2 slots | `UsesApproved`, `SlotsMatchCalls`, `AuditTruthful`, `GateKept`, `RevokedForGood` |
| `external_unaudited` | 1 client, 2 calls | violates `EveryUseAudited` |

Three calls are what the races need: a registration, a use or a health check, and
a revocation, the last two at once. Two slots for three clients make the total
bite; an item approved as a tool and asked for as a resource makes the approval
bite; one name in two tenants, and twice in one, makes the name index bite. Calls
are bounded by `MaxCalls`, and the system really stops after them, so deadlock is
not checked. No fairness is assumed: only safety is checked here, since a fence
may be held for as long as the transport takes and others time out meanwhile.

`external_unaudited`: ADR 0013 (lines 40-42) promises that each use is audited. The audit row is
written after the fence, in a transaction of its own, so a process that dies in
between (or a row that cannot be written) leaves a use without a row.
`AuditTruthful` states what does hold: rows never lie, and a caller that gets a
result has its row.

### Proofs (`ExternalMcpProofs.tla`)

| Theorem | Property |
|---|---|
| `RevocationsLast` | `RevokedForGood` |
| `UsesAreApproved` | `UsesApproved` |
| `GateIsKept` | `GateKept`, the refinement of ConnectionGate |

`TypeInv` types the tables and says which call a client can have at each place.
`ConnectionsKept` is about one step: only `Register`, `Revoke` and `HealthWrite`
(`StepKinds`) touch rows, and none of them takes a registered row back.
`FenceInv` is the inductive invariant of the call fence: who is with an upstream
holds the lock and its connection is active (`FenceHeld`); whoever was
authorized has a connection of its tenant that approves its item
(`AuthorizedOwned`), and so has whatever was sent (`SentOwned`). `FenceHeld`
alone is inductive because every action that writes a row needs the lock, which
is why a revocation has to wait. `StepMoves` reduces `Next` to the moves that matter
to the fence, and `GateStep` maps each to a step of the gate: `Fence` to `Start`,
`UpstreamAnswers` to `Stop`, `Crash` to `Abandon`, rows to `Register` and `Revoke`,
everything else to a stutter. The proof uses only that `None` is no client and no
tenant.

The second half of the module is about the audit rows and the slots:

| Theorem | Property |
|---|---|
| `AuditIsTruthful` | `AuditTruthful` |
| `SlotsAlwaysMatch` | `SlotsMatchCalls` |
| `RegistryTyped` | `TypeOK` (proved only) |

`AuditInv`: clients under way have numbers of their own (`NumbersOwn`), each
number has at most one row and a true one, unused numbers have none (`Rows`),
and a client's place says whether its row is written, whether it has a result and
whether its upstream was reached (`ClientOk`). `SlotInv`: the counters are the
cardinalities of the clients that hold a slot, by key and in total, so a slot
that is given back was there. Assumed: the bounds on calls and slots are naturals
(`CallsAssumption`, `LimitAssumption`).

## 5. AuditTrail

`AuditTrail.tla` models `record_audit_event`, `set_audit_legal_hold`,
`purge_audit_events` and `audit_export` followed page by page.

| Model | Code |
|---|---|
| `events` | rows of `audit_events`: id, `occurred_at`, `expires_at`, `legal_hold`, and `integrity_hash` as the columns it covers (`seal`) |
| `clock` | wall clock; an event carries the present or any past time, since it is built before its transaction waits for the lock |
| `chain`, `page` | a caller's window, limit and cursor with the pages it got; the page its request has read |
| `written`, `purged`, `promised`, `tampered` | history: what was committed, what purges reported, which holds were acknowledged, which rows were altered with the database's own tools and kept their hash |

`Record`, `SetLegalHold` and `Purge` are one transaction each. A page is
`ReadPage` (one SELECT, each row verified; fewer rows than the limit when the page
grows past its bytes), `CommitExport` (its own event, in another transaction),
`Deliver`. `Fail` loses the answer anywhere; the caller asks the same page again.
`Tamper` is somebody with the database's own tools. `integrity_hash` is a plain
SHA-256 of the row, without a key, so whoever alters a row can also write the hash
that fits, as `tests/test_audit.py` does (167-186, 413-430, 510-523), and ADR 0015
(line 138) selects no mechanism that would show it: `Altered` leaves the hash as it was,
`Forged` replaces it, and a forged row verifies, is exported and may be held like
any other. `SealTells` is about the first kind only: such a row fails verification
for good, no hold gives it a hash that fits, and no other row ever fails. Alterations
of the columns the lifecycle reads (`expires_at`, `legal_hold`) and deletions are
outside the model: nothing in the code could tell them.

| Run | Instance | Shows |
|---|---|---|
| `audit_trail` | 1 tenant, 1 exporter, 4 events, 2 instants, page limit 2, one altered row | `ExportComplete`, `PagesAscend`, `HeldForGood`, `BooksBalance`, `SealTells` |

Four events fill a page and begin another while one is held, purged or recorded
late; two instants give equal and different timestamps, so the cursor's tie on the id matters. `ExportComplete` speaks of rows that
were there when the chain was opened: an event that commits later with an older
timestamp may lie behind the cursor, and the export will not show it. That is
what the code does. A purge takes the rows of a cutoff that is not later than now, or
any time the operator gives. `_migrate_audit_trace_context` (rehashing
rows without verifying them) is outside the model.

### Proofs (`AuditTrailProofs.tla`)

| Theorem | Property |
|---|---|
| `ExportsAreComplete` | `ExportComplete` |
| `PagesNeverRepeat` | `PagesAscend` |
| `HoldsLast` | `HeldForGood` |
| `SealsTell` | `SealTells` |
| `BooksAlwaysBalance` | `BooksBalance` |
| `TypeCorrect` | `TypeOK` (proved only) |

`ExportComplete` speaks only of finished exports and is not inductive. `ExportInv`
says where an event of the opening is that was not shown yet: on the page being
read, or past the cursor (`BaseAhead`, `BaseOnPage`), and one that is behind the
cursor was shown (`BaseShown`); pages ascend and begin after the cursor
(`Ascending`, `CursorLast`, `PagePast`). A page that is not the last is full of
the smallest keys, so its greatest key (`LastOfPage`) has nothing unread behind it. That an
id names one row for ever (`RowsInv`, `Evolves`) carries this over purges and
holds. `HoldInv` and `SealInv` strengthen the properties of holds and seals (the hash of a
row altered without it still says that the content is as recorded);
`BookInv` counts with `CountUnion`, `CountDifference` and `CountExchanged`.
Assumed: `IdsAssumption`, `TimesAssumption`, `LimitsAssumption` (ids and times are
naturals, limits positive).

## 6. LiveStore, Deployment, Backup, Recovery

`LiveStore` is the database file, its write-ahead log and the blob directory with the
servers that use them; `Deployment` the commands of `deployment.py`; `Backup` those of
`backup.py`; `Recovery` runs them together: nothing in the code keeps servers from
writing while a command runs.

| Model | Code |
|---|---|
| `live`, `aside` | files at the deployment's paths; those a switch moved to temporary names |
| `beside` | whose log is beside the database: its own, none since a switch moved it, one made since then, or one that may be another database's |
| `conn` | where the file is that a server has open: a rename does not close it |
| `ledger`, `Codes` | last row of the migration ledger; releases |
| `op` | `transactional_upgrade` or `rollback_deployment`: the place it has reached |
| `snapshots`, `active` | directories under `.folio-rollback`; `active_version` of the state file |
| `bk`, `archives`, `rs`, `target` | a backup under way, those complete, a restore under way, its targets |
| `since`, `late`, `dropped`, `broken` | history: writes since a command's copy, writes that met a switch, rows a rollback gave up, a switch that ended half way or a log that may be foreign |

`Start`/`Serving` are `initialize` in two parts: statements that commit one by one, and one
transaction that ends with the ledger; which release starts matters only to the second.
A behaviour begins with a deployment whose last connection has been closed, so with an empty log. `MoveLog` to `PutBlobs` are the renames
of `_replace_live`; `SwitchFails` is its except clause, `UndoFails` the same when a
server has recreated the blob directory meanwhile, `Die` the death of the command.

The switch moves the sidecars `-wal` and `-shm` first, those that exist (`op.logged`; one step
for both). Nothing keeps a server from opening the path after that (`Opening`: `moved` becomes
`fresh`), and a log made then is moved by no later rename: `PutDatabase` puts another database
beside it, the undo removes it only if a log had been moved before (`Undone`), and a death
leaves what is there. In each of these cases the log may be one of another file, or two logs
were open on one file at once, and `beside` is `foreign` for good. SQLite reads such a log over
the database; what comes of it is `Spoil`, any loss of rows at any time, the loss of all of them standing
for a file that cannot be read any more. A write acknowledged on such a store counts as one that met
the switch. In `Backup`,
encryption and checksums appear as what they decide: `Authentic` (manifest and
data key under the provider's present keys), `Intact` (files equal the
manifest). A request that a command refuses changes nothing and is no step.

| Run | Instance | Shows |
|---|---|---|
| `recovery` | 2 writes (one existing), 1 server, 2 releases, 2 versions, 2 key versions, 2 commands, 1 failure | `CopiesWhole`, `Survives`, `SwitchWhole`, `RestoredWhole` |

Two commands are an upgrade and its rollback, or either beside a backup. The failure counted is
an I/O error; a step also fails because the copy is not ready, the migration refuses, or a
server is in the way, so a fallback can fail as well. Writes commit between the
copy of the database and that of the blobs, and into a file that was moved away.

What the properties allow, because the code does: writes committed between a
command's copy and its end can be lost (`since`, `late`); a server started between
two renames creates and serves an empty store; a directory recreated by a server makes the undo fail, and the finally
clause then deletes the old copies, so the snapshot is the last one (`UndoFails`); a server that opens
the database between the renames leaves a log beside a database that is not its own, in a
switch that reports success (`PutDatabase`) as in one that is undone (`UndoCrosses`).
`SwitchWhole` does not speak of stores that this, a death or a failed undo has left (`broken`):
the code promises nothing there that holds. `Survives` does, and says what saves them: the
snapshot, to which no such log belongs. Further,
after a half-done switch a rollback is refused as long as the live store is not ready;
readiness looks at no blob. Three more that the model keeps and no
property speaks of: readiness demands exactly the running code's ledger, so
`transactional_upgrade` cannot be the one to migrate an older schema, and copies
of another schema are refused; a backup of a store without blobs verifies and
cannot be restored; a database above 16 MiB (`backup.py:479`) is backed up and never verifies. The
docstring of `restore_backup` (`backup.py:820`) says "atomically"; a restore that dies
between its two renames leaves a database without blobs (`rsDied`).

### Proofs (`RecoveryProofs.tla`)

| Theorem | Property |
|---|---|
| `CopiesAreWhole` | `CopiesWhole` |
| `WritesSurvive` | `Survives` |
| `SwitchesAreWhole` | `SwitchWhole` |
| `RestoresAreWhole` | `RestoredWhole` |

They hold for any number of writes, servers, releases, versions, keys, commands and
failures. One inductive invariant, `IInv`, serves all four. Of the files and commands
(`StateInv`): a file that is not there is empty (`EmptyFiles`); a server that has stored a
blob and not yet committed its row still has the blob, unless a switch met it (`JobsStored`); at each place
of a command, which of the old and new files are where (`Phases`), that the copy has what was acknowledged before it
(`CopyOf`, `Accounted`), that snapshots are whole or lack what was late
(`SnapshotsWell`, `MissingLate`), and what would be live again if the step failed now
(`BackWhole`). A store is `broken` whenever `beside` is `foreign`, so
`Spoil` disturbs no statement about whole stores; that a snapshot is never spoiled follows from its being a
copy. `BackWhole` carries `SwitchWhole` through a switch: the store that is live
between two renames is not whole, the one the except clause would put back is, so each
rename has to keep that one, and the finally clause may delete only after the last.
`PutIn` says which writes the files that were put in may have. `BackupInv` says the same of
archives and of a restore: all of one archive, up to the last rename.

The proof corrected the model once. The history variable `dropped`, the rows that
rollbacks gave up, was overwritten by an upgrade whose copy had been taken before; the
invariant could not be kept, and TLC shows the state with three commands. A copy now
remembers what was given up when it was taken (`gone`). The properties hold as
stated; the run stays at two commands. Assumed: existing writes are writes, releases are
positive, bounds are naturals and `"none"` is no version (`ExistingAssumption`,
`CodesAssumption`, `CommandsAssumption`, `VersionsAssumption`, `FailuresAssumption`).

## 7. BrowserSessions

`BrowserSessions.tla` models `sessions.py` with the steps of `/auth/start`,
`/auth/callback` and `/auth/logout` in `server.py`, in several server processes, and the
operator's changes of memberships.

| Model | Code |
|---|---|
| `logins`, `rows`, `member` | `auth_transactions`, `browser_sessions`, `oidc_memberships` |
| `jar` | the two cookies of a browser |
| `proc` | what a process is doing; `now` is the time its request read, which may be older than its transaction |
| `ended`, `used`, `during`, `barred` | history: who was told a session is over, its latest admitted use, the membership's states during a request, whether the session was over before it |

| Run | Instance | Shows |
|---|---|---|
| `browser_sessions` | 2 browsers, 1 user, 2 processes, 2 scope sets, 1 login, 2 sessions, 2 changes, 4 instants; idle 2, absolute 3, login 1 | `RestsOnMembership`, `OverForGood`, `IdleEnds`, `OwnLogin` |

Two processes race for one login and for one session; two browsers are the one
that began a login and one that is given its address; two changes suspend and
reactivate. `IdleEnds` is the safe side of the idle time; that an older `last_seen_at` may end
a session in use too early is allowed. The exchange of a code for an identity is one step that may name any
user. What the code does and no property forbids: a session not used while its
membership was suspended is valid when that is back; `last_seen_at` may go
backwards; a request concurrent with a logout may still be
admitted; a crash after `create` and before the revocation of the old session
leaves both.

### Proofs (`BrowserSessionsProofs.tla`)

| Theorem | Property |
|---|---|
| `SessionsRestOnMemberships` | `RestsOnMembership` |
| `SessionsEndForGood` | `OverForGood` |
| `IdleSessionsEnd` | `IdleEnds` |
| `LoginsAreOwn` | `OwnLogin` |

One inductive invariant, `TypeInv`, serves all four: types, the tables
(`LoginInv`, `RowInv`, `JarInv`, `EndedInv` - whoever is told a session is over
is told so after its row is revoked), and for each process `Well`: what it knows of
its login (`OwnsLogin`) and of the session it is resolving (`OnSession`). A step of
one process disturbs another only through the tables, and those move one way
(`LoginsMove`, `RowsMove`: open to taken, live to revoked). Assumed: lifetimes are positive
(`TtlAssumption`).

## 8. Gateway: Limits, RateFlow, KeyCache, McpGateway, BackupStatus

`Limits` defines the two limiters of `resource_limits.py` (also those copied
in `server.py`) as operators on tables; `RateFlow` runs one rate limiter whose table is
smaller than its users; `KeyCache` is `JwksClient` and the checks of
`OidcVerifier.verify` around it; `McpGateway` follows a call from a
browser (`inspection.py`) or the renderer (`renderer.py`) through `HttpMcpClient` and
the relay to the requests at `/mcp` (`server.py`). `BackupStatus` is one readiness check
of a hosted server (`BackupOperationsMonitor.status`): a call each to the key custody's
`readiness` and to the store's `readiness`, `latest` and `inspect`.

| Model | Code |
|---|---|
| `table`, `passed` | `_windows`; history of what was let through |
| `cached`, `verifier`, `published` | the client's key set and expiry; threads in `verify`; the provider's keys |
| `mode` | hosted with the in-process relay, hosted with signed tokens, local with a renderer process |
| `call`, `req` | outer calls at `/api/mcp`, `/api/bridge`, `/api/admin/mcp`, renderer; requests to `/mcp` |
| `tokens`, `denied` | `TrustedPrincipalRelay`'s table; `SignedPrincipalRelay`'s denylist |
| `rates`, `slots` | the limiters of each of the three fronts |
| `custody`, `store`, `objects` | what the deployment's adapters would answer; `wired` whether there are any |
| `check`, `witnessed` | the request being answered; history of what was so while it was |

`Gateway` puts the four parts side by side. They share nothing but the clock, so
a behaviour is one of them (`part`), and each has its own bound on the clock.

| Run | Instance | Shows |
|---|---|---|
| `mcp_gateway` | rates: 3 tenants, 2 addresses, table of 2, window 2, limit 2; keys: 2 keys, 2 threads, 1 rotation; requests: 2 calls, 3 requests, 1 actor, 2 slots, 1 restart or change; status: 2 backups, 2 key versions, 2 faults, ages and intervals of 1 and 2 instants | `RatesHold`, `SlotsMatchWork`, `KeysFresh`, `RelayedForItsCall`, `StatusTold` |

Three tenants overfill a table of two; a window of two instants can be straddled;
two threads fetch across one rotation and store in either order; the third
request is one that arrives when its call is over; two faults are a rotation and the
retirement of the old key, or of two adapters. Assumptions: a fetched key set
is in the cache within `FetchTime` of the provider's answer (the code bounds each
socket wait, not the sum), and a relay token lives shorter than the denylist remembers
(`Ttl < DenyTime`: 15 and 60 seconds as deployed; the class itself accepts up to 60, with which a
token revoked in its first second would be accepted once more).

What the code does and the model keeps: the rate is charged before the slot is
asked for, so a 429 for slots costs a charge; a relayed principal gets its
membership's present scopes; an unknown key id triggers a fetch each time; the
second look at the cache ignores its expiry, and an older key set may replace
a newer one (`KeysFresh` bounds for how long); a restarted server has forgotten
its denylist; in local mode the renderer's revocations are unknown to the server.
A check of the backups is not atomic, and `StatusTold` says what its answer means: the
backup it names was intact at some moment of the check, was young enough when it began, and
was made under keys each accepted at some moment of it - all of which may be over when the answer
arrives: what changes after a call was answered is not told. In the other direction the answer may be too dark: a backup
stored during the check was created after `checked_at` and counts as
`backup_timestamp_invalid`, keys that are rotated before the store is looked at make a new
backup look like one under foreign keys, and a backup that is dropped between `latest` and
`inspect` is a failed check. An age above the schedule's interval alone (`backup_due`) makes a
server not ready. The adapters are external: that `inspect` looks at the object itself and
not at the result of the upload is what `StoredBackup`'s comment asks of them, and
`StatusTold` rests on it.

### Proofs (`GatewayProofs.tla`)

| Theorem | Property |
|---|---|
| `KeysStayFresh` | `KeysFresh` |
| `RelaysForItsCall` | `RelayedForItsCall` |
| `BackupsToldTruly` | `StatusTold` |
| `RatesAlwaysHold` | `RatesHold` |
| `SlotsMatchTheWork` | `SlotsMatchWork` |

`KeyInv`: a set on its way from the provider was published when it was sent
(`InTime`), and the keys in the cache were published at most `CacheTime + FetchTime`
before it expires (`CacheRecent`). A thread that looks a second time ignores the expiry, but
the cache was filled since its own answer came, so the bound is the same.
`RelayInv`: the trusted table holds tokens of waiting calls only (`Held`); the token of
a call that is over is on the denylist of the process that revoked it until after
its own end (`Denied`); and a request that was sent belongs to a call that has begun (`Sent`).
`StatusInv`: what is so now, and what the check has noted, is among what was witnessed
(`WitnessKept`), and as long as all was in order there is no alert and the candidate is
the newest backup (`CalmSoFar`). `FlowInv`: `passed` counts, for each user and instant, the requests let through up to it,
so what a stretch of time let through is one difference
(`Counts`) and no sum has to be taken. An open window counts what passed since its start
(`Fits`), and a user without one is below its limit over the last window (`Few`), so
fewer than twice the limit pass in any stretch of that length (`TwiceAtMost`). `SlotInv`: each front's table maps every key to the number of its
calls under way (`Matches`, by cardinality), so a release always finds a slot of its own. Each is an
invariant of its own part. Assumed: `LimitsAssumption` (limits, windows and tables are positive),
`FlowAssumption`, `KeyAssumption`
(a fetch takes no longer than a set is cached: seconds against 300), `RelayAssumption`, and
`StatusAssumption` (`BackupOperationsConfig.validate`: positive, and no greater age than the RPO).

## 9. Catalog: ArtifactPages, GraphWalks, AgentBundle, SlackSaves

Readers of the store and clients built on it.

| Module | Code | State |
|---|---|---|
| ArtifactPages | `list_artifacts`, `search` page by page, with queries of three characters and of less | time of each current version, who may read what, whose name or media type is found, how many chunks of the current version are found, chunks in the index, the walk and its cursor, one writer under way |
| GraphWalks | `graph_component`, a search's graph scope, `traverse` | links, readable nodes, the queue; each node is a SELECT of its own |
| AgentBundle | `agent_recipe.py` | assets with name, media type, context and body; runs; creations still under way at the server |
| SlackSaves | `slack.py` behind the broker | policy, connection, call, audit rows, artifacts; what the upstream was asked |

| Run | Instance | Shows |
|---|---|---|
| `catalog` | pages: 3 artifacts of 0 or 2 chunks, page size 2, 2 candidate rows, 3 instants, 1 write; walks: 3 nodes, 3 links, 2 changes; bundle: 2 runs, 2 candidates, 4 artifacts, 1 edit; Slack: 2 channels, 2 ids, 3 instants, 2 messages, 1 search | `PagesWhole`, `WalksTell`, `OneOfEach`, `SavedAsApproved` |

As in `Gateway`, a behaviour is one of the parts. Three artifacts and two items a page make
a second page, whose cursor has ties with the next artifact; two chunks of one artifact are
as many rows as a search looks at, so that two artifacts crowd each other out, and one
fills the last `LIMIT` and shortens the page. The write may begin before a page and commit
after it. The proof has any number of writes. Three nodes have paths of two links and a cycle. One artifact
more than there are roles is a duplicate or a stranger's; two candidates are a full list.
An answer of three messages exceeds the limit, and three instants have an end that is out of range.

The properties say under which conditions the code keeps its word.
`PagesWhole`: an artifact that was rewritten during the walk may be missed; the clock is
assumed not to go back. `MAX_SEARCH_CANDIDATES` limits chunk rows and not artifacts, so a few
artifacts of many chunks can push another one out of a page, and the cursor then passes
it. For a query of less than three characters the limit is on the newest rows of the whole
tenant's index, with the rows of artifacts that the caller may not read and of versions that are
not current, which are never deleted: once the tenant has more than that, any match by content
may be lost, however few there are. The property excuses both by the condition on rows
(`TooMany`), never by what was in fact left out; a match by name or media type, and with it
every listing, is never excused. The model has not the order in which the index ranks its rows: any
choice that fits the limits may be made. It leaves out the rows that the index finds and
Python's comparison then drops (an accent the index folds). They take up room as well: a page
may be empty because of them, with matches behind it.

`OneOfEach` speaks of runs that do not overlap, counting a
creation whose run has given up: two runs at once make two artifacts of one role, and every
later run then finds the bundle ambiguous. It leaves out the artifacts to which others gave a context or a media type
(`remade`). `write_version` sets the artifact's media type, by which the recipe lists, so
such a write hides the artifact, and the next run makes another; one that puts the media
type back, or copies a context, then makes the bundle ambiguous. `SavedAsApproved`: an artifact may be saved after its
connection was revoked, between the audit row and `create_artifact`; the search itself was
allowed. A connection's policy never changes, and the saved `policy_version` is always
the same constant, since connections have no such column.

None of the runs of sections 5 to 9 assumes fairness: they check safety only.
Their systems stop where a bound is reached, so deadlock is not checked.

### Proofs (`CatalogProofs.tla`)

| Theorem | Property |
|---|---|
| `PagesAreWhole` | `PagesWhole` |
| `WalksAreTold` | `WalksTell` |
| `OneArtifactEach` | `OneOfEach` |
| `SavesAreApproved` | `SavedAsApproved` |

Three things here are sequences that the code gets by sorting or choosing: a page, the
listing of a role, the messages kept from an answer. The models take
each element by its place in an order, and `PlacesIn` shows once, by counting, that
in a finite set every place is that of exactly one element.

*Pages.* `PagesInv`: nothing that was listed lies behind the cursor, and whatever is steady
was listed or lies behind it (`WalkOk`). A page has, unless there are too many rows, all
of what lies behind the old cursor or the newest of it, and its last item parts what it shows from
what it does not, wherever it is cut (`PageCut`). A write only
raises a time stamp, so it takes an artifact from behind the cursor and never puts one there
(`DisturbedOk`); that needs the write lock: the clock is read under it, so time stamps are committed in order. Assumed
(`PagesAssumption`): finitely many artifacts with ordered ids, a page limit and a number of candidates of at
least one.

*Walks.* `WalksInv`: as long as a walk is not full, each node it knows is in the queue or was
looked at (`Looked`): what lasts beside it is known, and no more than one link further away. The queue
is sorted by depth and holds depths that differ by one at most, which is why `traverse`
finds every node within `MaxDepth` although it keeps the depth at which it saw a
node first. A SELECT that is cut off fills the walk (`ExpandStep`). `PathReached` follows a
path by its first node that was not reached. Assumed (`WalksAssumption`): a finite graph.

*The recipe.* `BundleInv` relates a run to the artifacts and to the creation its server is
at: as long as no run begins before another is over, with its creations, at most one run is active
(`OneActive`), a role has at most one artifact that bears the bundle's context and was not remade
(`OneBearer`); such an artifact has the media type that is listed by, so a run that saw a
complete list without one is right to create it, because nobody else does
meanwhile (`ReadingOk`, `AskedOk`); what it did for earlier roles stays (`DoneOk`, `LinkedOk`). Assumed
(`BundleAssumption`): the limit on candidates is positive.

*Saved searches.* The messages kept from an answer are all the kept ones and no other
(`RankReached`), and none comes twice (`UnrepeatedChosen`). `SlackInv` says what a search
has established at each of its places (`SearchInv`), what a saved artifact holds
(`SavedInv`), and that whatever was asked of the upstream is within the policy. Assumed
(`SlackAssumption`): the limit on messages is positive.

## 10. What is proved, what is only checked, what is left out

Proved, for every value of the constants that satisfies the named assumptions:
the theorems of sections 3 to 9, in eight modules. They cover every safety property, action
property and refinement that a passing run checks. The type invariants
are proved and not checked in a run.

Only model-checked:

* liveness (`CallsAnswered`, `LockReleased`): fairness and ENABLED are out of the
  prover's reach;
* that the three disagreements with the documents do occur: a run shows a behaviour.

The bounds on time, on commands, restarts and calls are constants of the models, so a
theorem holds whatever they are; behaviours without any bound are not spoken of.

Abstracted throughout: hashes are the contents they name, ids are indices or
model values, time is a small clock, parameters are validated before a request begins.

Not modelled: the MCP tool
layer (one to one onto the service after a scope check), `tls.py` and `ops.py` (reports and a command line),
what each migration does to the tables; of the HTTP server, ASGI plumbing, settings and
readiness pages (except the backup status, without its expected key versions); of the UI, renderer and bridge, HTML, scripts, sandboxed frames and rewriting of
content; encryption, token parsing and signatures; network transports; `grep`,
`versions`, `artifact_acl` and `read_chunk`, which are single queries.
