---------------------------- MODULE ArtifactStore ----------------------------
(***************************************************************************)
(* FolioService's artifact store: the SQLite database (artifacts,          *)
(* versions, acl_grants, edges) and the directory of content-addressed     *)
(* blobs, used by several clients at once.  A client is one request of one *)
(* server process or thread, each with SQLite connections of its own.      *)
(*                                                                         *)
(* A mutation runs inside BEGIN IMMEDIATE: `lock` is SQLite's write lock.  *)
(* Rows written inside a transaction are invisible until it commits, so    *)
(* they are added in the step that commits; what a transaction does        *)
(* outside the database (the blob file) is a step of its own.  A SELECT    *)
(* outside a transaction sees the last commit and takes no lock.           *)
(*                                                                         *)
(* Chunk and full-text rows are written in the commit of their version and *)
(* are a function of its content, so the version row stands for them.      *)
(***************************************************************************)
EXTENDS Integers, Sequences, FiniteSets

CONSTANTS
  Tenants, Actors,  \* an identity is a tenant and an actor of it
  Artifacts,        \* artifact ids, each created at most once
  Contents,         \* payloads; a blob is named by the hash of its content
  EdgeTypes, EdgeNotes,  \* edge_type and metadata_json of an edge
  Clients,
  None,             \* absence of an actor, a tenant, a content or a lock holder
  Torn,             \* what a reader gets from a blob file that lost its bytes
  Ops,              \* the kinds of request the clients make
  Enforced,         \* FALSE in local fixed-identity mode: no ACL is applied
  Hosted,           \* TRUE when the oidc_memberships table exists
  PowerMayFail,     \* whether the machine can lose power
  MaxVersions, MaxShares,  \* bounds on the rows of versions and of share grants
  MaxSuspended      \* bound on the memberships suspended at one time

ACL_ACTIONS == {"read", "write", "share"}

ASSUME NoneAssumption == None \notin Tenants \cup Actors \cup Contents \cup Clients
ASSUME TornAssumption == Torn \notin Contents \cup {None}
ASSUME ModeAssumption == Enforced \in BOOLEAN /\ Hosted \in BOOLEAN /\ PowerMayFail \in BOOLEAN
ASSUME BoundAssumption == {MaxVersions, MaxShares, MaxSuspended} \subseteq Nat

VARIABLES
  tenantOf, owner, current,  \* artifacts: tenant_id, owner_actor_id, current_version_id
  versions,    \* the versions table in insertion order; a version id is its index
  ownerGrants, \* active rows owner_{artifact}_{action} of acl_grants
  shares,      \* the other rows of acl_grants in insertion order
  edges,       \* the edges table
  members,     \* active rows of oidc_memberships
  disk,        \* Contents -> state of the blob file
  lock,        \* the client whose transaction holds the write lock
  pc, job,     \* where each client is, and its request
  pin,         \* the version the client's request committed or is reading; 0 for none
  got,         \* the content the client has read
  reply        \* the answer to the client

rows  == <<tenantOf, owner, current, versions, ownerGrants, shares, edges>>
local == <<job, pin, got>>
vars  == <<rows, members, disk, lock, pc, local, reply>>

------------------------------------------------------------------------------
(* Requests and rows. *)

Request ==
       [op: {"create"}, tenant: Tenants, actor: Actors, artifact: Artifacts, blob: Contents]
  \cup [op: {"write"}, tenant: Tenants, actor: Actors, artifact: Artifacts,
        blob: Contents, parent: 0..MaxVersions]
  \cup [op: {"read"}, tenant: Tenants, actor: Actors, artifact: Artifacts,
        version: 0..MaxVersions]
  \cup [op: {"share"}, tenant: Tenants, actor: Actors, artifact: Artifacts,
        subject: Actors, action: ACL_ACTIONS]
  \cup [op: {"revoke"}, tenant: Tenants, actor: Actors, artifact: Artifacts,
        grant: 0..MaxShares + 1]
  \cup [op: {"link"}, tenant: Tenants, actor: Actors, artifact: Artifacts,
        target: Artifacts, type: EdgeTypes, note: EdgeNotes]

NoJob == [op |-> "none"]

Version == [tenant: Tenants, artifact: Artifacts, parent: Nat, blob: Contents, actor: Actors]
Share   == [tenant: Tenants, artifact: Artifacts, subject: Actors, action: ACL_ACTIONS,
            creator: Actors, status: {"active", "revoked"}]
Edge    == [tenant: Tenants, source: Artifacts, target: Artifacts,
            type: EdgeTypes, note: EdgeNotes]

FileStates == {"absent", "cached", "durable", "torn"}
PCs == {"idle", "begin", "blob", "rows", "reply",
        "row", "admit", "meta", "remeta", "bytes", "chunks", "done"}
Errors  == {"not found", "parent mismatch", "blob missing", "edge differs",
            "not a member", "owner grant", "storage error", "busy"}
Replies == {"none", "ok"} \cup Errors

(* _authorize: the artifact must be in the tenant; no actor means no ACL,   *)
(* the owner passes, anybody else needs an active grant of the action.     *)
InTenant(t, a) == owner[a] # None /\ tenantOf[a] = t

Granted(t, a, x, act) ==
  \E i \in DOMAIN shares :
    /\ shares[i].tenant = t /\ shares[i].artifact = a
    /\ shares[i].subject = x /\ shares[i].action = act
    /\ shares[i].status = "active"

Admitted(t, a, x, act) ==
  InTenant(t, a) /\ (~Enforced \/ owner[a] = x \/ Granted(t, a, x, act))

MayDo(c, act) == Admitted(job[c].tenant, job[c].artifact, job[c].actor, act)

------------------------------------------------------------------------------
Init ==
  /\ tenantOf = [a \in Artifacts |-> None]
  /\ owner = [a \in Artifacts |-> None]
  /\ current = [a \in Artifacts |-> 0]
  /\ versions = <<>> /\ shares = <<>>
  /\ ownerGrants = {} /\ edges = {}
  /\ members = Tenants \X Actors
  /\ disk = [d \in Contents |-> "absent"]
  /\ lock = None
  /\ pc = [c \in Clients |-> "idle"]
  /\ job = [c \in Clients |-> NoJob]
  /\ pin = [c \in Clients |-> 0]
  /\ got = [c \in Clients |-> None]
  /\ reply = [c \in Clients |-> "none"]

(* The bounds: requests under way reserve the row they may add, and a new  *)
(* artifact id (a random uuid) is one nobody else has.  An unknown grant   *)
(* id is tried only while there are no shares.                             *)
Pending(ops) == {c \in Clients : pc[c] \in {"begin", "blob", "rows"} /\ job[c].op \in ops}

Fits(r) ==
  /\ r.op \in {"create", "write"} =>
       Len(versions) + Cardinality(Pending({"create", "write"})) < MaxVersions
  /\ r.op = "create" =>
       /\ owner[r.artifact] = None
       /\ \A c \in Pending({"create"}) : job[c].artifact # r.artifact
  /\ r.op = "share" => Len(shares) + Cardinality(Pending({"share"})) < MaxShares
  /\ r.op = "write" => r.parent <= Len(versions)
  /\ r.op = "read" => r.version <= Len(versions)
  /\ r.op = "revoke" => r.grant <= Len(shares) \/ (r.grant > MaxShares /\ shares = <<>>)
  /\ r.op = "link" => r.target # r.artifact  \* self-links are refused at once

(* A client starts a request.  Mutations begin with BEGIN IMMEDIATE, a read *)
(* with the artifact row.                                                  *)
Call(c) ==
  /\ pc[c] = "idle"
  /\ \E r \in {q \in Request : q.op \in Ops} :
       /\ Fits(r)
       /\ job' = [job EXCEPT ![c] = r]
       /\ pc' = [pc EXCEPT ![c] = IF r.op = "read" THEN "row" ELSE "begin"]
  /\ UNCHANGED <<rows, members, disk, lock, pin, got, reply>>

Answer(c, what) ==
  /\ pc' = [pc EXCEPT ![c] = "done"]
  /\ reply' = [reply EXCEPT ![c] = what]

Return(c) ==
  /\ pc[c] = "done"
  /\ pc' = [pc EXCEPT ![c] = "idle"]
  /\ job' = [job EXCEPT ![c] = NoJob]
  /\ pin' = [pin EXCEPT ![c] = 0]
  /\ got' = [got EXCEPT ![c] = None]
  /\ reply' = [reply EXCEPT ![c] = "none"]
  /\ UNCHANGED <<rows, members, disk, lock>>

WaitForever(c) == FALSE /\ UNCHANGED vars  \* mutant: no busy timeout

(* BEGIN IMMEDIATE gives up after 35 seconds while another connection      *)
(* holds the write lock.                                                   *)
BusyTimeout(c) ==
  /\ pc[c] = "begin" /\ lock # None
  /\ Answer(c, "busy")
  /\ UNCHANGED <<rows, members, disk, lock, local>>

(* A request whose turn it is: BEGIN IMMEDIATE succeeds. *)
Begun(c, op) == pc[c] = "begin" /\ job[c].op = op /\ lock = None

(* The transaction ends with an error that changed nothing. *)
Refuse(c, op, why) ==
  /\ Begun(c, op)
  /\ Answer(c, why)
  /\ UNCHANGED <<rows, members, disk, lock, local>>

------------------------------------------------------------------------------
(* create_artifact and write_version *)

ParentOfArtifact(c) ==  \* mutant: any version of the artifact is accepted as parent
  \E i \in DOMAIN versions : i = job[c].parent /\ versions[i].artifact = job[c].artifact

ParentMatches(c) == job[c].parent = current[job[c].artifact]

WriteDenied(c) == Refuse(c, "write", "not found") /\ ~MayDo(c, "write")

WriteStale(c) ==
  Refuse(c, "write", "parent mismatch") /\ MayDo(c, "write") /\ ~ParentMatches(c)

BeginVersion(c) ==
  /\ \/ Begun(c, "create")
     \/ Begun(c, "write") /\ MayDo(c, "write") /\ ParentMatches(c)
  /\ lock' = c
  /\ pc' = [pc EXCEPT ![c] = "blob"]
  /\ UNCHANGED <<rows, members, disk, local, reply>>

(* _store_blob: a file that exists is kept as it is; a new one is written  *)
(* beside its place and renamed into it, without fsync.                    *)
StoreBlob(c) ==
  /\ pc[c] = "blob"
  /\ disk' = [disk EXCEPT ![job[c].blob] = IF @ = "absent" THEN "cached" ELSE @]
  /\ pc' = [pc EXCEPT ![c] = "rows"]
  /\ UNCHANGED <<rows, members, lock, local, reply>>

StorageFailsRemovingBlob(c) ==  \* mutant: the rollback deletes the blob it stored
  /\ pc[c] \in {"blob", "rows"}
  /\ lock' = None
  /\ Answer(c, "storage error")
  /\ disk' = [disk EXCEPT ![job[c].blob] = "absent"]
  /\ UNCHANGED <<rows, members, local>>

StorageFailsHoldingLock(c) ==  \* mutant: the connection is kept without a rollback
  /\ pc[c] \in {"blob", "rows"}
  /\ Answer(c, "storage error")
  /\ UNCHANGED <<rows, members, disk, lock, local>>

(* An I/O error anywhere in the transaction rolls it back; a blob file     *)
(* already in place stays.                                                 *)
StorageFails(c) ==
  /\ pc[c] \in {"blob", "rows"}
  /\ lock' = None
  /\ Answer(c, "storage error")
  /\ UNCHANGED <<rows, members, disk, local>>

NewVersion(c, parent) ==
  [tenant |-> job[c].tenant, artifact |-> job[c].artifact, parent |-> parent,
   blob |-> job[c].blob, actor |-> job[c].actor]

AddVersion(c, parent) ==
  /\ versions' = Append(versions, NewVersion(c, parent))
  /\ current' = [current EXCEPT ![job[c].artifact] = Len(versions) + 1]
  /\ pin' = [pin EXCEPT ![c] = Len(versions) + 1]
  /\ lock' = None
  /\ pc' = [pc EXCEPT ![c] = "reply"]
  /\ UNCHANGED <<shares, edges, members, disk, job, got, reply>>

CommitCreate(c) ==
  /\ pc[c] = "rows" /\ job[c].op = "create"
  /\ tenantOf' = [tenantOf EXCEPT ![job[c].artifact] = job[c].tenant]
  /\ owner' = [owner EXCEPT ![job[c].artifact] = job[c].actor]
  /\ ownerGrants' = ownerGrants \cup ({job[c].artifact} \X ACL_ACTIONS)
  /\ AddVersion(c, 0)

CommitWrite(c) ==
  /\ pc[c] = "rows" /\ job[c].op = "write"
  /\ AddVersion(c, job[c].parent)
  /\ UNCHANGED <<tenantOf, owner, ownerGrants>>

ReplyReadable(c) ==  \* mutant: the answer always asks for read access
  /\ pc[c] = "reply"
  /\ Answer(c, IF MayDo(c, "read") THEN "ok" ELSE "not found")
  /\ UNCHANGED <<rows, members, disk, lock, local>>

(* After the commit the answer is built from fresh queries that authorize  *)
(* the caller again: "read" for create_artifact, "write" for write_version.*)
ReplyVersion(c) ==
  /\ pc[c] = "reply"
  /\ Answer(c, IF MayDo(c, IF job[c].op = "create" THEN "read" ELSE "write")
                 THEN "ok" ELSE "not found")
  /\ UNCHANGED <<rows, members, disk, lock, local>>

(* A connection that cannot be opened, a statement or a file read that     *)
(* fails: the exception goes to the caller as it is, and what was          *)
(* committed before stays.  (A mutation whose transaction cannot begin, or *)
(* fails with nothing but rows in it, leaves what Crash leaves at "begin".)*)
QueryFails(c) ==
  /\ pc[c] \in {"reply", "row", "admit", "meta", "remeta", "bytes", "chunks"}
  /\ Answer(c, "storage error")
  /\ UNCHANGED <<rows, members, disk, lock, local>>

------------------------------------------------------------------------------
(* read_artifact: five queries and a file read, each on its own connection. *)

ReadFirstVersion(c) ==  \* mutant: the version is looked up by its artifact, not by current_version_id
  LET j == job[c]
      own == {i \in DOMAIN versions : versions[i].artifact = j.artifact}
  IN
  /\ pc[c] = "row"
  /\ IF InTenant(j.tenant, j.artifact)
       THEN /\ pin' = [pin EXCEPT ![c] = IF j.version = 0 THEN CHOOSE i \in own : \A k \in own : i <= k
                                                          ELSE j.version]
            /\ pc' = [pc EXCEPT ![c] = "admit"]
            /\ UNCHANGED reply
       ELSE Answer(c, "not found") /\ UNCHANGED pin
  /\ UNCHANGED <<rows, members, disk, lock, job, got>>

ReadRow(c) ==
  LET j == job[c] IN
  /\ pc[c] = "row"
  /\ IF InTenant(j.tenant, j.artifact)
       THEN /\ pin' = [pin EXCEPT ![c] = IF j.version = 0 THEN current[j.artifact]
                                                          ELSE j.version]
            /\ pc' = [pc EXCEPT ![c] = "admit"]
            /\ UNCHANGED reply
       ELSE Answer(c, "not found") /\ UNCHANGED pin
  /\ UNCHANGED <<rows, members, disk, lock, job, got>>

(* get_artifact's _authorize. *)
ReadAdmit(c) ==
  /\ pc[c] = "admit"
  /\ IF MayDo(c, "read")
       THEN pc' = [pc EXCEPT ![c] = "meta"] /\ UNCHANGED reply
       ELSE Answer(c, "not found")
  /\ UNCHANGED <<rows, members, disk, lock, local>>

(* version_metadata, called by read_artifact and again by _version_bytes:  *)
(* the version must be one of this artifact and tenant.                    *)
VersionVisible(c) ==
  /\ pin[c] \in DOMAIN versions
  /\ versions[pin[c]].tenant = job[c].tenant
  /\ versions[pin[c]].artifact = job[c].artifact
  /\ MayDo(c, "read")

ReadMetadata(c) ==
  /\ pc[c] \in {"meta", "remeta"}
  /\ IF VersionVisible(c)
       THEN /\ pc' = [pc EXCEPT ![c] = IF @ = "meta" THEN "remeta" ELSE "bytes"]
            /\ UNCHANGED reply
       ELSE Answer(c, "not found")
  /\ UNCHANGED <<rows, members, disk, lock, local>>

ReadCurrentBytes(c) ==  \* mutant: the bytes are those of the current version
  LET d == versions[current[job[c].artifact]].blob IN
  /\ pc[c] = "bytes"
  /\ got' = [got EXCEPT ![c] = d]
  /\ pc' = [pc EXCEPT ![c] = "chunks"]
  /\ UNCHANGED <<rows, members, disk, lock, job, pin, reply>>

(* _version_bytes: the blob is returned as it is; its hash is not checked. *)
ReadBytes(c) ==
  LET d == versions[pin[c]].blob IN
  /\ pc[c] = "bytes"
  /\ IF disk[d] = "absent"
       THEN Answer(c, "blob missing") /\ UNCHANGED got
       ELSE /\ got' = [got EXCEPT ![c] = IF disk[d] = "torn" THEN Torn ELSE d]
            /\ pc' = [pc EXCEPT ![c] = "chunks"]
            /\ UNCHANGED reply
  /\ UNCHANGED <<rows, members, disk, lock, job, pin>>

(* chunk_descriptors authorizes once more, after the bytes were read. *)
ReadChunks(c) ==
  /\ pc[c] = "chunks"
  /\ Answer(c, IF MayDo(c, "read") THEN "ok" ELSE "not found")
  /\ UNCHANGED <<rows, members, disk, lock, local>>

------------------------------------------------------------------------------
(* share_artifact, revoke_share and link: one transaction, nothing outside *)
(* the database, so the whole transaction is one step.                     *)

TargetMember(c) == Hosted => <<job[c].tenant, job[c].subject>> \in members

GrantedOnly(c) ==  \* mutant: the owner's own rows are not looked at
  Granted(job[c].tenant, job[c].artifact, job[c].subject, job[c].action)

(* An active grant for the same subject and action, the owner's included.  *)
Existing(c) ==
  \/ Granted(job[c].tenant, job[c].artifact, job[c].subject, job[c].action)
  \/ /\ owner[job[c].artifact] = job[c].subject
     /\ <<job[c].artifact, job[c].action>> \in ownerGrants

ShareDenied(c) == Refuse(c, "share", "not found") /\ ~MayDo(c, "share")

ShareNotMember(c) ==
  Refuse(c, "share", "not a member") /\ MayDo(c, "share") /\ ~TargetMember(c)

ShareExisting(c) ==
  Refuse(c, "share", "ok") /\ MayDo(c, "share") /\ TargetMember(c) /\ Existing(c)

NewShare(c) ==
  [tenant |-> job[c].tenant, artifact |-> job[c].artifact, subject |-> job[c].subject,
   action |-> job[c].action, creator |-> job[c].actor, status |-> "active"]

ShareByReader(c) ==  \* mutant: read access is enough to share
  /\ Begun(c, "share") /\ MayDo(c, "read") /\ TargetMember(c) /\ ~Existing(c)
  /\ shares' = Append(shares, NewShare(c))
  /\ Answer(c, "ok")
  /\ UNCHANGED <<tenantOf, owner, current, versions, ownerGrants, edges,
                 members, disk, lock, local>>

ShareReactivate(c) ==  \* mutant: a revoked row of the same grant is made active again
  /\ Begun(c, "share") /\ MayDo(c, "share") /\ TargetMember(c) /\ ~Existing(c)
  /\ LET old == {i \in DOMAIN shares : [shares[i] EXCEPT !.status = "active"] = NewShare(c)}
     IN shares' = IF old = {} THEN Append(shares, NewShare(c))
                  ELSE [shares EXCEPT ![CHOOSE i \in old : TRUE].status = "active"]
  /\ Answer(c, "ok")
  /\ UNCHANGED <<tenantOf, owner, current, versions, ownerGrants, edges,
                 members, disk, lock, local>>

ShareInsert(c) ==
  /\ Begun(c, "share") /\ MayDo(c, "share") /\ TargetMember(c) /\ ~Existing(c)
  /\ shares' = Append(shares, NewShare(c))
  /\ Answer(c, "ok")
  /\ UNCHANGED <<tenantOf, owner, current, versions, ownerGrants, edges,
                 members, disk, lock, local>>

(* Grant 0 stands for the artifact's owner grants, MaxShares + 1 for an id  *)
(* that no row has.                                                        *)
GrantInArtifact(c) ==
  /\ job[c].grant \in DOMAIN shares
  /\ shares[job[c].grant].tenant = job[c].tenant
  /\ shares[job[c].grant].artifact = job[c].artifact

RevokeDenied(c) == Refuse(c, "revoke", "not found") /\ ~MayDo(c, "share")

RevokeUnknown(c) ==
  /\ Refuse(c, "revoke", "not found") /\ MayDo(c, "share")
  /\ job[c].grant # 0 /\ ~GrantInArtifact(c)

RevokeOwner(c) ==
  Refuse(c, "revoke", "owner grant") /\ MayDo(c, "share") /\ job[c].grant = 0

RevokeUnlocked(c) ==  \* mutant: the revocation does not take the write lock
  /\ pc[c] = "begin" /\ job[c].op = "revoke" /\ MayDo(c, "share")
  /\ GrantInArtifact(c)
  /\ shares' = [shares EXCEPT ![job[c].grant].status = "revoked"]
  /\ Answer(c, "ok")
  /\ UNCHANGED <<tenantOf, owner, current, versions, ownerGrants, edges,
                 members, disk, lock, local>>

(* Only an active row changes; revoking again answers the row as it is.    *)
RevokeShare(c) ==
  /\ Begun(c, "revoke") /\ MayDo(c, "share") /\ GrantInArtifact(c)
  /\ shares' = [shares EXCEPT ![job[c].grant].status = "revoked"]
  /\ Answer(c, "ok")
  /\ UNCHANGED <<tenantOf, owner, current, versions, ownerGrants, edges,
                 members, disk, lock, local>>

NewEdge(c) ==
  [tenant |-> job[c].tenant, source |-> job[c].artifact, target |-> job[c].target,
   type |-> job[c].type, note |-> job[c].note]

MayLinkAnywhere(c) ==  \* mutant: the target is looked up without its tenant
  MayDo(c, "write") /\ owner[job[c].target] = job[c].actor

MayLink(c) ==
  MayDo(c, "write") /\ Admitted(job[c].tenant, job[c].target, job[c].actor, "write")

(* The edge the request names, whatever its metadata. *)
SameEdge(c) ==
  {e \in edges : e.tenant = job[c].tenant /\ e.source = job[c].artifact
                 /\ e.target = job[c].target /\ e.type = job[c].type}

LinkDenied(c) == Refuse(c, "link", "not found") /\ ~MayLink(c)

LinkIgnored(c) ==  \* mutant: INSERT OR IGNORE, answering as if the edge were new
  /\ Refuse(c, "link", "ok") /\ MayLink(c)
  /\ \E e \in SameEdge(c) : e.note # job[c].note

LinkDiffers(c) ==
  /\ Refuse(c, "link", "edge differs") /\ MayLink(c)
  /\ \E e \in SameEdge(c) : e.note # job[c].note

Link(c) ==
  /\ Begun(c, "link") /\ MayLink(c)
  /\ \A e \in SameEdge(c) : e.note = job[c].note
  /\ edges' = edges \cup {NewEdge(c)}
  /\ Answer(c, "ok")
  /\ UNCHANGED <<tenantOf, owner, current, versions, ownerGrants, shares,
                 members, disk, lock, local>>

------------------------------------------------------------------------------
(* The surroundings. *)

(* A membership is suspended or restored by an operator (MembershipStore). *)
SetMember(t, x) ==
  /\ Hosted /\ "share" \in Ops
  /\ members' = IF <<t, x>> \in members THEN members \ {<<t, x>>} ELSE members \cup {<<t, x>>}
  /\ Cardinality((Tenants \X Actors) \ members') <= MaxSuspended
  /\ UNCHANGED <<rows, disk, lock, pc, local, reply>>

Gone(C) ==
  /\ pc' = [c \in Clients |-> IF c \in C THEN "idle" ELSE pc[c]]
  /\ job' = [c \in Clients |-> IF c \in C THEN NoJob ELSE job[c]]
  /\ pin' = [c \in Clients |-> IF c \in C THEN 0 ELSE pin[c]]
  /\ got' = [c \in Clients |-> IF c \in C THEN None ELSE got[c]]
  /\ reply' = [c \in Clients |-> IF c \in C THEN "none" ELSE reply[c]]
  /\ lock' = IF lock \in C THEN None ELSE lock
  /\ UNCHANGED <<rows, members>>

(* The process of a client dies: SQLite rolls its transaction back and     *)
(* drops its lock.  The page cache survives.                               *)
Crash(c) == pc[c] # "idle" /\ Gone({c}) /\ UNCHANGED disk

(* The operating system writes a blob file back. *)
Flush(d) ==
  /\ PowerMayFail /\ disk[d] = "cached"
  /\ disk' = [disk EXCEPT ![d] = "durable"]
  /\ UNCHANGED <<rows, members, lock, pc, local, reply>>

(* Committed rows survive (SQLite syncs its log); a blob file not written  *)
(* back is whole, gone, or there without its bytes.                        *)
PowerLoss ==
  /\ PowerMayFail
  /\ Gone(Clients)
  /\ disk' \in [Contents -> FileStates]
  /\ \A d \in Contents :
       IF disk[d] = "cached" THEN disk'[d] \in {"durable", "absent", "torn"}
                             ELSE disk'[d] = disk[d]

------------------------------------------------------------------------------
WriteStep(c) ==
  \/ WriteDenied(c) \/ WriteStale(c) \/ BeginVersion(c) \/ StoreBlob(c)
  \/ StorageFails(c) \/ CommitCreate(c) \/ CommitWrite(c) \/ ReplyVersion(c)

ReadStep(c) ==
  \/ ReadRow(c) \/ ReadAdmit(c) \/ ReadMetadata(c) \/ ReadBytes(c) \/ ReadChunks(c)

GrantStep(c) ==
  \/ ShareDenied(c) \/ ShareNotMember(c) \/ ShareExisting(c) \/ ShareInsert(c)
  \/ RevokeDenied(c) \/ RevokeUnknown(c) \/ RevokeOwner(c) \/ RevokeShare(c)

LinkStep(c) == LinkDenied(c) \/ LinkDiffers(c) \/ Link(c)

(* What the server does once a request has been made. *)
Serve(c) ==
  \/ WriteStep(c) \/ ReadStep(c) \/ GrantStep(c) \/ LinkStep(c)
  \/ BusyTimeout(c) \/ QueryFails(c) \/ Return(c)

Next ==
  \/ \E c \in Clients : Call(c) \/ Serve(c) \/ Crash(c)
  \/ \E t \in Tenants, x \in Actors : SetMember(t, x)
  \/ \E d \in Contents : Flush(d)
  \/ PowerLoss

Spec == Init /\ [][Next]_vars

(* Each request is carried by a thread that the scheduler keeps running.   *)
FairSpec == Spec /\ \A c \in Clients : WF_vars(Serve(c))

------------------------------------------------------------------------------
(* Properties. *)

TypeOK ==
  /\ tenantOf \in [Artifacts -> Tenants \cup {None}]
  /\ owner \in [Artifacts -> Actors \cup {None}]
  /\ current \in [Artifacts -> Nat]
  /\ versions \in Seq(Version)
  /\ shares \in Seq(Share)
  /\ ownerGrants \subseteq Artifacts \X ACL_ACTIONS
  /\ edges \subseteq Edge
  /\ members \subseteq Tenants \X Actors
  /\ disk \in [Contents -> FileStates]
  /\ lock \in Clients \cup {None}
  /\ pc \in [Clients -> PCs]
  /\ job \in [Clients -> Request \cup {NoJob}]
  /\ pin \in [Clients -> Nat]
  /\ got \in [Clients -> Contents \cup {None, Torn}]
  /\ reply \in [Clients -> Replies]

(* The versions of an artifact form one chain: the parent of each is the   *)
(* version of the same artifact committed just before it, only the first   *)
(* has none, and the artifact's current version is the last.  Two writers  *)
(* with the same parent never both succeed (_insert_version).              *)
ParentIsPrevious ==
  \A i \in DOMAIN versions :
    LET v == versions[i] IN
    /\ v.parent < i
    /\ v.parent # 0 => versions[v.parent].artifact = v.artifact
    /\ \A j \in DOMAIN versions : versions[j].artifact = v.artifact /\ j < i => j <= v.parent

CurrentIsLast ==
  \A a \in Artifacts :
    /\ owner[a] # None <=> current[a] # 0
    /\ current[a] # 0 => current[a] \in DOMAIN versions /\ versions[current[a]].artifact = a
    /\ \A j \in DOMAIN versions : versions[j].artifact = a => j <= current[a]

LinearHistory == ParentIsPrevious /\ CurrentIsLast

(* Every committed version has its blob file, also when another version    *)
(* shares the content and the transactions that wrote it failed or died    *)
(* (_store_blob runs before the row is inserted, and nothing removes it).  *)
CommittedBlobPresent == \A i \in DOMAIN versions : disk[versions[i].blob] # "absent"

(* A successful read returns the bytes of one version of the artifact and  *)
(* tenant asked for, the version asked for if one was named, whatever was  *)
(* written between its queries (read_artifact pins version_id).            *)
ReadCoherent ==
  \A c \in Clients :
    pc[c] = "done" /\ job[c].op = "read" /\ reply[c] = "ok" =>
      LET v == versions[pin[c]] IN
      /\ v.tenant = job[c].tenant /\ v.artifact = job[c].artifact
      /\ job[c].version # 0 => pin[c] = job[c].version
      /\ got[c] = v.blob

(* Where a call stands in the register.  A write takes effect in its       *)
(* commit, a read of the current version when its first query sees which   *)
(* that is (get_artifact), a read of a named version when that is found to *)
(* be one of the artifact's (version_metadata).                            *)
TakenPlaces(j) ==
  {"reply", "remeta", "bytes", "chunks"}
    \cup (IF j.op = "read" /\ j.version = 0 THEN {"admit", "meta"} ELSE {})

CallAt(at, j, n, d, answer) ==
  IF j.op \notin {"create", "write", "read"} THEN [state |-> "none"]
  ELSE CASE at = "done" /\ answer = "ok" ->
              [state |-> "told", of |-> j, number |-> n,
               blob |-> IF j.op = "read" THEN d ELSE j.blob]
         [] at = "done" /\ answer # "ok" -> [state |-> "failed", of |-> j]
         [] at \in TakenPlaces(j) -> [state |-> "taken", of |-> j, number |-> n]
         [] OTHER -> [state |-> "asked", of |-> j]

CallOf(c) == CallAt(pc[c], job[c], pin[c], got[c], reply[c])

VersionRequest == {q \in Request : q.op \in {"create", "write", "read"}}

StoreRegister == INSTANCE VersionedRegister WITH
  Queries <- VersionRequest,
  latest  <- current,
  writes  <- [i \in DOMAIN versions |->
                [artifact |-> versions[i].artifact, blob |-> versions[i].blob]],
  call    <- [c \in Clients |-> CallOf(c)]

(* The store implements the register: each create, write and read takes    *)
(* effect at one moment between its call and its answer, and is answered   *)
(* with success only if it did (create_artifact, write_version, read_bytes).*)
RegisterKept == StoreRegister!Register

(* The tenant columns agree: versions, grants and edges belong to the      *)
(* tenant of their artifacts, so no edge joins two tenants.                *)
RowsInTenant ==
  /\ \A i \in DOMAIN versions : InTenant(versions[i].tenant, versions[i].artifact)
  /\ \A i \in DOMAIN shares : InTenant(shares[i].tenant, shares[i].artifact)
  /\ \A e \in edges : InTenant(e.tenant, e.source) /\ InTenant(e.tenant, e.target)

(* A link that was answered stands with the metadata it asked for, and two *)
(* edges never differ in their metadata alone (link).                      *)
LinkAnsweredTruly ==
  /\ \A c \in Clients :
       pc[c] = "done" /\ job[c].op = "link" /\ reply[c] = "ok" => NewEdge(c) \in edges
  /\ \A e, f \in edges :
       e.tenant = f.tenant /\ e.source = f.source /\ e.target = f.target /\ e.type = f.type
         => e = f

(* A new version is committed only while its writer may write: no          *)
(* revocation commits between _authorize and the commit (write_version).   *)
WriterAdmittedAtCommit ==
  [][\A i \in DOMAIN versions' \ DOMAIN versions :
       versions'[i].parent # 0 =>
         Admitted(versions'[i].tenant, versions'[i].artifact, versions'[i].actor, "write")]_vars

(* Every share row can be traced to the owner: its creator is the owner or *)
(* was given the share action by an earlier row (share_artifact).          *)
ShareProvenance ==
  Enforced =>
    \A i \in DOMAIN shares :
      \/ shares[i].creator = owner[shares[i].artifact]
      \/ \E j \in DOMAIN shares :
           /\ j < i /\ shares[j].action = "share"
           /\ shares[j].artifact = shares[i].artifact
           /\ shares[j].subject = shares[i].creator

(* An artifact's owner holds all three owner grants for good and no share, *)
(* and two active shares differ in artifact, subject or action: revoking   *)
(* one grant is enough to end what it gave (share_artifact, revoke_share). *)
OneActiveGrant ==
  /\ ownerGrants = {a \in Artifacts : owner[a] # None} \X ACL_ACTIONS
  /\ \A i \in DOMAIN shares : shares[i].subject # owner[shares[i].artifact]
  /\ \A i, j \in DOMAIN shares :
       /\ shares[i].status = "active" /\ shares[j].status = "active"
       /\ shares[i].artifact = shares[j].artifact
       /\ shares[i].subject = shares[j].subject /\ shares[i].action = shares[j].action
       => i = j

(* What was committed stays: versions and edges are never changed or       *)
(* removed, an artifact keeps its tenant and owner, and of a share only    *)
(* the status changes, once, to revoked.                                   *)
HistoryKept ==
  [][/\ \A i \in DOMAIN versions : i \in DOMAIN versions' /\ versions'[i] = versions[i]
     /\ edges \subseteq edges'
     /\ \A a \in Artifacts :
          owner[a] # None => owner'[a] = owner[a] /\ tenantOf'[a] = tenantOf[a]
     /\ \A i \in DOMAIN shares :
          /\ i \in DOMAIN shares'
          /\ shares'[i] \in {shares[i], [shares[i] EXCEPT !.status = "revoked"]}]_vars

(* A caller refused although its version was committed is a writer whose   *)
(* grant has been revoked: the creator and the owner are never refused     *)
(* afterwards, and a conflict is never reported.  Leaving refusals aside,  *)
(* an answer is lost only to a query that fails after the commit           *)
(* (write_version's closing version_metadata, create_artifact's two reads).*)
RefusedAfterCommitMeansRevoked ==
  \A c \in Clients :
    /\ pc[c] = "done" /\ pin[c] # 0 /\ job[c].op \in {"create", "write"}
    /\ reply[c] \notin {"ok", "storage error"}
    =>
      /\ job[c].op = "write" /\ reply[c] = "not found"
      /\ \E i \in DOMAIN shares :
           /\ shares[i].artifact = job[c].artifact /\ shares[i].subject = job[c].actor
           /\ shares[i].action = "write" /\ shares[i].status = "revoked"

(* Every request is answered unless its process dies, whatever holds the   *)
(* write lock meanwhile.                                                   *)
CallsAnswered == \A c \in Clients : pc[c] \notin {"idle", "done"} ~> pc[c] \in {"idle", "done"}

(* The write lock is always given back. *)
LockReleased == \A c \in Clients : lock = c ~> lock # c

(* docs/adr/0003: a write becomes visible only after metadata and content  *)
(* are both durably associated.                                            *)
DurablyAssociated == \A i \in DOMAIN versions : disk[versions[i].blob] \in {"cached", "durable"}

(* docs/ENTERPRISE-READINESS-PLAN.md, E1.4: failed public calls leave no   *)
(* partial visible state.  Asked here of the calls the service itself      *)
(* refuses, whatever becomes of those that fail in the database.           *)
FailedCallLeavesNoTrace ==
  \A c \in Clients :
    /\ pc[c] = "done" /\ job[c].op \in {"create", "write"}
    /\ reply[c] \in Errors \ {"storage error", "busy"}
    => pin[c] = 0
==============================================================================
