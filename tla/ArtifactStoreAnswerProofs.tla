---------------------- MODULE ArtifactStoreAnswerProofs ----------------------
(***************************************************************************)
(* What the clients of ArtifactStore are told, proved for every value of   *)
(* its constants: links, failed writes and reads, and the files behind     *)
(* them.                                                                   *)
(***************************************************************************)
EXTENDS ArtifactStoreProofs

------------------------------------------------------------------------------
(* Every invariant below is a fact about one client and the tables.  In a  *)
(* step a client acts, dies, or stays as it is.                            *)

Still(k) ==
  /\ pc'[k] = pc[k] /\ job'[k] = job[k] /\ pin'[k] = pin[k]
  /\ got'[k] = got[k] /\ reply'[k] = reply[k]

Dies(k) == pc'[k] = "idle" /\ pin'[k] = 0

LEMMA OthersStill ==
  ASSUME TypeInv, NEW c \in Clients, Call(c) \/ Serve(c), NEW k \in Clients, k # c
  PROVE  Still(k)
<1> USE DEF TypeInv, TypeOK, rows, local, Still
<1>refuse. ASSUME NEW op, NEW why, Refuse(c, op, why) PROVE Still(k)
  BY <1>refuse DEF Refuse, Answer
<1>write. CASE WriteStep(c)
  <2>1. CASE WriteDenied(c) \/ WriteStale(c)
    BY <2>1, <1>refuse DEF WriteDenied, WriteStale
  <2>2. CASE BeginVersion(c) \/ StoreBlob(c) \/ StorageFails(c) \/ ReplyVersion(c)
    BY <2>2 DEF BeginVersion, StoreBlob, StorageFails, ReplyVersion, Answer
  <2>3. CASE CommitCreate(c) \/ CommitWrite(c)
    BY <2>3 DEF CommitCreate, CommitWrite, AddVersion
  <2> QED BY <1>write, <2>1, <2>2, <2>3 DEF WriteStep
<1>read. CASE ReadStep(c)
  BY <1>read DEF ReadStep, ReadRow, ReadAdmit, ReadMetadata, ReadBytes, ReadChunks, Answer
<1>grant. CASE GrantStep(c)
  BY <1>grant, <1>refuse DEF GrantStep, ShareDenied, ShareNotMember, ShareExisting,
     ShareInsert, RevokeDenied, RevokeUnknown, RevokeOwner, RevokeShare, Answer
<1>link. CASE LinkStep(c)
  BY <1>link, <1>refuse DEF LinkStep, LinkDenied, LinkDiffers, Link, Answer
<1>call. CASE Call(c) \/ BusyTimeout(c) \/ QueryFails(c) \/ Return(c)
  BY <1>call DEF Call, BusyTimeout, QueryFails, Return, Answer
<1> QED BY <1>write, <1>read, <1>grant, <1>link, <1>call DEF Serve

LEMMA AroundStill ==
  ASSUME \/ \E t \in Tenants, x \in Actors : SetMember(t, x)
         \/ \E d \in Contents : Flush(d)
         \/ UNCHANGED vars,
         NEW k \in Clients
  PROVE  Still(k)
  BY DEF SetMember, Flush, vars, local, Still

LEMMA OneClientActs ==
  ASSUME TypeInv, [Next]_vars, NEW k \in Clients
  PROVE  Still(k) \/ Dies(k) \/ Call(k) \/ Serve(k)
<1>gone. ASSUME NEW C \in SUBSET Clients, Gone(C) PROVE Still(k) \/ Dies(k)
  BY <1>gone DEF Gone, Dies, Still
<1>1. CASE \E c \in Clients : c # k /\ (Call(c) \/ Serve(c))
  BY <1>1, OthersStill
<1>2. CASE PowerLoss \/ \E c \in Clients : Crash(c)
  BY <1>2, <1>gone DEF PowerLoss, Crash
<1> QED BY <1>1, <1>2, AroundStill DEF Next

------------------------------------------------------------------------------
(* Links. *)

(* Only Link answers a link with success, once its edge is among the rows. *)
LEMMA LinkOwnStep ==
  ASSUME TypeInv, NEW k \in Clients, Serve(k),
         pc'[k] = "done", job'[k].op = "link", reply'[k] = "ok"
  PROVE  NewEdge(k)' \in edges'
<1> USE DEF TypeInv, TypeOK, JobAtPc, rows, local
<1>refuse. /\ \A op : ~Refuse(k, op, "not found") /\ ~Refuse(k, op, "edge differs")
           /\ \A why : ~Refuse(k, "write", why)
           /\ \A why : ~Refuse(k, "share", why)
           /\ \A why : ~Refuse(k, "revoke", why)
  BY DEF Refuse, Begun, Answer
<1>1. ~(WriteDenied(k) \/ WriteStale(k))
  BY <1>refuse DEF WriteDenied, WriteStale
<1>2. ~(BeginVersion(k) \/ StoreBlob(k) \/ StorageFails(k) \/ ReplyVersion(k))
  BY DEF BeginVersion, StoreBlob, StorageFails, ReplyVersion, Answer
<1>3. ~(CommitCreate(k) \/ CommitWrite(k))
  BY DEF CommitCreate, CommitWrite, AddVersion
<1>4. ~ReadStep(k)
  <2>1. ~ReadStep(k) \/ (job'[k] = job[k] /\ pc[k] \in Reading)
    BY DEF ReadStep, ReadRow, ReadAdmit, ReadMetadata, ReadBytes, ReadChunks, Reading
  <2> QED BY <2>1
<1>5. ~GrantStep(k)
  <2>1. ~(ShareInsert(k) \/ RevokeShare(k))
    BY DEF ShareInsert, RevokeShare, Begun
  <2>2. ~(ShareDenied(k) \/ ShareNotMember(k) \/ ShareExisting(k))
    BY <1>refuse DEF ShareDenied, ShareNotMember, ShareExisting
  <2>3. ~(RevokeDenied(k) \/ RevokeUnknown(k) \/ RevokeOwner(k))
    BY <1>refuse DEF RevokeDenied, RevokeUnknown, RevokeOwner
  <2> QED BY <2>1, <2>2, <2>3 DEF GrantStep
<1>6. ~(BusyTimeout(k) \/ QueryFails(k) \/ Return(k))
  BY DEF BusyTimeout, QueryFails, Return, Answer
<1>7. ~(LinkDenied(k) \/ LinkDiffers(k))
  BY <1>refuse DEF LinkDenied, LinkDiffers
<1>8. Link(k)
  BY <1>1, <1>2, <1>3, <1>4, <1>5, <1>6, <1>7 DEF Serve, WriteStep, LinkStep
<1> QED BY <1>8 DEF Link, NewEdge

(* Edges are only added, and one is added only when it differs from every  *)
(* other in more than its metadata.                                        *)
LEMMA EdgesAfter ==
  ASSUME TypeInv, [Next]_vars, LinkAnsweredTruly
  PROVE  /\ edges \subseteq edges'
         /\ \A e, f \in edges' :
              e.tenant = f.tenant /\ e.source = f.source /\ e.target = f.target
              /\ e.type = f.type => e = f
<1>1. CASE UNCHANGED edges
  BY <1>1 DEF LinkAnsweredTruly
<1>2. ASSUME NEW c \in Clients, Link(c)
      PROVE  /\ edges \subseteq edges'
             /\ \A e, f \in edges' :
                  e.tenant = f.tenant /\ e.source = f.source /\ e.target = f.target
                  /\ e.type = f.type => e = f
  <2>1. edges' = edges \cup {NewEdge(c)} /\ \A e \in SameEdge(c) : e.note = job[c].note
    BY <1>2 DEF Link
  <2>2. ASSUME NEW e \in edges, e.tenant = job[c].tenant, e.source = job[c].artifact,
               e.target = job[c].target, e.type = job[c].type
        PROVE  e = NewEdge(c)
    <3>1. e \in Edge
      BY DEF TypeInv, TypeOK
    <3>2. e.note = job[c].note
      BY <2>1, <2>2 DEF SameEdge
    <3>3. e = [tenant |-> e.tenant, source |-> e.source, target |-> e.target,
               type |-> e.type, note |-> e.note]
      BY <3>1 DEF Edge
    <3> QED BY <2>2, <3>2, <3>3 DEF NewEdge
  <2> QED BY <2>1, <2>2 DEF LinkAnsweredTruly, NewEdge
<1> QED BY <1>1, <1>2, EdgesStep

LEMMA NextLinks == TypeInv /\ LinkAnsweredTruly /\ [Next]_vars => LinkAnsweredTruly'
<1> SUFFICES ASSUME TypeInv, LinkAnsweredTruly, [Next]_vars PROVE LinkAnsweredTruly'
  OBVIOUS
<1>1. ASSUME NEW k \in Clients, pc'[k] = "done", job'[k].op = "link", reply'[k] = "ok"
      PROVE  NewEdge(k)' \in edges'
  <2>1. CASE Still(k)
    <3>1. NewEdge(k) \in edges
      BY <1>1, <2>1 DEF LinkAnsweredTruly, Still
    <3>2. NewEdge(k)' = NewEdge(k)
      BY <2>1 DEF NewEdge, Still
    <3> QED BY <3>1, <3>2, EdgesAfter
  <2>2. ~Dies(k) /\ ~Call(k)
    BY <1>1 DEF Dies, Call, TypeInv, TypeOK
  <2> QED BY <1>1, <2>1, <2>2, OneClientActs, LinkOwnStep
<1> QED BY <1>1, EdgesAfter DEF LinkAnsweredTruly

(* Whoever was told that its link stands finds it with its own metadata,   *)
(* and no two edges differ in their metadata alone (link looks for the     *)
(* edge and inserts it in one transaction).                                *)
THEOREM LinksAreAnsweredTruly == Spec => []LinkAnsweredTruly
<1>1. Init => TypeInv /\ LinkAnsweredTruly
  BY InitTypeInv DEF Init, LinkAnsweredTruly
<1>2. TypeInv /\ LinkAnsweredTruly /\ [Next]_vars => (TypeInv /\ LinkAnsweredTruly)'
  BY NextTypeInv, NextLinks
<1> QED BY <1>1, <1>2, PTL DEF Spec

------------------------------------------------------------------------------
(* Failed writes.  A client has committed a version only from its commit   *)
(* on, and whoever waits for its answer then owns the artifact or has a    *)
(* share of it, which may have been revoked since.                         *)

Uncommitted == {"idle", "begin", "blob", "rows"}

WriteShare(i, c) ==
  /\ shares[i].artifact = job[c].artifact /\ shares[i].subject = job[c].actor
  /\ shares[i].action = "write"

Entitled(c) ==
  /\ InTenant(job[c].tenant, job[c].artifact)
  /\ \/ owner[job[c].artifact] = job[c].actor
     \/ job[c].op = "write" /\ (~Enforced \/ \E i \in DOMAIN shares : WriteShare(i, c))

Excused(c) ==
  /\ job[c].op = "write" /\ reply[c] = "not found"
  /\ \E i \in DOMAIN shares : WriteShare(i, c) /\ shares[i].status = "revoked"

AnswerInv ==
  \A c \in Clients :
    /\ pc[c] \in Uncommitted => pin[c] = 0
    /\ pc[c] = "reply" => Entitled(c)
    /\ pc[c] = "done" /\ pin[c] # 0 /\ job[c].op \in {"create", "write"}
         /\ reply[c] \notin {"ok", "storage error"}
         => Excused(c)

StoreInv == HistoryInv /\ GrantInv

LEMMA StoreInvariant == Spec => []StoreInv
<1>1. HistoryInv /\ GrantInv => StoreInv
  BY DEF StoreInv
<1> QED BY HistoryInvariant, GrantInvariant, <1>1, PTL

(* What has been given, or given and taken back, stays on record. *)
LEMMA SharesOnRecord ==
  ASSUME StoreInv, [Next]_vars, NEW k \in Clients, job'[k] = job[k], NEW i \in DOMAIN shares,
         WriteShare(i, k)
  PROVE  /\ i \in DOMAIN shares' /\ WriteShare(i, k)'
         /\ shares[i].status = "revoked" => shares'[i].status = "revoked"
<1>1. /\ i \in DOMAIN shares'
      /\ shares'[i].artifact = shares[i].artifact
      /\ shares'[i].subject = shares[i].subject
      /\ shares'[i].action = shares[i].action
      /\ shares'[i].status = "active" => shares[i].status = "active"
  BY SharesAfter DEF StoreInv
<1>2. shares'[i].status \in {"active", "revoked"}
  <2>1. HistoryInv'
    BY NextTypeInv, NextLockHeld, NextFreshIds, NextStaged, NextLinearHistory
       DEF StoreInv, HistoryInv
  <2>2. shares' \in Seq(Share)
    BY <2>1 DEF HistoryInv, TypeInv, TypeOK
  <2>3. shares'[i] \in Share
    BY <1>1, <2>2, RowOf
  <2> QED BY <2>3 DEF Share
<1> QED BY <1>1, <1>2 DEF WriteShare

LEMMA EntitledKept ==
  ASSUME StoreInv, [Next]_vars, NEW k \in Clients, job'[k] = job[k],
         job[k] \in Request, Entitled(k)
  PROVE  Entitled(k)'
<1>1. job[k].artifact \in Artifacts
  BY RequestFields
<1>2. /\ owner'[job[k].artifact] = owner[job[k].artifact]
      /\ tenantOf'[job[k].artifact] = tenantOf[job[k].artifact]
  BY <1>1, ArtifactKept DEF Entitled, InTenant, StoreInv
<1>3. ASSUME NEW i \in DOMAIN shares, WriteShare(i, k)
      PROVE  \E n \in DOMAIN shares' : WriteShare(n, k)'
  BY <1>3, SharesOnRecord
<1> QED BY <1>2, <1>3 DEF Entitled, InTenant

LEMMA ExcusedKept ==
  ASSUME StoreInv, [Next]_vars, NEW k \in Clients, Still(k), Excused(k)
  PROVE  Excused(k)'
<1>1. PICK i \in DOMAIN shares : WriteShare(i, k) /\ shares[i].status = "revoked"
  BY DEF Excused
<1>2. i \in DOMAIN shares' /\ WriteShare(i, k)' /\ shares'[i].status = "revoked"
  BY <1>1, SharesOnRecord DEF Still
<1> QED BY <1>2 DEF Excused, Still

(* Whoever commits is entitled: an owner, or a writer admitted under the   *)
(* lock.                                                                   *)
LEMMA CommitEntitles ==
  ASSUME StoreInv, [Next]_vars, NEW k \in Clients, Commit(k)
  PROVE  Entitled(k)'
<1> USE DEF StoreInv, HistoryInv, TypeInv, TypeOK
<1>1. job[k] \in Request /\ job' = job /\ shares' = shares /\ pc[k] = "rows"
  BY DEF Commit, CommitCreate, CommitWrite, AddVersion, JobAtPc
<1>2. job[k].artifact \in Artifacts /\ job[k].actor \in Actors
  BY <1>1, RequestFields
<1>3. CASE CommitCreate(k)
  <2>1. /\ tenantOf' = [tenantOf EXCEPT ![job[k].artifact] = job[k].tenant]
        /\ owner' = [owner EXCEPT ![job[k].artifact] = job[k].actor]
    BY <1>3 DEF CommitCreate
  <2>2. owner'[job[k].artifact] = job[k].actor /\ tenantOf'[job[k].artifact] = job[k].tenant
    BY <1>2, <2>1
  <2>3. job[k].actor # None
    BY <1>2, NoneAssumption
  <2> QED BY <1>1, <2>2, <2>3 DEF Entitled, InTenant
<1>4. CASE CommitWrite(k)
  <2>1. MayDo(k, "write") /\ job[k].op = "write" /\ UNCHANGED <<owner, tenantOf>>
    BY <1>1, <1>4 DEF CommitWrite, Staged, Staging
  <2>2. Entitled(k)
    BY <2>1 DEF MayDo, Admitted, Granted, Entitled, WriteShare
  <2> QED BY <1>1, <2>2, EntitledKept
<1> QED BY <1>3, <1>4 DEF Commit

(* The closing query refuses nobody but a writer whose share is revoked. *)
LEMMA ReplyIsExcused ==
  ASSUME StoreInv, NEW k \in Clients, ReplyVersion(k), Entitled(k), reply'[k] # "ok"
  PROVE  Excused(k)'
<1> USE DEF StoreInv, HistoryInv, TypeInv, TypeOK
<1>1. /\ job[k] \in Request /\ job[k].op \in {"create", "write"}
      /\ reply'[k] = "not found"
      /\ ~MayDo(k, IF job[k].op = "create" THEN "read" ELSE "write")
      /\ UNCHANGED <<job, shares>>
  BY DEF ReplyVersion, Answer, JobAtPc, rows, local
<1>2. /\ job[k].op = "write" /\ ~Granted(job[k].tenant, job[k].artifact, job[k].actor, "write")
      /\ \E i \in DOMAIN shares : WriteShare(i, k)
  BY <1>1 DEF Entitled, MayDo, Admitted
<1>3. PICK i \in DOMAIN shares : WriteShare(i, k)
  BY <1>2
<1>4. shares[i].tenant = job[k].tenant
  <2>1. InTenant(shares[i].tenant, shares[i].artifact)
    BY DEF GrantInv, RowsInTenant
  <2> QED BY <1>3, <2>1 DEF Entitled, InTenant, WriteShare
<1>5. shares[i].status # "active"
  BY <1>2, <1>3, <1>4 DEF Granted, WriteShare
<1>6. shares[i].status = "revoked"
  <2>1. shares[i] \in Share
    BY RowOf
  <2> QED BY <1>5, <2>1 DEF Share
<1> QED BY <1>1, <1>2, <1>3, <1>6 DEF Excused, WriteShare

LEMMA NextAnswerInv == StoreInv /\ AnswerInv /\ [Next]_vars => AnswerInv'
<1> SUFFICES ASSUME StoreInv, AnswerInv, [Next]_vars, NEW k \in Clients
             PROVE  /\ pc'[k] \in Uncommitted => pin'[k] = 0
                    /\ pc'[k] = "reply" => Entitled(k)'
                    /\ pc'[k] = "done" /\ pin'[k] # 0 /\ job'[k].op \in {"create", "write"}
                       /\ reply'[k] \notin {"ok", "storage error"} => Excused(k)'
  BY DEF AnswerInv
<1> DEFINE Good == /\ pc'[k] \in Uncommitted => pin'[k] = 0
                   /\ pc'[k] = "reply" => Entitled(k)'
                   /\ pc'[k] = "done" /\ pin'[k] # 0 /\ job'[k].op \in {"create", "write"}
                      /\ reply'[k] \notin {"ok", "storage error"} => Excused(k)'
<1>t. TypeOK /\ JobAtPc /\ TypeInv
  BY DEF StoreInv, HistoryInv, TypeInv
<1>i. /\ pc[k] \in Uncommitted => pin[k] = 0
      /\ pc[k] = "reply" => Entitled(k)
      /\ pc[k] = "done" /\ pin[k] # 0 /\ job[k].op \in {"create", "write"}
           /\ reply[k] \notin {"ok", "storage error"} => Excused(k)
  BY DEF AnswerInv
<1> USE DEF Uncommitted
<1>before. ASSUME pc[k] \in Uncommitted, pin' = pin, pc'[k] # "reply" PROVE Good
  BY <1>before, <1>i
<1>refuse. \A op, why : Refuse(k, op, why) => Good
  <2> SUFFICES ASSUME NEW op, NEW why, Refuse(k, op, why) PROVE Good
    OBVIOUS
  <2>1. pc[k] = "begin" /\ pin' = pin /\ pc'[k] = "done"
    BY <1>t DEF Refuse, Begun, Answer, local, TypeOK
  <2> QED BY <2>1, <1>before
<1>1. CASE Still(k)
  <2>1. pc[k] = "reply" => job[k] \in Request
    BY <1>t DEF JobAtPc
  <2> QED BY <1>1, <1>i, <2>1, EntitledKept, ExcusedKept DEF Still
<1>2. CASE Dies(k)
  BY <1>2 DEF Dies
<1>3. CASE Call(k)
  <2>1. pc[k] = "idle" /\ pin' = pin /\ pc'[k] \in {"row", "begin"}
    BY <1>3, <1>t DEF Call, TypeOK
  <2> QED BY <2>1, <1>before
<1>4. CASE WriteStep(k)
  <2>1. CASE WriteDenied(k) \/ WriteStale(k)
    BY <2>1, <1>refuse DEF WriteDenied, WriteStale
  <2>2. CASE BeginVersion(k) \/ StoreBlob(k) \/ StorageFails(k)
    <3>1. /\ pc[k] \in Uncommitted /\ pin' = pin
          /\ pc'[k] \in {"blob", "rows", "done"}
      BY <2>2, <1>t DEF BeginVersion, Begun, StoreBlob, StorageFails, Answer, local, TypeOK
    <3> QED BY <3>1, <1>before
  <2>3. CASE Commit(k)
    <3>1. pc'[k] = "reply"
      BY <2>3, <1>t DEF Commit, CommitCreate, CommitWrite, AddVersion, TypeOK
    <3> QED BY <2>3, <3>1, CommitEntitles
  <2>4. CASE ReplyVersion(k)
    <3>1. pc'[k] = "done" /\ pc[k] = "reply"
      BY <2>4, <1>t DEF ReplyVersion, Answer, TypeOK
    <3> QED BY <2>4, <3>1, <1>i, ReplyIsExcused
  <2> QED BY <1>4, <2>1, <2>2, <2>3, <2>4 DEF WriteStep, Commit
<1>5. CASE ReadStep(k)
  <2>1. pc'[k] \in Reading \cup {"done"} /\ job' = job /\ pc[k] \in Reading
    BY <1>5, <1>t DEF ReadStep, ReadRow, ReadAdmit, ReadMetadata, ReadBytes, ReadChunks,
       Answer, Reading, local, TypeOK
  <2>2. job[k].op = "read"
    BY <2>1, <1>t DEF JobAtPc
  <2> QED BY <2>1, <2>2 DEF Reading
<1>6. CASE GrantStep(k)
  <2>1. CASE ShareInsert(k) \/ RevokeShare(k)
    <3>1. pc[k] = "begin" /\ pin' = pin /\ pc'[k] = "done"
      BY <2>1, <1>t DEF ShareInsert, RevokeShare, Begun, Answer, local, TypeOK
    <3> QED BY <3>1, <1>before
  <2>2. CASE ShareDenied(k) \/ ShareNotMember(k) \/ ShareExisting(k)
    BY <2>2, <1>refuse DEF ShareDenied, ShareNotMember, ShareExisting
  <2>3. CASE RevokeDenied(k) \/ RevokeUnknown(k) \/ RevokeOwner(k)
    BY <2>3, <1>refuse DEF RevokeDenied, RevokeUnknown, RevokeOwner
  <2> QED BY <1>6, <2>1, <2>2, <2>3 DEF GrantStep
<1>7. CASE LinkStep(k)
  <2>1. CASE Link(k)
    <3>1. pc[k] = "begin" /\ pin' = pin /\ pc'[k] = "done"
      BY <2>1, <1>t DEF Link, Begun, Answer, local, TypeOK
    <3> QED BY <3>1, <1>before
  <2>2. CASE LinkDenied(k) \/ LinkDiffers(k)
    BY <2>2, <1>refuse DEF LinkDenied, LinkDiffers
  <2> QED BY <1>7, <2>1, <2>2 DEF LinkStep
<1>8. CASE BusyTimeout(k)
  <2>1. pc[k] = "begin" /\ pin' = pin /\ pc'[k] = "done"
    BY <1>8, <1>t DEF BusyTimeout, Answer, local, TypeOK
  <2> QED BY <2>1, <1>before
<1>11. CASE QueryFails(k)
  <2>1. /\ pc[k] \in {"reply"} \cup Reading /\ pin' = pin /\ pc'[k] = "done"
        /\ job' = job /\ reply'[k] = "storage error"
    BY <1>11, <1>t DEF QueryFails, Answer, local, TypeOK, Reading
  <2> QED BY <2>1 DEF Reading
<1>9. CASE Return(k)
  BY <1>9, <1>t DEF Return, TypeOK
<1>10. Still(k) \/ Dies(k) \/ Call(k) \/ Serve(k)
  BY <1>t, OneClientActs
<1> QED BY <1>1, <1>2, <1>3, <1>4, <1>5, <1>6, <1>7, <1>8, <1>9, <1>10, <1>11 DEF Serve

(* A write refused although its version was committed is one whose share   *)
(* was revoked in between (write_version's last query); owners and         *)
(* creators are never refused after their commit.                          *)
THEOREM RefusalsAfterCommitMeanRevoked == Spec => []RefusedAfterCommitMeansRevoked
<1>1. Init => AnswerInv
  BY DEF Init, AnswerInv, Uncommitted
<1>2. AnswerInv => RefusedAfterCommitMeansRevoked
  BY DEF AnswerInv, Excused, WriteShare, RefusedAfterCommitMeansRevoked
<1> QED BY StoreInvariant, <1>1, <1>2, NextAnswerInv, PTL DEF Spec

------------------------------------------------------------------------------
(* Files.  Without a power loss no file is torn or lost: a transaction     *)
(* about to insert its row has stored its file, and nothing removes one.   *)

Stored ==
  /\ \A d \in Contents : disk[d] # "torn"
  /\ \A i \in DOMAIN versions : disk[versions[i].blob] # "absent"
  /\ \A c \in Clients : pc[c] = "rows" => disk[job[c].blob] # "absent"

(* The file of a content changes only by being written. *)
LEMMA FilesStay ==
  ASSUME TypeInv, [Next]_vars, ~PowerMayFail
  PROVE  \/ UNCHANGED disk
         \/ \E c \in Clients : StoreBlob(c)
<1> USE DEF rows, local
<1>1. ASSUME NEW c \in Clients, WriteStep(c) PROVE disk' = disk \/ StoreBlob(c)
  BY <1>1 DEF WriteStep, WriteDenied, WriteStale, Refuse, BeginVersion, StorageFails,
     CommitCreate, CommitWrite, AddVersion, ReplyVersion
<1>2. ASSUME NEW c \in Clients, ReadStep(c) \/ LinkStep(c) PROVE disk' = disk
  BY <1>2 DEF ReadStep, ReadRow, ReadAdmit, ReadMetadata, ReadBytes, ReadChunks,
     LinkStep, LinkDenied, LinkDiffers, Link, Refuse
<1>3. ASSUME NEW c \in Clients, GrantStep(c) PROVE disk' = disk
  BY <1>3 DEF GrantStep, ShareDenied, ShareNotMember, ShareExisting, ShareInsert,
     RevokeDenied, RevokeUnknown, RevokeOwner, RevokeShare, Refuse
<1>4. ASSUME NEW c \in Clients, Call(c) \/ BusyTimeout(c) \/ QueryFails(c) \/ Return(c) \/ Crash(c)
      PROVE  disk' = disk
  BY <1>4 DEF Call, BusyTimeout, QueryFails, Return, Crash
<1>5. ASSUME (\E t \in Tenants, x \in Actors : SetMember(t, x)) \/ UNCHANGED vars
      PROVE  disk' = disk
  BY <1>5 DEF SetMember, vars
<1>6. ~PowerLoss /\ \A d \in Contents : ~Flush(d)
  BY DEF PowerLoss, Flush
<1> QED BY <1>1, <1>2, <1>3, <1>4, <1>5, <1>6 DEF Next, Serve

(* The rows of versions stay, and a new one is that of the committing      *)
(* transaction.                                                            *)
LEMMA VersionsAfter ==
  ASSUME StoreInv, [Next]_vars
  PROVE  /\ \A i \in DOMAIN versions : i \in DOMAIN versions' /\ versions'[i] = versions[i]
         /\ \A i \in DOMAIN versions' \ DOMAIN versions :
              \E c \in Clients : pc[c] = "rows" /\ versions'[i].blob = job[c].blob
<1>1. CASE UNCHANGED versions
  BY <1>1
<1>2. ASSUME NEW c \in Clients, Commit(c)
      PROVE  /\ \A i \in DOMAIN versions : i \in DOMAIN versions' /\ versions'[i] = versions[i]
             /\ \A i \in DOMAIN versions' \ DOMAIN versions :
                  pc[c] = "rows" /\ versions'[i].blob = job[c].blob
  <2>1. PICK v \in Version : versions' = Append(versions, v)
    BY <1>2, CommitRow DEF StoreInv
  <2>2. /\ pc[c] = "rows"
        /\ \E p : versions' = Append(versions, NewVersion(c, p))
    BY <1>2 DEF Commit, CommitCreate, CommitWrite, AddVersion
  <2>3. versions \in Seq(Version)
    BY DEF StoreInv, HistoryInv, TypeInv, TypeOK
  <2>4. /\ DOMAIN versions = 1..Len(versions) /\ Len(versions) \in Nat
        /\ DOMAIN versions' = 1..(Len(versions) + 1)
        /\ \A i \in 1..Len(versions) : versions'[i] = versions[i]
        /\ versions'[Len(versions) + 1] = v
    BY <2>1, <2>3, AppendedRow
  <2>5. versions'[Len(versions) + 1].blob = job[c].blob
    <3>1. PICK p : versions' = Append(versions, NewVersion(c, p))
      BY <2>2
    <3>2. NewVersion(c, p).blob = job[c].blob
      BY DEF NewVersion
    <3>3. Append(versions, NewVersion(c, p))[Len(versions) + 1] = NewVersion(c, p)
      BY <2>3
    <3> QED BY <3>1, <3>2, <3>3
  <2> QED BY <2>2, <2>4, <2>5
<1>3. UNCHANGED versions \/ \E c \in Clients : Commit(c)
  BY StepKinds DEF StoreInv, HistoryInv, Call, BeginVersion, StorageFails, Regrant,
     ShareInsert, RevokeShare, Gone, Quiet, rows
<1> QED BY <1>1, <1>2, <1>3

LEMMA NextStored == StoreInv /\ Stored /\ ~PowerMayFail /\ [Next]_vars => Stored'
<1> SUFFICES ASSUME StoreInv, Stored, ~PowerMayFail, [Next]_vars PROVE Stored'
  OBVIOUS
<1>t. TypeOK /\ JobAtPc /\ TypeInv
  BY DEF StoreInv, HistoryInv, TypeInv
<1>blob. ASSUME NEW i \in DOMAIN versions PROVE versions[i].blob \in Contents
  <2>1. versions[i] \in Version
    BY <1>t, RowOf DEF TypeOK
  <2> QED BY <2>1 DEF Version
<1>own. ASSUME NEW k \in Clients, pc[k] \in Staging PROVE job[k].blob \in Contents
  BY <1>own, <1>t, RequestFields DEF JobAtPc, Staging
<1>disk. \A d \in Contents :
           /\ disk'[d] # "torn"
           /\ disk[d] # "absent" => disk'[d] # "absent"
  <2>1. ASSUME NEW c \in Clients, StoreBlob(c), NEW d \in Contents
        PROVE  disk'[d] # "torn" /\ (disk[d] # "absent" => disk'[d] # "absent")
    BY <2>1, <1>t DEF StoreBlob, Stored, TypeOK
  <2> QED BY <1>t, <2>1, FilesStay DEF Stored
<1>1. ASSUME NEW k \in Clients, pc'[k] = "rows"
      PROVE  pc[k] \in Staging /\ job'[k] = job[k] /\ disk'[job[k].blob] # "absent"
  <2>1. CASE Still(k)
    BY <1>1, <2>1, <1>own, <1>disk DEF Still, Staging, Stored
  <2>2. CASE StoreBlob(k)
    <3>1. pc[k] = "blob" /\ job' = job
          /\ disk' = [disk EXCEPT ![job[k].blob] = IF @ = "absent" THEN "cached" ELSE @]
      BY <2>2 DEF StoreBlob, local
    <3> QED BY <3>1, <1>own, <1>t DEF Staging, TypeOK
  <2>3. Still(k) \/ StoreBlob(k)
    <3>1. ASSUME NEW op, NEW why, Refuse(k, op, why) PROVE FALSE
      BY <1>1, <3>1, <1>t DEF Refuse, Answer, TypeOK
    <3>2. ~Dies(k) /\ ~Call(k) /\ ~BusyTimeout(k) /\ ~QueryFails(k) /\ ~Return(k)
      BY <1>1, <1>t DEF Dies, Call, BusyTimeout, QueryFails, Return, Answer, TypeOK
    <3>3. ~WriteStep(k) \/ StoreBlob(k)
      <4>1. ~(WriteDenied(k) \/ WriteStale(k))
        BY <3>1 DEF WriteDenied, WriteStale
      <4>2. ~(BeginVersion(k) \/ StorageFails(k) \/ ReplyVersion(k) \/ Commit(k))
        BY <1>1, <1>t DEF BeginVersion, StorageFails, ReplyVersion, Commit, CommitCreate,
           CommitWrite, AddVersion, Answer, TypeOK
      <4> QED BY <4>1, <4>2 DEF WriteStep, Commit
    <3>4. ~ReadStep(k)
      BY <1>1, <1>t DEF ReadStep, ReadRow, ReadAdmit, ReadMetadata, ReadBytes, ReadChunks,
         Answer, TypeOK
    <3>5. ~GrantStep(k)
      <4>1. ~(ShareInsert(k) \/ RevokeShare(k))
        BY <1>1, <1>t DEF ShareInsert, RevokeShare, Answer, TypeOK
      <4>2. ~(ShareDenied(k) \/ ShareNotMember(k) \/ ShareExisting(k))
        BY <3>1 DEF ShareDenied, ShareNotMember, ShareExisting
      <4>3. ~(RevokeDenied(k) \/ RevokeUnknown(k) \/ RevokeOwner(k))
        BY <3>1 DEF RevokeDenied, RevokeUnknown, RevokeOwner
      <4> QED BY <4>1, <4>2, <4>3 DEF GrantStep
    <3>6. ~LinkStep(k)
      <4>1. ~Link(k)
        BY <1>1, <1>t DEF Link, Answer, TypeOK
      <4>2. ~(LinkDenied(k) \/ LinkDiffers(k))
        BY <3>1 DEF LinkDenied, LinkDiffers
      <4> QED BY <4>1, <4>2 DEF LinkStep
    <3>7. Still(k) \/ Dies(k) \/ Call(k) \/ Serve(k)
      BY <1>t, OneClientActs
    <3> QED BY <3>2, <3>3, <3>4, <3>5, <3>6, <3>7 DEF Serve
  <2> QED BY <2>1, <2>2, <2>3
<1>2. ASSUME NEW i \in DOMAIN versions' PROVE disk'[versions'[i].blob] # "absent"
  <2>1. CASE i \in DOMAIN versions
    <3>1. versions'[i] = versions[i]
      BY <2>1, VersionsAfter
    <3> QED BY <2>1, <3>1, <1>blob, <1>disk DEF Stored
  <2>2. CASE i \notin DOMAIN versions
    <3>1. PICK c \in Clients : pc[c] = "rows" /\ versions'[i].blob = job[c].blob
      BY <1>2, <2>2, VersionsAfter
    <3> QED BY <3>1, <1>own, <1>disk DEF Stored, Staging
  <2> QED BY <2>1, <2>2
<1> QED BY <1>disk, <1>1, <1>2 DEF Stored

LEMMA StoredInvariant == Spec => [](~PowerMayFail => Stored)
<1>1. Init => (~PowerMayFail => Stored)
  BY DEF Init, Stored
<1>2. StoreInv /\ (~PowerMayFail => Stored) /\ [Next]_vars => (~PowerMayFail => Stored)'
  BY NextStored
<1> QED BY StoreInvariant, <1>1, <1>2, PTL DEF Spec

(* As long as the power does not fail, every committed version has its     *)
(* blob file: the transaction stored it before its row (_store_blob), and  *)
(* neither a rollback nor a death takes it away.                           *)
THEOREM BlobsArePresent == Spec => [](~PowerMayFail => CommittedBlobPresent)
<1>1. (~PowerMayFail => Stored) => (~PowerMayFail => CommittedBlobPresent)
  BY DEF Stored, CommittedBlobPresent
<1> QED BY StoredInvariant, <1>1, PTL

------------------------------------------------------------------------------
(* Reads.  What a read has established at each of its places: it keeps the *)
(* version it pinned, has seen that this is one of its artifact, and holds *)
(* the bytes of it.                                                        *)

Pinned == {"admit", "meta", "remeta", "bytes", "chunks"}
Looked == {"remeta", "bytes", "chunks"}

AnsweredRead(c) == pc[c] = "done" /\ job[c].op = "read" /\ reply[c] = "ok"

ReadAt(c) ==
  /\ pc[c] \in Pinned \/ AnsweredRead(c) =>
       (job[c].version # 0 => pin[c] = job[c].version)
  /\ pc[c] \in Looked \/ AnsweredRead(c) =>
       /\ pin[c] \in DOMAIN versions
       /\ versions[pin[c]].tenant = job[c].tenant
       /\ versions[pin[c]].artifact = job[c].artifact
  /\ pc[c] = "chunks" \/ AnsweredRead(c) => got[c] = versions[pin[c]].blob

ReadInv == \A c \in Clients : ReadAt(c)

(* A step that is not one of a read leaves its client at no place of one.  *)
Elsewhere(c) == pc[c] \notin Pinned /\ ~AnsweredRead(c)

LEMMA OtherStepsElsewhere ==
  ASSUME TypeInv, NEW k \in Clients, Dies(k) \/ Call(k) \/ Serve(k), ~ReadStep(k)
  PROVE  Elsewhere(k)'
<1> USE DEF TypeInv, TypeOK, JobAtPc, rows, local, Elsewhere, AnsweredRead, Pinned
<1>refuse. /\ \A why : Refuse(k, "write", why) => Elsewhere(k)'
           /\ \A why : Refuse(k, "share", why) => Elsewhere(k)'
           /\ \A why : Refuse(k, "revoke", why) => Elsewhere(k)'
           /\ \A why : Refuse(k, "link", why) => Elsewhere(k)'
  BY DEF Refuse, Begun, Answer
<1>1. CASE Dies(k)
  BY <1>1 DEF Dies
<1>2. CASE Call(k)
  BY <1>2 DEF Call
<1>3. CASE WriteStep(k)
  <2>1. CASE WriteDenied(k) \/ WriteStale(k)
    BY <2>1, <1>refuse DEF WriteDenied, WriteStale
  <2>2. CASE BeginVersion(k) \/ StoreBlob(k) \/ StorageFails(k) \/ ReplyVersion(k)
    BY <2>2 DEF BeginVersion, Begun, StoreBlob, StorageFails, ReplyVersion, Answer
  <2>3. CASE CommitCreate(k) \/ CommitWrite(k)
    BY <2>3 DEF CommitCreate, CommitWrite, AddVersion
  <2> QED BY <1>3, <2>1, <2>2, <2>3 DEF WriteStep
<1>4. CASE GrantStep(k)
  <2>1. CASE ShareInsert(k) \/ RevokeShare(k)
    BY <2>1 DEF ShareInsert, RevokeShare, Begun, Answer
  <2>2. CASE ShareDenied(k) \/ ShareNotMember(k) \/ ShareExisting(k)
    BY <2>2, <1>refuse DEF ShareDenied, ShareNotMember, ShareExisting
  <2>3. CASE RevokeDenied(k) \/ RevokeUnknown(k) \/ RevokeOwner(k)
    BY <2>3, <1>refuse DEF RevokeDenied, RevokeUnknown, RevokeOwner
  <2> QED BY <1>4, <2>1, <2>2, <2>3 DEF GrantStep
<1>5. CASE LinkStep(k)
  <2>1. CASE Link(k)
    BY <2>1 DEF Link, Begun, Answer
  <2>2. CASE LinkDenied(k) \/ LinkDiffers(k)
    BY <2>2, <1>refuse DEF LinkDenied, LinkDiffers
  <2> QED BY <1>5, <2>1, <2>2 DEF LinkStep
<1>6. CASE BusyTimeout(k) \/ QueryFails(k) \/ Return(k)
  BY <1>6 DEF BusyTimeout, QueryFails, Return, Answer
<1> QED BY <1>1, <1>2, <1>3, <1>4, <1>5, <1>6 DEF Serve

LEMMA NextReadInv == StoreInv /\ Stored /\ ReadInv /\ [Next]_vars => ReadInv'
<1> SUFFICES ASSUME StoreInv, Stored, ReadInv, [Next]_vars, NEW k \in Clients
             PROVE  ReadAt(k)'
  BY DEF ReadInv
<1>t. TypeOK /\ JobAtPc /\ TypeInv
  BY DEF StoreInv, HistoryInv, TypeInv
<1>a. ReadAt(k)
  BY DEF ReadInv
<1>grow. \A i \in DOMAIN versions : i \in DOMAIN versions' /\ versions'[i] = versions[i]
  BY VersionsAfter
<1> USE DEF ReadAt, AnsweredRead, Pinned, Looked
<1>1. CASE Still(k)
  <2>1. AnsweredRead(k)' <=> AnsweredRead(k)
    BY <1>1 DEF Still
  <2> QED BY <1>1, <1>a, <1>grow, <2>1 DEF Still
<1>2. CASE ReadStep(k)
  <2> USE <1>a, <1>t DEF TypeOK, rows, local
  <2>1. CASE ReadRow(k)
    <3>1. CASE InTenant(job[k].tenant, job[k].artifact)
      <4>1. /\ pc'[k] = "admit" /\ job' = job
            /\ job[k].version # 0 => pin'[k] = job[k].version
        BY <2>1, <3>1 DEF ReadRow
      <4> QED BY <4>1
    <3>2. CASE ~InTenant(job[k].tenant, job[k].artifact)
      <4>1. pc'[k] = "done" /\ reply'[k] = "not found"
        BY <2>1, <3>2 DEF ReadRow, Answer
      <4> QED BY <4>1
    <3> QED BY <3>1, <3>2
  <2>2. CASE ReadAdmit(k)
    <3>1. /\ pc[k] = "admit" /\ UNCHANGED <<job, pin>>
          /\ pc'[k] = "meta" \/ (pc'[k] = "done" /\ reply'[k] = "not found")
      BY <2>2 DEF ReadAdmit, Answer
    <3> QED BY <3>1
  <2>3. CASE ReadMetadata(k)
    <3>1. /\ pc[k] \in {"meta", "remeta"} /\ UNCHANGED <<job, pin, versions>>
          /\ \/ VersionVisible(k) /\ pc'[k] \in {"remeta", "bytes"}
             \/ pc'[k] = "done" /\ reply'[k] = "not found"
      BY <2>3 DEF ReadMetadata, Answer
    <3> QED BY <3>1 DEF VersionVisible
  <2>4. CASE ReadBytes(k)
    <3>1. versions[pin[k]].blob \in Contents /\ pin[k] \in DOMAIN versions
      <4>1. pin[k] \in DOMAIN versions
        BY <2>4 DEF ReadBytes
      <4>2. versions[pin[k]] \in Version
        BY <4>1, RowOf
      <4> QED BY <4>1, <4>2 DEF Version
    <3>2. /\ pc[k] = "bytes" /\ UNCHANGED <<job, pin, versions>>
          /\ \/ got'[k] = versions[pin[k]].blob /\ pc'[k] = "chunks"
             \/ pc'[k] = "done" /\ reply'[k] = "blob missing"
      BY <2>4, <3>1 DEF ReadBytes, Answer, Stored
    <3> QED BY <3>2
  <2>5. CASE ReadChunks(k)
    <3>1. pc[k] = "chunks" /\ UNCHANGED <<job, pin, got, versions>> /\ pc'[k] = "done"
      BY <2>5 DEF ReadChunks, Answer
    <3> QED BY <3>1
  <2> QED BY <1>2, <2>1, <2>2, <2>3, <2>4, <2>5 DEF ReadStep
<1>3. CASE (Dies(k) \/ Call(k) \/ Serve(k)) /\ ~ReadStep(k)
  <2>1. Elsewhere(k)'
    BY <1>3, <1>t, OtherStepsElsewhere
  <2> QED BY <2>1 DEF Elsewhere
<1>4. Still(k) \/ Dies(k) \/ Call(k) \/ Serve(k)
  BY <1>t, OneClientActs
<1> QED BY <1>1, <1>2, <1>3, <1>4

(* As long as the power does not fail, a successful read returns the bytes *)
(* of one version of the artifact and tenant it named, whatever is written *)
(* between its queries (read_artifact pins the version).                   *)
THEOREM ReadsAreCoherent == Spec => [](~PowerMayFail => ReadCoherent)
<1>1. Init => (~PowerMayFail => ReadInv)
  BY DEF Init, ReadInv, ReadAt, AnsweredRead, Pinned, Looked
<1>2. StoreInv /\ (~PowerMayFail => Stored) /\ (~PowerMayFail => ReadInv) /\ [Next]_vars
        => (~PowerMayFail => ReadInv)'
  BY NextReadInv
<1>3. (~PowerMayFail => ReadInv) => (~PowerMayFail => ReadCoherent)
  BY DEF ReadInv, ReadAt, AnsweredRead, ReadCoherent
<1> QED BY StoreInvariant, StoredInvariant, <1>1, <1>2, <1>3, PTL DEF Spec

------------------------------------------------------------------------------
(* What was committed stays: versions and edges as they are, an artifact   *)
(* with its owner and tenant, a share but for its one change to revoked.   *)
THEOREM HistoryIsKept == Spec => HistoryKept
<1> DEFINE A == /\ \A i \in DOMAIN versions : i \in DOMAIN versions' /\ versions'[i] = versions[i]
                /\ edges \subseteq edges'
                /\ \A a \in Artifacts :
                     owner[a] # None => owner'[a] = owner[a] /\ tenantOf'[a] = tenantOf[a]
                /\ \A i \in DOMAIN shares :
                     /\ i \in DOMAIN shares'
                     /\ shares'[i] \in {shares[i], [shares[i] EXCEPT !.status = "revoked"]}
<1>1. StoreInv /\ [Next]_vars => A
  <2> SUFFICES ASSUME StoreInv, [Next]_vars PROVE A
    OBVIOUS
  <2>1. \A i \in DOMAIN versions : i \in DOMAIN versions' /\ versions'[i] = versions[i]
    BY VersionsAfter
  <2>2. edges \subseteq edges'
    BY EdgesStep DEF Link
  <2>3. \A a \in Artifacts :
          owner[a] # None => owner'[a] = owner[a] /\ tenantOf'[a] = tenantOf[a]
    BY ArtifactKept DEF StoreInv
  <2>4. ASSUME NEW i \in DOMAIN shares
        PROVE  /\ i \in DOMAIN shares'
               /\ shares'[i] \in {shares[i], [shares[i] EXCEPT !.status = "revoked"]}
    <3>1. CASE UNCHANGED shares
      BY <3>1
    <3>2. ASSUME NEW c \in Clients, RevokeShare(c)
          PROVE  /\ i \in DOMAIN shares'
                 /\ shares'[i] \in {shares[i], [shares[i] EXCEPT !.status = "revoked"]}
      BY <3>2, RevokedShare DEF StoreInv
    <3>3. ASSUME NEW c \in Clients, ShareInsert(c)
          PROVE  i \in DOMAIN shares' /\ shares'[i] = shares[i]
      <4>1. PICK s \in Share : shares' = Append(shares, s)
        BY <3>3, InsertedShare DEF StoreInv
      <4>2. shares \in Seq(Share)
        BY DEF StoreInv, HistoryInv, TypeInv, TypeOK
      <4>3. /\ DOMAIN shares = 1..Len(shares) /\ Len(shares) \in Nat
            /\ DOMAIN shares' = 1..(Len(shares) + 1)
            /\ \A n \in 1..Len(shares) : shares'[n] = shares[n]
        BY <4>1, <4>2, AppendedRow
      <4> QED BY <4>3
    <3> QED BY <3>1, <3>2, <3>3, SharesStep DEF StoreInv, Regrant
  <2> QED BY <2>1, <2>2, <2>3, <2>4
<1>2. StoreInv /\ [Next]_vars => [A]_vars
  BY <1>1
<1> QED BY StoreInvariant, <1>2, PTL DEF Spec, HistoryKept

------------------------------------------------------------------------------
(* The store implements VersionedRegister. *)

VersionOps == {"create", "write", "read"}
Writes == [i \in DOMAIN versions |->
             [artifact |-> versions[i].artifact, blob |-> versions[i].blob]]
Calls == [c \in Clients |-> CallOf(c)]

(* Where a call stands in the register, by its place in the code. *)
Stands(at, j, n, d, answer, s) ==
  /\ j.op \notin VersionOps => s = [state |-> "none"]
  /\ j.op \in VersionOps =>
       /\ at \in {"begin", "blob", "rows", "row"} => s = [state |-> "asked", of |-> j]
       /\ at \in {"admit", "meta"} =>
            s = IF j.op = "read" /\ j.version = 0
                  THEN [state |-> "taken", of |-> j, number |-> n]
                  ELSE [state |-> "asked", of |-> j]
       /\ at \in {"reply", "remeta", "bytes", "chunks"} =>
            s = [state |-> "taken", of |-> j, number |-> n]
       /\ at = "done" /\ answer = "ok" =>
            s = [state |-> "told", of |-> j, number |-> n,
                 blob |-> IF j.op = "read" THEN d ELSE j.blob]
       /\ at = "done" /\ answer # "ok" => s = [state |-> "failed", of |-> j]

LEMMA CallPlaces ==
  ASSUME NEW at, NEW j, NEW n, NEW d, NEW answer
  PROVE  Stands(at, j, n, d, answer, CallAt(at, j, n, d, answer))
<1>1. /\ at \in {"begin", "blob", "rows", "row", "done"} => at \notin TakenPlaces(j)
      /\ at \in {"admit", "meta"} =>
           (at \in TakenPlaces(j) <=> j.op = "read" /\ j.version = 0) /\ at # "done"
      /\ at \in {"reply", "remeta", "bytes", "chunks"} => at \in TakenPlaces(j) /\ at # "done"
      /\ at \in {"begin", "blob", "rows", "row"} => at # "done"
  BY DEF TakenPlaces
<1>2. CallAt(at, j, n, d, answer) =
        IF j.op \notin VersionOps THEN [state |-> "none"]
        ELSE IF at = "done" /\ answer = "ok"
          THEN [state |-> "told", of |-> j, number |-> n,
                blob |-> IF j.op = "read" THEN d ELSE j.blob]
        ELSE IF at = "done" THEN [state |-> "failed", of |-> j]
        ELSE IF at \in TakenPlaces(j) THEN [state |-> "taken", of |-> j, number |-> n]
        ELSE [state |-> "asked", of |-> j]
  <2>1. CASE j.op \notin VersionOps
    BY <2>1, <1>1 DEF CallAt, VersionOps
  <2>2. CASE j.op \in VersionOps /\ at = "done" /\ answer = "ok"
    BY <2>2, <1>1 DEF CallAt, VersionOps
  <2>3. CASE j.op \in VersionOps /\ at = "done" /\ answer # "ok"
    BY <2>3, <1>1 DEF CallAt, VersionOps
  <2>4. CASE j.op \in VersionOps /\ at # "done" /\ at \in TakenPlaces(j)
    BY <2>4 DEF CallAt, VersionOps
  <2>5. CASE j.op \in VersionOps /\ at # "done" /\ at \notin TakenPlaces(j)
    BY <2>5 DEF CallAt, VersionOps
  <2> QED BY <2>1, <2>2, <2>3, <2>4, <2>5
<1> QED BY <1>1, <1>2 DEF Stands

(* A client without a request has none, and one whose answer is being      *)
(* built has its version.                                                  *)
OwnVersion(c) == pin[c] \in DOMAIN versions /\ versions[pin[c]].blob = job[c].blob

PlaceInv ==
  \A c \in Clients :
    /\ pc[c] = "idle" => job[c] = NoJob
    /\ pc[c] = "reply" => OwnVersion(c)

LEMMA CommitOwn ==
  ASSUME StoreInv, NEW k \in Clients, Commit(k)
  PROVE  /\ job[k] \in Request /\ job[k].op \in {"create", "write"}
         /\ pc[k] = "rows" /\ pc'[k] = "reply" /\ job' = job
         /\ job[k].artifact \in Artifacts
         /\ pin'[k] = Len(versions) + 1
         /\ current' = [current EXCEPT ![job[k].artifact] = Len(versions) + 1]
         /\ current[job[k].artifact] = IF job[k].op = "create" THEN 0 ELSE job[k].parent
         /\ current[job[k].artifact] = 0 => job[k].op = "create"
         /\ Len(versions) \in Nat /\ DOMAIN versions = 1..Len(versions)
         /\ DOMAIN versions' = 1..(Len(versions) + 1)
         /\ \A i \in 1..Len(versions) : versions'[i] = versions[i]
         /\ versions'[Len(versions) + 1].artifact = job[k].artifact
         /\ versions'[Len(versions) + 1].blob = job[k].blob
<1> USE DEF StoreInv, HistoryInv, TypeInv, TypeOK
<1>1. /\ job[k] \in Request /\ job[k].op \in {"create", "write"}
      /\ pc[k] = "rows" /\ pc'[k] = "reply" /\ job' = job /\ pin'[k] = Len(versions) + 1
      /\ current' = [current EXCEPT ![job[k].artifact] = Len(versions) + 1]
  BY DEF Commit, CommitCreate, CommitWrite, AddVersion, JobAtPc
<1>2. job[k].artifact \in Artifacts
  BY <1>1, RequestFields
<1>3. job[k].op = "create" => current[job[k].artifact] = 0
  BY <1>1, <1>2 DEF FreshIds, Creating, Staging, LinearHistory, CurrentIsLast
<1>4. job[k].op = "write" =>
        current[job[k].artifact] = job[k].parent /\ current[job[k].artifact] # 0
  BY <1>1, <1>2 DEF Staged, Staging, ParentMatches, MayDo, Admitted, InTenant,
     LinearHistory, CurrentIsLast
<1>5. PICK v \in Version : versions' = Append(versions, v)
  BY CommitRow
<1>6. PICK p : versions' = Append(versions, NewVersion(k, p))
  BY DEF Commit, CommitCreate, CommitWrite, AddVersion
<1>7. /\ Len(versions) \in Nat /\ DOMAIN versions = 1..Len(versions)
      /\ DOMAIN versions' = 1..(Len(versions) + 1)
      /\ \A i \in 1..Len(versions) : versions'[i] = versions[i]
  BY <1>5, AppendedRow
<1>8. versions'[Len(versions) + 1] = NewVersion(k, p)
  BY <1>6
<1>9. NewVersion(k, p).artifact = job[k].artifact /\ NewVersion(k, p).blob = job[k].blob
  BY DEF NewVersion
<1> QED BY <1>1, <1>2, <1>3, <1>4, <1>7, <1>8, <1>9

LEMMA NextPlaceInv == StoreInv /\ PlaceInv /\ [Next]_vars => PlaceInv'
<1> SUFFICES ASSUME StoreInv, PlaceInv, [Next]_vars, NEW k \in Clients
             PROVE  /\ pc'[k] = "idle" => job'[k] = NoJob
                    /\ pc'[k] = "reply" => OwnVersion(k)'
  BY DEF PlaceInv
<1> DEFINE Good == /\ pc'[k] = "idle" => job'[k] = NoJob
                   /\ pc'[k] = "reply" => OwnVersion(k)'
<1>t. TypeOK /\ JobAtPc /\ TypeInv
  BY DEF StoreInv, HistoryInv, TypeInv
<1>1. CASE Still(k)
  <2>1. \A i \in DOMAIN versions : i \in DOMAIN versions' /\ versions'[i] = versions[i]
    BY VersionsAfter
  <2> QED BY <1>1, <2>1 DEF Still, PlaceInv, OwnVersion
<1>2. CASE Commit(k)
  BY <1>2, CommitOwn DEF OwnVersion
<1>3. ASSUME Call(k) \/ Serve(k), ~Commit(k), ~Return(k)
      PROVE  pc'[k] \notin {"idle", "reply"}
  <2> USE <1>t DEF TypeOK
  <2>refuse. \A op, why : Refuse(k, op, why) => pc'[k] = "done"
    BY DEF Refuse, Answer
  <2>1. CASE Call(k)
    BY <2>1 DEF Call
  <2>2. CASE WriteStep(k)
    BY <1>3, <2>2, <2>refuse DEF WriteStep, WriteDenied, WriteStale, BeginVersion, StoreBlob,
       StorageFails, ReplyVersion, Commit, Answer
  <2>3. CASE ReadStep(k)
    BY <2>3 DEF ReadStep, ReadRow, ReadAdmit, ReadMetadata, ReadBytes, ReadChunks, Answer
  <2>4. CASE GrantStep(k)
    BY <2>4, <2>refuse DEF GrantStep, ShareDenied, ShareNotMember, ShareExisting, ShareInsert,
       RevokeDenied, RevokeUnknown, RevokeOwner, RevokeShare, Answer
  <2>5. CASE LinkStep(k)
    BY <2>5, <2>refuse DEF LinkStep, LinkDenied, LinkDiffers, Link, Answer
  <2>6. CASE BusyTimeout(k) \/ QueryFails(k)
    BY <2>6 DEF BusyTimeout, QueryFails, Answer
  <2> QED BY <1>3, <2>1, <2>2, <2>3, <2>4, <2>5, <2>6 DEF Serve
<1>4. CASE Return(k)
  BY <1>4, <1>t DEF Return, TypeOK
<1>5. ASSUME NEW C \in SUBSET Clients, Gone(C) PROVE Good
  <2>1. CASE k \in C
    BY <1>5, <2>1 DEF Gone
  <2>2. CASE k \notin C
    BY <1>5, <1>1, <2>2 DEF Gone, Still
  <2> QED BY <2>1, <2>2
<1>6. \/ Still(k) \/ Call(k) \/ Serve(k)
      \/ \E C \in SUBSET Clients : Gone(C)
  <2>1. CASE \E c \in Clients : c # k /\ (Call(c) \/ Serve(c))
    BY <2>1, <1>t, OthersStill
  <2>2. CASE PowerLoss \/ \E c \in Clients : Crash(c)
    BY <2>2 DEF PowerLoss, Crash
  <2> QED BY <2>1, <2>2, AroundStill DEF Next
<1> QED BY <1>1, <1>2, <1>3, <1>4, <1>5, <1>6

RegisterInv == StoreInv /\ Stored /\ ReadInv /\ PlaceInv

NoCall == [state |-> "none"]
AskedCall(q) == [state |-> "asked", of |-> q]
TakenCall(q, n) == [state |-> "taken", of |-> q, number |-> n]
ToldCall(q, n, d) == [state |-> "told", of |-> q, number |-> n, blob |-> d]
FailedCall(q) == [state |-> "failed", of |-> q]

Asks(k) ==
  CallOf(k) = NoCall /\ \E q \in VersionRequest : CallOf(k)' = AskedCall(q)

Reads(k) ==
  LET q == job[k]
      n == IF q.version = 0 THEN current[q.artifact] ELSE q.version
  IN
  /\ q.op = "read" /\ n \in DOMAIN versions /\ versions[n].artifact = q.artifact
  /\ CallOf(k) = AskedCall(q) /\ CallOf(k)' = TakenCall(q, n)

Tells(k) ==
  /\ pin[k] \in DOMAIN versions
  /\ CallOf(k) = TakenCall(job[k], pin[k])
  /\ CallOf(k)' = ToldCall(job[k], pin[k], versions[pin[k]].blob)

Fails(k) ==
  /\ CallOf(k) = AskedCall(job[k]) \/ CallOf(k) = TakenCall(job[k], pin[k])
  /\ CallOf(k)' = FailedCall(job[k])

Moved(k) ==
  CallOf(k)' = CallOf(k) \/ Asks(k) \/ Reads(k) \/ Tells(k) \/ Fails(k) \/ CallOf(k)' = NoCall

(* What a step of a client other than a commit means to the register. *)
LEMMA OwnMove ==
  ASSUME RegisterInv, NEW k \in Clients, Call(k) \/ Serve(k), ~Commit(k)
  PROVE  Moved(k)
<1>t. TypeOK /\ JobAtPc /\ TypeInv
  BY DEF RegisterInv, StoreInv, HistoryInv, TypeInv
<1>from. Stands(pc[k], job[k], pin[k], got[k], reply[k], CallOf(k))
  BY CallPlaces DEF CallOf
<1>to. Stands(pc'[k], job'[k], pin'[k], got'[k], reply'[k], CallOf(k)')
  BY CallPlaces DEF CallOf
<1> USE DEF VersionOps, NoCall, AskedCall, TakenCall, ToldCall, FailedCall
<1>fail. ASSUME pc[k] \in {"begin", "blob", "rows", "row", "admit", "meta", "remeta", "bytes",
                           "chunks", "reply"},
                pc'[k] = "done", job'[k] = job[k], reply'[k] # "ok"
         PROVE  Moved(k)
  BY <1>fail, <1>from, <1>to DEF Stands, Fails, Moved
<1>go. ASSUME pc[k] \in {"begin", "blob", "rows"}, pc'[k] \in {"begin", "blob", "rows"},
              job'[k] = job[k]
       PROVE  Moved(k)
  BY <1>go, <1>from, <1>to DEF Stands, Moved
<1>other. ASSUME job[k].op \notin VersionOps, job'[k] = job[k] PROVE Moved(k)
  BY <1>other, <1>from, <1>to DEF Stands, Moved
<1>refuse. \A op, why : Refuse(k, op, why) /\ (why # "ok" \/ op \notin VersionOps) => Moved(k)
  <2> SUFFICES ASSUME NEW op, NEW why, Refuse(k, op, why), why # "ok" \/ op \notin VersionOps
               PROVE  Moved(k)
    OBVIOUS
  <2>1. /\ pc[k] = "begin" /\ pc'[k] = "done" /\ job'[k] = job[k] /\ reply'[k] = why
        /\ job[k].op = op
    BY <1>t DEF Refuse, Begun, Answer, local, TypeOK
  <2> QED BY <2>1, <1>fail, <1>other
<1>1. CASE Call(k)
  <2>1. PICK r \in Request :
          job'[k] = r /\ pc'[k] = IF r.op = "read" THEN "row" ELSE "begin"
    BY <1>1, <1>t DEF Call, TypeOK
  <2>2. CallOf(k) = NoCall
    <3>1. job[k] = NoJob
      BY <1>1 DEF Call, RegisterInv, PlaceInv
    <3> QED BY <3>1, <1>from DEF Stands, NoJob
  <2>3. CASE r.op \in VersionOps
    <3>1. r \in VersionRequest
      BY <2>3 DEF VersionRequest
    <3> QED BY <2>1, <2>2, <2>3, <3>1, <1>to DEF Stands, Asks, Moved
  <2>4. CASE r.op \notin VersionOps
    BY <2>1, <2>4, <1>to DEF Stands, Moved
  <2> QED BY <2>3, <2>4
<1>2. CASE WriteStep(k)
  <2>1. CASE WriteDenied(k) \/ WriteStale(k)
    BY <2>1, <1>refuse DEF WriteDenied, WriteStale
  <2>2. CASE BeginVersion(k) \/ StoreBlob(k)
    <3>1. pc[k] \in {"begin", "blob"} /\ pc'[k] \in {"blob", "rows"} /\ job' = job
      BY <2>2, <1>t DEF BeginVersion, Begun, StoreBlob, local, TypeOK
    <3> QED BY <3>1, <1>go
  <2>3. CASE StorageFails(k)
    <3>1. pc[k] \in {"blob", "rows"} /\ pc'[k] = "done" /\ job' = job
          /\ reply'[k] = "storage error"
      BY <2>3, <1>t DEF StorageFails, Answer, local, TypeOK
    <3> QED BY <3>1, <1>fail
  <2>4. CASE ReplyVersion(k)
    <3>1. /\ pc[k] = "reply" /\ pc'[k] = "done" /\ UNCHANGED <<job, pin>>
          /\ job[k].op \in {"create", "write"}
      BY <2>4, <1>t DEF ReplyVersion, Answer, local, TypeOK, JobAtPc
    <3>2. CASE reply'[k] = "ok"
      <4>1. OwnVersion(k)
        BY <3>1 DEF RegisterInv, PlaceInv
      <4> QED BY <3>1, <3>2, <4>1, <1>from, <1>to DEF Stands, OwnVersion, Tells, Moved
    <3> QED BY <3>1, <3>2, <1>fail
  <2> QED BY <1>2, <2>1, <2>2, <2>3, <2>4 DEF WriteStep, Commit
<1>3. CASE ReadStep(k)
  <2>0. job[k] \in Request /\ job[k].op = "read" /\ job' = job /\ ReadAt(k)
    <3>1. pc[k] \in Reading /\ job' = job
      BY <1>3 DEF ReadStep, ReadRow, ReadAdmit, ReadMetadata, ReadBytes, ReadChunks, Reading, local
    <3> QED BY <3>1, <1>t DEF JobAtPc, RegisterInv, ReadInv
  <2>a. job[k].artifact \in Artifacts
    BY <2>0, RequestFields
  <2>1. CASE ReadRow(k)
    <3>1. CASE InTenant(job[k].tenant, job[k].artifact)
      <4>1. /\ pc[k] = "row" /\ pc'[k] = "admit"
            /\ pin'[k] = IF job[k].version = 0 THEN current[job[k].artifact] ELSE job[k].version
        BY <2>1, <3>1, <1>t DEF ReadRow, TypeOK
      <4>2. /\ current[job[k].artifact] \in DOMAIN versions
            /\ versions[current[job[k].artifact]].artifact = job[k].artifact
        BY <2>a, <3>1 DEF InTenant, RegisterInv, StoreInv, HistoryInv, LinearHistory, CurrentIsLast
      <4>3. CASE job[k].version = 0
        BY <2>0, <4>1, <4>2, <4>3, <1>from, <1>to DEF Stands, Reads, Moved
      <4>4. CASE job[k].version # 0
        BY <2>0, <4>1, <4>4, <1>from, <1>to DEF Stands, Moved
      <4> QED BY <4>3, <4>4
    <3>2. CASE ~InTenant(job[k].tenant, job[k].artifact)
      <4>1. pc[k] = "row" /\ pc'[k] = "done" /\ reply'[k] = "not found"
        BY <2>1, <3>2, <1>t DEF ReadRow, Answer, TypeOK
      <4> QED BY <2>0, <4>1, <1>fail
    <3> QED BY <3>1, <3>2
  <2>2. CASE ReadAdmit(k)
    <3>1. /\ pc[k] = "admit" /\ pin' = pin
          /\ pc'[k] = "meta" \/ (pc'[k] = "done" /\ reply'[k] = "not found")
      BY <2>2, <1>t DEF ReadAdmit, Answer, local, TypeOK
    <3>2. CASE pc'[k] = "meta"
      BY <2>0, <3>1, <3>2, <1>from, <1>to DEF Stands, Moved
    <3> QED BY <2>0, <3>1, <3>2, <1>fail
  <2>3. CASE ReadMetadata(k)
    <3>1. /\ pc[k] \in {"meta", "remeta"} /\ pin' = pin
          /\ \/ VersionVisible(k) /\ pc[k] = "meta" /\ pc'[k] = "remeta"
             \/ pc[k] = "remeta" /\ pc'[k] = "bytes"
             \/ pc'[k] = "done" /\ reply'[k] = "not found"
      BY <2>3, <1>t DEF ReadMetadata, Answer, local, TypeOK
    <3>2. CASE VersionVisible(k) /\ pc[k] = "meta" /\ pc'[k] = "remeta"
      <4>1. pin[k] \in DOMAIN versions /\ versions[pin[k]].artifact = job[k].artifact
        BY <3>2 DEF VersionVisible
      <4>2. job[k].version # 0 => pin[k] = job[k].version
        BY <2>0, <3>2 DEF ReadAt, Pinned
      <4>3. CASE job[k].version = 0
        BY <2>0, <3>1, <3>2, <4>3, <1>from, <1>to DEF Stands, Moved
      <4>4. CASE job[k].version # 0
        BY <2>0, <3>1, <3>2, <4>1, <4>2, <4>4, <1>from, <1>to DEF Stands, Reads, Moved
      <4> QED BY <4>3, <4>4
    <3>3. CASE pc[k] = "remeta" /\ pc'[k] = "bytes"
      BY <2>0, <3>1, <3>3, <1>from, <1>to DEF Stands, Moved
    <3> QED BY <2>0, <3>1, <3>2, <3>3, <1>fail
  <2>4. CASE ReadBytes(k)
    <3>1. /\ pc[k] = "bytes" /\ pin' = pin
          /\ pc'[k] = "chunks" \/ (pc'[k] = "done" /\ reply'[k] = "blob missing")
      BY <2>4, <1>t DEF ReadBytes, Answer, TypeOK
    <3>2. CASE pc'[k] = "chunks"
      BY <2>0, <3>1, <3>2, <1>from, <1>to DEF Stands, Moved
    <3> QED BY <2>0, <3>1, <3>2, <1>fail
  <2>5. CASE ReadChunks(k)
    <3>1. pc[k] = "chunks" /\ pc'[k] = "done" /\ UNCHANGED <<pin, got>>
      BY <2>5, <1>t DEF ReadChunks, Answer, local, TypeOK
    <3>2. CASE reply'[k] = "ok"
      <4>1. pin[k] \in DOMAIN versions /\ got[k] = versions[pin[k]].blob
        BY <2>0, <3>1 DEF ReadAt, Looked
      <4> QED BY <2>0, <3>1, <3>2, <4>1, <1>from, <1>to DEF Stands, Tells, Moved
    <3> QED BY <2>0, <3>1, <3>2, <1>fail
  <2> QED BY <1>3, <2>1, <2>2, <2>3, <2>4, <2>5 DEF ReadStep
<1>4. CASE GrantStep(k)
  <2>1. CASE ShareInsert(k) \/ RevokeShare(k)
    <3>1. job[k].op \notin VersionOps /\ job' = job
      BY <2>1 DEF ShareInsert, RevokeShare, Begun, local
    <3> QED BY <3>1, <1>other
  <2>2. CASE ShareDenied(k) \/ ShareNotMember(k) \/ ShareExisting(k)
    BY <2>2, <1>refuse DEF ShareDenied, ShareNotMember, ShareExisting
  <2>3. CASE RevokeDenied(k) \/ RevokeUnknown(k) \/ RevokeOwner(k)
    BY <2>3, <1>refuse DEF RevokeDenied, RevokeUnknown, RevokeOwner
  <2> QED BY <1>4, <2>1, <2>2, <2>3 DEF GrantStep
<1>5. CASE LinkStep(k)
  <2>1. CASE Link(k)
    <3>1. job[k].op \notin VersionOps /\ job' = job
      BY <2>1 DEF Link, Begun, local
    <3> QED BY <3>1, <1>other
  <2>2. CASE LinkDenied(k) \/ LinkDiffers(k)
    BY <2>2, <1>refuse DEF LinkDenied, LinkDiffers
  <2> QED BY <1>5, <2>1, <2>2 DEF LinkStep
<1>6. CASE BusyTimeout(k) \/ QueryFails(k)
  <2>1. /\ pc[k] \in {"begin", "reply", "row", "admit", "meta", "remeta", "bytes", "chunks"}
        /\ pc'[k] = "done" /\ job' = job /\ reply'[k] \in {"busy", "storage error"}
    BY <1>6, <1>t DEF BusyTimeout, QueryFails, Answer, local, TypeOK
  <2> QED BY <2>1, <1>fail
<1>7. CASE Return(k)
  <2>1. job'[k] = NoJob
    BY <1>7, <1>t DEF Return, TypeOK
  <2> QED BY <2>1, <1>to DEF Stands, Moved, NoJob
<1> QED BY <1>1, <1>2, <1>3, <1>4, <1>5, <1>6, <1>7 DEF Serve

(* The tables change for the register in commits alone. *)
LEMMA OnlyCommitsWrite ==
  ASSUME StoreInv, [Next]_vars
  PROVE  UNCHANGED <<current, versions>> \/ \E c \in Clients : Commit(c)
  BY StepKinds DEF StoreInv, HistoryInv, Call, BeginVersion, StorageFails, Regrant,
     ShareInsert, RevokeShare, Gone, Quiet, rows

LEMMA OneCallMoves ==
  ASSUME NEW k \in Clients, \A c \in Clients : c # k => Still(c)
  PROVE  Calls' = [Calls EXCEPT ![k] = CallOf(k)']
<1>1. \A c \in Clients : c # k => CallOf(c)' = CallOf(c)
  BY DEF Still, CallOf
<1> QED BY <1>1 DEF Calls

(* A client's move is a step of the register. *)
LEMMA MoveInRegister ==
  ASSUME NEW k \in Clients, Moved(k), UNCHANGED <<current, versions>>,
         Calls' = [Calls EXCEPT ![k] = CallOf(k)']
  PROVE  [StoreRegister!Next]_(StoreRegister!registerVars)
<1>w. Writes' = Writes
  BY DEF Writes
<1>c. Calls[k] = CallOf(k) /\ Calls'[k] = CallOf(k)'
  BY DEF Calls
<1>same. /\ \A q : StoreRegister!Asked(q) = AskedCall(q) /\ StoreRegister!Failed(q) = FailedCall(q)
         /\ \A q, n : StoreRegister!Taken(q, n) = TakenCall(q, n)
         /\ \A q, n, d : StoreRegister!Told(q, n, d) = ToldCall(q, n, d)
         /\ StoreRegister!Nothing = NoCall
  BY DEF StoreRegister!Asked, StoreRegister!Failed, StoreRegister!Taken, StoreRegister!Told,
     StoreRegister!Nothing, AskedCall, FailedCall, TakenCall, ToldCall, NoCall
<1>of. /\ \A q : AskedCall(q).state = "asked" /\ AskedCall(q).of = q
       /\ \A q, n : /\ TakenCall(q, n).state = "taken"
                    /\ TakenCall(q, n).of = q /\ TakenCall(q, n).number = n
  BY DEF AskedCall, TakenCall
<1> USE <1>w, <1>c, <1>same
<1>1. CASE CallOf(k)' = CallOf(k)
  <2>1. Calls' = Calls
    BY <1>1 DEF Calls
  <2> QED BY <2>1 DEF StoreRegister!registerVars, Calls, Writes
<1>2. CASE Asks(k)
  <2>1. PICK q \in VersionRequest : Calls[k] = NoCall /\ Calls'[k] = AskedCall(q)
    BY <1>2 DEF Asks
  <2>a. /\ Calls'[k].state = "asked" /\ Calls'[k].of \in VersionRequest
        /\ Calls' = [Calls EXCEPT ![k] = AskedCall(Calls'[k].of)]
    BY <2>1, <1>of
  <2>2. StoreRegister!Ask(k)
    BY <2>1, <2>a DEF StoreRegister!Ask, Calls, Writes
  <2> QED BY <2>2 DEF StoreRegister!Next
<1>3. CASE Reads(k)
  <2> DEFINE q == job[k]
             n == IF q.version = 0 THEN current[q.artifact] ELSE q.version
  <2>1. /\ q.op = "read" /\ n \in DOMAIN versions /\ versions[n].artifact = q.artifact
        /\ Calls[k] = AskedCall(q) /\ Calls' = [Calls EXCEPT ![k] = TakenCall(q, n)]
    BY <1>3 DEF Reads
  <2>2. n \in DOMAIN Writes /\ Writes[n].artifact = q.artifact
    BY <2>1 DEF Writes
  <2>3. Calls[k].state = "asked" /\ Calls[k].of = q
    BY <2>1, <1>of
  <2> HIDE DEF q
  <2>4. StoreRegister!Read(k)
    BY <2>1, <2>2, <2>3 DEF StoreRegister!Read, Calls, Writes
  <2> QED BY <2>4 DEF StoreRegister!Next
<1>4. CASE Tells(k)
  <2>1. /\ pin[k] \in DOMAIN versions
        /\ Calls[k] = TakenCall(job[k], pin[k])
        /\ Calls' = [Calls EXCEPT ![k] = ToldCall(job[k], pin[k], versions[pin[k]].blob)]
    BY <1>4 DEF Tells
  <2>2. Writes[pin[k]].blob = versions[pin[k]].blob
    BY <2>1 DEF Writes
  <2>3. Calls[k].state = "taken" /\ Calls[k].of = job[k] /\ Calls[k].number = pin[k]
    BY <2>1, <1>of
  <2>4. StoreRegister!Tell(k)
    BY <2>1, <2>2, <2>3 DEF StoreRegister!Tell, Calls, Writes
  <2> QED BY <2>4 DEF StoreRegister!Next
<1>5. CASE Fails(k)
  <2>1. /\ Calls[k].state \in {"asked", "taken"} /\ Calls[k].of = job[k]
        /\ Calls' = [Calls EXCEPT ![k] = FailedCall(job[k])]
    BY <1>5, <1>of DEF Fails
  <2>2. StoreRegister!Fail(k)
    BY <2>1 DEF StoreRegister!Fail, Calls, Writes
  <2> QED BY <2>2 DEF StoreRegister!Next
<1>6. CASE CallOf(k)' = NoCall
  <2>1. Calls' = [c \in Clients |-> IF c \in {k} THEN NoCall ELSE Calls[c]]
    BY <1>6 DEF Calls
  <2>2. StoreRegister!Leave
    BY <2>1 DEF StoreRegister!Leave, StoreRegister!Nothing, NoCall, Calls, Writes
  <2> QED BY <2>2 DEF StoreRegister!Next
<1> QED BY <1>1, <1>2, <1>3, <1>4, <1>5, <1>6 DEF Moved

(* A commit is a write of the register. *)
LEMMA CommitInRegister ==
  ASSUME StoreInv, NEW k \in Clients, Commit(k), Calls' = [Calls EXCEPT ![k] = CallOf(k)']
  PROVE  StoreRegister!Write(k)
<1> DEFINE q == job[k]
           n == Len(versions) + 1
<1>1. CallOf(k) = AskedCall(q) /\ CallOf(k)' = TakenCall(q, n)
  <2>1. Stands(pc[k], job[k], pin[k], got[k], reply[k], CallOf(k))
    BY CallPlaces DEF CallOf
  <2>2. Stands(pc'[k], job'[k], pin'[k], got'[k], reply'[k], CallOf(k)')
    BY CallPlaces DEF CallOf
  <2> QED BY <2>1, <2>2, CommitOwn DEF Stands, VersionOps, AskedCall, TakenCall
<1>2. /\ Writes \in Seq([artifact : Artifacts, blob : Contents]) /\ Len(Writes) = Len(versions)
      /\ Writes' = Append(Writes, [artifact |-> q.artifact, blob |-> q.blob])
  <2>1. /\ DOMAIN versions = 1..Len(versions) /\ Len(versions) \in Nat
        /\ \A i \in 1..Len(versions) :
             versions[i].artifact \in Artifacts /\ versions[i].blob \in Contents
    <3>1. versions \in Seq(Version)
      BY DEF StoreInv, HistoryInv, TypeInv, TypeOK
    <3>2. DOMAIN versions = 1..Len(versions) /\ Len(versions) \in Nat
      BY <3>1
    <3>3. \A i \in 1..Len(versions) : versions[i] \in Version
      BY <3>1
    <3> QED BY <3>2, <3>3 DEF Version
  <2>2. Writes \in Seq([artifact : Artifacts, blob : Contents]) /\ Len(Writes) = Len(versions)
    BY <2>1 DEF Writes
  <2>3. Writes' = [i \in 1..n |-> IF i = n THEN [artifact |-> q.artifact, blob |-> q.blob]
                                           ELSE Writes[i]]
    BY <2>1, CommitOwn DEF Writes
  <2>4. Append(Writes, [artifact |-> q.artifact, blob |-> q.blob])
          = [i \in 1..n |-> IF i = n THEN [artifact |-> q.artifact, blob |-> q.blob]
                                     ELSE Writes[i]]
    BY <2>1, <2>2
  <2> QED BY <2>2, <2>3, <2>4
<1>3. Calls[k] = AskedCall(q) /\ Calls' = [Calls EXCEPT ![k] = TakenCall(q, n)]
  BY <1>1 DEF Calls
<1>4. /\ q.op \in {"create", "write"}
      /\ current[q.artifact] = IF q.op = "create" THEN 0 ELSE q.parent
      /\ current[q.artifact] = 0 => q.op = "create"
      /\ current' = [current EXCEPT ![q.artifact] = n]
  BY CommitOwn
<1>5. AskedCall(q).of = q /\ AskedCall(q).state = "asked"
  BY DEF AskedCall
<1> HIDE DEF q, n
<1> QED
  BY <1>2, <1>3, <1>4, <1>5 DEF StoreRegister!Write, StoreRegister!Taken, TakenCall, Calls,
     Writes, n

(* Clients that die leave the register. *)
LEMMA GoneInRegister ==
  ASSUME NEW C \in SUBSET Clients, Gone(C)
  PROVE  StoreRegister!Leave
<1>1. ASSUME NEW c \in C PROVE CallOf(c)' = NoCall
  <2>1. Stands(pc'[c], job'[c], pin'[c], got'[c], reply'[c], CallOf(c)')
    BY CallPlaces DEF CallOf
  <2>2. job'[c] = NoJob
    BY DEF Gone
  <2> QED BY <2>1, <2>2 DEF Stands, VersionOps, NoJob, NoCall
<1>2. ASSUME NEW c \in Clients \ C PROVE CallOf(c)' = CallOf(c)
  BY DEF Gone, CallOf
<1>3. Calls' = [c \in Clients |-> IF c \in C THEN NoCall ELSE Calls[c]]
  BY <1>1, <1>2 DEF Calls
<1>4. current' = current /\ Writes' = Writes
  BY DEF Gone, rows, Writes
<1> QED
  BY <1>3, <1>4 DEF StoreRegister!Leave, StoreRegister!Nothing, NoCall, Calls, Writes

LEMMA NextRegister ==
  RegisterInv /\ [Next]_vars => [StoreRegister!Next]_(StoreRegister!registerVars)
<1> SUFFICES ASSUME RegisterInv, [Next]_vars
             PROVE  [StoreRegister!Next]_(StoreRegister!registerVars)
  OBVIOUS
<1>t. StoreInv /\ TypeInv
  BY DEF RegisterInv, StoreInv, HistoryInv
<1>1. ASSUME NEW k \in Clients, Call(k) \/ Serve(k)
      PROVE  [StoreRegister!Next]_(StoreRegister!registerVars)
  <2>1. \A c \in Clients : c # k => Still(c)
    BY <1>1, <1>t, OthersStill
  <2>2. Calls' = [Calls EXCEPT ![k] = CallOf(k)']
    BY <2>1, OneCallMoves
  <2>3. CASE Commit(k)
    <3>1. StoreRegister!Write(k)
      BY <1>t, <2>2, <2>3, CommitInRegister
    <3> QED BY <3>1 DEF StoreRegister!Next
  <2>4. CASE ~Commit(k)
    <3>1. Moved(k)
      BY <1>1, <2>4, OwnMove
    <3>2. ASSUME NEW c \in Clients, Commit(c) PROVE FALSE
      <4>1. pc[c] # pc'[c]
        BY <3>2, <1>t, CommitOwn
      <4>2. c = k
        BY <2>1, <4>1 DEF Still
      <4> QED BY <2>4, <3>2, <4>2
    <3>3. UNCHANGED <<current, versions>>
      BY <1>t, <3>2, OnlyCommitsWrite
    <3> QED BY <2>2, <3>1, <3>3, MoveInRegister
  <2> QED BY <2>3, <2>4
<1>2. ASSUME NEW C \in SUBSET Clients, Gone(C)
      PROVE  [StoreRegister!Next]_(StoreRegister!registerVars)
  BY <1>2, GoneInRegister DEF StoreRegister!Next
<1>3. CASE \/ \E t \in Tenants, x \in Actors : SetMember(t, x)
           \/ \E d \in Contents : Flush(d)
           \/ UNCHANGED vars
  <2>1. \A c \in Clients : CallOf(c)' = CallOf(c)
    BY <1>3, AroundStill DEF Still, CallOf
  <2>2. current' = current /\ versions' = versions
    BY <1>3 DEF SetMember, Flush, vars, rows
  <2>3. Calls' = Calls /\ Writes' = Writes
    BY <2>1, <2>2 DEF Calls, Writes
  <2> QED BY <2>2, <2>3 DEF StoreRegister!registerVars, Calls, Writes
<1> QED BY <1>1, <1>2, <1>3 DEF Next, Crash, PowerLoss

LEMMA InitRegister == Init => StoreRegister!Init /\ PlaceInv
<1> SUFFICES ASSUME Init PROVE StoreRegister!Init /\ PlaceInv
  OBVIOUS
<1>1. \A c \in Clients : CallOf(c) = NoCall
  <2> SUFFICES ASSUME NEW c \in Clients PROVE CallOf(c) = NoCall
    OBVIOUS
  <2>1. Stands(pc[c], job[c], pin[c], got[c], reply[c], CallOf(c))
    BY CallPlaces DEF CallOf
  <2> QED BY <2>1 DEF Init, Stands, VersionOps, NoJob, NoCall
<1>2. current = [a \in Artifacts |-> 0] /\ Writes = <<>>
  BY DEF Init, Writes
<1>3. Calls = [c \in Clients |-> NoCall]
  BY <1>1 DEF Calls
<1>4. PlaceInv
  BY DEF Init, PlaceInv
<1> QED
  BY <1>2, <1>3, <1>4 DEF StoreRegister!Init, StoreRegister!Nothing, NoCall, Calls, Writes

(* The store implements VersionedRegister: a create or a write takes       *)
(* effect whole in its commit, on the version it names as parent, and a    *)
(* read answers with a version that was there for it at one moment.        *)
THEOREM RegisterIsKept == ASSUME ~PowerMayFail PROVE Spec => RegisterKept
<1>1. Init => StoreRegister!Init /\ PlaceInv /\ ReadInv
  BY InitRegister DEF Init, ReadInv, ReadAt, AnsweredRead, Pinned, Looked
<1>2. StoreInv /\ (~PowerMayFail => Stored) /\ ReadInv /\ PlaceInv /\ [Next]_vars
        => /\ ReadInv' /\ PlaceInv'
           /\ [StoreRegister!Next]_(StoreRegister!registerVars)
  BY NextReadInv, NextPlaceInv, NextRegister DEF RegisterInv
<1> QED
  BY StoreInvariant, StoredInvariant, <1>1, <1>2, PTL
  DEF Spec, RegisterKept, StoreRegister!Register
==============================================================================
