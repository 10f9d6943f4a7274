------------------------- MODULE ArtifactStoreProofs -------------------------
(***************************************************************************)
(* What is proved of ArtifactStore for every value of its constants.       *)
(***************************************************************************)
EXTENDS ArtifactStore, TLAPS

------------------------------------------------------------------------------
(* Type correctness.  TypeOK is not inductive: which fields a request has  *)
(* follows from where its client is.                                       *)

Reading == {"row", "admit", "meta", "remeta", "bytes", "chunks"}

JobAtPc ==
  \A c \in Clients :
    /\ pc[c] \in {"begin", "done"} => job[c] \in Request
    /\ pc[c] \in {"blob", "rows", "reply"} =>
         job[c] \in Request /\ job[c].op \in {"create", "write"}
    /\ pc[c] \in Reading => job[c] \in Request /\ job[c].op = "read"
    /\ pc[c] = "bytes" => pin[c] \in DOMAIN versions

TypeInv == TypeOK /\ JobAtPc

(* The fields of each kind of request. *)
LEMMA RequestFields ==
  ASSUME NEW r \in Request
  PROVE  /\ r.op \in {"create", "write", "read", "share", "revoke", "link"}
         /\ r.tenant \in Tenants /\ r.actor \in Actors /\ r.artifact \in Artifacts
         /\ r.op \in {"create", "write"} => r.blob \in Contents
         /\ r.op = "write" => r.parent \in Nat
         /\ r.op = "read" => r.version \in Nat
         /\ r.op = "share" => r.subject \in Actors /\ r.action \in ACL_ACTIONS
         /\ r.op = "revoke" => r.grant \in Nat
         /\ r.op = "link" =>
              r.target \in Artifacts /\ r.type \in EdgeTypes /\ r.note \in EdgeNotes
  BY DEF Request

(* A table holds rows, keeps them when a row is appended, and shares stay  *)
(* shares when one is revoked.                                             *)
LEMMA RowOf == ASSUME NEW R, NEW s \in Seq(R), NEW i \in DOMAIN s PROVE s[i] \in R
  OBVIOUS

LEMMA AppendedRow ==
  ASSUME NEW R, NEW s \in Seq(R), NEW r \in R
  PROVE  /\ Append(s, r) \in Seq(R)
         /\ DOMAIN s = 1..Len(s) /\ Len(s) \in Nat
         /\ DOMAIN Append(s, r) = 1..(Len(s) + 1)
         /\ \A i \in 1..Len(s) : Append(s, r)[i] = s[i]
         /\ Append(s, r)[Len(s) + 1] = r
  OBVIOUS

LEMMA RevokedRow ==
  ASSUME NEW s \in Seq(Share), NEW g
  PROVE  /\ [s EXCEPT ![g].status = "revoked"] \in Seq(Share)
         /\ [s EXCEPT ![g].status = "revoked"] =
              [i \in 1..Len(s) |-> IF i = g THEN [s[i] EXCEPT !.status = "revoked"] ELSE s[i]]
<1>1. \A r \in Share : [r EXCEPT !.status = "revoked"] \in Share
  BY DEF Share
<1> DEFINE u == [s EXCEPT ![g].status = "revoked"]
<1>2. u = [i \in 1..Len(s) |-> IF i = g THEN [s[i] EXCEPT !.status = "revoked"] ELSE s[i]]
  OBVIOUS
<1>3. \A i \in 1..Len(s) : s[i] \in Share
  OBVIOUS
<1>4. u \in [1..Len(s) -> Share]
  BY <1>1, <1>2, <1>3
<1> QED BY <1>2, <1>4

LEMMA InitTypeInv == Init => TypeInv
  BY NoneAssumption DEF Init, TypeInv, TypeOK, JobAtPc, FileStates, PCs, Replies, Reading

(* An answered client is done and keeps its request. *)
LEMMA AnswerTypes ==
  ASSUME TypeInv, NEW c \in Clients, pc[c] \in {"begin", "blob", "rows", "reply"},
         NEW why \in Replies, Answer(c, why), UNCHANGED <<versions, job, pin>>
  PROVE  /\ pc' \in [Clients -> PCs] /\ reply' \in [Clients -> Replies]
         /\ JobAtPc'
  BY DEF TypeInv, TypeOK, JobAtPc, Answer, PCs, Reading

(* A refused transaction moves its client to "done" and nothing else. *)
LEMMA RefuseTypeInv ==
  ASSUME TypeInv, NEW c \in Clients, NEW op, NEW why \in Replies, Refuse(c, op, why)
  PROVE  TypeInv'
  BY DEF TypeInv, TypeOK, JobAtPc, Refuse, Begun, Answer, PCs, rows, local, Reading

LEMMA NextTypeInv == TypeInv /\ [Next]_vars => TypeInv'
<1> USE DEF TypeInv
<1> SUFFICES ASSUME TypeInv, [Next]_vars PROVE TypeInv'
  OBVIOUS
<1> USE DEF rows, local
<1>call. ASSUME NEW c \in Clients, Call(c) PROVE TypeInv'
  <2>1. PICK r \in Request :
          /\ job' = [job EXCEPT ![c] = r]
          /\ pc' = [pc EXCEPT ![c] = IF r.op = "read" THEN "row" ELSE "begin"]
    BY <1>call DEF Call
  <2> QED BY <1>call, <2>1 DEF Call, TypeOK, JobAtPc, PCs, Reading
<1>write. ASSUME NEW c \in Clients, WriteStep(c) PROVE TypeInv'
  <2>1. CASE WriteDenied(c) \/ WriteStale(c)
    BY <2>1, RefuseTypeInv DEF WriteDenied, WriteStale, Replies, Errors
  <2>2. CASE BeginVersion(c)
    BY <2>2 DEF BeginVersion, Begun, TypeOK, JobAtPc, PCs, Reading
  <2>3. CASE StoreBlob(c)
    BY <2>3 DEF StoreBlob, TypeOK, JobAtPc, PCs, FileStates, Reading
  <2>4. CASE StorageFails(c)
    BY <2>4 DEF StorageFails, Answer, TypeOK, JobAtPc, PCs, Replies, Errors, Reading
  <2>5. CASE CommitCreate(c) \/ CommitWrite(c)
    <3> DEFINE v == NewVersion(c, IF job[c].op = "create" THEN 0 ELSE job[c].parent)
    <3>1. job[c] \in Request /\ job[c].op \in {"create", "write"} /\ pc[c] = "rows"
      BY <2>5 DEF CommitCreate, CommitWrite, JobAtPc
    <3>2. v \in Version
      BY <3>1, RequestFields DEF NewVersion, Version
    <3>3. versions' = Append(versions, v)
      BY <2>5 DEF CommitCreate, CommitWrite, AddVersion
    <3>4. versions' \in Seq(Version) /\ Len(versions') = Len(versions) + 1
      BY <3>2, <3>3 DEF TypeOK
    <3>5. /\ tenantOf' \in [Artifacts -> Tenants \cup {None}]
          /\ owner' \in [Artifacts -> Actors \cup {None}]
          /\ ownerGrants' \subseteq Artifacts \X ACL_ACTIONS
      BY <2>5, <3>1, RequestFields DEF CommitCreate, CommitWrite, TypeOK
    <3>6. /\ current' = [current EXCEPT ![job[c].artifact] = Len(versions) + 1]
          /\ pin' = [pin EXCEPT ![c] = Len(versions) + 1]
          /\ lock' = None /\ pc' = [pc EXCEPT ![c] = "reply"]
          /\ UNCHANGED <<shares, edges, members, disk, job, got, reply>>
      BY <2>5 DEF CommitCreate, CommitWrite, AddVersion
    <3>7. TypeOK'
      <4>1. Len(versions) + 1 \in Nat
        BY DEF TypeOK
      <4>2. /\ current' \in [Artifacts -> Nat] /\ pin' \in [Clients -> Nat]
            /\ lock' \in Clients \cup {None} /\ pc' \in [Clients -> PCs]
        BY <3>6, <4>1 DEF TypeOK, PCs
      <4> QED BY <3>4, <3>5, <3>6, <4>2 DEF TypeOK
    <3>8. JobAtPc'
      <4>1. DOMAIN versions \subseteq DOMAIN versions'
        <5>1. versions \in Seq(Version)
          BY DEF TypeOK
        <5> HIDE DEF v
        <5>2. /\ DOMAIN versions = 1..Len(versions) /\ Len(versions) \in Nat
              /\ DOMAIN versions' = 1..(Len(versions) + 1)
          BY <5>1, <3>2, <3>3, AppendedRow
        <5> QED BY <5>2
      <4>2. job' = job /\ pc' = [pc EXCEPT ![c] = "reply"]
            /\ \A k \in Clients \ {c} : pin'[k] = pin[k]
        BY <3>6 DEF TypeOK
      <4> QED BY <3>1, <4>1, <4>2 DEF TypeOK, JobAtPc, Reading
    <3> QED BY <3>7, <3>8
  <2>6. CASE ReplyVersion(c)
    BY <2>6 DEF ReplyVersion, Answer, TypeOK, JobAtPc, PCs, Replies, Errors, Reading
  <2> QED BY <1>write, <2>1, <2>2, <2>3, <2>4, <2>5, <2>6 DEF WriteStep
<1>read. ASSUME NEW c \in Clients, ReadStep(c) PROVE TypeInv'
  <2> USE DEF TypeOK, JobAtPc, PCs, Replies, Errors, Reading, Answer
  <2>1. CASE ReadRow(c)
    <3>1. job[c] \in Request /\ job[c].op = "read"
      BY <2>1 DEF ReadRow
    <3>2. job[c].artifact \in Artifacts /\ job[c].version \in Nat
      BY <3>1, RequestFields
    <3>3. CASE InTenant(job[c].tenant, job[c].artifact)
      <4>1. /\ pin' = [pin EXCEPT ![c] = IF job[c].version = 0 THEN current[job[c].artifact]
                                                              ELSE job[c].version]
            /\ pc' = [pc EXCEPT ![c] = "admit"] /\ UNCHANGED reply
        BY <2>1, <3>3 DEF ReadRow
      <4>2. pin' \in [Clients -> Nat] /\ \A k \in Clients \ {c} : pin'[k] = pin[k]
        BY <3>2, <4>1
      <4> QED BY <2>1, <3>1, <4>1, <4>2 DEF ReadRow
    <3>4. CASE ~InTenant(job[c].tenant, job[c].artifact)
      BY <2>1, <3>1, <3>4 DEF ReadRow
    <3> QED BY <3>3, <3>4
  <2>2. CASE ReadAdmit(c)
    BY <2>2 DEF ReadAdmit
  <2>3. CASE ReadMetadata(c)
    BY <2>3 DEF ReadMetadata, VersionVisible
  <2>4. CASE ReadBytes(c)
    <3>1. versions[pin[c]] \in Version
      BY <2>4, RowOf DEF ReadBytes
    <3>2. versions[pin[c]].blob \in Contents
      BY <3>1 DEF Version
    <3> QED BY <2>4, <3>2 DEF ReadBytes
  <2>5. CASE ReadChunks(c)
    BY <2>5 DEF ReadChunks
  <2> QED BY <1>read, <2>1, <2>2, <2>3, <2>4, <2>5 DEF ReadStep
<1>grant. ASSUME NEW c \in Clients, GrantStep(c) PROVE TypeInv'
  <2>1. CASE \/ ShareDenied(c) \/ ShareNotMember(c) \/ ShareExisting(c)
             \/ RevokeDenied(c) \/ RevokeUnknown(c) \/ RevokeOwner(c)
    BY <2>1, RefuseTypeInv DEF ShareDenied, ShareNotMember, ShareExisting, RevokeDenied,
       RevokeUnknown, RevokeOwner, Replies, Errors
  <2>2. CASE ShareInsert(c)
    <3>1. job[c] \in Request /\ job[c].op = "share"
      BY <2>2 DEF ShareInsert, Begun, JobAtPc
    <3>2. NewShare(c) \in Share
      BY <3>1, RequestFields DEF NewShare, Share
    <3>3. shares' \in Seq(Share)
      BY <2>2, <3>2 DEF ShareInsert, TypeOK
    <3> QED BY <2>2, <3>3, AnswerTypes DEF ShareInsert, Begun, TypeOK, Replies
  <2>3. CASE RevokeShare(c)
    <3>1. shares' = [shares EXCEPT ![job[c].grant].status = "revoked"]
      BY <2>3 DEF RevokeShare
    <3>2. shares' \in Seq(Share)
      BY <3>1, RevokedRow DEF TypeOK
    <3> QED BY <2>3, <3>2, AnswerTypes DEF RevokeShare, Begun, TypeOK, Replies
  <2> QED BY <1>grant, <2>1, <2>2, <2>3 DEF GrantStep
<1>link. ASSUME NEW c \in Clients, LinkStep(c) PROVE TypeInv'
  <2>1. CASE LinkDenied(c) \/ LinkDiffers(c)
    BY <2>1, RefuseTypeInv DEF LinkDenied, LinkDiffers, Replies, Errors
  <2>2. CASE Link(c)
    <3>1. job[c] \in Request /\ job[c].op = "link"
      BY <2>2 DEF Link, Begun, JobAtPc
    <3>2. NewEdge(c) \in Edge
      BY <3>1, RequestFields DEF NewEdge, Edge
    <3>3. edges' \subseteq Edge
      BY <2>2, <3>2 DEF Link, TypeOK
    <3> QED BY <2>2, <3>3, AnswerTypes DEF Link, Begun, TypeOK, Replies
  <2> QED BY <1>link, <2>1, <2>2 DEF LinkStep
<1>timeout. ASSUME NEW c \in Clients, BusyTimeout(c) \/ QueryFails(c) PROVE TypeInv'
  BY <1>timeout DEF BusyTimeout, QueryFails, Answer, TypeOK, JobAtPc, PCs, Replies, Errors, Reading
<1>return. ASSUME NEW c \in Clients, Return(c) PROVE TypeInv'
  BY <1>return DEF Return, TypeOK, JobAtPc, PCs, Replies, Reading
<1>gone. ASSUME NEW C \in SUBSET Clients, Gone(C), disk' \in [Contents -> FileStates]
         PROVE  TypeInv'
  BY <1>gone DEF Gone, TypeOK, JobAtPc, PCs, Replies, Reading
<1>crash. ASSUME NEW c \in Clients, Crash(c) PROVE TypeInv'
  BY <1>crash, <1>gone DEF Crash, TypeOK
<1>power. ASSUME PowerLoss PROVE TypeInv'
  BY <1>power, <1>gone DEF PowerLoss
<1>member. ASSUME NEW t \in Tenants, NEW x \in Actors, SetMember(t, x) PROVE TypeInv'
  BY <1>member DEF SetMember, TypeOK, JobAtPc, Reading
<1>flush. ASSUME NEW d \in Contents, Flush(d) PROVE TypeInv'
  BY <1>flush DEF Flush, TypeOK, JobAtPc, FileStates, Reading
<1>stutter. ASSUME UNCHANGED vars PROVE TypeInv'
  BY <1>stutter DEF vars, TypeOK, JobAtPc, Reading
<1> QED
  BY <1>call, <1>write, <1>read, <1>grant, <1>link, <1>timeout, <1>return, <1>crash,
     <1>power, <1>member, <1>flush, <1>stutter DEF Next, Serve

(* Every reachable state is well typed (all of ArtifactStore's actions).   *)
THEOREM TypeCorrect == Spec => []TypeOK
<1>1. Spec => []TypeInv
  BY InitTypeInv, NextTypeInv, PTL DEF Spec
<1>2. TypeInv => TypeOK
  BY DEF TypeInv
<1> QED BY <1>1, <1>2, PTL

------------------------------------------------------------------------------
(* The kinds of step.  The proofs below need of a step only which tables   *)
(* it changes and which clients enter or leave a transaction.              *)

Staging == {"blob", "rows"}

Quiet ==
  /\ UNCHANGED <<tenantOf, owner, current, versions, ownerGrants, shares, lock>>
  /\ \A k \in Clients :
       /\ pc'[k] \in Staging <=> pc[k] \in Staging
       /\ pc'[k] \in Staging \cup {"begin"} =>
            pc[k] \in Staging \cup {"begin"} /\ job'[k] = job[k]

Commit(c) == CommitCreate(c) \/ CommitWrite(c)
Regrant(c) == ShareInsert(c) \/ RevokeShare(c)

LEMMA RefuseQuiet ==
  ASSUME TypeInv, NEW c \in Clients, NEW op, NEW why, Refuse(c, op, why)
  PROVE  Quiet
  BY DEF TypeInv, TypeOK, Refuse, Begun, Answer, Quiet, Staging, rows, local

LEMMA StepKinds ==
  ASSUME TypeInv, [Next]_vars
  PROVE  \/ \E c \in Clients : Call(c) \/ BeginVersion(c) \/ StorageFails(c)
                               \/ Commit(c) \/ Regrant(c)
         \/ \E C \in SUBSET Clients : Gone(C)
         \/ Quiet
<1> USE DEF rows, local, TypeInv
<1> DEFINE Goal == \/ \E c \in Clients : Call(c) \/ BeginVersion(c) \/ StorageFails(c)
                                         \/ Commit(c) \/ Regrant(c)
                   \/ \E C \in SUBSET Clients : Gone(C)
                   \/ Quiet
<1>write. ASSUME NEW c \in Clients, WriteStep(c) PROVE Goal
  <2>1. CASE WriteDenied(c) \/ WriteStale(c)
    BY <2>1, RefuseQuiet DEF WriteDenied, WriteStale
  <2>2. CASE StoreBlob(c) \/ ReplyVersion(c)
    BY <2>2 DEF StoreBlob, ReplyVersion, Answer, Quiet, Staging, TypeOK
  <2> QED BY <1>write, <2>1, <2>2 DEF WriteStep, Commit
<1>read. ASSUME NEW c \in Clients, ReadStep(c) PROVE Quiet
  <2>1. /\ pc[c] \in Reading /\ job' = job
        /\ UNCHANGED <<tenantOf, owner, current, versions, ownerGrants, shares, lock>>
        /\ \E to \in Reading \cup {"done"} : pc' = [pc EXCEPT ![c] = to]
    BY <1>read DEF ReadStep, ReadRow, ReadAdmit, ReadMetadata, ReadBytes, ReadChunks, Answer,
       Reading
  <2> QED BY <2>1 DEF Quiet, Staging, Reading, TypeOK
<1>grant. ASSUME NEW c \in Clients, GrantStep(c) PROVE Goal
  BY <1>grant, RefuseQuiet DEF GrantStep, ShareDenied, ShareNotMember, ShareExisting,
     RevokeDenied, RevokeUnknown, RevokeOwner, Regrant
<1>link. ASSUME NEW c \in Clients, LinkStep(c) PROVE Quiet
  <2>1. CASE LinkDenied(c) \/ LinkDiffers(c)
    BY <2>1, RefuseQuiet DEF LinkDenied, LinkDiffers
  <2>2. CASE Link(c)
    BY <2>2 DEF Link, Begun, Answer, Quiet, Staging, TypeOK
  <2> QED BY <1>link, <2>1, <2>2 DEF LinkStep
<1>timeout. ASSUME NEW c \in Clients, BusyTimeout(c) \/ QueryFails(c) \/ Return(c) PROVE Quiet
  BY <1>timeout DEF BusyTimeout, QueryFails, Return, Answer, Quiet, Staging, TypeOK
<1>around. ASSUME \/ \E t \in Tenants, x \in Actors : SetMember(t, x)
                  \/ \E d \in Contents : Flush(d)
                  \/ UNCHANGED vars
           PROVE  Quiet
  BY <1>around DEF SetMember, Flush, Quiet, vars
<1>gone. ASSUME PowerLoss \/ \E c \in Clients : Crash(c)
         PROVE  \E C \in SUBSET Clients : Gone(C)
  BY <1>gone DEF PowerLoss, Crash
<1> QED
  BY <1>write, <1>read, <1>grant, <1>link, <1>timeout, <1>around, <1>gone DEF Next, Serve

------------------------------------------------------------------------------
(* The history of an artifact is linear.  LinearHistory needs what a       *)
(* transaction under way has established and the write lock protects: the  *)
(* writer may write, its parent is current, a new artifact is still new.   *)

LockHeld == \A c \in Clients : pc[c] \in Staging <=> lock = c

Creating(c) == pc[c] \in Staging \cup {"begin"} /\ job[c].op = "create"

FreshIds ==
  \A c \in Clients : Creating(c) =>
    /\ owner[job[c].artifact] = None
    /\ \A k \in Clients : Creating(k) /\ job[k].artifact = job[c].artifact => k = c

Staged ==
  \A c \in Clients : pc[c] \in Staging /\ job[c].op = "write" =>
    MayDo(c, "write") /\ ParentMatches(c)

HistoryInv == TypeInv /\ LockHeld /\ FreshIds /\ Staged /\ LinearHistory

LEMMA InitHistoryInv == Init => HistoryInv
<1> SUFFICES ASSUME Init PROVE HistoryInv
  OBVIOUS
<1>1. TypeInv
  BY InitTypeInv
<1>2. LockHeld /\ FreshIds /\ Staged
  BY NoneAssumption DEF Init, LockHeld, FreshIds, Staged, Creating, Staging
<1>3. LinearHistory
  BY DEF Init, LinearHistory, ParentIsPrevious, CurrentIsLast
<1> QED BY <1>1, <1>2, <1>3 DEF HistoryInv

LEMMA NextLockHeld == HistoryInv /\ [Next]_vars => LockHeld'
<1> SUFFICES ASSUME HistoryInv, [Next]_vars PROVE LockHeld'
  OBVIOUS
<1> USE NoneAssumption DEF HistoryInv, TypeInv, TypeOK, LockHeld, Staging
<1>1. ASSUME NEW c \in Clients, Call(c) PROVE LockHeld'
  BY <1>1 DEF Call
<1>2. ASSUME NEW c \in Clients, BeginVersion(c) PROVE LockHeld'
  BY <1>2 DEF BeginVersion, Begun
<1>3. ASSUME NEW c \in Clients, StorageFails(c) PROVE LockHeld'
  BY <1>3 DEF StorageFails, Answer
<1>4. ASSUME NEW c \in Clients, Commit(c) PROVE LockHeld'
  BY <1>4 DEF Commit, CommitCreate, CommitWrite, AddVersion
<1>5. ASSUME NEW c \in Clients, Regrant(c) PROVE LockHeld'
  BY <1>5 DEF Regrant, ShareInsert, RevokeShare, Begun, Answer
<1>6. ASSUME NEW C \in SUBSET Clients, Gone(C) PROVE LockHeld'
  BY <1>6 DEF Gone
<1>7. CASE Quiet
  BY <1>7 DEF Quiet
<1> QED BY <1>1, <1>2, <1>3, <1>4, <1>5, <1>6, <1>7, StepKinds

LEMMA NextFreshIds == HistoryInv /\ [Next]_vars => FreshIds'
<1> SUFFICES ASSUME HistoryInv, [Next]_vars PROVE FreshIds'
  OBVIOUS
<1> USE DEF HistoryInv, TypeInv, TypeOK, FreshIds, Creating, Staging, rows, local
<1>1. ASSUME NEW c \in Clients, Call(c) PROVE FreshIds'
  <2>1. PICK r \in Request :
          /\ Fits(r) /\ job' = [job EXCEPT ![c] = r]
          /\ pc' = [pc EXCEPT ![c] = IF r.op = "read" THEN "row" ELSE "begin"]
          /\ pc[c] = "idle" /\ owner' = owner
    BY <1>1 DEF Call
  <2>2. r.op = "create" =>
          /\ owner[r.artifact] = None
          /\ \A k \in Clients : Creating(k) => job[k].artifact # r.artifact
    BY <2>1 DEF Fits, Pending
  <2> QED BY <2>1, <2>2
<1>2. ASSUME NEW c \in Clients, BeginVersion(c) PROVE FreshIds'
  BY <1>2 DEF BeginVersion, Begun
<1>3. ASSUME NEW c \in Clients, StorageFails(c) PROVE FreshIds'
  BY <1>3 DEF StorageFails, Answer
<1>4. ASSUME NEW c \in Clients, Commit(c) PROVE FreshIds'
  <2>1. pc' = [pc EXCEPT ![c] = "reply"] /\ job' = job
    BY <1>4 DEF Commit, CommitCreate, CommitWrite, AddVersion
  <2>2. CASE CommitCreate(c)
    <3>1. Creating(c) /\ \A a \in Artifacts \ {job[c].artifact} : owner'[a] = owner[a]
      BY <2>2 DEF CommitCreate
    <3>2. \A k \in Clients : Creating(k) => job[k].artifact \in Artifacts
      BY RequestFields DEF JobAtPc
    <3> QED BY <2>1, <3>1, <3>2
  <2>3. CASE CommitWrite(c)
    BY <2>1, <2>3 DEF CommitWrite
  <2> QED BY <1>4, <2>2, <2>3 DEF Commit
<1>5. ASSUME NEW c \in Clients, Regrant(c) PROVE FreshIds'
  <2>1. owner' = owner /\ job' = job /\ pc' = [pc EXCEPT ![c] = "done"]
    BY <1>5 DEF Regrant, ShareInsert, RevokeShare, Answer
  <2> QED BY <2>1
<1>6. ASSUME NEW C \in SUBSET Clients, Gone(C) PROVE FreshIds'
  BY <1>6 DEF Gone
<1>7. CASE Quiet
  BY <1>7 DEF Quiet
<1> QED BY <1>1, <1>2, <1>3, <1>4, <1>5, <1>6, <1>7, StepKinds

(* What a client may do depends only on the tables. *)
LEMMA MayDoKept ==
  ASSUME NEW c \in Clients, NEW act, UNCHANGED <<tenantOf, owner, shares>>, job'[c] = job[c]
  PROVE  MayDo(c, act)' <=> MayDo(c, act)
  BY DEF MayDo, Admitted, InTenant, Granted

LEMMA NextStaged == HistoryInv /\ [Next]_vars => Staged'
<1> SUFFICES ASSUME HistoryInv, [Next]_vars PROVE Staged'
  OBVIOUS
<1> USE DEF HistoryInv, TypeInv, LockHeld, Staging, rows, local
<1>keep. ASSUME UNCHANGED <<tenantOf, owner, shares, current>>,
                \A k \in Clients : pc'[k] \in Staging => pc[k] \in Staging /\ job'[k] = job[k]
         PROVE  Staged'
  BY <1>keep, MayDoKept DEF Staged, ParentMatches
<1>1. ASSUME NEW c \in Clients, Call(c) PROVE Staged'
  BY <1>1, <1>keep DEF Call, TypeOK
<1>2. ASSUME NEW c \in Clients, BeginVersion(c) PROVE Staged'
  <2>1. /\ pc' = [pc EXCEPT ![c] = "blob"] /\ job' = job
        /\ UNCHANGED <<tenantOf, owner, shares, current>>
        /\ job[c].op = "write" => MayDo(c, "write") /\ ParentMatches(c)
    BY <1>2 DEF BeginVersion, Begun
  <2> QED BY <2>1, MayDoKept DEF Staged, ParentMatches, TypeOK
<1>3. ASSUME NEW c \in Clients, StorageFails(c) PROVE Staged'
  BY <1>3, <1>keep DEF StorageFails, Answer, TypeOK
<1>4. ASSUME NEW c \in Clients, Commit(c) PROVE Staged'
  <2>1. pc[c] = "rows" /\ pc' = [pc EXCEPT ![c] = "reply"]
    BY <1>4 DEF Commit, CommitCreate, CommitWrite, AddVersion
  <2> QED BY <2>1 DEF Staged, TypeOK
<1>5. ASSUME NEW c \in Clients, Regrant(c) PROVE Staged'
  <2>1. lock = None /\ pc' = [pc EXCEPT ![c] = "done"]
    BY <1>5 DEF Regrant, ShareInsert, RevokeShare, Begun, Answer
  <2> QED BY <2>1, NoneAssumption DEF Staged, TypeOK
<1>6. ASSUME NEW C \in SUBSET Clients, Gone(C) PROVE Staged'
  BY <1>6, <1>keep DEF Gone, TypeOK
<1>7. CASE Quiet
  BY <1>7, <1>keep DEF Quiet
<1> QED BY <1>1, <1>2, <1>3, <1>4, <1>5, <1>6, <1>7, StepKinds

(* The row a commit appends: its parent is the artifact's last version. *)
LEMMA CommitRow ==
  ASSUME HistoryInv, NEW c \in Clients, Commit(c)
  PROVE  \E v \in Version :
           /\ v.artifact = job[c].artifact /\ v.artifact \in Artifacts
           /\ v.tenant = job[c].tenant /\ v.actor = job[c].actor
           /\ v.parent = current[v.artifact]
           /\ versions' = Append(versions, v)
           /\ current' = [current EXCEPT ![v.artifact] = Len(versions) + 1]
           /\ owner' \in {owner, [owner EXCEPT ![v.artifact] = job[c].actor]}
           /\ owner'[v.artifact] # None
           /\ owner[v.artifact] # None => owner' = owner /\ tenantOf' = tenantOf
           /\ v.parent # 0 => job[c].op = "write"
<1> USE DEF HistoryInv, TypeInv
<1> DEFINE v == NewVersion(c, IF job[c].op = "create" THEN 0 ELSE job[c].parent)
<1>1. job[c] \in Request /\ job[c].op \in {"create", "write"} /\ pc[c] = "rows"
  BY DEF Commit, CommitCreate, CommitWrite, JobAtPc
<1>2. /\ v \in Version /\ v.artifact = job[c].artifact /\ v.artifact \in Artifacts
      /\ v.tenant = job[c].tenant /\ v.actor = job[c].actor
      /\ v.parent = IF job[c].op = "create" THEN 0 ELSE job[c].parent
  BY <1>1, RequestFields DEF NewVersion, Version
<1>3. /\ versions' = Append(versions, v)
      /\ current' = [current EXCEPT ![v.artifact] = Len(versions) + 1]
  <2>1. /\ versions' = Append(versions, v)
        /\ current' = [current EXCEPT ![job[c].artifact] = Len(versions) + 1]
    BY DEF Commit, CommitCreate, CommitWrite, AddVersion
  <2> HIDE DEF v
  <2> QED BY <1>2, <2>1
<1>4. CASE job[c].op = "create"
  <2>1. owner[v.artifact] = None
    BY <1>1, <1>2, <1>4 DEF FreshIds, Creating, Staging
  <2>2. current[v.artifact] = 0
    BY <1>2, <2>1 DEF LinearHistory, CurrentIsLast
  <2>3. owner' = [owner EXCEPT ![v.artifact] = job[c].actor] /\ job[c].actor \in Actors
    BY <1>1, <1>2, <1>4, RequestFields DEF Commit, CommitCreate, CommitWrite
  <2>4. owner'[v.artifact] # None
    BY <1>2, <2>3, NoneAssumption DEF TypeOK
  <2> HIDE DEF v
  <2> QED BY <1>2, <1>3, <1>4, <2>1, <2>2, <2>3, <2>4
<1>5. CASE job[c].op = "write"
  <2>1. MayDo(c, "write") /\ v.parent = current[v.artifact]
    BY <1>1, <1>2, <1>5 DEF Staged, Staging, ParentMatches
  <2>2. owner' = owner /\ tenantOf' = tenantOf
    BY <1>5 DEF Commit, CommitCreate, CommitWrite
  <2>3. owner[v.artifact] # None
    BY <1>2, <2>1 DEF MayDo, Admitted, InTenant
  <2> HIDE DEF v
  <2> QED BY <1>2, <1>3, <1>5, <2>1, <2>2, <2>3
<1> QED BY <1>1, <1>4, <1>5

LEMMA NextLinearHistory == HistoryInv /\ [Next]_vars => LinearHistory'
<1> SUFFICES ASSUME HistoryInv, [Next]_vars PROVE LinearHistory'
  OBVIOUS
<1> USE DEF HistoryInv, TypeInv, rows, local
<1>1. CASE UNCHANGED <<versions, current, owner>>
  BY <1>1 DEF LinearHistory, ParentIsPrevious, CurrentIsLast
<1>2. ASSUME NEW c \in Clients, Commit(c) PROVE LinearHistory'
  <2>1. PICK v \in Version :
           /\ v.artifact \in Artifacts
           /\ v.parent = current[v.artifact]
           /\ versions' = Append(versions, v)
           /\ current' = [current EXCEPT ![v.artifact] = Len(versions) + 1]
           /\ owner' \in {owner, [owner EXCEPT ![v.artifact] = job[c].actor]}
           /\ owner'[v.artifact] # None
    BY <1>2, CommitRow
  <2>2. versions \in Seq(Version)
    BY DEF TypeOK
  <2>3. /\ Len(versions) \in Nat /\ DOMAIN versions = 1..Len(versions)
        /\ DOMAIN versions' = 1..(Len(versions) + 1)
        /\ \A i \in 1..Len(versions) : versions'[i] = versions[i]
        /\ versions'[Len(versions) + 1] = v
    BY <2>1, <2>2, AppendedRow
  <2>4. \A i \in 1..Len(versions) : versions[i].artifact \in Artifacts /\ versions[i].parent \in Nat
    <3>1. \A i \in 1..Len(versions) : versions[i] \in Version
      BY <2>2, <2>3, RowOf
    <3> QED BY <3>1 DEF Version
  <2>5. current \in [Artifacts -> Nat] /\ owner \in [Artifacts -> Actors \cup {None}]
    BY DEF TypeOK
  <2>6. \A a \in Artifacts : \A j \in 1..Len(versions) : versions[j].artifact = a => j <= current[a]
    BY <2>3 DEF LinearHistory, CurrentIsLast
  <2>7. current[v.artifact] # 0 =>
          current[v.artifact] \in 1..Len(versions) /\ versions[current[v.artifact]].artifact = v.artifact
    BY <2>1, <2>3 DEF LinearHistory, CurrentIsLast
  <2>8. ParentIsPrevious'
    <3> SUFFICES ASSUME NEW i \in 1..(Len(versions) + 1)
                 PROVE  /\ versions'[i].parent < i
                        /\ versions'[i].parent # 0 =>
                             versions'[versions'[i].parent].artifact = versions'[i].artifact
                        /\ \A j \in 1..(Len(versions) + 1) :
                             versions'[j].artifact = versions'[i].artifact /\ j < i
                               => j <= versions'[i].parent
      BY <2>3 DEF ParentIsPrevious
    <3>1. CASE i <= Len(versions)
      <4>1. /\ versions[i].parent < i
            /\ versions[i].parent # 0 => versions[versions[i].parent].artifact = versions[i].artifact
            /\ \A j \in 1..Len(versions) :
                 versions[j].artifact = versions[i].artifact /\ j < i => j <= versions[i].parent
        BY <2>3, <3>1 DEF LinearHistory, ParentIsPrevious
      <4> QED BY <2>3, <2>4, <3>1, <4>1
    <3>2. CASE i = Len(versions) + 1
      BY <2>1, <2>3, <2>5, <2>6, <2>7, <3>2
    <3> QED BY <2>3, <3>1, <3>2
  <2>9. CurrentIsLast'
    <3> SUFFICES ASSUME NEW a \in Artifacts
                 PROVE  /\ owner'[a] # None <=> current'[a] # 0
                        /\ current'[a] # 0 => current'[a] \in 1..(Len(versions) + 1)
                                              /\ versions'[current'[a]].artifact = a
                        /\ \A j \in 1..(Len(versions) + 1) :
                             versions'[j].artifact = a => j <= current'[a]
      BY <2>3 DEF CurrentIsLast
    <3>1. CASE a = v.artifact
      <4>1. current'[a] = Len(versions) + 1
        BY <2>1, <2>5, <3>1
      <4> QED BY <2>1, <2>3, <3>1, <4>1
    <3>2. CASE a # v.artifact
      <4>1. current'[a] = current[a] /\ owner'[a] = owner[a]
        BY <2>1, <2>5, <3>2
      <4>2. /\ owner[a] # None <=> current[a] # 0
            /\ current[a] # 0 => current[a] \in 1..Len(versions) /\ versions[current[a]].artifact = a
        BY <2>3 DEF LinearHistory, CurrentIsLast
      <4> QED BY <2>3, <2>5, <2>6, <3>2, <4>1, <4>2
    <3> QED BY <3>1, <3>2
  <2> QED BY <2>8, <2>9 DEF LinearHistory
<1>3. \/ UNCHANGED <<versions, current, owner>>
      \/ \E c \in Clients : Commit(c)
  BY StepKinds DEF Call, BeginVersion, StorageFails, Regrant, ShareInsert, RevokeShare,
     Gone, Quiet
<1> QED BY <1>1, <1>2, <1>3

LEMMA HistoryInvariant == Spec => []HistoryInv
<1>1. HistoryInv /\ [Next]_vars => HistoryInv'
  BY NextTypeInv, NextLockHeld, NextFreshIds, NextStaged, NextLinearHistory DEF HistoryInv
<1> QED BY InitHistoryInv, <1>1, PTL DEF Spec

(* The versions of every artifact form one chain that ends in its current  *)
(* version, whatever its writers, crashes and failures do (_insert_version *)
(* under BEGIN IMMEDIATE).                                                 *)
THEOREM HistoryIsLinear == Spec => []LinearHistory
<1>1. HistoryInv => LinearHistory
  BY DEF HistoryInv
<1> QED BY HistoryInvariant, <1>1, PTL

(* A version is committed only while its writer may write: nobody else's   *)
(* transaction can revoke the grant between the check and the commit.      *)
THEOREM WritersAreAdmitted == Spec => WriterAdmittedAtCommit
<1> DEFINE A == \A i \in DOMAIN versions' \ DOMAIN versions :
                  versions'[i].parent # 0 =>
                    Admitted(versions'[i].tenant, versions'[i].artifact, versions'[i].actor, "write")
<1>1. HistoryInv /\ [Next]_vars => A
  <2> SUFFICES ASSUME HistoryInv, [Next]_vars PROVE A
    OBVIOUS
  <2>1. ASSUME NEW c \in Clients, Commit(c) PROVE A
    <3>1. PICK v \in Version :
             /\ v.artifact = job[c].artifact /\ v.tenant = job[c].tenant
             /\ v.actor = job[c].actor /\ versions' = Append(versions, v)
             /\ v.parent # 0 => job[c].op = "write"
      BY <2>1, CommitRow
    <3>2. versions \in Seq(Version)
      BY DEF HistoryInv, TypeInv, TypeOK
    <3>3. /\ DOMAIN versions = 1..Len(versions) /\ Len(versions) \in Nat
          /\ DOMAIN versions' = 1..(Len(versions) + 1)
          /\ versions'[Len(versions) + 1] = v
      BY <3>1, <3>2, AppendedRow
    <3>4. v.parent # 0 => MayDo(c, "write")
      <4>1. pc[c] = "rows"
        BY <2>1 DEF Commit, CommitCreate, CommitWrite
      <4> QED BY <3>1, <4>1 DEF HistoryInv, Staged, Staging
    <3>5. v.parent # 0 => Admitted(v.tenant, v.artifact, v.actor, "write")
      BY <3>1, <3>4 DEF MayDo
    <3> QED BY <3>3, <3>5
  <2>2. CASE UNCHANGED versions
    BY <2>2
  <2>3. UNCHANGED versions \/ \E c \in Clients : Commit(c)
    BY StepKinds DEF HistoryInv, Call, BeginVersion, StorageFails, Regrant, ShareInsert,
       RevokeShare, Gone, Quiet, rows
  <2> QED BY <2>1, <2>2, <2>3
<1>2. HistoryInv /\ [Next]_vars => [A]_vars
  BY <1>1
<1> QED BY HistoryInvariant, <1>2, PTL DEF Spec, WriterAdmittedAtCommit

------------------------------------------------------------------------------
(* Tenants and grants.                                                     *)

GrantInv == RowsInTenant /\ ShareProvenance /\ OneActiveGrant

LEMMA InitGrantInv == Init => GrantInv
<1> SUFFICES ASSUME Init PROVE GrantInv
  OBVIOUS
<1>1. shares = <<>> /\ versions = <<>> /\ edges = {} /\ ownerGrants = {}
      /\ \A a \in Artifacts : owner[a] = None
  BY DEF Init
<1>2. {a \in Artifacts : owner[a] # None} \X ACL_ACTIONS = {}
  BY <1>1
<1> QED BY <1>1, <1>2 DEF GrantInv, RowsInTenant, ShareProvenance, OneActiveGrant

(* An artifact that exists keeps its owner and tenant. *)
LEMMA ArtifactKept ==
  ASSUME HistoryInv, [Next]_vars, NEW a \in Artifacts, owner[a] # None
  PROVE  owner'[a] = owner[a] /\ tenantOf'[a] = tenantOf[a]
<1> USE DEF HistoryInv, TypeInv, TypeOK, rows
<1>1. ASSUME NEW c \in Clients, CommitCreate(c) PROVE a # job[c].artifact
  BY <1>1 DEF CommitCreate, FreshIds, Creating, Staging
<1>2. ASSUME NEW c \in Clients, CommitCreate(c)
      PROVE  owner'[a] = owner[a] /\ tenantOf'[a] = tenantOf[a]
  BY <1>1, <1>2 DEF CommitCreate
<1>3. UNCHANGED <<owner, tenantOf>> \/ \E c \in Clients : CommitCreate(c)
  BY StepKinds DEF Call, BeginVersion, StorageFails, Commit, CommitWrite, Regrant,
     ShareInsert, RevokeShare, Gone, Quiet
<1> QED BY <1>2, <1>3

LEMMA EdgesStep ==
  ASSUME [Next]_vars PROVE UNCHANGED edges \/ \E c \in Clients : Link(c)
<1> USE DEF rows
<1>1. ASSUME NEW c \in Clients, WriteStep(c) \/ ReadStep(c) PROVE edges' = edges
  BY <1>1 DEF WriteStep, ReadStep, WriteDenied, WriteStale, Refuse, BeginVersion, StoreBlob,
     StorageFails, CommitCreate, CommitWrite, AddVersion, ReplyVersion, ReadRow, ReadAdmit,
     ReadMetadata, ReadBytes, ReadChunks
<1>2. ASSUME NEW c \in Clients, GrantStep(c) PROVE edges' = edges
  BY <1>2 DEF GrantStep, ShareDenied, ShareNotMember, ShareExisting, ShareInsert,
     RevokeDenied, RevokeUnknown, RevokeOwner, RevokeShare, Refuse
<1>3. ASSUME NEW c \in Clients, LinkStep(c) PROVE edges' = edges \/ Link(c)
  BY <1>3 DEF LinkStep, LinkDenied, LinkDiffers, Refuse
<1>4. ASSUME NEW c \in Clients, Call(c) \/ BusyTimeout(c) \/ QueryFails(c) \/ Return(c) \/ Crash(c)
      PROVE  edges' = edges
  BY <1>4 DEF Call, BusyTimeout, QueryFails, Return, Crash, Gone
<1>5. ASSUME \/ \E t \in Tenants, x \in Actors : SetMember(t, x)
             \/ \E d \in Contents : Flush(d)
             \/ PowerLoss \/ UNCHANGED vars
      PROVE  edges' = edges
  BY <1>5 DEF SetMember, Flush, PowerLoss, Gone, vars
<1> QED BY <1>1, <1>2, <1>3, <1>4, <1>5 DEF Next, Serve

LEMMA SharesStep ==
  ASSUME HistoryInv, [Next]_vars
  PROVE  \/ UNCHANGED <<shares, owner, ownerGrants>>
         \/ \E c \in Clients : Commit(c) /\ shares' = shares
         \/ \E c \in Clients : Regrant(c)
  BY StepKinds DEF HistoryInv, Call, BeginVersion, StorageFails, Commit, CommitCreate,
     CommitWrite, AddVersion, Gone, Quiet, rows

(* A new share row, and what revoking one leaves as it was. *)
LEMMA InsertedShare ==
  ASSUME HistoryInv, NEW c \in Clients, ShareInsert(c)
  PROVE  \E s \in Share :
           /\ shares' = Append(shares, s) /\ s.artifact \in Artifacts
           /\ s.tenant = job[c].tenant /\ s.artifact = job[c].artifact
           /\ s.subject = job[c].subject /\ s.action = job[c].action
           /\ s.creator = job[c].actor /\ s.status = "active"
           /\ UNCHANGED <<tenantOf, owner, versions, edges, ownerGrants>>
<1>1. job[c] \in Request /\ job[c].op = "share"
  BY DEF ShareInsert, Begun, HistoryInv, TypeInv, JobAtPc
<1>2. NewShare(c) \in Share
  BY <1>1, RequestFields DEF NewShare, Share
<1> QED BY <1>1, <1>2, RequestFields DEF ShareInsert, NewShare

LEMMA RevokedShare ==
  ASSUME HistoryInv, NEW c \in Clients, RevokeShare(c)
  PROVE  /\ DOMAIN shares' = DOMAIN shares
         /\ \A i \in DOMAIN shares :
              shares'[i] \in {shares[i], [shares[i] EXCEPT !.status = "revoked"]}
         /\ UNCHANGED <<tenantOf, owner, versions, edges, ownerGrants>>
<1>1. shares' = [shares EXCEPT ![job[c].grant].status = "revoked"]
  BY DEF RevokeShare
<1>2. shares \in Seq(Share)
  BY DEF HistoryInv, TypeInv, TypeOK
<1>3. shares' = [i \in 1..Len(shares) |->
                   IF i = job[c].grant THEN [shares[i] EXCEPT !.status = "revoked"] ELSE shares[i]]
  BY <1>1, <1>2, RevokedRow
<1>4. DOMAIN shares = 1..Len(shares)
  BY <1>2
<1> QED BY <1>3, <1>4 DEF RevokeShare

(* Revoking changes no other column of a share. *)
LEMMA RevokedColumns ==
  ASSUME NEW s \in Share, NEW r \in {s, [s EXCEPT !.status = "revoked"]}
  PROVE  /\ r.tenant = s.tenant /\ r.artifact = s.artifact /\ r.subject = s.subject
         /\ r.action = s.action /\ r.creator = s.creator
         /\ r.status = "active" => s.status = "active"
  BY DEF Share

LEMMA NextRowsInTenant == HistoryInv /\ GrantInv /\ [Next]_vars => RowsInTenant'
<1> SUFFICES ASSUME HistoryInv, GrantInv, [Next]_vars PROVE RowsInTenant'
  OBVIOUS
<1> USE DEF InTenant
<1>t. versions \in Seq(Version) /\ shares \in Seq(Share) /\ edges \subseteq Edge
  BY DEF HistoryInv, TypeInv, TypeOK
<1>k. ASSUME NEW t, NEW a \in Artifacts, InTenant(t, a)
      PROVE  owner'[a] # None /\ tenantOf'[a] = t
  BY <1>k, ArtifactKept
<1>1. ASSUME NEW i \in DOMAIN versions'
      PROVE  owner'[versions'[i].artifact] # None
             /\ tenantOf'[versions'[i].artifact] = versions'[i].tenant
  <2>1. ASSUME NEW n \in DOMAIN versions
        PROVE  owner'[versions[n].artifact] # None
               /\ tenantOf'[versions[n].artifact] = versions[n].tenant
    <3>0. versions[n] \in Version
      BY <1>t, RowOf
    <3>1. versions[n].artifact \in Artifacts
      BY <3>0 DEF Version
    <3>2. InTenant(versions[n].tenant, versions[n].artifact)
      BY DEF GrantInv, RowsInTenant
    <3> QED BY <3>1, <3>2, <1>k
  <2>2. CASE UNCHANGED versions
    BY <2>1, <2>2, <1>1
  <2>3. ASSUME NEW c \in Clients, Commit(c)
        PROVE  owner'[versions'[i].artifact] # None
               /\ tenantOf'[versions'[i].artifact] = versions'[i].tenant
    <3>1. PICK v \in Version :
             /\ v.artifact = job[c].artifact /\ v.artifact \in Artifacts
             /\ v.tenant = job[c].tenant /\ versions' = Append(versions, v)
             /\ owner'[v.artifact] # None
             /\ v.artifact = job[c].artifact
      BY <2>3, CommitRow
    <3>2. tenantOf'[v.artifact] = v.tenant
      <4>1. CASE CommitCreate(c)
        BY <3>1, <4>1 DEF CommitCreate, HistoryInv, TypeInv, TypeOK
      <4>2. CASE CommitWrite(c)
        <5>1. MayDo(c, "write") /\ tenantOf' = tenantOf
          BY <4>2 DEF CommitWrite, HistoryInv, Staged, Staging
        <5> QED BY <3>1, <5>1 DEF MayDo, Admitted
      <4> QED BY <2>3, <4>1, <4>2 DEF Commit
    <3>3. /\ DOMAIN versions = 1..Len(versions) /\ Len(versions) \in Nat
          /\ DOMAIN versions' = 1..(Len(versions) + 1)
          /\ \A n \in 1..Len(versions) : versions'[n] = versions[n]
          /\ versions'[Len(versions) + 1] = v
      BY <1>t, <3>1, AppendedRow
    <3>4. CASE i \in 1..Len(versions)
      BY <2>1, <3>3, <3>4
    <3>5. CASE i = Len(versions) + 1
      BY <3>1, <3>2, <3>3, <3>5
    <3> QED BY <1>1, <3>3, <3>4, <3>5
  <2>4. UNCHANGED versions \/ \E c \in Clients : Commit(c)
    BY StepKinds DEF HistoryInv, Call, BeginVersion, StorageFails, Regrant, ShareInsert,
       RevokeShare, Gone, Quiet, rows
  <2> QED BY <2>2, <2>3, <2>4
<1>2. ASSUME NEW i \in DOMAIN shares'
      PROVE  owner'[shares'[i].artifact] # None
             /\ tenantOf'[shares'[i].artifact] = shares'[i].tenant
  <2>1. ASSUME NEW n \in DOMAIN shares
        PROVE  owner'[shares[n].artifact] # None
               /\ tenantOf'[shares[n].artifact] = shares[n].tenant
    <3>0. shares[n] \in Share
      BY <1>t, RowOf
    <3>1. shares[n].artifact \in Artifacts
      BY <3>0 DEF Share
    <3>2. InTenant(shares[n].tenant, shares[n].artifact)
      BY DEF GrantInv, RowsInTenant
    <3> QED BY <3>1, <3>2, <1>k
  <2>2. CASE UNCHANGED shares
    BY <2>1, <2>2, <1>2
  <2>3. ASSUME NEW c \in Clients, ShareInsert(c)
        PROVE  owner'[shares'[i].artifact] # None
               /\ tenantOf'[shares'[i].artifact] = shares'[i].tenant
    <3>1. PICK s \in Share :
             /\ shares' = Append(shares, s) /\ s.artifact \in Artifacts
             /\ s.tenant = job[c].tenant /\ s.artifact = job[c].artifact
             /\ UNCHANGED <<tenantOf, owner>>
      BY <2>3, InsertedShare
    <3>2. InTenant(job[c].tenant, job[c].artifact)
      BY <2>3 DEF ShareInsert, MayDo, Admitted
    <3>3. /\ DOMAIN shares = 1..Len(shares) /\ Len(shares) \in Nat
          /\ DOMAIN shares' = 1..(Len(shares) + 1)
          /\ \A n \in 1..Len(shares) : shares'[n] = shares[n]
          /\ shares'[Len(shares) + 1] = s
      BY <1>t, <3>1, AppendedRow
    <3>4. CASE i \in 1..Len(shares)
      BY <2>1, <3>3, <3>4
    <3>5. CASE i = Len(shares) + 1
      BY <3>1, <3>2, <3>3, <3>5
    <3> QED BY <1>2, <3>3, <3>4, <3>5
  <2>4. ASSUME NEW c \in Clients, RevokeShare(c)
        PROVE  owner'[shares'[i].artifact] # None
               /\ tenantOf'[shares'[i].artifact] = shares'[i].tenant
    <3>1. i \in DOMAIN shares /\ shares'[i] \in {shares[i], [shares[i] EXCEPT !.status = "revoked"]}
      BY <1>2, <2>4, RevokedShare
    <3>2. shares'[i].artifact = shares[i].artifact /\ shares'[i].tenant = shares[i].tenant
      BY <1>t, <3>1, RowOf, RevokedColumns
    <3> QED BY <2>1, <3>1, <3>2
  <2> QED BY <2>2, <2>3, <2>4, SharesStep DEF Regrant
<1>3. ASSUME NEW e \in edges'
      PROVE  /\ owner'[e.source] # None /\ tenantOf'[e.source] = e.tenant
             /\ owner'[e.target] # None /\ tenantOf'[e.target] = e.tenant
  <2>1. CASE e \in edges
    <3>1. e.source \in Artifacts /\ e.target \in Artifacts
      BY <1>t, <2>1 DEF Edge
    <3> QED BY <2>1, <3>1, <1>k DEF GrantInv, RowsInTenant
  <2>2. ASSUME NEW c \in Clients, Link(c), e \notin edges
        PROVE  /\ owner'[e.source] # None /\ tenantOf'[e.source] = e.tenant
               /\ owner'[e.target] # None /\ tenantOf'[e.target] = e.tenant
    <3>1. /\ e.tenant = job[c].tenant /\ e.source = job[c].artifact /\ e.target = job[c].target
          /\ UNCHANGED <<owner, tenantOf>>
      BY <1>3, <2>2 DEF Link, NewEdge
    <3> QED BY <2>2, <3>1 DEF Link, MayLink, MayDo, Admitted
  <2> QED BY <1>3, <2>1, <2>2, EdgesStep
<1> QED BY <1>1, <1>2, <1>3 DEF RowsInTenant

(* What the table of shares looks like after each kind of step. *)
LEMMA SharesAfter ==
  ASSUME HistoryInv, GrantInv, [Next]_vars
  PROVE  /\ \A i \in DOMAIN shares :
              /\ i \in DOMAIN shares' /\ i \in Nat
              /\ shares'[i].artifact = shares[i].artifact
              /\ shares'[i].subject = shares[i].subject
              /\ shares'[i].action = shares[i].action
              /\ shares'[i].creator = shares[i].creator
              /\ shares'[i].status = "active" => shares[i].status = "active"
              /\ owner'[shares[i].artifact] = owner[shares[i].artifact]
         /\ DOMAIN shares' # DOMAIN shares =>
              \E c \in Clients :
                /\ ShareInsert(c) /\ UNCHANGED <<owner, ownerGrants>>
                /\ DOMAIN shares' = DOMAIN shares \cup {Len(shares) + 1}
                /\ \A i \in DOMAIN shares : i < Len(shares) + 1
                /\ shares'[Len(shares) + 1].artifact = job[c].artifact
                /\ shares'[Len(shares) + 1].subject = job[c].subject
                /\ shares'[Len(shares) + 1].action = job[c].action
                /\ shares'[Len(shares) + 1].creator = job[c].actor
                /\ job[c].artifact \in Artifacts /\ job[c].action \in ACL_ACTIONS
<1>t. shares \in Seq(Share)
  BY DEF HistoryInv, TypeInv, TypeOK
<1>d. DOMAIN shares = 1..Len(shares) /\ Len(shares) \in Nat
  BY <1>t
<1>o. ASSUME NEW i \in DOMAIN shares
      PROVE  shares[i] \in Share /\ owner'[shares[i].artifact] = owner[shares[i].artifact]
  <2>1. shares[i] \in Share
    BY <1>t, RowOf
  <2>2. shares[i].artifact \in Artifacts
    BY <2>1 DEF Share
  <2>3. owner[shares[i].artifact] # None
    BY DEF GrantInv, RowsInTenant, InTenant
  <2> QED BY <2>1, <2>2, <2>3, ArtifactKept
<1>1. CASE UNCHANGED shares
  BY <1>d, <1>o, <1>1
<1>2. ASSUME NEW c \in Clients, RevokeShare(c)
      PROVE  /\ DOMAIN shares' = DOMAIN shares
             /\ \A i \in DOMAIN shares :
                  /\ shares'[i].artifact = shares[i].artifact
                  /\ shares'[i].subject = shares[i].subject
                  /\ shares'[i].action = shares[i].action
                  /\ shares'[i].creator = shares[i].creator
                  /\ shares'[i].status = "active" => shares[i].status = "active"
  BY <1>o, <1>2, RevokedShare, RevokedColumns
<1>3. ASSUME NEW c \in Clients, ShareInsert(c)
      PROVE  /\ \A i \in DOMAIN shares : i \in DOMAIN shares' /\ shares'[i] = shares[i]
             /\ UNCHANGED <<owner, ownerGrants>>
             /\ DOMAIN shares' = DOMAIN shares \cup {Len(shares) + 1}
             /\ \A i \in DOMAIN shares : i < Len(shares) + 1
             /\ shares'[Len(shares) + 1].artifact = job[c].artifact
             /\ shares'[Len(shares) + 1].subject = job[c].subject
             /\ shares'[Len(shares) + 1].action = job[c].action
             /\ shares'[Len(shares) + 1].creator = job[c].actor
             /\ job[c].artifact \in Artifacts /\ job[c].action \in ACL_ACTIONS
  <2>1. PICK s \in Share :
           /\ shares' = Append(shares, s) /\ s.artifact \in Artifacts
           /\ s.artifact = job[c].artifact /\ s.subject = job[c].subject
           /\ s.action = job[c].action /\ s.creator = job[c].actor
           /\ UNCHANGED <<owner, ownerGrants>>
    BY <1>3, InsertedShare
  <2>2. s.action \in ACL_ACTIONS
    BY DEF Share
  <2>3. /\ DOMAIN shares' = 1..(Len(shares) + 1)
        /\ \A i \in 1..Len(shares) : shares'[i] = shares[i]
        /\ shares'[Len(shares) + 1] = s
    BY <1>t, <2>1, AppendedRow
  <2> QED BY <1>d, <2>1, <2>2, <2>3
<1>4. CASE \E c \in Clients : RevokeShare(c)
  BY <1>2, <1>4, <1>o, <1>d
<1>5. CASE \E c \in Clients : ShareInsert(c)
  <2>1. PICK c \in Clients : ShareInsert(c)
    BY <1>5
  <2>2. /\ \A i \in DOMAIN shares : i \in DOMAIN shares' /\ shares'[i] = shares[i]
        /\ UNCHANGED <<owner, ownerGrants>>
        /\ DOMAIN shares' = DOMAIN shares \cup {Len(shares) + 1}
        /\ \A i \in DOMAIN shares : i < Len(shares) + 1
        /\ shares'[Len(shares) + 1].artifact = job[c].artifact
        /\ shares'[Len(shares) + 1].subject = job[c].subject
        /\ shares'[Len(shares) + 1].action = job[c].action
        /\ shares'[Len(shares) + 1].creator = job[c].actor
        /\ job[c].artifact \in Artifacts /\ job[c].action \in ACL_ACTIONS
    BY <1>3, <2>1
  <2>3. \A i \in DOMAIN shares :
          /\ i \in DOMAIN shares' /\ i \in Nat
          /\ shares'[i] = shares[i]
          /\ owner'[shares[i].artifact] = owner[shares[i].artifact]
    BY <1>d, <1>o, <2>2
  <2> QED BY <2>1, <2>2, <2>3
<1>6. \/ UNCHANGED shares
      \/ \E c \in Clients : RevokeShare(c)
      \/ \E c \in Clients : ShareInsert(c)
  BY SharesStep DEF Regrant
<1> QED BY <1>1, <1>4, <1>5, <1>6

LEMMA NextShareProvenance == HistoryInv /\ GrantInv /\ [Next]_vars => ShareProvenance'
<1> SUFFICES ASSUME HistoryInv, GrantInv, [Next]_vars, Enforced, NEW i \in DOMAIN shares'
             PROVE  \/ shares'[i].creator = owner'[shares'[i].artifact]
                    \/ \E j \in DOMAIN shares' :
                         /\ j < i /\ shares'[j].action = "share"
                         /\ shares'[j].artifact = shares'[i].artifact
                         /\ shares'[j].subject = shares'[i].creator
  BY DEF ShareProvenance
<1>1. CASE i \in DOMAIN shares
  <2>1. \/ shares[i].creator = owner[shares[i].artifact]
        \/ \E j \in DOMAIN shares :
             /\ j < i /\ shares[j].action = "share"
             /\ shares[j].artifact = shares[i].artifact
             /\ shares[j].subject = shares[i].creator
    BY <1>1 DEF GrantInv, ShareProvenance
  <2> QED BY <1>1, <2>1, SharesAfter
<1>2. CASE i \notin DOMAIN shares
  <2>1. PICK c \in Clients :
           /\ ShareInsert(c) /\ owner' = owner
           /\ DOMAIN shares' = DOMAIN shares \cup {Len(shares) + 1}
           /\ \A n \in DOMAIN shares : n < Len(shares) + 1
           /\ shares'[Len(shares) + 1].artifact = job[c].artifact
           /\ shares'[Len(shares) + 1].creator = job[c].actor
    BY <1>2, SharesAfter
  <2>2. i = Len(shares) + 1
    BY <1>2, <2>1
  <2>3. owner[job[c].artifact] = job[c].actor
        \/ Granted(job[c].tenant, job[c].artifact, job[c].actor, "share")
    BY <2>1 DEF ShareInsert, MayDo, Admitted
  <2>4. CASE owner[job[c].artifact] = job[c].actor
    BY <2>1, <2>2, <2>4
  <2>5. CASE Granted(job[c].tenant, job[c].artifact, job[c].actor, "share")
    <3>1. PICK j \in DOMAIN shares :
             /\ shares[j].artifact = job[c].artifact
             /\ shares[j].subject = job[c].actor /\ shares[j].action = "share"
      BY <2>5 DEF Granted
    <3>2. /\ j \in DOMAIN shares' /\ shares'[j].artifact = shares[j].artifact
          /\ shares'[j].subject = shares[j].subject /\ shares'[j].action = shares[j].action
      BY <3>1, SharesAfter
    <3> QED BY <2>1, <2>2, <3>1, <3>2
  <2> QED BY <2>3, <2>4, <2>5
<1> QED BY <1>1, <1>2

LEMMA NextOneActiveGrant == HistoryInv /\ GrantInv /\ [Next]_vars => OneActiveGrant'
<1> SUFFICES ASSUME HistoryInv, GrantInv, [Next]_vars PROVE OneActiveGrant'
  OBVIOUS
<1>1. ownerGrants' = {a \in Artifacts : owner'[a] # None} \X ACL_ACTIONS
  <2>1. CASE UNCHANGED <<owner, ownerGrants>>
    BY <2>1 DEF GrantInv, OneActiveGrant
  <2>2. ASSUME NEW c \in Clients, CommitCreate(c)
        PROVE  ownerGrants' = {a \in Artifacts : owner'[a] # None} \X ACL_ACTIONS
    <3>1. /\ owner' = [owner EXCEPT ![job[c].artifact] = job[c].actor]
          /\ ownerGrants' = ownerGrants \cup ({job[c].artifact} \X ACL_ACTIONS)
      BY <2>2 DEF CommitCreate
    <3>2. job[c].actor \in Actors /\ job[c].artifact \in Artifacts
      BY <2>2, RequestFields DEF CommitCreate, HistoryInv, TypeInv, JobAtPc
    <3>3. {a \in Artifacts : owner'[a] # None}
            = {a \in Artifacts : owner[a] # None} \cup {job[c].artifact}
      BY <3>1, <3>2, NoneAssumption DEF HistoryInv, TypeInv, TypeOK
    <3>4. ownerGrants = {a \in Artifacts : owner[a] # None} \X ACL_ACTIONS
      BY DEF GrantInv, OneActiveGrant
    <3> QED BY <3>1, <3>3, <3>4
  <2>3. UNCHANGED <<owner, ownerGrants>> \/ \E c \in Clients : CommitCreate(c)
    BY SharesStep DEF Regrant, ShareInsert, RevokeShare, Commit, CommitWrite
  <2> QED BY <2>1, <2>2, <2>3
<1>2. ASSUME NEW c \in Clients, ShareInsert(c), job[c].artifact \in Artifacts,
             job[c].action \in ACL_ACTIONS
      PROVE  /\ owner[job[c].artifact] # job[c].subject
             /\ \A i \in DOMAIN shares :
                  ~(/\ shares[i].status = "active"
                    /\ shares[i].artifact = job[c].artifact
                    /\ shares[i].subject = job[c].subject /\ shares[i].action = job[c].action)
  <2>1. InTenant(job[c].tenant, job[c].artifact) /\ ~Existing(c)
    BY <1>2 DEF ShareInsert, MayDo, Admitted
  <2>2. <<job[c].artifact, job[c].action>> \in ownerGrants
    BY <1>2, <2>1 DEF GrantInv, OneActiveGrant, InTenant
  <2>3. \A i \in DOMAIN shares : shares[i].tenant = tenantOf[shares[i].artifact]
    BY DEF GrantInv, RowsInTenant, InTenant
  <2> QED BY <2>1, <2>2, <2>3 DEF Existing, Granted, InTenant
<1>3. \A i \in DOMAIN shares' : shares'[i].subject # owner'[shares'[i].artifact]
  BY <1>2, SharesAfter DEF GrantInv, OneActiveGrant
<1>4. ASSUME NEW i \in DOMAIN shares', NEW j \in DOMAIN shares',
             shares'[i].status = "active", shares'[j].status = "active",
             shares'[i].artifact = shares'[j].artifact,
             shares'[i].subject = shares'[j].subject, shares'[i].action = shares'[j].action
      PROVE  i = j
  <2>1. CASE i \in DOMAIN shares /\ j \in DOMAIN shares
    BY <1>4, <2>1, SharesAfter DEF GrantInv, OneActiveGrant
  <2>2. CASE DOMAIN shares' # DOMAIN shares
    <3>1. PICK c \in Clients :
             /\ ShareInsert(c)
             /\ DOMAIN shares' = DOMAIN shares \cup {Len(shares) + 1}
             /\ shares'[Len(shares) + 1].artifact = job[c].artifact
             /\ shares'[Len(shares) + 1].subject = job[c].subject
             /\ shares'[Len(shares) + 1].action = job[c].action
             /\ job[c].artifact \in Artifacts /\ job[c].action \in ACL_ACTIONS
      BY <2>2, SharesAfter
    <3>2. \A n \in DOMAIN shares :
            /\ shares'[n].artifact = shares[n].artifact
            /\ shares'[n].subject = shares[n].subject
            /\ shares'[n].action = shares[n].action
            /\ shares'[n].status = "active" => shares[n].status = "active"
      BY SharesAfter
    <3> QED BY <1>2, <1>4, <2>1, <3>1, <3>2
  <2> QED BY <1>4, <2>1, <2>2
<1> QED BY <1>1, <1>3, <1>4 DEF OneActiveGrant

LEMMA GrantInvariant == Spec => []GrantInv
<1>1. HistoryInv /\ GrantInv /\ [Next]_vars => GrantInv'
  BY NextRowsInTenant, NextShareProvenance, NextOneActiveGrant DEF GrantInv
<1> QED BY HistoryInvariant, InitGrantInv, <1>1, PTL DEF Spec

(* Every version, grant and edge belongs to the tenant of its artifacts:   *)
(* no request of one tenant ever leaves a row that names another's.        *)
THEOREM TenantsStayApart == Spec => []RowsInTenant
<1>1. GrantInv => RowsInTenant
  BY DEF GrantInv
<1> QED BY GrantInvariant, <1>1, PTL

(* Whoever shared an artifact is its owner or had been given the right.    *)
THEOREM SharesTraceToOwner == Spec => []ShareProvenance
<1>1. GrantInv => ShareProvenance
  BY DEF GrantInv
<1> QED BY GrantInvariant, <1>1, PTL

(* The owner's grants stand, and one revocation ends what one share gave.  *)
THEOREM GrantsAreUnique == Spec => []OneActiveGrant
<1>1. GrantInv => OneActiveGrant
  BY DEF GrantInv
<1> QED BY GrantInvariant, <1>1, PTL
==============================================================================
