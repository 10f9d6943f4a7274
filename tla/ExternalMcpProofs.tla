--------------------------- MODULE ExternalMcpProofs ---------------------------
(***************************************************************************)
(* What is proved of ExternalMcp for every value of its constants: that a  *)
(* revocation is final, that only approved uses reach an upstream, that    *)
(* the registry implements ConnectionGate, that its audit rows are true,   *)
(* and that its limiter's slots are those of the calls under way.          *)
(***************************************************************************)
EXTENDS ExternalMcp, FiniteSetTheorems, TLAPS

------------------------------------------------------------------------------
(* Types, and which call a client can have at each place in the code.      *)

OnConnection == {"look", "deny", "prepare", "fence", "upstream", "record", "hcheck", "hwrite"}

JobAtPc ==
  \A c \in Clients :
    /\ pc[c] # "idle" => job[c] \in Job
    /\ pc[c] = "validate" => Op(c) = "register"
    /\ pc[c] \in OnConnection => Op(c) \notin {"register", "revoke"}
    /\ pc[c] \in {"hcheck", "hwrite"} => Op(c) = "health"

TypeInv ==
  /\ conns \in [Conns -> Connection]
  /\ lock \in Clients \cup {None}
  /\ pc \in [Clients -> PCs]
  /\ job \in [Clients -> Job \cup {NoJob}]
  /\ sent \subseteq Job
  /\ calls \in Nat
  /\ JobAtPc

(* The fields of each kind of call. *)
LEMMA RequestFields ==
  ASSUME NEW r \in Request
  PROVE  /\ r.op \in {"register", "revoke", "status", "health"} \cup Uses
         /\ r.tenant \in Tenants
         /\ r.op = "register" => r.target \in Names /\ r.items \subseteq Approvals
         /\ r.op # "register" => r.target \in Conns
         /\ r.op = "health" => r.items = {}
  BY DEF Request, Uses

LEMMA InitTypeInv == Init => TypeInv
  BY DEF Init, TypeInv, JobAtPc, NoConnection, Connection, PCs, OnConnection

(* The parts of a step that more than one action takes. *)
LEMMA HomeTypeInv ==
  ASSUME TypeInv, NEW c \in Clients, Home(c), UNCHANGED <<conns, lock, calls, sent>>
  PROVE  TypeInv'
  BY DEF TypeInv, JobAtPc, Home, PCs, OnConnection, Op

LEMMA EndTypeInv ==
  ASSUME TypeInv, NEW c \in Clients, NEW what, End(c, what), UNCHANGED <<lock, calls, job, sent>>,
         pc[c] # "idle", conns' \in [Conns -> Connection]
  PROVE  TypeInv'
  BY DEF TypeInv, JobAtPc, End, PCs, OnConnection, Op

LEMMA RecordTypeInv ==
  ASSUME TypeInv, NEW c \in Clients, NEW what, ToRecord(c, what),
         UNCHANGED <<conns, calls, job, sent>>, lock' \in Clients \cup {None},
         pc[c] \in OnConnection
  PROVE  TypeInv'
  BY DEF TypeInv, JobAtPc, ToRecord, PCs, OnConnection, Op

LEMMA MoveTypeInv ==
  ASSUME TypeInv, NEW c \in Clients, UNCHANGED <<conns, calls, job>>,
         lock' \in Clients \cup {None}, sent' \subseteq sent \cup {job[c]},
         NEW from \in PCs, pc[c] = from, from # "idle",
         NEW to \in PCs, pc' = [pc EXCEPT ![c] = to],
         to = "validate" => Op(c) = "register",
         to \in OnConnection => Op(c) \notin {"register", "revoke"},
         to \in {"hcheck", "hwrite"} => Op(c) = "health"
  PROVE  TypeInv'
  BY DEF TypeInv, JobAtPc, PCs, Op

(* A row keeps the type of the table when columns of it are written. *)
LEMMA RowTypes ==
  ASSUME conns \in [Conns -> Connection], NEW k
  PROVE  /\ [conns EXCEPT ![k].status = "revoked"] \in [Conns -> Connection]
         /\ \A h \in {"healthy", "unhealthy"} :
              [conns EXCEPT ![k].health = h] \in [Conns -> Connection]
         /\ \A r \in Connection : [conns EXCEPT ![k] = r] \in [Conns -> Connection]
  BY DEF Connection

LEMMA NextTypeInv == TypeInv /\ [Next]_vars => TypeInv'
<1> SUFFICES ASSUME TypeInv, [Next]_vars PROVE TypeInv'
  OBVIOUS
<1>1. CASE UNCHANGED vars
  BY <1>1 DEF TypeInv, JobAtPc, vars, local, Op
<1>2. CASE Crash
  BY <1>2 DEF TypeInv, JobAtPc, Crash, PCs, OnConnection
<1>3. ASSUME NEW c \in Clients, Call(c) PROVE TypeInv'
  <2>1. PICK r \in Request : job' = [job EXCEPT ![c] = [call |-> calls + 1, req |-> r]]
    BY <1>3 DEF Call
  <2> QED BY <1>3, <2>1 DEF Call, TypeInv, JobAtPc, PCs, OnConnection, Op, Job
<1>4. ASSUME NEW c \in Clients, Serve(c) PROVE TypeInv'
  <2> USE DEF TypeInv, local
  <2>1. CASE Refused(c) \/ Release(c)
    BY <2>1, HomeTypeInv DEF Refused, Release
  <2>2. CASE Admit(c)
    BY <2>2, MoveTypeInv DEF Admit, PCs, OnConnection
  <2>3. CASE RegistryStep(c)
    <3>1. CASE Validate(c)
      <4>1. CASE End(c, "error")
        BY <3>1, <4>1, EndTypeInv DEF Validate
      <4>2. CASE pc' = [pc EXCEPT ![c] = "begin"]
        BY <3>1, <4>2, MoveTypeInv DEF Validate, PCs, OnConnection
      <4> QED BY <3>1, <4>1, <4>2 DEF Validate
    <3>2. CASE RegisterTaken(c) \/ RevokeUnknown(c) \/ LookStatus(c)
      BY <3>2, EndTypeInv DEF RegisterTaken, RevokeUnknown, LookStatus, Locks
    <3>3. CASE Register(c)
      <4>1. PICK k \in Conns :
              conns' = [conns EXCEPT ![k] =
                [tenant |-> job[c].req.tenant, name |-> Target(c), items |-> job[c].req.items,
                 status |-> "active", health |-> "unknown"]]
        BY <3>3 DEF Register
      <4>2. job[c] \in Job /\ Op(c) = "register"
        BY <3>3 DEF Register, Locks, JobAtPc
      <4>3. conns' \in [Conns -> Connection]
        BY <4>1, <4>2, RequestFields, RowTypes DEF Job, Connection, Op, Target
      <4> QED BY <3>3, <4>3, EndTypeInv DEF Register, Locks
    <3>4. CASE Revoke(c)
      BY <3>4, RowTypes, EndTypeInv DEF Revoke, Locks
    <3> QED BY <2>3, <3>1, <3>2, <3>3, <3>4 DEF RegistryStep
  <2>4. CASE UseStep(c)
    <3>1. CASE Authorize(c)
      BY <3>1, MoveTypeInv DEF Authorize, PCs, OnConnection, Uses
    <3>2. CASE Deny(c)
      BY <3>2, MoveTypeInv DEF Deny, PCs, OnConnection, Uses
    <3>3. CASE BadArguments(c) \/ RecordDenial(c) \/ RecordUse(c)
      BY <3>3, EndTypeInv DEF BadArguments, RecordDenial, RecordUse, Locks
    <3>4. CASE Prepare(c)
      <4>1. CASE pc' = [pc EXCEPT ![c] = "fence"]
        BY <3>4, <4>1, MoveTypeInv DEF Prepare, PCs, OnConnection, JobAtPc
      <4>2. CASE ToRecord(c, "denied") \/ ToRecord(c, Failure(c))
        BY <3>4, <4>2, RecordTypeInv DEF Prepare, OnConnection
      <4> QED BY <3>4, <4>1, <4>2 DEF Prepare
    <3>5. CASE Fence(c)
      BY <3>5, MoveTypeInv DEF Fence, Locks, PCs, OnConnection, JobAtPc
    <3>6. CASE FenceRevoked(c)
      BY <3>6, RecordTypeInv DEF FenceRevoked, Locks, OnConnection
    <3>7. CASE UpstreamAnswers(c)
      BY <3>7, RecordTypeInv DEF UpstreamAnswers, OnConnection
    <3> QED BY <2>4, <3>1, <3>2, <3>3, <3>4, <3>5, <3>6, <3>7 DEF UseStep
  <2>5. CASE HealthStep(c)
    <3>1. CASE LookHealth(c)
      <4>1. CASE pc' = [pc EXCEPT ![c] = "prepare"]
        BY <3>1, <4>1, MoveTypeInv DEF LookHealth, PCs, OnConnection
      <4>2. CASE End(c, "ok") \/ End(c, "error")
        BY <3>1, <4>2, EndTypeInv DEF LookHealth
      <4> QED BY <3>1, <4>1, <4>2 DEF LookHealth
    <3>2. CASE HealthCheckRow(c)
      <4>1. CASE pc' = [pc EXCEPT ![c] = "hwrite"]
        BY <3>2, <4>1, MoveTypeInv DEF HealthCheckRow, PCs, OnConnection, JobAtPc
      <4>2. CASE End(c, "error")
        BY <3>2, <4>2, EndTypeInv DEF HealthCheckRow
      <4> QED BY <3>2, <4>1, <4>2 DEF HealthCheckRow
    <3>3. CASE HealthWrite(c)
      BY <3>3, RowTypes, EndTypeInv DEF HealthWrite, Locks
    <3> QED BY <2>5, <3>1, <3>2, <3>3 DEF HealthStep
  <2>6. CASE DatabaseFails(c)
    <3>1. CASE ToRecord(c, Failure(c)) /\ pc[c] = "fence"
      BY <2>6, <3>1, RecordTypeInv DEF DatabaseFails, OnConnection
    <3>2. CASE End(c, "error")
      BY <2>6, <3>2, EndTypeInv DEF DatabaseFails
    <3> QED BY <2>6, <3>1, <3>2 DEF DatabaseFails
  <2> QED BY <1>4, <2>1, <2>2, <2>3, <2>4, <2>5, <2>6 DEF Serve
<1> QED BY <1>1, <1>2, <1>3, <1>4 DEF Next

------------------------------------------------------------------------------
(* What a step does to a registered connection: nothing, or its revocation *)
(* or the verdict of a health check, both under the write lock.            *)

Kept(k) ==
  conns[k].status # "none" =>
    /\ conns'[k].status # "none"
    /\ conns'[k].tenant = conns[k].tenant
    /\ conns'[k].items = conns[k].items
    /\ conns[k].status = "revoked" => conns'[k].status = "revoked"

LEMMA StepKinds ==
  ASSUME [Next]_vars
  PROVE  \/ UNCHANGED conns
         \/ \E c \in Clients : Register(c) \/ Revoke(c) \/ HealthWrite(c)
<1> USE DEF vars, local
<1>1. CASE Crash
  BY <1>1 DEF Crash
<1>2. ASSUME NEW c \in Clients, Call(c) PROVE UNCHANGED conns
  BY <1>2 DEF Call
<1>3. ASSUME NEW c \in Clients, Refused(c) \/ Admit(c) \/ Release(c) \/ DatabaseFails(c)
      PROVE  UNCHANGED conns
  BY <1>3 DEF Refused, Admit, Release, DatabaseFails
<1>4. ASSUME NEW c \in Clients, RegistryStep(c)
      PROVE  UNCHANGED conns \/ Register(c) \/ Revoke(c)
  BY <1>4 DEF RegistryStep, Validate, RegisterTaken, RevokeUnknown, LookStatus
<1>5. ASSUME NEW c \in Clients, UseStep(c) PROVE UNCHANGED conns
  BY <1>5 DEF UseStep, Authorize, Deny, BadArguments, RecordDenial, Prepare, Fence,
              FenceRevoked, UpstreamAnswers, RecordUse
<1>6. ASSUME NEW c \in Clients, HealthStep(c) PROVE UNCHANGED conns \/ HealthWrite(c)
  BY <1>6 DEF HealthStep, LookHealth, HealthCheckRow
<1> QED BY <1>1, <1>2, <1>3, <1>4, <1>5, <1>6 DEF Next, Serve

LEMMA ConnectionsKept ==
  ASSUME TypeInv, [Next]_vars PROVE \A k \in Conns : Kept(k)
<1> USE DEF TypeInv, Kept
<1>1. CASE UNCHANGED conns
  BY <1>1
<1>2. ASSUME NEW c \in Clients, Register(c) PROVE \A k \in Conns : Kept(k)
  BY <1>2 DEF Register
<1>3. ASSUME NEW c \in Clients, Revoke(c) PROVE \A k \in Conns : Kept(k)
  BY <1>3 DEF Revoke, Connection
<1>4. ASSUME NEW c \in Clients, HealthWrite(c) PROVE \A k \in Conns : Kept(k)
  BY <1>4 DEF HealthWrite, Connection
<1> QED BY <1>1, <1>2, <1>3, <1>4, StepKinds

LEMMA TypeInvariant == Spec => []TypeInv
  BY InitTypeInv, NextTypeInv, PTL DEF Spec

(* RevokedForGood: a revoked connection stays revoked, whatever a health   *)
(* check that began before writes afterwards, and a registration keeps its *)
(* tenant and its approvals.                                               *)
THEOREM RevocationsLast == Spec => RevokedForGood
<1> DEFINE A == \A k \in Conns :
                  /\ conns[k].status = "revoked" => conns'[k].status = "revoked"
                  /\ conns[k].status # "none" =>
                       /\ conns'[k].tenant = conns[k].tenant
                       /\ conns'[k].items = conns[k].items
<1>1. ASSUME TypeInv, [Next]_vars PROVE A
  BY <1>1, ConnectionsKept DEF Kept
<1>2. TypeInv /\ [Next]_vars => [A]_vars
  BY <1>1
<1> QED BY <1>2, TypeInvariant, PTL DEF Spec, RevokedForGood

------------------------------------------------------------------------------
(* The invariant of the fence: who is with an upstream holds the write     *)
(* lock, its connection is active, and what was authorized before the      *)
(* fence still belongs to the tenant and is still approved.                *)

Owned(r) ==
  /\ r.target \in Conns
  /\ conns[r.target].status # "none"
  /\ conns[r.target].tenant = r.tenant
  /\ r.items \subseteq conns[r.target].items

FenceHeld ==
  \A c \in Clients :
    pc[c] = "upstream" => lock = c /\ conns[Target(c)].status = "active"

AuthorizedOwned ==
  \A c \in Clients : pc[c] \in {"prepare", "fence", "upstream"} => Owned(job[c].req)

SentOwned == \A j \in sent : Owned(j.req)

FenceInv == TypeInv /\ FenceHeld /\ AuthorizedOwned /\ SentOwned

LEMMA OwnedKept ==
  ASSUME TypeInv, [Next]_vars, NEW r, Owned(r) PROVE Owned(r)'
  BY ConnectionsKept DEF Owned, Kept

LEMMA InitFenceInv == Init => FenceInv
  BY InitTypeInv DEF Init, FenceInv, FenceHeld, AuthorizedOwned, SentOwned

(* How a step moves the clients: one of them moves, or all are gone.  Few  *)
(* moves matter to the fence.                                              *)

Trusted == {"prepare", "fence", "upstream"}

Others(c) == \A d \in Clients \ {c} : pc'[d] = pc[d] /\ job'[d] = job[d]

Trusts(c) ==
  /\ pc[c] # "upstream" /\ pc'[c] \in {"prepare", "fence"}
  /\ pc[c] \in Trusted \/ Owned(job[c].req)
  /\ UNCHANGED <<job, lock, sent>>

Quiet(c) == pc[c] # "upstream" /\ pc'[c] \notin Trusted /\ UNCHANGED <<lock, sent>>

Move(c) == Others(c) /\ (Quiet(c) \/ Trusts(c) \/ Fence(c) \/ UpstreamAnswers(c))

Gone == (\A c \in Clients : pc'[c] = "idle") /\ UNCHANGED <<conns, sent>>

LEMMA HomeMove ==
  ASSUME TypeInv, NEW c \in Clients, Home(c), pc[c] # "upstream", UNCHANGED <<lock, sent>>
  PROVE  Move(c)
  BY DEF TypeInv, Home, Move, Others, Quiet, Trusted

LEMMA EndMove ==
  ASSUME TypeInv, NEW c \in Clients, NEW what, End(c, what), pc[c] # "upstream",
         UNCHANGED <<job, lock, sent>>
  PROVE  Move(c)
  BY DEF TypeInv, End, Move, Others, Quiet, Trusted

LEMMA RecordMove ==
  ASSUME TypeInv, NEW c \in Clients, NEW what, ToRecord(c, what), pc[c] # "upstream",
         UNCHANGED <<job, lock, sent>>
  PROVE  Move(c)
  BY DEF TypeInv, ToRecord, Move, Others, Quiet, Trusted

LEMMA StepMoves ==
  ASSUME TypeInv, [Next]_vars
  PROVE  UNCHANGED <<pc, job, lock, sent>> \/ Gone \/ \E c \in Clients : Move(c)
<1> USE DEF TypeInv, local
<1>1. CASE UNCHANGED vars
  BY <1>1 DEF vars
<1>2. CASE Crash
  BY <1>2 DEF Crash, Gone
<1>3. ASSUME NEW c \in Clients, Call(c) PROVE Move(c)
  <2>1. PICK r : job' = [job EXCEPT ![c] = r]
    BY <1>3 DEF Call
  <2> QED BY <1>3, <2>1 DEF Call, Move, Others, Quiet, Trusted
<1>4. ASSUME NEW c \in Clients, Refused(c) \/ Release(c) PROVE Move(c)
  BY <1>4, HomeMove DEF Refused, Release
<1>5. ASSUME NEW c \in Clients, Admit(c) PROVE Move(c)
  <2>1. PICK to \in {"validate", "begin", "look"} : pc' = [pc EXCEPT ![c] = to]
    BY <1>5 DEF Admit
  <2> QED BY <1>5, <2>1 DEF Admit, Move, Others, Quiet, Trusted
<1>6. ASSUME NEW c \in Clients, RegistryStep(c) PROVE Move(c)
  <2>1. CASE Validate(c) /\ pc' = [pc EXCEPT ![c] = "begin"]
    BY <2>1 DEF Validate, Move, Others, Quiet, Trusted
  <2>2. CASE Validate(c) /\ End(c, "error")
    BY <2>2, EndMove DEF Validate
  <2>3. CASE RegisterTaken(c) \/ Register(c) \/ RevokeUnknown(c) \/ Revoke(c) \/ LookStatus(c)
    BY <2>3, EndMove DEF RegisterTaken, Register, RevokeUnknown, Revoke, LookStatus, Locks
  <2> QED BY <1>6, <2>1, <2>2, <2>3 DEF RegistryStep, Validate
<1>7. ASSUME NEW c \in Clients, UseStep(c) PROVE Move(c)
  <2>1. CASE Authorize(c)
    <3>1. Owned(job[c].req)
      BY <2>1, RequestFields
         DEF Authorize, Active, Found, Approved, Target, Owned, JobAtPc, Job, OnConnection, Op
    <3> QED BY <2>1, <3>1 DEF Authorize, Move, Others, Trusts
  <2>2. CASE Deny(c)
    BY <2>2 DEF Deny, Move, Others, Quiet, Trusted
  <2>3. CASE BadArguments(c) \/ RecordDenial(c) \/ RecordUse(c)
    BY <2>3, EndMove DEF BadArguments, RecordDenial, RecordUse, Locks
  <2>4. CASE Prepare(c) /\ pc' = [pc EXCEPT ![c] = "fence"]
    BY <2>4 DEF Prepare, Move, Others, Trusts, Trusted
  <2>5. CASE Prepare(c) /\ (ToRecord(c, "denied") \/ ToRecord(c, Failure(c)))
    BY <2>5, RecordMove DEF Prepare
  <2>6. CASE Fence(c) \/ UpstreamAnswers(c)
    BY <2>6 DEF Fence, UpstreamAnswers, ToRecord, Move, Others
  <2>7. CASE FenceRevoked(c)
    BY <2>7, RecordMove DEF FenceRevoked, Locks
  <2> QED BY <1>7, <2>1, <2>2, <2>3, <2>4, <2>5, <2>6, <2>7 DEF UseStep, Prepare
<1>8. ASSUME NEW c \in Clients, HealthStep(c) PROVE Move(c)
  <2>1. CASE LookHealth(c) /\ Active(c) /\ pc' = [pc EXCEPT ![c] = "prepare"]
    <3>1. Owned(job[c].req)
      BY <2>1, RequestFields
         DEF LookHealth, Active, Found, Target, Owned, JobAtPc, Job, OnConnection, Op
    <3> QED BY <2>1, <3>1 DEF LookHealth, Move, Others, Trusts
  <2>2. CASE LookHealth(c) /\ (End(c, "ok") \/ End(c, "error"))
    BY <2>2, EndMove DEF LookHealth
  <2>3. CASE HealthCheckRow(c) /\ pc' = [pc EXCEPT ![c] = "hwrite"]
    BY <2>3 DEF HealthCheckRow, Move, Others, Quiet, Trusted
  <2>4. CASE HealthCheckRow(c) /\ End(c, "error")
    BY <2>4, EndMove DEF HealthCheckRow
  <2>5. CASE HealthWrite(c)
    BY <2>5, EndMove DEF HealthWrite, Locks
  <2> QED BY <1>8, <2>1, <2>2, <2>3, <2>4, <2>5 DEF HealthStep, LookHealth, HealthCheckRow
<1>9. ASSUME NEW c \in Clients, DatabaseFails(c) PROVE Move(c)
  BY <1>9, EndMove, RecordMove DEF DatabaseFails
<1> QED BY <1>1, <1>2, <1>3, <1>4, <1>5, <1>6, <1>7, <1>8, <1>9 DEF Next, Serve

LEMMA NextFenceHeld == FenceInv /\ [Next]_vars => FenceHeld'
<1> SUFFICES ASSUME FenceInv, [Next]_vars, NEW d \in Clients, pc'[d] = "upstream"
             PROVE  lock' = d /\ conns'[Target(d)'].status = "active"
  BY DEF FenceHeld
<1> USE DEF FenceInv, TypeInv, FenceHeld, Target
<1>1. CASE pc[d] = "upstream" /\ lock' = lock /\ job'[d] = job[d]
  <2>1. UNCHANGED conns
    BY <1>1, StepKinds, NoneAssumption DEF Register, Revoke, HealthWrite, Locks
  <2> QED BY <1>1, <2>1
<1>2. CASE Gone
  BY <1>2 DEF Gone
<1>3. ASSUME NEW c \in Clients, Move(c), ~(pc[d] = "upstream" /\ lock' = lock /\ job'[d] = job[d])
      PROVE  lock' = d /\ conns'[Target(d)'].status = "active"
  <2>1. CASE Quiet(c) \/ Trusts(c)
    BY <1>3, <2>1 DEF Move, Others, Quiet, Trusts, Trusted
  <2>2. CASE Fence(c)
    BY <1>3, <2>2, NoneAssumption DEF Move, Others, Fence, Locks, Active, local
  <2>3. CASE UpstreamAnswers(c)
    BY <1>3, <2>3 DEF Move, Others, UpstreamAnswers, ToRecord
  <2> QED BY <1>3, <2>1, <2>2, <2>3 DEF Move
<1> QED BY <1>1, <1>2, <1>3, StepMoves

LEMMA NextAuthorizedOwned == FenceInv /\ [Next]_vars => AuthorizedOwned'
<1> SUFFICES ASSUME FenceInv, [Next]_vars, NEW d \in Clients, pc'[d] \in Trusted
             PROVE  Owned(job[d].req)'
  BY DEF AuthorizedOwned, Trusted
<1> USE DEF FenceInv, TypeInv, Trusted
<1>1. job'[d] = job[d] /\ Owned(job[d].req)
  <2>1. CASE UNCHANGED <<pc, job, lock, sent>>
    BY <2>1 DEF AuthorizedOwned
  <2>2. CASE Gone
    BY <2>2 DEF Gone
  <2>3. ASSUME NEW c \in Clients, Move(c) PROVE job'[d] = job[d] /\ Owned(job[d].req)
    BY <2>3 DEF AuthorizedOwned, Move, Others, Quiet, Trusts, Fence, Locks, UpstreamAnswers,
                ToRecord, local
  <2> QED BY <2>1, <2>2, <2>3, StepMoves
<1>2. PICK r : r = job[d].req
  OBVIOUS
<1>3. Owned(r)'
  BY <1>1, <1>2, OwnedKept
<1> QED BY <1>1, <1>2, <1>3 DEF Owned

LEMMA NextSentOwned == FenceInv /\ [Next]_vars => SentOwned'
<1> SUFFICES ASSUME FenceInv, [Next]_vars, NEW j \in sent' PROVE Owned(j.req)'
  BY DEF SentOwned
<1>1. Owned(j.req)
  <2>1. CASE j \in sent
    BY <2>1 DEF FenceInv, SentOwned
  <2>2. ASSUME NEW c \in Clients, Fence(c) PROVE j \in sent \/ (j = job[c] /\ Owned(j.req))
    BY <2>2 DEF Fence, Locks, FenceInv, AuthorizedOwned
  <2> QED BY <2>1, <2>2, StepMoves
          DEF FenceInv, Gone, Move, Quiet, Trusts, UpstreamAnswers
<1> QED BY <1>1, OwnedKept DEF FenceInv

LEMMA FenceInvariant == Spec => []FenceInv
<1>1. FenceInv /\ [Next]_vars => FenceInv'
  BY NextTypeInv, NextFenceHeld, NextAuthorizedOwned, NextSentOwned DEF FenceInv
<1> QED BY InitFenceInv, <1>1, PTL DEF Spec

(* UsesApproved: only calls on a registered connection of their tenant,    *)
(* for an item that was approved, ever reached an upstream.                *)
THEOREM UsesAreApproved == Spec => []UsesApproved
<1>1. FenceInv => UsesApproved
  BY DEF FenceInv, SentOwned, Owned, UsesApproved
<1> QED BY FenceInvariant, <1>1, PTL

------------------------------------------------------------------------------
(* The refinement.  A step is one of the gate when the call fence or a row *)
(* of the registry changes, and a stutter otherwise.                       *)

Upstream == {<<c, Target(c)>> : c \in {d \in Clients : pc[d] = "upstream"}}
Statuses == [k \in Conns |-> conns[k].status]

LEMMA InitGate == Init => RegistryGate!Init
  BY DEF Init, RegistryGate!Init, NoConnection

LEMMA SameUsers ==
  ASSUME TypeInv, NEW c \in Clients, Others(c), Quiet(c) \/ Trusts(c)
  PROVE  Upstream' = Upstream
<1>1. \A d \in Clients : pc'[d] = "upstream" <=> pc[d] = "upstream"
  BY DEF Others, Quiet, Trusts, Trusted
<1>2. \A d \in Clients : pc[d] = "upstream" => job'[d] = job[d]
  BY DEF Others, Quiet, Trusts
<1> QED BY <1>1, <1>2 DEF Upstream, Target

(* While no call is with an upstream, rows change as the gate lets them.   *)
LEMMA RowSteps ==
  ASSUME FenceInv, [Next]_vars, Upstream' = Upstream
  PROVE  UNCHANGED <<Statuses, Upstream>> \/ RegistryGate!Next
<1> USE DEF FenceInv, TypeInv, Statuses, Upstream
<1>1. CASE UNCHANGED conns
  BY <1>1
<1>2. ASSUME NEW c \in Clients, HealthWrite(c) PROVE UNCHANGED Statuses
  BY <1>2 DEF HealthWrite, Connection
<1>3. ASSUME NEW c \in Clients, Register(c) PROVE RegistryGate!Next
  <2>1. PICK k \in Conns :
          /\ conns[k].status = "none"
          /\ conns' = [conns EXCEPT ![k] =
               [tenant |-> job[c].req.tenant, name |-> Target(c), items |-> job[c].req.items,
                status |-> "active", health |-> "unknown"]]
    BY <1>3 DEF Register
  <2>2. RegistryGate!Register(k)
    BY <2>1 DEF RegistryGate!Register
  <2> QED BY <2>2 DEF RegistryGate!Next
<1>4. ASSUME NEW c \in Clients, Revoke(c)
      PROVE  UNCHANGED Statuses \/ RegistryGate!Next
  <2>1. Target(c) \in Conns /\ conns[Target(c)].status # "none"
    BY <1>4, RequestFields DEF Revoke, Found, Locks, JobAtPc, Job, Target, Op
  <2>2. Statuses' = [Statuses EXCEPT ![Target(c)] = "revoked"]
    BY <1>4, <2>1 DEF Revoke, Connection
  <2>3. CASE conns[Target(c)].status = "revoked"
    BY <2>2, <2>3
  <2>4. CASE conns[Target(c)].status = "active"
    <3>1. \A d \in Clients : pc[d] # "upstream"
      BY <1>4, NoneAssumption DEF Revoke, Locks, FenceHeld
    <3>2. PICK k \in Conns : k = Target(c)
      BY <2>1
    <3>3. RegistryGate!Revoke(k)
      BY <2>2, <2>4, <3>1, <3>2 DEF RegistryGate!Revoke
    <3> QED BY <3>3 DEF RegistryGate!Next
  <2> QED BY <2>1, <2>3, <2>4 DEF Connection
<1> QED BY <1>1, <1>2, <1>3, <1>4, StepKinds

LEMMA FenceSteps ==
  ASSUME FenceInv, [Next]_vars, NEW c \in Clients, Others(c), Fence(c) \/ UpstreamAnswers(c)
  PROVE  RegistryGate!Next
<1> USE DEF FenceInv, TypeInv
<1>1. job[c] \in Job /\ Op(c) \notin {"register", "revoke"} /\ Target(c) \in Conns
  BY RequestFields DEF Fence, Locks, UpstreamAnswers, JobAtPc, Job, OnConnection, Target, Op
<1> PICK k \in Conns : k = Target(c)
  BY <1>1
<1>2. CASE Fence(c)
  <2>1. Upstream' = Upstream \cup {<<c, Target(c)>>}
    BY <1>2 DEF Fence, Locks, Upstream, Target, local
  <2>2. RegistryGate!Start(c, k)
    BY <1>2, <2>1 DEF RegistryGate!Start, Fence, Active, Upstream
  <2> QED BY <2>2 DEF RegistryGate!Next
<1>3. CASE UpstreamAnswers(c)
  <2>1. /\ pc[c] = "upstream" /\ pc'[c] # "upstream"
        /\ UNCHANGED <<conns, job>>
    BY <1>3 DEF UpstreamAnswers, ToRecord
  <2>2. Upstream' = Upstream \ {<<c, Target(c)>>}
    BY <2>1 DEF Upstream, Target, Others
  <2>3. RegistryGate!Stop(c, k)
    BY <2>1, <2>2 DEF RegistryGate!Stop, Upstream
  <2> QED BY <2>3 DEF RegistryGate!Next
<1> QED BY <1>2, <1>3

LEMMA GateStep == FenceInv /\ [Next]_vars => [RegistryGate!Next]_RegistryGate!gateVars
<1> SUFFICES ASSUME FenceInv, [Next]_vars
             PROVE  UNCHANGED <<Statuses, Upstream>> \/ RegistryGate!Next
  BY DEF RegistryGate!gateVars, Statuses, Upstream
<1>1. CASE UNCHANGED <<pc, job, lock, sent>>
  <2>1. Upstream' = Upstream
    BY <1>1 DEF Upstream, Target
  <2> QED BY <2>1, RowSteps
<1>2. CASE Gone
  <2>1. RegistryGate!Abandon
    BY <1>2 DEF Gone, RegistryGate!Abandon
  <2> QED BY <2>1 DEF RegistryGate!Next
<1>3. ASSUME NEW c \in Clients, Move(c)
      PROVE  UNCHANGED <<Statuses, Upstream>> \/ RegistryGate!Next
  BY <1>3, SameUsers, RowSteps, FenceSteps DEF Move, FenceInv
<1> QED BY <1>1, <1>2, <1>3, StepMoves DEF FenceInv

(* GateKept: the registry implements ConnectionGate, so a revocation waits *)
(* for the call that is with the upstream and no call gets there after it. *)
THEOREM GateIsKept == Spec => GateKept
<1> QED BY InitGate, GateStep, FenceInvariant, PTL DEF Spec, GateKept, RegistryGate!Gate

------------------------------------------------------------------------------
(* A call owns the number of its rows.  Until it is recorded it has no row *)
(* and no result; whether it reached the upstream is known from its place. *)

Reached(n) == \E j \in sent : j.call = n
Number(c) == job[c].call
Before == {"admit", "validate", "begin", "look", "deny", "prepare", "fence"}

IsTable == audit = [n \in 1..MaxCalls |-> audit[n]]

BookTypes ==
  /\ calls \in 0..MaxCalls
  /\ DOMAIN audit = 1..MaxCalls /\ IsTable
  /\ verdict \in [Clients -> UseOutcomes \cup HealthVerdicts \cup {"none"}]
  /\ reply \in [Clients -> {"none", "ok", "error"}]

True(n, outcome) ==
  /\ outcome = "allowed" => Reached(n)
  /\ outcome = "denied" => ~Reached(n)

RowOk(n) == audit[n] = <<>> \/ \E o \in Outcomes : audit[n] = <<o>> /\ True(n, o)
Unused(n) == n > calls => audit[n] = <<>> /\ ~Reached(n)

ClientOk(c) ==
  /\ pc[c] = "idle" => reply[c] = "none" /\ Op(c) = "none"
  /\ pc[c] # "idle" => Number(c) \in 1..calls
  /\ pc[c] \notin {"idle", "release"} => audit[Number(c)] = <<>> /\ reply[c] = "none"
  /\ pc[c] \in Before => ~Reached(Number(c))
  /\ pc[c] = "upstream" => Reached(Number(c))
  /\ pc[c] = "record" => verdict[c] \in UseOutcomes /\ True(Number(c), verdict[c])
  /\ pc[c] = "release" => (reply[c] = "ok" /\ Op(c) \in Uses => audit[Number(c)] = <<"allowed">>)

NumbersOwn ==
  \A c, d \in Clients : pc[c] # "idle" /\ pc[d] # "idle" /\ Number(c) = Number(d) => c = d

Rows == \A n \in 1..MaxCalls : RowOk(n) /\ Unused(n)

AuditInv == TypeInv /\ BookTypes /\ NumbersOwn /\ Rows /\ \A c \in Clients : ClientOk(c)

LEMMA InitAuditInv == Init => AuditInv
<1> SUFFICES ASSUME Init PROVE AuditInv
  OBVIOUS
<1>1. TypeInv /\ BookTypes
  BY InitTypeInv, CallsAssumption DEF Init, BookTypes, IsTable
<1>2. NumbersOwn /\ Rows
  BY DEF Init, NumbersOwn, Rows, RowOk, Unused, Reached
<1>3. \A c \in Clients : ClientOk(c)
  BY DEF Init, ClientOk, NoJob, Op, Before
<1> QED BY <1>1, <1>2, <1>3 DEF AuditInv

(* A step of one call changes the books of that call alone. *)
LEMMA ClientStep ==
  ASSUME AuditInv, TypeInv', NEW c \in Clients, Others(c), pc[c] # "idle",
         NEW m, m = Number(c), BookTypes', calls' = calls,
         \A d \in Clients \ {c} : verdict'[d] = verdict[d] /\ reply'[d] = reply[d],
         job'[c] = job[c] \/ pc'[c] = "idle",
         sent' = sent \/ sent' = sent \cup {job[c]},
         \A n \in 1..MaxCalls : n # m => audit'[n] = audit[n],
         RowOk(m)', ClientOk(c)'
  PROVE  AuditInv'
<1>2. m \in 1..calls /\ calls \in Nat /\ m \in 1..MaxCalls
  BY CallsAssumption DEF AuditInv, ClientOk, BookTypes
<1>3. ASSUME NEW n, n # m PROVE Reached(n)' <=> Reached(n)
  BY <1>3 DEF Reached, Number
<1>4. ASSUME NEW n \in 1..MaxCalls PROVE RowOk(n)' /\ Unused(n)'
  <2>1. CASE n = m
    BY <1>2, <2>1 DEF Unused
  <2>2. CASE n # m
    BY <1>3, <2>2 DEF AuditInv, Rows, RowOk, Unused, True
  <2> QED BY <2>1, <2>2
<1>5. ASSUME NEW d \in Clients, d # c PROVE ClientOk(d)' /\ (pc[d] # "idle" => Number(d) # m)
  <2>1. pc'[d] = pc[d] /\ job'[d] = job[d] /\ verdict'[d] = verdict[d] /\ reply'[d] = reply[d]
    BY <1>5 DEF Others
  <2>2. ClientOk(d)
    BY DEF AuditInv
  <2>3. pc[d] # "idle" => Number(d) # m /\ Number(d) \in 1..MaxCalls
    <3>1. Number(d) # m \/ pc[d] = "idle"
      BY <1>5 DEF AuditInv, NumbersOwn
    <3>2. pc[d] # "idle" => Number(d) \in 1..calls
      BY <2>2 DEF ClientOk
    <3>3. calls \in 0..MaxCalls
      BY DEF AuditInv, BookTypes
    <3> QED BY <3>1, <3>2, <3>3, CallsAssumption
  <2>4. CASE pc[d] = "idle"
    BY <2>1, <2>2, <2>4 DEF ClientOk, Op, Before
  <2>5. CASE pc[d] # "idle"
    <3>1. PICK n : n = Number(d)
      OBVIOUS
    <3>2. Number(d)' = n /\ audit'[n] = audit[n] /\ (Reached(n)' <=> Reached(n))
      BY <1>3, <2>1, <2>3, <2>5, <3>1 DEF Number
    <3>3. Op(d)' = Op(d)
      BY <2>1 DEF Op
    <3>4. True(n, verdict[d])' <=> True(n, verdict[d])
      BY <2>1, <3>2 DEF True
    <3>5. ClientOk(d)'
      BY <2>1, <2>2, <2>5, <3>1, <3>2, <3>3, <3>4 DEF ClientOk, UseOutcomes, Before, Uses
    <3> QED BY <2>3, <3>5
  <2> QED BY <2>3, <2>4, <2>5
<1>6. NumbersOwn'
  <2>1. ASSUME NEW d \in Clients, pc'[d] # "idle" PROVE Number(d)' = Number(d) /\ pc[d] # "idle"
    BY <2>1 DEF Others, Number
  <2> QED BY <2>1 DEF AuditInv, NumbersOwn
<1>7. \A d \in Clients : ClientOk(d)'
  BY <1>5
<1> QED BY <1>4, <1>6, <1>7 DEF AuditInv, Rows

(* The parts of a step that more than one action takes. *)
LEMMA HomeBooks ==
  ASSUME AuditInv, TypeInv', NEW c \in Clients, Home(c), pc[c] # "idle",
         UNCHANGED <<audit, calls, sent>>
  PROVE  AuditInv'
<1>1. BookTypes' /\ Others(c)
  BY DEF AuditInv, BookTypes, IsTable, TypeInv, Home, Others
<1> PICK m : m = Number(c)
  OBVIOUS
<1>2. m \in 1..MaxCalls
  BY CallsAssumption DEF AuditInv, ClientOk, BookTypes
<1>3. RowOk(m)'
  BY <1>2 DEF AuditInv, Rows, RowOk, True, Reached
<1>4. ClientOk(c)'
  BY DEF ClientOk, Home, AuditInv, BookTypes, TypeInv, Op, NoJob, Before
<1> QED BY <1>1, <1>3, <1>4, ClientStep DEF Home, AuditInv, TypeInv, BookTypes

LEMMA EndBooks ==
  ASSUME AuditInv, TypeInv', NEW c \in Clients, NEW what \in {"ok", "error"}, End(c, what),
         pc[c] # "idle", what = "ok" => Op(c) \notin Uses,
         UNCHANGED <<audit, calls, job, verdict, sent>>
  PROVE  AuditInv'
<1> PICK m : m = Number(c)
  OBVIOUS
<1>1. BookTypes' /\ Others(c)
  BY DEF AuditInv, BookTypes, IsTable, TypeInv, End, Others
<1>2. m \in 1..MaxCalls
  BY CallsAssumption DEF AuditInv, ClientOk, BookTypes
<1>3. RowOk(m)'
  BY <1>2 DEF AuditInv, Rows, RowOk, True, Reached
<1>4. pc'[c] = "release" /\ reply'[c] = what
  BY DEF End, AuditInv, TypeInv, BookTypes
<1>5. ClientOk(c)'
  BY <1>4 DEF ClientOk, AuditInv, Op, Number, Before
<1> QED BY <1>1, <1>3, <1>5, ClientStep DEF End, AuditInv, TypeInv, BookTypes

(* The call is recorded with a true outcome and over. *)
LEMMA RecordBooks ==
  ASSUME AuditInv, TypeInv', NEW c \in Clients, NEW what \in {"ok", "error"}, End(c, what),
         pc[c] \notin {"idle", "release"}, NEW o \in Outcomes, Record(c, o), True(Number(c), o),
         what = "ok" => Op(c) \notin Uses \/ o = "allowed",
         UNCHANGED <<calls, job, verdict, sent>>
  PROVE  AuditInv'
<1> PICK m : m = Number(c)
  OBVIOUS
<1>1. BookTypes' /\ Others(c)
  BY DEF AuditInv, BookTypes, IsTable, TypeInv, End, Others, Record
<1>2. m \in 1..MaxCalls /\ audit[m] = <<>>
  BY CallsAssumption DEF AuditInv, ClientOk, BookTypes
<1>3. audit' = [audit EXCEPT ![m] = <<o>>]
  <2>1. Append(audit[m], o) = <<o>>
    BY <1>2
  <2> QED BY <2>1 DEF Record, Number
<1>4. audit'[m] = <<o>> /\ \A n \in 1..MaxCalls : n # m => audit'[n] = audit[n]
  BY <1>2, <1>3 DEF AuditInv, BookTypes
<1>5. True(m, o)'
  BY DEF True, Reached
<1>6. RowOk(m)'
  BY <1>4, <1>5 DEF RowOk
<1>7. pc'[c] = "release" /\ reply'[c] = what
  BY DEF End, AuditInv, TypeInv, BookTypes
<1>8. ClientOk(c)'
  BY <1>4, <1>7 DEF ClientOk, AuditInv, Op, Number, Before
<1> QED BY <1>1, <1>4, <1>6, <1>8, ClientStep DEF End, AuditInv, TypeInv, BookTypes

(* The call's outcome is known. *)
LEMMA VerdictBooks ==
  ASSUME AuditInv, TypeInv', NEW c \in Clients, NEW o \in UseOutcomes \cup HealthVerdicts,
         ToRecord(c, o), pc[c] \notin {"idle", "release"},
         Op(c) # "health" => o \in UseOutcomes /\ True(Number(c), o),
         UNCHANGED <<audit, calls, job, reply, sent>>
  PROVE  AuditInv'
<1> PICK m : m = Number(c)
  OBVIOUS
<1>1. BookTypes' /\ Others(c)
  BY DEF AuditInv, BookTypes, IsTable, TypeInv, ToRecord, Others
<1>2. m \in 1..MaxCalls
  BY CallsAssumption DEF AuditInv, ClientOk, BookTypes
<1>3. RowOk(m)'
  BY <1>2 DEF AuditInv, Rows, RowOk, True, Reached
<1>4. verdict'[c] = o /\ pc'[c] \in {"hcheck", "record"} /\ (pc'[c] = "record" => Op(c) # "health")
  BY DEF ToRecord, AuditInv, TypeInv, BookTypes
<1>5. True(m, o)' <=> True(m, o)
  BY DEF True, Reached
<1>6. ClientOk(c)'
  BY <1>4, <1>5 DEF ClientOk, AuditInv, Op, Number, Before
<1> QED BY <1>1, <1>3, <1>6, ClientStep DEF ToRecord, AuditInv, TypeInv, BookTypes

LEMMA PlaceBooks ==
  ASSUME AuditInv, TypeInv', NEW c \in Clients, pc[c] \in Before \cup {"hcheck"},
         NEW to \in Before \cup {"hwrite"}, to \in Before => pc[c] \in Before,
         pc' = [pc EXCEPT ![c] = to],
         UNCHANGED <<audit, calls, job, verdict, reply, sent>>
  PROVE  AuditInv'
<1> PICK m : m = Number(c)
  OBVIOUS
<1>1. BookTypes' /\ Others(c) /\ pc[c] # "idle"
  BY DEF AuditInv, BookTypes, IsTable, TypeInv, Others, Before
<1>2. m \in 1..MaxCalls
  BY <1>1, CallsAssumption DEF AuditInv, ClientOk, BookTypes
<1>3. RowOk(m)'
  BY <1>2 DEF AuditInv, Rows, RowOk, True, Reached
<1>4. pc'[c] = to
  BY DEF AuditInv, TypeInv
<1>5. ClientOk(c)'
  BY <1>4 DEF ClientOk, AuditInv, Op, Number, Before, Reached
<1> QED BY <1>1, <1>3, <1>5, ClientStep

LEMMA CallBooks ==
  ASSUME AuditInv, TypeInv', NEW c \in Clients, Call(c)
  PROVE  AuditInv'
<1>1. PICK r \in Request : Fits(r) /\ job' = [job EXCEPT ![c] = [call |-> calls + 1, req |-> r]]
  BY DEF Call
<1>2. calls \in 0..MaxCalls /\ calls + 1 \in 1..MaxCalls /\ calls' = calls + 1
  BY <1>1, CallsAssumption DEF AuditInv, BookTypes, Fits, Call
<1>3. BookTypes'
  BY <1>2 DEF AuditInv, BookTypes, IsTable, Call
<1>4. pc[c] = "idle" /\ pc'[c] = "admit" /\ Number(c)' = calls + 1
  BY <1>1 DEF AuditInv, TypeInv, Call, Number
<1>5. \A n \in 1..MaxCalls : RowOk(n)' /\ Unused(n)'
  BY <1>2 DEF AuditInv, Rows, RowOk, Unused, True, Reached, Call
<1>6. ClientOk(c)'
  <2>1. audit[calls + 1] = <<>> /\ ~Reached(calls + 1)
    BY <1>2 DEF AuditInv, Rows, Unused
  <2>2. reply[c] = "none"
    BY <1>4 DEF AuditInv, ClientOk
  <2> QED BY <1>2, <1>4, <2>1, <2>2 DEF ClientOk, Before, Reached, Call
<1>7. ASSUME NEW d \in Clients \ {c} PROVE ClientOk(d)' /\ pc'[d] = pc[d] /\ Number(d)' = Number(d)
  <2>1. pc'[d] = pc[d] /\ job'[d] = job[d]
    BY <1>1 DEF AuditInv, TypeInv, Call
  <2>2. ClientOk(d)
    BY DEF AuditInv
  <2> QED BY <1>2, <2>1, <2>2 DEF ClientOk, Call, Number, Op, True, Reached, Before
<1>8. NumbersOwn'
  <2>1. \A d \in Clients \ {c} : pc'[d] # "idle" => Number(d)' # calls + 1
    BY <1>2, <1>7 DEF AuditInv, ClientOk
  <2> QED BY <1>4, <1>7, <2>1 DEF AuditInv, NumbersOwn
<1> QED BY <1>3, <1>5, <1>6, <1>7, <1>8 DEF AuditInv, Rows

LEMMA FenceBooks ==
  ASSUME AuditInv, TypeInv', NEW c \in Clients, Fence(c)
  PROVE  AuditInv'
<1> PICK m : m = Number(c)
  OBVIOUS
<1>1. BookTypes' /\ Others(c) /\ pc[c] = "fence" /\ pc'[c] = "upstream"
  BY DEF AuditInv, BookTypes, IsTable, TypeInv, Others, Fence, Locks, local
<1>2. m \in 1..MaxCalls /\ audit[m] = <<>>
  BY <1>1, CallsAssumption DEF AuditInv, ClientOk, BookTypes
<1>3. RowOk(m)'
  BY <1>2 DEF RowOk, Fence
<1>4. ClientOk(c)'
  BY <1>1 DEF ClientOk, AuditInv, Op, Number, Before, Reached, Fence, local
<1> QED BY <1>1, <1>3, <1>4, ClientStep DEF Fence, local

LEMMA NextAuditInv == AuditInv /\ [Next]_vars => AuditInv'
<1> SUFFICES ASSUME AuditInv, [Next]_vars PROVE AuditInv'
  OBVIOUS
<1>0. TypeInv /\ TypeInv'
  BY NextTypeInv DEF AuditInv
<1>1. CASE UNCHANGED vars
  <2>1. UNCHANGED <<audit, calls, pc, job, verdict, reply, sent>>
    BY <1>1 DEF vars, local
  <2>2. BookTypes'
    BY <2>1 DEF AuditInv, BookTypes, IsTable
  <2>3. NumbersOwn' /\ Rows' /\ \A c \in Clients : ClientOk(c)'
    BY <2>1 DEF AuditInv, NumbersOwn, Rows, RowOk, Unused, True, Reached, ClientOk, Number, Op
  <2> QED BY <1>0, <2>2, <2>3 DEF AuditInv
<1>2. CASE Crash
  <2>1. BookTypes' /\ Rows' /\ NumbersOwn'
    BY <1>2 DEF Crash, AuditInv, BookTypes, IsTable, NumbersOwn, Rows, RowOk, Unused, True, Reached
  <2>2. \A c \in Clients : ClientOk(c)'
    BY <1>2 DEF Crash, ClientOk, NoJob, Op, Before
  <2> QED BY <1>0, <2>1, <2>2 DEF AuditInv
<1>3. ASSUME NEW c \in Clients, Serve(c) PROVE AuditInv'
  <2> USE <1>0 DEF local
  <2>1. CASE Refused(c) \/ Release(c)
    BY <2>1, HomeBooks DEF Refused, Release
  <2>2. CASE Admit(c)
    <3>1. PICK to \in {"validate", "begin", "look"} : pc' = [pc EXCEPT ![c] = to]
      BY <2>2 DEF Admit
    <3> QED BY <2>2, <3>1, PlaceBooks DEF Admit, Before
  <2>3. CASE RegistryStep(c)
    <3>1. CASE Validate(c) /\ pc' = [pc EXCEPT ![c] = "begin"] /\ UNCHANGED reply
      BY <3>1, PlaceBooks DEF Validate, Before
    <3>2. CASE (Validate(c) /\ End(c, "error")) \/ RegisterTaken(c) \/ RevokeUnknown(c)
      BY <3>2, EndBooks DEF Validate, RegisterTaken, RevokeUnknown, Locks
    <3>3. CASE LookStatus(c)
      BY <3>3, EndBooks DEF LookStatus, Uses
    <3>4. CASE Register(c) \/ Revoke(c)
      <4>1. \A o \in {"registered", "revoked", "already_revoked"} : o \in Outcomes /\ True(Number(c), o)
        BY DEF Outcomes, True
      <4> QED BY <3>4, <4>1, RecordBooks DEF Register, Revoke, Locks, Uses
    <3> QED BY <2>3, <3>1, <3>2, <3>3, <3>4 DEF RegistryStep, Validate
  <2>4. CASE UseStep(c)
    <3>1. CASE Authorize(c) \/ Deny(c)
      BY <3>1, PlaceBooks DEF Authorize, Deny, Before
    <3>2. CASE BadArguments(c)
      BY <3>2, EndBooks DEF BadArguments
    <3>3. CASE RecordDenial(c)
      <4>1. "denied" \in Outcomes /\ True(Number(c), "denied")
        BY <3>3 DEF RecordDenial, Locks, Outcomes, UseOutcomes, True, AuditInv, ClientOk, Before
      <4> QED BY <3>3, <4>1, RecordBooks, EndBooks DEF RecordDenial, Locks
    <3>4. CASE Prepare(c) /\ pc' = [pc EXCEPT ![c] = "fence"] /\ UNCHANGED verdict
      BY <3>4, PlaceBooks DEF Prepare, Before
    <3>5. CASE \/ Prepare(c) /\ ((Op(c) = "tool" /\ ToRecord(c, "denied")) \/ ToRecord(c, Failure(c)))
               \/ FenceRevoked(c)
      <4>1. True(Number(c), "denied") /\ True(Number(c), "failed")
        BY <3>5 DEF Prepare, FenceRevoked, Locks, True, AuditInv, ClientOk, Before
      <4>2. Failure(c) \in UseOutcomes \cup HealthVerdicts /\ (Op(c) # "health" => Failure(c) = "failed")
        BY DEF Failure, UseOutcomes, HealthVerdicts
      <4> QED BY <3>5, <4>1, <4>2, VerdictBooks DEF Prepare, FenceRevoked, Locks, UseOutcomes
    <3>6. CASE Fence(c)
      BY <3>6, FenceBooks
    <3>7. CASE UpstreamAnswers(c)
      <4>1. PICK o \in IF Op(c) = "health" THEN HealthVerdicts ELSE {"allowed", "failed"} :
              ToRecord(c, o)
        BY <3>7 DEF UpstreamAnswers
      <4>2. Reached(Number(c)) /\ pc[c] = "upstream"
        BY <3>7 DEF UpstreamAnswers, AuditInv, ClientOk
      <4>3. o \in UseOutcomes \cup HealthVerdicts
            /\ (Op(c) # "health" => o \in UseOutcomes /\ True(Number(c), o))
        BY <4>1, <4>2 DEF UseOutcomes, True
      <4> QED BY <3>7, <4>1, <4>2, <4>3, VerdictBooks DEF UpstreamAnswers
    <3>8. CASE RecordUse(c)
      <4>1. verdict[c] \in Outcomes /\ True(Number(c), verdict[c])
        BY <3>8 DEF RecordUse, Locks, Outcomes, AuditInv, ClientOk
      <4> QED BY <3>8, <4>1, RecordBooks DEF RecordUse, Locks
    <3> QED BY <2>4, <3>1, <3>2, <3>3, <3>4, <3>5, <3>6, <3>7, <3>8 DEF UseStep, Prepare
  <2>5. CASE HealthStep(c)
    <3>1. CASE LookHealth(c) /\ pc' = [pc EXCEPT ![c] = "prepare"] /\ UNCHANGED reply
      BY <3>1, PlaceBooks DEF LookHealth, Before
    <3>2. CASE LookHealth(c) /\ (End(c, "ok") \/ End(c, "error"))
      BY <3>2, EndBooks DEF LookHealth, Uses
    <3>3. CASE HealthCheckRow(c) /\ pc' = [pc EXCEPT ![c] = "hwrite"] /\ UNCHANGED reply
      BY <3>3, PlaceBooks DEF HealthCheckRow, Before
    <3>4. CASE HealthCheckRow(c) /\ End(c, "error")
      BY <3>4, EndBooks DEF HealthCheckRow
    <3>5. CASE HealthWrite(c)
      <4>1. \A o \in {"healthy", "unhealthy"} : o \in Outcomes /\ True(Number(c), o)
        BY DEF Outcomes, True
      <4>2. Op(c) \notin Uses
        BY <3>5 DEF HealthWrite, Locks, TypeInv, JobAtPc, Uses
      <4> QED BY <3>5, <4>1, <4>2, RecordBooks DEF HealthWrite, Locks
    <3> QED BY <2>5, <3>1, <3>2, <3>3, <3>4, <3>5 DEF HealthStep, LookHealth, HealthCheckRow
  <2>6. CASE DatabaseFails(c)
    <3>1. CASE pc[c] = "fence" /\ ToRecord(c, Failure(c))
      <4>1. True(Number(c), "failed")
        BY DEF True
      <4>2. Failure(c) \in UseOutcomes \cup HealthVerdicts /\ (Op(c) # "health" => Failure(c) = "failed")
        BY DEF Failure, UseOutcomes, HealthVerdicts
      <4> QED BY <2>6, <3>1, <4>1, <4>2, VerdictBooks DEF DatabaseFails, UseOutcomes
    <3>2. CASE pc[c] # "fence" /\ End(c, "error")
      BY <2>6, <3>2, EndBooks DEF DatabaseFails
    <3> QED BY <2>6, <3>1, <3>2 DEF DatabaseFails
  <2> QED BY <1>3, <2>1, <2>2, <2>3, <2>4, <2>5, <2>6 DEF Serve
<1> QED BY <1>1, <1>2, <1>3, <1>0, CallBooks DEF Next

(* AuditTruthful: a call has at most one row, an allowed use reached the   *)
(* upstream, a denied one did not, and who gets a result has its row,      *)
(* whichever transaction fails or process dies on the way                  *)
(* (record_external_call, _record_external_denial).                        *)
THEOREM AuditIsTruthful == Spec => []AuditTruthful
<1>1. AuditInv => AuditTruthful
  <2> SUFFICES ASSUME AuditInv PROVE AuditTruthful
    OBVIOUS
  <2>1. ASSUME NEW n \in 1..MaxCalls
        PROVE  /\ Len(audit[n]) <= 1
               /\ audit[n] = <<"allowed">> => Reached(n)
               /\ audit[n] = <<"denied">> => ~Reached(n)
    <3>1. CASE audit[n] = <<>>
      BY <3>1
    <3>2. ASSUME NEW o \in Outcomes, audit[n] = <<o>>, True(n, o)
          PROVE  /\ Len(audit[n]) <= 1
                 /\ audit[n] = <<"allowed">> => Reached(n)
                 /\ audit[n] = <<"denied">> => ~Reached(n)
      BY <3>2 DEF True
    <3> QED BY <3>1, <3>2 DEF AuditInv, Rows, RowOk
  <2>2. ASSUME NEW c \in Clients, reply[c] = "ok", Op(c) \in Uses
        PROVE  audit[job[c].call] = <<"allowed">>
    BY <2>2 DEF AuditInv, ClientOk, Number
  <2> QED BY <2>1, <2>2 DEF AuditTruthful, Reached
<1> QED BY <1>1, InitAuditInv, NextAuditInv, PTL DEF Spec

------------------------------------------------------------------------------
(* The slots.  A call has one from its admission to its release. *)

Away == {"idle", "admit"}
Held == {c \in Clients : pc[c] \notin Away}

SlotInv ==
  /\ slots \in [active : [Keys -> Nat], total : Nat]
  /\ IsFiniteSet(Held)
  /\ slots.total = Cardinality(Held) /\ slots.total <= SlotLimit
  /\ \A k \in Keys : /\ slots.active[k] = Cardinality(Holding(k))
                     /\ slots.active[k] <= SlotsPerKey

LEMMA HoldingFinite ==
  ASSUME SlotInv, NEW k PROVE IsFiniteSet(Holding(k)) /\ Holding(k) \subseteq Held
<1>1. Holding(k) \subseteq Held
  BY DEF Holding, Held, Away
<1> QED BY <1>1, FS_Subset DEF SlotInv

LEMMA InitSlotInv == Init => SlotInv
<1> SUFFICES ASSUME Init PROVE SlotInv
  OBVIOUS
<1>1. Held = {} /\ \A k \in Keys : Holding(k) = {}
  BY DEF Init, Held, Away, Holding
<1>2. slots \in [active : [Keys -> Nat], total : Nat]
  BY DEF Init, NoSlots
<1>3. IsFiniteSet({}) /\ Cardinality({}) = 0
  BY FS_EmptySet
<1>4. slots.total = 0 /\ \A k \in Keys : slots.active[k] = 0
  BY DEF Init, NoSlots
<1>5. 0 <= SlotLimit /\ 0 <= SlotsPerKey
  BY LimitAssumption
<1> QED BY <1>1, <1>2, <1>3, <1>4, <1>5 DEF SlotInv

(* The calls that have a slot are the same. *)
LEMMA SameHolders ==
  ASSUME SlotInv, slots' = slots,
         \A c \in Clients : (pc'[c] \in Away <=> pc[c] \in Away)
                            /\ (pc[c] \notin Away => job'[c] = job[c])
  PROVE  SlotInv'
<1>1. Held' = Held
  BY DEF Held
<1>2. ASSUME NEW k PROVE Holding(k)' = Holding(k)
  <2>1. \A c \in Clients : pc[c] \notin Away => Key(c)' = Key(c)
    BY DEF Key
  <2> QED BY <2>1 DEF Holding, Away
<1> QED BY <1>1, <1>2 DEF SlotInv

LEMMA KeyTyped ==
  ASSUME TypeInv, NEW c \in Clients, pc[c] # "idle" PROVE Key(c) \in Keys
  BY DEF TypeInv, JobAtPc, Job, Key, Keys

LEMMA AdmitSlot ==
  ASSUME TypeInv, SlotInv, NEW c \in Clients, Admit(c)
  PROVE  SlotInv'
<1>1. PICK k \in Keys : k = Key(c)
  BY KeyTyped DEF Admit
<1>2. pc[c] \in Away /\ pc'[c] \notin Away /\ \A d \in Clients \ {c} : pc'[d] = pc[d]
  <2>1. PICK to \in {"validate", "begin", "look"} : pc' = [pc EXCEPT ![c] = to]
    BY DEF Admit
  <2> QED BY <2>1 DEF Admit, Away, TypeInv
<1>3. Held' = Held \cup {c} /\ c \notin Held
  BY <1>2 DEF Held
<1>4. job' = job
  BY DEF Admit, local
<1>5. Holding(k)' = Holding(k) \cup {c} /\ c \notin Holding(k)
  BY <1>1, <1>2, <1>4 DEF Holding, Key, Away
<1>6. ASSUME NEW l \in Keys, l # k PROVE Holding(l)' = Holding(l)
  BY <1>1, <1>2, <1>4, <1>6 DEF Holding, Key, Away
<1>7. IsFiniteSet(Held') /\ Cardinality(Held') = Cardinality(Held) + 1
  BY <1>3, FS_AddElement DEF SlotInv
<1>8. Cardinality(Holding(k)') = Cardinality(Holding(k)) + 1
  BY <1>5, HoldingFinite, FS_AddElement
<1>9. /\ slots'.active = [slots.active EXCEPT ![k] = @ + 1] /\ slots'.total = slots.total + 1
      /\ slots' \in [active : [Keys -> Nat], total : Nat]
      /\ slots.total < SlotLimit /\ slots.active[k] < SlotsPerKey
  BY <1>1 DEF Admit, SlotFree, SlotInv
<1>10. slots'.total = Cardinality(Held') /\ slots'.total <= SlotLimit
  BY <1>7, <1>9, LimitAssumption DEF SlotInv
<1>11. ASSUME NEW l \in Keys
       PROVE  slots'.active[l] = Cardinality(Holding(l)') /\ slots'.active[l] <= SlotsPerKey
  BY <1>6, <1>8, <1>9, LimitAssumption DEF SlotInv
<1> QED BY <1>7, <1>9, <1>10, <1>11 DEF SlotInv

(* The slot a call gives back is there: the limiter never ignores it. *)
LEMMA ReleaseSlot ==
  ASSUME TypeInv, SlotInv, NEW c \in Clients, Release(c)
  PROVE  SlotInv'
<1>1. PICK k \in Keys : k = Key(c)
  BY KeyTyped DEF Release
<1>2. /\ pc[c] \notin Away /\ pc'[c] \in Away
      /\ \A d \in Clients \ {c} : pc'[d] = pc[d] /\ job'[d] = job[d]
  BY DEF Release, Home, Away, TypeInv
<1>3. Held' = Held \ {c} /\ c \in Held
  BY <1>2 DEF Held
<1>4. Holding(k)' = Holding(k) \ {c} /\ c \in Holding(k)
  BY <1>1, <1>2 DEF Holding, Key, Away
<1>5. ASSUME NEW l \in Keys, l # k PROVE Holding(l)' = Holding(l)
  BY <1>1, <1>2, <1>5 DEF Holding, Key, Away
<1>6. IsFiniteSet(Held') /\ Cardinality(Held') = Cardinality(Held) - 1
  BY <1>3, FS_RemoveElement DEF SlotInv
<1>7. Cardinality(Holding(k)') = Cardinality(Holding(k)) - 1
  BY <1>4, HoldingFinite, FS_RemoveElement
<1>8. slots.active[k] # 0 /\ slots.total # 0
  <2>1. Holding(k) # {} /\ Held # {}
    BY <1>3, <1>4
  <2>2. Cardinality(Holding(k)) # 0 /\ Cardinality(Held) # 0
    BY <2>1, HoldingFinite, FS_EmptySet DEF SlotInv
  <2> QED BY <2>2 DEF SlotInv
<1>9. /\ slots'.active = [slots.active EXCEPT ![k] = @ - 1] /\ slots'.total = slots.total - 1
      /\ slots' \in [active : [Keys -> Nat], total : Nat]
  BY <1>1, <1>8 DEF Release, SlotInv
<1>10. slots'.total = Cardinality(Held') /\ slots'.total <= SlotLimit
  BY <1>6, <1>9, LimitAssumption DEF SlotInv
<1>11. ASSUME NEW l \in Keys
       PROVE  slots'.active[l] = Cardinality(Holding(l)') /\ slots'.active[l] <= SlotsPerKey
  BY <1>5, <1>7, <1>9, LimitAssumption DEF SlotInv
<1> QED BY <1>6, <1>9, <1>10, <1>11 DEF SlotInv

(* A call that has a slot goes on and keeps it. *)
Keeps(c) == pc[c] \notin Away /\ pc'[c] \notin Away /\ Others(c) /\ UNCHANGED <<job, slots>>

LEMMA SlotSteps ==
  ASSUME TypeInv, NEW c \in Clients, RegistryStep(c) \/ UseStep(c) \/ HealthStep(c) \/ DatabaseFails(c)
  PROVE  Keeps(c)
<1>1. ASSUME NEW to, to \notin Away, pc' = [pc EXCEPT ![c] = to], pc[c] \notin Away,
             UNCHANGED <<job, slots>>
      PROVE  Keeps(c)
  BY <1>1 DEF Keeps, Others, TypeInv
<1>2. ASSUME NEW what, End(c, what), pc[c] \notin Away, UNCHANGED <<job, slots>> PROVE Keeps(c)
  BY <1>1, <1>2 DEF End, Away
<1>3. ASSUME NEW what, ToRecord(c, what), pc[c] \notin Away, UNCHANGED <<job, slots>> PROVE Keeps(c)
  BY <1>1, <1>3 DEF ToRecord, Away
<1> USE DEF local, Away
<1>4. CASE RegistryStep(c)
  BY <1>1, <1>2, <1>4 DEF RegistryStep, Validate, RegisterTaken, Register, RevokeUnknown, Revoke,
                          LookStatus, Locks
<1>5. CASE UseStep(c)
  <2>1. CASE Authorize(c) \/ Deny(c) \/ BadArguments(c) \/ RecordDenial(c) \/ RecordUse(c)
    BY <1>1, <1>2, <2>1 DEF Authorize, Deny, BadArguments, RecordDenial, RecordUse, Locks
  <2>2. CASE Prepare(c) \/ Fence(c) \/ FenceRevoked(c) \/ UpstreamAnswers(c)
    BY <1>1, <1>3, <2>2 DEF Prepare, Fence, FenceRevoked, UpstreamAnswers, Locks
  <2> QED BY <1>5, <2>1, <2>2 DEF UseStep
<1>6. CASE HealthStep(c)
  BY <1>1, <1>2, <1>6 DEF HealthStep, LookHealth, HealthCheckRow, HealthWrite, Locks
<1>7. CASE DatabaseFails(c)
  BY <1>2, <1>3, <1>7 DEF DatabaseFails
<1> QED BY <1>4, <1>5, <1>6, <1>7

LEMMA NextSlotInv == TypeInv /\ SlotInv /\ [Next]_vars => SlotInv'
<1> SUFFICES ASSUME TypeInv, SlotInv, [Next]_vars PROVE SlotInv'
  OBVIOUS
<1>1. CASE UNCHANGED vars
  BY <1>1, SameHolders DEF vars, local
<1>2. CASE Crash
  <2>1. Held' = {} /\ \A k \in Keys : Holding(k)' = {}
    BY <1>2 DEF Crash, Held, Away, Holding
  <2>2. slots' \in [active : [Keys -> Nat], total : Nat]
    BY <1>2 DEF Crash, NoSlots
  <2>3. IsFiniteSet({}) /\ Cardinality({}) = 0
    BY FS_EmptySet
  <2>4. slots'.total = 0 /\ \A k \in Keys : slots'.active[k] = 0
    BY <1>2 DEF Crash, NoSlots
  <2>5. 0 <= SlotLimit /\ 0 <= SlotsPerKey
    BY LimitAssumption
  <2> QED BY <2>1, <2>2, <2>3, <2>4, <2>5 DEF SlotInv
<1>3. ASSUME NEW c \in Clients, Call(c) \/ Refused(c) PROVE SlotInv'
  <2>1. slots' = slots /\ pc[c] \in Away /\ pc'[c] \in Away
        /\ \A d \in Clients \ {c} : pc'[d] = pc[d] /\ job'[d] = job[d]
    BY <1>3 DEF Call, Refused, Home, Away, TypeInv
  <2> QED BY <2>1, SameHolders
<1>4. ASSUME NEW c \in Clients, Keeps(c) PROVE SlotInv'
  BY <1>4, SameHolders DEF Keeps, Others
<1> QED BY <1>1, <1>2, <1>3, <1>4, AdmitSlot, ReleaseSlot, SlotSteps DEF Next, Serve

(* SlotsMatchCalls: on every way out of a call its slot is given back once, *)
(* so the limiter counts the calls under way, by key and in total, and     *)
(* stays in its bounds (try_acquire, release, the finally clauses).        *)
THEOREM SlotsAlwaysMatch == Spec => []SlotsMatchCalls
<1>1. SlotInv => SlotsMatchCalls
  BY DEF SlotInv, SlotsMatchCalls, Held, Away
<1> QED BY <1>1, InitSlotInv, NextSlotInv, TypeInvariant, PTL DEF Spec

(* TypeOK: every reachable state is well typed, the audit rows and the      *)
(* limiter's counters included.                                            *)
THEOREM RegistryTyped == Spec => []TypeOK
<1>1. AuditInv /\ SlotInv => TypeOK
  <2> SUFFICES ASSUME AuditInv, SlotInv PROVE TypeOK
    OBVIOUS
  <2>1. audit \in [1..MaxCalls -> Seq(Outcomes)]
    <3>1. <<>> \in Seq(Outcomes) /\ \A o \in Outcomes : <<o>> \in Seq(Outcomes)
      OBVIOUS
    <3>2. ASSUME NEW n \in 1..MaxCalls PROVE audit[n] \in Seq(Outcomes)
      <4>1. audit[n] = <<>> \/ \E o \in Outcomes : audit[n] = <<o>>
        BY DEF AuditInv, Rows, RowOk
      <4> QED BY <3>1, <4>1
    <3> QED BY <3>2 DEF AuditInv, BookTypes, IsTable
  <2> QED BY <2>1 DEF AuditInv, TypeInv, BookTypes, SlotInv, TypeOK
<1>2. TypeInv /\ SlotInv /\ [Next]_vars => SlotInv'
  BY NextSlotInv
<1> QED BY <1>1, <1>2, InitAuditInv, NextAuditInv, InitSlotInv, TypeInvariant, PTL DEF Spec
=============================================================================
