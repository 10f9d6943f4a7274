------------------------------ MODULE ExternalMcp ------------------------------
(***************************************************************************)
(* The registry of external MCP connections (FolioService's tables         *)
(* external_mcp_connections and external_mcp_audit) and the broker that    *)
(* uses them on behalf of callers.  One server process serves the clients  *)
(* with a thread each; its concurrency slots are in memory and the rest is *)
(* in the database.                                                        *)
(*                                                                         *)
(* A call of the broker takes a slot, works, and gives the slot back.  A   *)
(* tool call or resource read is authorized, prepared (policy check and    *)
(* credential), and then made inside the call fence: a transaction that    *)
(* holds the database's write lock while the upstream is contacted.  Its   *)
(* audit row is written after the fence, in a transaction of its own.      *)
(*                                                                         *)
(* `sent` is what reached an upstream; no code keeps it.                   *)
(***************************************************************************)
EXTENDS Integers, Sequences, FiniteSets

CONSTANTS
  Tenants, Conns, Names,  \* connection ids and names
  Items,                  \* texts that name a tool or a resource of the upstream
  Clients, None,
  Ops,                    \* the kinds of calls the clients make
  SlotLimit, SlotsPerKey, \* bounds of the concurrency limiter
  MaxCalls                \* bound on the calls made in a behaviour

ASSUME NoneAssumption == None \notin Clients \cup Tenants
ASSUME LimitAssumption == SlotLimit \in Nat \ {0} /\ SlotsPerKey \in Nat \ {0}
ASSUME CallsAssumption == MaxCalls \in Nat
ASSUME OpsAssumption == Ops \subseteq {"register", "revoke", "status", "health", "tool", "resource"}

VARIABLES
  conns,    \* rows of external_mcp_connections
  audit,    \* call number -> outcomes of its rows in external_mcp_audit
  lock,     \* the client whose transaction holds the write lock
  slots,    \* _active (with 0 for an absent key) and _total of the concurrency limiter
  calls,    \* calls made so far
  pc, job,  \* where each client is, and its call
  verdict,  \* what the call is about to record
  reply,    \* the result the caller is about to get
  sent      \* calls that reached the upstream

local == <<job, verdict>>
vars  == <<conns, audit, lock, slots, calls, pc, local, reply, sent>>

------------------------------------------------------------------------------
Uses == {"tool", "resource"}

(* The columns approved_tools and approved_resources. *)
Approvals == Uses \X Items

(* A registration is for a name, every other call for a connection id.     *)
Request ==
       [op: {"register"}, tenant: Tenants, target: Names, items: SUBSET Approvals \ {{}}]
  \cup [op: {"revoke", "status", "health"}, tenant: Tenants, target: Conns, items: {{}}]
  \cup UNION {[op: {u}, tenant: Tenants, target: Conns, items: {{<<u, i>>} : i \in Items}] :
                u \in Uses}

Job == [call: Nat, req: Request]
NoJob == [call |-> 0, req |-> [op |-> "none"]]

Connection == [tenant: Tenants \cup {None}, name: Names \cup {None}, items: SUBSET Approvals,
               status: {"none", "active", "revoked"},
               health: {"unknown", "healthy", "unhealthy"}]
NoConnection == [tenant |-> None, name |-> None, items |-> {}, status |-> "none",
                 health |-> "unknown"]

Keys == {<<r.tenant, r.target, r.op>> : r \in Request}

NoSlots == [active |-> [k \in Keys |-> 0], total |-> 0]

PCs == {"idle", "admit", "validate", "begin", "look", "deny", "prepare", "fence",
        "upstream", "record", "hcheck", "hwrite", "release"}
UseOutcomes == {"allowed", "denied", "failed"}
HealthVerdicts == {"healthy", "unhealthy", "broken"}
Outcomes == UseOutcomes \cup {"registered", "revoked", "already_revoked", "healthy", "unhealthy"}

Op(c) == job[c].req.op
Target(c) == job[c].req.target
Key(c) == <<job[c].req.tenant, job[c].req.target, job[c].req.op>>

(* _external_row: the id must exist in the caller's tenant. *)
Found(c) ==
  conns[Target(c)].status # "none" /\ conns[Target(c)].tenant = job[c].req.tenant

Active(c) == Found(c) /\ conns[Target(c)].status = "active"

ApprovedAsEither(c) ==  \* mutant: the lists of tools and of resources are looked up as one
  \A a \in job[c].req.items : \E u \in Uses : <<u, a[2]>> \in conns[Target(c)].items

Approved(c) == job[c].req.items \subseteq conns[Target(c)].items

Init ==
  /\ conns = [k \in Conns |-> NoConnection]
  /\ audit = [n \in 1..MaxCalls |-> <<>>]
  /\ lock = None
  /\ slots = NoSlots
  /\ calls = 0
  /\ pc = [c \in Clients |-> "idle"]
  /\ job = [c \in Clients |-> NoJob]
  /\ verdict = [c \in Clients |-> "none"]
  /\ reply = [c \in Clients |-> "none"]
  /\ sent = {}

------------------------------------------------------------------------------
(* Admission and the return to the caller. *)

(* The bounds: calls are numbered up to MaxCalls, and a registration under *)
(* way reserves the id (a random uuid) that it may take.                   *)
Fits(r) ==
  /\ r.op \in Ops /\ calls < MaxCalls
  /\ r.op = "register" =>
       Cardinality({k \in Conns : conns[k].status # "none"})
         + Cardinality({c \in Clients : job[c].req.op = "register"}) < Cardinality(Conns)

Call(c) ==
  /\ pc[c] = "idle"
  /\ calls' = calls + 1
  /\ \E r \in {q \in Request : Fits(q)} :
       job' = [job EXCEPT ![c] = [call |-> calls + 1, req |-> r]]
  /\ pc' = [pc EXCEPT ![c] = "admit"]
  /\ UNCHANGED <<conns, audit, lock, slots, verdict, reply, sent>>

Home(c) ==
  /\ pc' = [pc EXCEPT ![c] = "idle"]
  /\ job' = [job EXCEPT ![c] = NoJob]
  /\ verdict' = [verdict EXCEPT ![c] = "none"]
  /\ reply' = [reply EXCEPT ![c] = "none"]

SlotFree(c) == slots.total < SlotLimit /\ slots.active[Key(c)] < SlotsPerKey

(* Refused by the rate limiter, at any time, or for want of a slot. *)
Refused(c) == pc[c] = "admit" /\ Home(c) /\ UNCHANGED <<conns, audit, lock, slots, calls, sent>>

(* try_acquire *)
Admit(c) ==
  /\ pc[c] = "admit" /\ SlotFree(c)
  /\ slots' = [active |-> [slots.active EXCEPT ![Key(c)] = @ + 1], total |-> slots.total + 1]
  /\ pc' = [pc EXCEPT ![c] = CASE Op(c) = "register" -> "validate"
                               [] Op(c) = "revoke"   -> "begin"
                               [] OTHER              -> "look"]
  /\ UNCHANGED <<conns, audit, lock, calls, local, reply, sent>>

End(c, what) ==
  /\ pc' = [pc EXCEPT ![c] = "release"]
  /\ reply' = [reply EXCEPT ![c] = what]

ReleaseWholeKey(c) ==  \* mutant: the key is dropped whatever its count
  /\ pc[c] = "release"
  /\ slots' = [active |-> [slots.active EXCEPT ![Key(c)] = 0], total |-> slots.total - 1]
  /\ Home(c)
  /\ UNCHANGED <<conns, audit, lock, calls, sent>>

(* The slot is given back in a finally clause, on every way out; the        *)
(* limiter ignores a key that has none.                                    *)
Release(c) ==
  /\ pc[c] = "release"
  /\ slots' = IF slots.active[Key(c)] = 0 THEN slots
                ELSE [active |-> [slots.active EXCEPT ![Key(c)] = @ - 1],
                      total |-> slots.total - 1]
  /\ Home(c)
  /\ UNCHANGED <<conns, audit, lock, calls, sent>>

(* A transaction that finds the write lock free. *)
Locks(c, where) == pc[c] = where /\ lock = None

(* One row of external_mcp_audit. *)
Record(c, outcome) == audit' = [audit EXCEPT ![job[c].call] = Append(@, outcome)]

------------------------------------------------------------------------------
(* Registration and revocation: one transaction each, with its audit row.  *)

(* validate_registration resolves the endpoint before anything is written. *)
Validate(c) ==
  /\ pc[c] = "validate"
  /\ \/ pc' = [pc EXCEPT ![c] = "begin"] /\ UNCHANGED reply
     \/ End(c, "error")
  /\ UNCHANGED <<conns, audit, lock, slots, calls, local, sent>>

NameTaken(c) ==
  \E k \in Conns : conns[k].tenant = job[c].req.tenant /\ conns[k].name = Target(c)

RegisterTaken(c) ==
  /\ Locks(c, "begin") /\ Op(c) = "register" /\ NameTaken(c)
  /\ End(c, "error")
  /\ UNCHANGED <<conns, audit, lock, slots, calls, local, sent>>

(* A name is never given twice, not even after its connection was revoked. *)
Register(c) ==
  /\ Locks(c, "begin") /\ Op(c) = "register" /\ ~NameTaken(c)
  /\ \E k \in Conns :
       /\ conns[k].status = "none"
       /\ conns' = [conns EXCEPT ![k] =
            [tenant |-> job[c].req.tenant, name |-> Target(c), items |-> job[c].req.items,
             status |-> "active", health |-> "unknown"]]
  /\ Record(c, "registered")
  /\ End(c, "ok")
  /\ UNCHANGED <<lock, slots, calls, local, sent>>

RevokeUnknown(c) ==
  /\ Locks(c, "begin") /\ Op(c) = "revoke" /\ ~Found(c)
  /\ End(c, "error")
  /\ UNCHANGED <<conns, audit, lock, slots, calls, local, sent>>

RevokeUnfenced(c) ==  \* mutant: the revocation does not take the write lock
  /\ pc[c] = "begin" /\ Op(c) = "revoke" /\ Found(c)
  /\ conns' = [conns EXCEPT ![Target(c)].status = "revoked"]
  /\ Record(c, IF Active(c) THEN "revoked" ELSE "already_revoked")
  /\ End(c, "ok")
  /\ UNCHANGED <<lock, slots, calls, local, sent>>

Revoke(c) ==
  /\ Locks(c, "begin") /\ Op(c) = "revoke" /\ Found(c)
  /\ conns' = [conns EXCEPT ![Target(c)].status = "revoked"]
  /\ Record(c, IF Active(c) THEN "revoked" ELSE "already_revoked")
  /\ End(c, "ok")
  /\ UNCHANGED <<lock, slots, calls, local, sent>>

------------------------------------------------------------------------------
(* Status and health calls begin with a query, outside any transaction.    *)

LookStatus(c) ==
  /\ pc[c] = "look" /\ Op(c) = "status"
  /\ End(c, IF Found(c) THEN "ok" ELSE "error")
  /\ UNCHANGED <<conns, audit, lock, slots, calls, local, sent>>

(* health: without a probe the stored row is the answer. *)
LookHealth(c) ==
  /\ pc[c] = "look" /\ Op(c) = "health"
  /\ \/ Active(c) /\ pc' = [pc EXCEPT ![c] = "prepare"] /\ UNCHANGED reply
     \/ Found(c) /\ End(c, "ok")
     \/ ~Active(c) /\ End(c, "error")
  /\ UNCHANGED <<conns, audit, lock, slots, calls, local, sent>>

(* authorize_external_tool, authorize_external_resource *)
Authorize(c) ==
  /\ pc[c] = "look" /\ Op(c) \in Uses
  /\ Active(c) /\ Approved(c)
  /\ pc' = [pc EXCEPT ![c] = "prepare"]
  /\ UNCHANGED <<conns, audit, lock, slots, calls, local, reply, sent>>

(* Anything else is denied; an unsafe resource URI is denied in any case.  *)
Deny(c) ==
  /\ pc[c] = "look" /\ Op(c) \in Uses
  /\ ~(Active(c) /\ Approved(c)) \/ Op(c) = "resource"
  /\ pc' = [pc EXCEPT ![c] = "deny"]
  /\ UNCHANGED <<conns, audit, lock, slots, calls, local, reply, sent>>

(* Arguments that cannot be encoded are refused and leave no audit row.    *)
BadArguments(c) ==
  /\ pc[c] = "look" /\ Op(c) = "tool" /\ Active(c) /\ Approved(c)
  /\ End(c, "error")
  /\ UNCHANGED <<conns, audit, lock, slots, calls, local, sent>>

(* A tenant without rows of its own gets no denial row. *)
RecordDenial(c) ==
  /\ Locks(c, "deny")
  /\ \/ Record(c, "denied")
     \/ (\A k \in Conns : conns[k].tenant # job[c].req.tenant) /\ UNCHANGED audit
  /\ End(c, "error")
  /\ UNCHANGED <<conns, lock, slots, calls, local, sent>>

------------------------------------------------------------------------------
(* The use of a connection: preparation, fence, upstream, audit. *)

(* Where a call goes once its outcome is known. *)
ToRecord(c, outcome) ==
  /\ verdict' = [verdict EXCEPT ![c] = outcome]
  /\ pc' = [pc EXCEPT ![c] = IF Op(c) = "health" THEN "hcheck" ELSE "record"]

Failure(c) == IF Op(c) = "health" THEN "broken" ELSE "failed"

(* The adapter's policy check of a tool call, then the credential. *)
Prepare(c) ==
  /\ pc[c] = "prepare"
  /\ \/ pc' = [pc EXCEPT ![c] = "fence"] /\ UNCHANGED verdict
     \/ Op(c) = "tool" /\ ToRecord(c, "denied")
     \/ ToRecord(c, Failure(c))
  /\ UNCHANGED <<conns, audit, lock, slots, calls, job, reply, sent>>

(* external_call_fence: the write lock, and the status read again. *)
Fence(c) ==
  /\ Locks(c, "fence") /\ Active(c)
  /\ lock' = c
  /\ pc' = [pc EXCEPT ![c] = "upstream"]
  /\ sent' = sent \cup {job[c]}
  /\ UNCHANGED <<conns, audit, slots, calls, local, reply>>

FenceRevoked(c) ==
  /\ Locks(c, "fence") /\ ~Active(c)
  /\ ToRecord(c, Failure(c))
  /\ UNCHANGED <<conns, audit, lock, slots, calls, job, reply, sent>>

(* The upstream answers, or the bounded transport gives up; the result is  *)
(* checked before the fence is left.                                       *)
UpstreamAnswers(c) ==
  /\ pc[c] = "upstream"
  /\ \E outcome \in IF Op(c) = "health" THEN HealthVerdicts ELSE {"allowed", "failed"} :
       ToRecord(c, outcome)
  /\ lock' = None
  /\ UNCHANGED <<conns, audit, slots, calls, job, reply, sent>>

(* record_external_call: only now is an allowed use answered. *)
RecordUse(c) ==
  /\ Locks(c, "record")
  /\ Record(c, verdict[c])
  /\ End(c, IF verdict[c] = "allowed" THEN "ok" ELSE "error")
  /\ UNCHANGED <<conns, lock, slots, calls, local, sent>>

(* record_external_health: a query and then, in another transaction, the   *)
(* update, so a revocation can come between them.                          *)
HealthCheckRow(c) ==
  /\ pc[c] = "hcheck"
  /\ IF Active(c) THEN pc' = [pc EXCEPT ![c] = "hwrite"] /\ UNCHANGED reply
                  ELSE End(c, "error")
  /\ UNCHANGED <<conns, audit, lock, slots, calls, local, sent>>

HealthWriteRow(c) ==  \* mutant: the whole row is written back as it was read
  /\ Locks(c, "hwrite")
  /\ conns' = [conns EXCEPT ![Target(c)].status = "active", ![Target(c)].health = "healthy"]
  /\ Record(c, "healthy")
  /\ End(c, "ok")
  /\ UNCHANGED <<lock, slots, calls, local, sent>>

HealthWrite(c) ==
  LET health == IF verdict[c] = "healthy" THEN "healthy" ELSE "unhealthy" IN
  /\ Locks(c, "hwrite")
  /\ conns' = [conns EXCEPT ![Target(c)].health = health]
  /\ Record(c, health)
  /\ End(c, IF verdict[c] = "broken" THEN "error" ELSE "ok")
  /\ UNCHANGED <<lock, slots, calls, local, sent>>

------------------------------------------------------------------------------
(* Failures of the database and of the process. *)

FailuresIgnored(c) ==  \* mutant: a use is answered although its row was not written
  /\ pc[c] = "record"
  /\ End(c, IF verdict[c] = "allowed" THEN "ok" ELSE "error")
  /\ UNCHANGED <<conns, audit, lock, slots, calls, local, sent>>

(* A transaction that cannot begin (the write lock was held by others for  *)
(* 35 seconds) or commit: before the upstream call the call fails with a   *)
(* record, afterwards and in a registration or revocation with none.       *)
DatabaseFails(c) ==
  \/ /\ pc[c] = "fence"
     /\ ToRecord(c, Failure(c))
     /\ UNCHANGED <<conns, audit, lock, slots, calls, job, reply, sent>>
  \/ /\ pc[c] \in {"begin", "deny", "record", "hcheck", "hwrite"}
     /\ End(c, "error")
     /\ UNCHANGED <<conns, audit, lock, slots, calls, local, sent>>

(* The process dies: slots and transactions are gone, the database stays.  *)
Crash ==
  /\ \E c \in Clients : pc[c] # "idle"
  /\ pc' = [c \in Clients |-> "idle"]
  /\ job' = [c \in Clients |-> NoJob]
  /\ verdict' = [c \in Clients |-> "none"]
  /\ reply' = [c \in Clients |-> "none"]
  /\ lock' = None
  /\ slots' = NoSlots
  /\ UNCHANGED <<conns, audit, calls, sent>>

------------------------------------------------------------------------------
RegistryStep(c) ==
  \/ Validate(c) \/ RegisterTaken(c) \/ Register(c) \/ RevokeUnknown(c) \/ Revoke(c)
  \/ LookStatus(c)

UseStep(c) ==
  \/ Authorize(c) \/ Deny(c) \/ BadArguments(c) \/ RecordDenial(c)
  \/ Prepare(c) \/ Fence(c) \/ FenceRevoked(c) \/ UpstreamAnswers(c) \/ RecordUse(c)

HealthStep(c) == LookHealth(c) \/ HealthCheckRow(c) \/ HealthWrite(c)

Serve(c) ==
  \/ Refused(c) \/ Admit(c) \/ Release(c)
  \/ RegistryStep(c) \/ UseStep(c) \/ HealthStep(c) \/ DatabaseFails(c)

Next ==
  \/ \E c \in Clients : Call(c) \/ Serve(c)
  \/ Crash

Spec == Init /\ [][Next]_vars

------------------------------------------------------------------------------
(* Properties. *)

TypeOK ==
  /\ conns \in [Conns -> Connection]
  /\ audit \in [1..MaxCalls -> Seq(Outcomes)]
  /\ lock \in Clients \cup {None}
  /\ slots \in [active: [Keys -> Nat], total: Nat]
  /\ calls \in 0..MaxCalls
  /\ pc \in [Clients -> PCs]
  /\ job \in [Clients -> Job \cup {NoJob}]
  /\ verdict \in [Clients -> UseOutcomes \cup HealthVerdicts \cup {"none"}]
  /\ reply \in [Clients -> {"none", "ok", "error"}]
  /\ sent \subseteq Job

(* The registry implements the gate: a revocation waits for the call that  *)
(* is with the upstream, and after it no call gets there                   *)
(* (external_call_fence, revoke_external_connection).                      *)
RegistryGate == INSTANCE ConnectionGate WITH
  Users  <- Clients,
  status <- [k \in Conns |-> conns[k].status],
  using  <- {<<c, Target(c)>> : c \in {d \in Clients : pc[d] = "upstream"}}

GateKept == RegistryGate!Gate

(* A revoked connection stays as it was revoked, whatever a health check   *)
(* that began before writes afterwards; a registration never changes.      *)
RevokedForGood ==
  [][\A k \in Conns :
       /\ conns[k].status = "revoked" => conns'[k].status = "revoked"
       /\ conns[k].status # "none" =>
            /\ conns'[k].tenant = conns[k].tenant
            /\ conns'[k].items = conns[k].items]_vars

(* Every call that reached an upstream went through a connection of its    *)
(* tenant that had been registered and, for a use, with an approved item   *)
(* (authorize_external_tool, authorize_external_resource).                 *)
UsesApproved ==
  \A j \in sent :
    /\ conns[j.req.target].tenant = j.req.tenant
    /\ j.req.items \subseteq conns[j.req.target].items

(* The limiter counts exactly the calls under way, by key and in total,    *)
(* and stays in its bounds (try_acquire, release, the finally clauses).    *)
Holding(k) == {c \in Clients : pc[c] \notin {"idle", "admit"} /\ Key(c) = k}

SlotsMatchCalls ==
  /\ \A k \in Keys :
       slots.active[k] = Cardinality(Holding(k)) /\ slots.active[k] <= SlotsPerKey
  /\ slots.total = Cardinality({c \in Clients : pc[c] \notin {"idle", "admit"}})
  /\ slots.total <= SlotLimit

(* A call has at most one audit row and the row is true: an allowed use    *)
(* reached the upstream, a denied one did not.  A caller that gets a       *)
(* result has its row (_record_external_call fails the call otherwise).    *)
AuditTruthful ==
  /\ \A n \in 1..MaxCalls :
       LET reached == \E j \in sent : j.call = n IN
       /\ Len(audit[n]) <= 1
       /\ audit[n] = <<"allowed">> => reached
       /\ audit[n] = <<"denied">> => ~reached
  /\ \A c \in Clients :
       reply[c] = "ok" /\ Op(c) \in Uses => audit[job[c].call] = <<"allowed">>

(* docs/adr/0013: each use is audited. *)
EveryUseAudited ==
  \A j \in sent :
    j.req.op \in Uses =>
      \/ audit[j.call] # <<>>
      \/ \E c \in Clients : job[c] = j /\ pc[c] \in {"upstream", "record"}
==============================================================================
