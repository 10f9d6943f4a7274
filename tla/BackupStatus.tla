---------------------------- MODULE BackupStatus ----------------------------
(***************************************************************************)
(* backup_ops.BackupOperationsMonitor, which a hosted server asks at       *)
(* /readyz and /metrics whether its backups are in order.  Each time it    *)
(* makes four calls to the key custody and to the backup store, one after  *)
(* the other, while these change.  It keeps nothing from one time to the   *)
(* next, and a server answers one such request at a time, since the        *)
(* handler does not await: one check stands for all.                       *)
(***************************************************************************)
EXTENDS Clock, Integers, Sequences

CONSTANTS Interval, MaxAge, Rpo,  \* BackupOperationsConfig
          Retention,              \* how long the store keeps a backup
          MaxVersion,             \* bound: key versions
          MaxBackups,             \* bound: backups taken
          MaxFaults,              \* bound: rotations, outages, failed calls, damages
          StatusTime              \* bound: where the clock stops here

ASSUME StatusAssumption ==
    {Interval, MaxAge, Rpo, Retention} \subseteq Nat \ {0} /\ MaxAge <= Rpo

VARIABLES wired,      \* whether the deployment supplied adapters
          custody,    \* the key custody: up, active and accepted versions
          store,      \* the backup store: ready, guarded against overwriting and deletion
          objects,    \* the backups in the order they were stored
          check,      \* the request being answered
          witnessed,  \* history: what was so at some time of the check, and calm at all times
          faults

worldVars == <<wired, custody, store, objects, faults>>
statusVars == <<worldVars, check, witnessed>>

Purposes == {"backup", "recovery"}

AtRest == [pc |-> "idle", at |-> 0, alerts |-> {}, accepted |-> {}, candidate |-> 0]

------------------------------------------------------------------------------
(* The world: in order, rotating, down. *)

SoundAt(stored) == {i \in DOMAIN stored : stored[i].state = "sound"}
Listed(stored) == {i \in DOMAIN stored : stored[i].state # "gone"}

ActiveAccepted(keys) == \A p \in Purposes : <<p, keys.active[p]>> \in keys.accepted

VersionsAccepted(backup, accepted) == \A p \in Purposes : <<p, backup.keys[p]>> \in accepted

TimelyAt(backup, at) ==
    /\ backup.created <= at
    /\ at - backup.created <= MaxAge /\ at - backup.created <= Interval
    /\ backup.until > at

(* A check that begins at `at` has nothing to complain of. *)
InOrder(at) ==
    /\ custody.up /\ ActiveAccepted(custody)
    /\ store.ready /\ store.guarded
    /\ \E n \in SoundAt(objects) :
        /\ \A i \in Listed(objects) : i <= n
        /\ TimelyAt(objects[n], at) /\ VersionsAccepted(objects[n], custody.accepted)

Witness ==
    witnessed' = [pairs |-> witnessed.pairs \cup custody'.accepted,
                  sound |-> witnessed.sound \cup SoundAt(objects'),
                  calm  |-> witnessed.calm /\ InOrder(check.at)']

Changed ==
    /\ faults < MaxFaults /\ faults' = faults + 1
    /\ UNCHANGED <<now, wired, check>>
    /\ Witness

TakeBackup ==
    /\ Len(objects) < MaxBackups /\ custody.up /\ store.ready
    /\ objects' = Append(objects, [created |-> now, until |-> now + Retention,
                                   keys |-> custody.active, state |-> "sound"])
    /\ witnessed' = [witnessed EXCEPT !.sound = @ \cup {Len(objects')}, !.calm = FALSE]
    /\ UNCHANGED <<now, wired, custody, store, faults, check>>

\* Its object is missing, altered or no longer protected.
Damage(i) ==
    /\ objects[i].state = "sound"
    /\ objects' = [objects EXCEPT ![i].state = "damaged"]
    /\ UNCHANGED <<custody, store>> /\ Changed

Drop(i) ==
    /\ objects[i].state # "gone" /\ objects[i].until <= now
    /\ objects' = [objects EXCEPT ![i].state = "gone"]
    /\ witnessed' = [witnessed EXCEPT !.calm = FALSE]
    /\ UNCHANGED <<now, wired, custody, store, faults, check>>

RotateKey(p) ==
    /\ custody.active[p] < MaxVersion
    /\ custody' = [custody EXCEPT !.active[p] = @ + 1,
                                  !.accepted = @ \cup {<<p, custody.active[p] + 1>>}]
    /\ UNCHANGED <<store, objects>> /\ Changed

Retire(pair) ==
    /\ custody' = [custody EXCEPT !.accepted = @ \ {pair}]
    /\ UNCHANGED <<store, objects>> /\ Changed

\* Not ready, not hosted, or another adapter than configured.
CustodyChanges ==
    /\ custody' = [custody EXCEPT !.up = ~@]
    /\ UNCHANGED <<store, objects>> /\ Changed

StoreChanges ==
    /\ store' \in {[store EXCEPT !.ready = ~@], [store EXCEPT !.guarded = ~@]}
    /\ UNCHANGED <<custody, objects>> /\ Changed

PassTime == now < StatusTime /\ Pass /\ UNCHANGED statusVars

------------------------------------------------------------------------------
(* The check. *)

Goes(to, alerts) == check' = [check EXCEPT !.pc = to, !.alerts = @ \cup alerts]

Alert(name, raised) == IF raised THEN {name} ELSE {}

\* Without adapters there is no monitor, and the server is not ready.
Begin ==
    /\ check.pc \in {"idle", "told"}
    /\ check' = [AtRest EXCEPT !.pc = IF wired THEN "keys" ELSE "told", !.at = now,
                               !.alerts = Alert("not configured", ~wired)]
    /\ witnessed' = [pairs |-> custody.accepted, sound |-> SoundAt(objects), calm |-> InOrder(now)]
    /\ UNCHANGED <<now, worldVars>>

KeyStatus ==
    /\ check.pc = "keys"
    /\ check' = [check EXCEPT !.pc = "store", !.accepted = custody.accepted,
                              !.alerts = Alert("custody", ~custody.up)
                                    \cup Alert("rotation", ~ActiveAccepted(custody))]
    /\ UNCHANGED <<now, worldVars, witnessed>>

StoreStatus ==
    /\ check.pc = "store"
    /\ Goes(IF store.ready THEN "latest" ELSE "tell",
            Alert("store", ~store.ready \/ ~store.guarded))
    /\ UNCHANGED <<now, worldVars, witnessed>>

Latest ==
    /\ check.pc = "latest"
    /\ IF Listed(objects) = {}
         THEN Goes("tell", {"missing"})
         ELSE \E n \in Listed(objects) :
                /\ \A i \in Listed(objects) : i <= n
                /\ check' = [check EXCEPT !.pc = "inspect", !.candidate = n]
    /\ UNCHANGED <<now, worldVars, witnessed>>

AgeAlerts(backup) ==
    LET age == check.at - backup.created
    IN  Alert("timestamp", age < 0)
          \cup Alert("stale", age > MaxAge) \cup Alert("rpo", age > Rpo)
          \cup Alert("due", age > Interval)
          \cup Alert("retention", backup.until <= check.at)

\* A store that answers with the result of the upload.
InspectCached ==
    /\ check.pc = "inspect"
    /\ LET backup == objects[check.candidate]
       IN  Goes("tell", AgeAlerts(backup)
                            \cup Alert("versions", ~VersionsAccepted(backup, check.accepted)))
    /\ UNCHANGED <<now, worldVars, witnessed>>

Inspect ==
    /\ check.pc = "inspect"
    /\ LET backup == objects[check.candidate]
       IN  Goes("tell",
                IF backup.state # "sound" THEN {"integrity"}
                ELSE AgeAlerts(backup)
                       \cup Alert("versions", ~VersionsAccepted(backup, check.accepted)))
    /\ UNCHANGED <<now, worldVars, witnessed>>

\* A call to an adapter raises, or its answer has not the expected shape.
AdapterFails ==
    /\ \/ check.pc = "keys" /\ Goes("store", {"custody"})
       \/ check.pc = "store" /\ Goes("tell", {"store"})
       \/ check.pc \in {"latest", "inspect"} /\ Goes("tell", {"store check failed"})
    /\ faults < MaxFaults /\ faults' = faults + 1
    /\ witnessed' = [witnessed EXCEPT !.calm = FALSE]
    /\ UNCHANGED <<now, wired, custody, store, objects>>

Tell ==
    /\ check.pc = "tell"
    /\ check' = [check EXCEPT !.pc = "told", !.accepted = {}]
    /\ UNCHANGED <<now, worldVars, witnessed>>

StatusInit ==
    /\ wired \in BOOLEAN
    /\ custody = [up |-> TRUE, active |-> [p \in Purposes |-> 1], accepted |-> Purposes \X {1}]
    /\ store = [ready |-> TRUE, guarded |-> TRUE]
    /\ objects = <<>>
    /\ check = AtRest
    /\ witnessed = [pairs |-> {}, sound |-> {}, calm |-> FALSE]
    /\ faults = 0

\* Where nobody asks the adapters, they need not change.
WorldNext ==
    \/ TakeBackup \/ CustodyChanges \/ StoreChanges
    \/ \E i \in DOMAIN objects : Damage(i) \/ Drop(i)
    \/ \E p \in Purposes : RotateKey(p)
    \/ \E pair \in custody.accepted : Retire(pair)

StatusNext ==
    \/ PassTime \/ (wired /\ WorldNext)
    \/ Begin \/ KeyStatus \/ StoreStatus \/ Latest \/ Inspect \/ AdapterFails \/ Tell

------------------------------------------------------------------------------
RecoverableWhenTold ==
    check.alerts = {} =>
        /\ check.candidate \in witnessed.sound
        /\ TimelyAt(objects[check.candidate], check.at)
        /\ VersionsAccepted(objects[check.candidate], witnessed.pairs)

\* A server that says its backups are in order names a backup, and this one
\* was intact at some time of the check, was young enough when it began, and
\* was made under keys each of which the custody accepted at some time of it,
\* whatever changed between the monitor's calls.  (What changes after it was
\* asked for is not told.)  It does say so if all was in order throughout, each
\* call was answered and no backup came or went
\* (BackupOperationsMonitor.status).
StatusTold ==
    check.pc = "told" =>
        RecoverableWhenTold /\ (wired /\ witnessed.calm => check.alerts = {})
=============================================================================
