------------------------------ MODULE AuditTrail ------------------------------
(***************************************************************************)
(* The audit lifecycle of FolioLattice: events are recorded, put under a   *)
(* legal hold, purged when their retention ends, and exported page by page *)
(* with a cursor.                                                          *)
(*                                                                         *)
(* An operation draws its timestamp and builds its own event before its    *)
(* transaction gets SQLite's write lock.  Nothing else happens before the  *)
(* transaction, and the transaction touches nothing but the database, so   *)
(* an operation is one step whose event carries the present or any past    *)
(* time.  One that fails or dies writes nothing and is no step at all.  A  *)
(* page of an export is one SELECT, seeing one state; its own event is     *)
(* written by a transaction after it.                                      *)
(*                                                                         *)
(* An exporter is a caller that follows next_cursor until there is none;   *)
(* a page whose answer was lost is asked for again.                        *)
(***************************************************************************)
EXTENDS Integers, FiniteSets, Sequences

CONSTANTS
  Tenants,
  EventIds,        \* ids of events; an id is drawn at random and never twice
  Exporters,       \* callers of audit_export, each following one chain of pages
  MaxTime,         \* bound on the clock
  Retentions,      \* how long the classes of recorded events are retained, in ticks
  Security,        \* retention of a "security" event, which the lifecycle's own are
  Starts, Ends,    \* the windows exporters ask for: from_time and to_time
  Limits,          \* the `limit` of an export
  Befores,         \* the times operators pass to `audit purge --before`
  MaxTampered      \* bound on the altered rows in the table

ASSUME IdsAssumption == EventIds \subseteq Nat
ASSUME TimesAssumption == {MaxTime, Security, MaxTampered} \cup Retentions \subseteq Nat
ASSUME LimitsAssumption == Limits \subseteq Nat \ {0}

VARIABLES
  clock,     \* the wall clock, in milliseconds of its own
  events,    \* the audit_events table
  used,      \* event ids of the rows ever written
  chain,     \* what each exporter asked for, where its cursor is, what it has got
  page,      \* the page each exporter's request has read
  written, purged,  \* per tenant: events ever committed; events reported purged
  promised,  \* events whose hold was acknowledged to a caller
  tampered   \* rows altered in the database whose hash was left as it was

vars == <<clock, events, used, page, chain, written, purged, promised, tampered>>

------------------------------------------------------------------------------
(* Rows.  integrity_hash is a plain SHA-256 of the other columns: whoever   *)
(* writes the table can compute it.  Of the columns that ever change those *)
(* are the hold and the content that somebody alters.                      *)
Kinds == {"request", "audit_export", "audit_legal_hold", "audit_retention_purge"}
Event == [id: EventIds, at: Nat, tenant: Tenants, kind: Kinds, expires: Nat,
          hold: BOOLEAN, content: {"as recorded", "altered"},
          seal: BOOLEAN \X {"as recorded", "altered"}]

Seal(e) == <<e.hold, e.content>>
Verified(e) == e.seal = Seal(e)

Built(i, t, kind, at, retention) ==
  [id |-> i, at |-> at, tenant |-> t, kind |-> kind, expires |-> at + retention,
   hold |-> FALSE, content |-> "as recorded", seal |-> <<FALSE, "as recorded">>]

Key(e) == <<e.at, e.id>>
NoKey == <<0, 0>>
(* ORDER BY occurred_at ASC, id ASC *)
Beyond(k, l) == k[1] > l[1] \/ (k[1] = l[1] /\ k[2] > l[2])

\* mutant: the tie on occurred_at is not broken by the id
PastCursorTime(k, l) == k[1] > l[1]
\* mutant: the last row of a page is read again
PastCursorOrAt(k, l) == k[1] > l[1] \/ (k[1] = l[1] /\ k[2] >= l[2])
(* "occurred_at > ? OR (occurred_at = ? AND id > ?)" *)
PastCursor(k, l) == k[1] > l[1] \/ (k[1] = l[1] /\ k[2] > l[2])

NoChain == [tenant |-> "none", from |-> 0, upto |-> 0, limit |-> 0, cursor |-> NoKey,
            pages |-> <<>>, base |-> {}, state |-> "none"]
NoPage == [at |-> "idle", keys |-> {}, more |-> FALSE, time |-> 0]

Matches(ch, e) == e.tenant = ch.tenant /\ ch.from <= e.at /\ e.at <= ch.upto
Remaining(ch) == {e \in events : Matches(ch, e) /\ (ch.cursor = NoKey \/ PastCursor(Key(e), ch.cursor))}

(* What a page may hold: the first rows, as many as the limit allows or    *)
(* fewer when the page would exceed AUDIT_MAX_EXPORT_BYTES.                 *)
Prefixes(rows, n) ==
  {p \in SUBSET rows : /\ Cardinality(p) <= n
                       /\ p = {} => rows = {}
                       /\ \A e \in p, f \in rows \ p : Beyond(Key(f), Key(e))}
Last(keys) == CHOOSE k \in keys : \A l \in keys : l = k \/ Beyond(k, l)

------------------------------------------------------------------------------
Init ==
  /\ clock = 1
  /\ events = {} /\ used = {}
  /\ page = [c \in Exporters |-> NoPage]
  /\ chain = [c \in Exporters |-> NoChain]
  /\ written = [t \in Tenants |-> 0] /\ purged = [t \in Tenants |-> 0]
  /\ promised = {} /\ tampered = {}

Tick ==
  /\ clock < MaxTime
  /\ clock' = clock + 1
  /\ UNCHANGED <<events, used, page, chain, written, purged, promised, tampered>>

Write(new) ==
  /\ used' = used \cup {e.id : e \in new}
  /\ written' = [t \in Tenants |-> written[t] + Cardinality({e \in new : e.tenant = t})]

(* record_audit_event: timestamp and id, then BEGIN IMMEDIATE and the row. *)
Record ==
  /\ \E i \in EventIds \ used, t \in Tenants, at \in 1..clock, retention \in Retentions :
       LET e == Built(i, t, "request", at, retention)
       IN events' = events \cup {e} /\ Write({e})
  /\ UNCHANGED <<clock, page, chain, purged, promised, tampered>>

\* mutant: the row is held without a new integrity hash
HeldUnsealed(e) == [e EXCEPT !.hold = TRUE]
Held(e) == [e EXCEPT !.hold = TRUE, !.seal = <<TRUE, e.content>>]

Named(t, ids) == {e \in events : e.tenant = t /\ e.id \in ids}
\* mutant: the rows are not verified before they are hashed again
HoldableAny(rows) == TRUE
Holdable(rows) == \A e \in rows : Verified(e)

(* set_audit_legal_hold: the ids were seen in some export; meanwhile their *)
(* events may be purged, and they may be another tenant's.  One row that   *)
(* does not verify refuses them all.  The caller learns how many it held.  *)
SetLegalHold ==
  /\ \E i \in EventIds \ used, t \in Tenants, at \in 1..clock, ids \in SUBSET used \ {{}} :
       LET rows == Named(t, ids)
           e == Built(i, t, "audit_legal_hold", at, Security)
       IN /\ Holdable(rows)
          /\ events' = (events \ rows) \cup {Held(r) : r \in rows} \cup {e}
          /\ Write({e})
          /\ promised' = promised \cup
               IF Cardinality(rows) = Cardinality(ids) THEN ids ELSE {}
  /\ UNCHANGED <<clock, page, chain, purged, tampered>>

\* mutant: a purge forgets the hold
DueHeldOrNot(cutoff) == {e \in events : e.expires <= cutoff}
(* The rows a purge deletes and, per tenant, those it counts. *)
Due(cutoff) == {e \in events : e.expires <= cutoff /\ ~e.hold}
\* mutant: the summary counts held rows too
CountedAll(t, cutoff) == Cardinality({e \in events : e.tenant = t /\ e.expires <= cutoff})
Counted(t, cutoff) == Cardinality({e \in events : e.tenant = t /\ e.expires <= cutoff /\ ~e.hold})

(* purge_audit_events, with the time of the call, which may be long past,  *)
(* or the operator's --before: one summary event, built inside the         *)
(* transaction, for each tenant that lost rows.                            *)
Purge ==
  /\ \E cutoff \in 1..clock \cup Befores :
       LET due == Due(cutoff)
           hit == {e.tenant : e \in due}
       IN \E id \in [hit -> EventIds \ used] :
            LET notes == {Built(id[t], t, "audit_retention_purge", clock, Security) : t \in hit}
            IN /\ \A t, u \in hit : id[t] = id[u] => t = u
               /\ events' = (events \ due) \cup notes
               /\ Write(notes)
               /\ purged' = [t \in Tenants |->
                    purged[t] + IF t \in hit THEN Counted(t, cutoff) ELSE 0]
  /\ UNCHANGED <<clock, page, chain, promised, tampered>>

------------------------------------------------------------------------------
(* Export. *)

Opened(t, from, upto, n, base) ==
  [tenant |-> t, from |-> from, upto |-> upto, limit |-> n, cursor |-> NoKey,
   pages |-> <<>>, base |-> base, state |-> "open"]

OpenExport(c) ==
  /\ chain[c].state = "none"
  /\ \E t \in Tenants, from \in Starts, upto \in Ends, n \in Limits :
       /\ from <= upto  \* "audit time window is inverted"
       /\ LET shown == {e \in events : e.tenant = t /\ from <= e.at /\ e.at <= upto}
          IN chain' = [chain EXCEPT ![c] = Opened(t, from, upto, n, {e.id : e \in shown})]
  /\ UNCHANGED <<clock, events, used, page, written, purged, promised, tampered>>

(* The SELECT: rows are verified as they are read, and so is the row at    *)
(* which a page grows too large.                                           *)
Readable(rows, p, n) ==
  /\ \A e \in p : Verified(e)
  /\ Cardinality(p) < n /\ p # rows =>
       \E e \in rows \ p : Verified(e) /\ \A f \in rows \ p : f = e \/ Beyond(Key(f), Key(e))

ReadPage(c) ==
  /\ page[c].at = "idle" /\ chain[c].state = "open"
  /\ LET rows == Remaining(chain[c])
     IN \E p \in Prefixes(rows, chain[c].limit) :
          /\ Readable(rows, p, chain[c].limit)
          /\ page' = [page EXCEPT ![c] =
               [at |-> "read", keys |-> {Key(e) : e \in p}, more |-> p # rows, time |-> clock]]
  /\ UNCHANGED <<clock, events, used, chain, written, purged, promised, tampered>>

(* "audit integrity verification failed": the export ends in an error.     *)
FailVerification(c) ==
  /\ page[c].at = "idle" /\ chain[c].state = "open"
  /\ LET rows == Remaining(chain[c])
     IN \E p \in Prefixes(rows, chain[c].limit) : \E e \in p : ~Verified(e)
  /\ chain' = [chain EXCEPT ![c].state = "failed"]
  /\ UNCHANGED <<clock, events, used, page, written, purged, promised, tampered>>

(* The audit_exports row and the export's own event are one transaction.   *)
CommitExport(c) ==
  /\ page[c].at = "read"
  /\ \E i \in EventIds \ used, at \in page[c].time..clock :
       LET e == Built(i, chain[c].tenant, "audit_export", at, Security)
       IN events' = events \cup {e} /\ Write({e})
  /\ page' = [page EXCEPT ![c].at = "reply"]
  /\ UNCHANGED <<clock, chain, purged, promised, tampered>>

(* The answer reaches the caller, who asks again while there is a cursor.  *)
Deliver(c) ==
  /\ page[c].at = "reply"
  /\ LET ended == page[c].keys = {} \/ ~page[c].more
     IN chain' = [chain EXCEPT
          ![c].pages = Append(@, page[c].keys),
          ![c].cursor = IF ended THEN @ ELSE Last(page[c].keys),
          ![c].state = IF ended THEN "done" ELSE "open"]
  /\ page' = [page EXCEPT ![c] = NoPage]
  /\ UNCHANGED <<clock, events, used, written, purged, promised, tampered>>

(* A busy database, or the death of the process, before or after the       *)
(* commit: the caller gets no answer and still has its cursor.             *)
Fail(c) ==
  /\ page[c].at # "idle"
  /\ page' = [page EXCEPT ![c] = NoPage]
  /\ UNCHANGED <<clock, events, used, chain, written, purged, promised, tampered>>

------------------------------------------------------------------------------
(* Somebody alters a row with the database's own tools, and leaves its     *)
(* hash as it was or writes the one that fits.  Each row is altered once.  *)
Altered(e) == [e EXCEPT !.content = "altered"]
Forged(e) == [e EXCEPT !.content = "altered", !.seal = <<e.hold, "altered">>]

Tamper ==
  /\ Cardinality({e \in events : e.content = "altered"}) < MaxTampered
  /\ \E e \in events :
       /\ e.content = "as recorded"
       /\ \/ events' = (events \ {e}) \cup {Altered(e)} /\ tampered' = tampered \cup {e.id}
          \/ events' = (events \ {e}) \cup {Forged(e)} /\ UNCHANGED tampered
  /\ UNCHANGED <<clock, used, page, chain, written, purged, promised>>

Next ==
  \/ Tick \/ Record \/ SetLegalHold \/ Purge \/ Tamper
  \/ \E c \in Exporters :
       \/ OpenExport(c) \/ ReadPage(c) \/ FailVerification(c)
       \/ CommitExport(c) \/ Deliver(c) \/ Fail(c)

Spec == Init /\ [][Next]_vars

------------------------------------------------------------------------------
TypeOK ==
  /\ clock \in Nat /\ events \subseteq Event /\ used \subseteq EventIds
  /\ \A c \in Exporters : page[c].at \in {"idle", "read", "reply"}
  /\ \A c \in Exporters : chain[c].state \in {"none", "open", "done", "failed"}
  /\ written \in [Tenants -> Nat] /\ purged \in [Tenants -> Nat]
  /\ promised \subseteq EventIds /\ tampered \subseteq EventIds

(* A finished chain of pages has returned every event of its window that   *)
(* was in the table when the chain was opened and is still there, however  *)
(* many events were recorded, held and purged while it ran: only an event  *)
(* committed later, with an older timestamp, may lie behind the cursor.    *)
ExportComplete ==
  \A c \in Exporters : chain[c].state = "done" =>
    \A e \in events :
      e.id \in chain[c].base => \E i \in DOMAIN chain[c].pages : Key(e) \in chain[c].pages[i]

(* The pages of a chain ascend by occurred_at and id: none repeats an      *)
(* event of an earlier one, even when an answer was lost and asked again.  *)
PagesAscend ==
  \A c \in Exporters : \A i, j \in DOMAIN chain[c].pages : i < j =>
    \A k \in chain[c].pages[i], l \in chain[c].pages[j] : Beyond(l, k)

(* Once set_audit_legal_hold told its caller that it held all the events   *)
(* it named, they stay in the table, whatever purge was under way.         *)
HeldForGood == \A i \in promised : \E e \in events : e.id = i /\ e.hold

(* The rows of a tenant and the rows its purge summaries report add up to  *)
(* the events ever committed for it.                                       *)
BooksBalance ==
  \A t \in Tenants : Cardinality({e \in events : e.tenant = t}) + purged[t] = written[t]

(* The rows that fail verification are those altered without their hash,   *)
(* for good: no hold launders one of them, and no operation makes another  *)
(* row, and with it every export, fail.  It says nothing about a row that  *)
(* was altered together with its hash: that row verifies.                  *)
SealTells == \A e \in events : Verified(e) <=> e.id \notin tampered

=============================================================================
