--------------------------- MODULE AuditTrailProofs ---------------------------
(***************************************************************************)
(* What is proved of AuditTrail for every value of its constants: exports  *)
(* are complete and their pages ascend, acknowledged holds last, and the   *)
(* integrity hash tells altered rows from all others.                      *)
(***************************************************************************)
EXTENDS AuditTrail, FiniteSetTheorems, WellFoundedInduction, TLAPS

------------------------------------------------------------------------------
(* The order of keys. *)

Keys == Nat \X Nat

LEMMA BeyondOrder ==
  \A k, l, m \in Keys :
    /\ Beyond(k, l) /\ Beyond(l, m) => Beyond(k, m)
    /\ ~Beyond(k, k)
    /\ k = l \/ Beyond(k, l) \/ Beyond(l, k)
  BY DEF Beyond, Keys

(* A finite, nonempty set of keys has a last one: the key with the fewest  *)
(* others beyond it has none beyond it.                                    *)
LEMMA LastOfPage ==
  ASSUME NEW keys \in SUBSET Keys, IsFiniteSet(keys), keys # {}
  PROVE  Last(keys) \in keys /\ \A l \in keys : l = Last(keys) \/ Beyond(Last(keys), l)
<1> DEFINE after(k) == {l \in keys : Beyond(l, k)}
           tails    == {after(k) : k \in keys}
<1>1. IsWellFoundedOn(StrictSubsetOrdering(keys), SUBSET keys)
  BY FS_StrictSubsetOrderingWellFounded, FS_FiniteSubsetsOfFinite
<1>2. tails \subseteq SUBSET keys /\ tails # {}
  OBVIOUS
<1>3. PICK t \in tails : \A u \in tails : ~(<<u, t>> \in StrictSubsetOrdering(keys))
  <2> HIDE DEF tails
  <2> QED BY <1>1, <1>2, WFMin
<1>4. PICK k \in keys : t = after(k)
  OBVIOUS
<1>5. after(k) = {}
  <2> SUFFICES ASSUME NEW l \in after(k) PROVE FALSE
    OBVIOUS
  <2>1. after(l) \subseteq after(k) /\ l \notin after(l)
    BY BeyondOrder
  <2>2. <<after(l), after(k)>> \in StrictSubsetOrdering(keys)
    BY <2>1 DEF StrictSubsetOrdering
  <2> QED BY <1>3, <1>4, <2>2
<1>6. \A l \in keys : l = k \/ Beyond(k, l)
  BY <1>5, BeyondOrder
<1> QED BY <1>6 DEF Last

------------------------------------------------------------------------------
(* Types, and the identity of rows: an id names one row for ever. *)

Chain == [tenant : Tenants \cup {"none"}, from : Starts \cup {0}, upto : Ends \cup {0},
          limit : Nat, cursor : Keys, pages : Seq(SUBSET Keys), base : SUBSET EventIds,
          state : {"none", "open", "done", "failed"}]
Page  == [at : {"idle", "read", "reply"}, keys : SUBSET Keys, more : BOOLEAN, time : Nat]

RowsInv ==
  /\ used \subseteq EventIds /\ IsFiniteSet(used)
  /\ \A e \in events : e \in Event /\ e.id \in used /\ e.at # 0
  /\ \A e, f \in events : e.id = f.id => e = f
  /\ promised \subseteq used /\ tampered \subseteq used

TypeInv ==
  /\ clock \in Nat \ {0}
  /\ chain \in [Exporters -> Chain] /\ page \in [Exporters -> Page]
  /\ \A c \in Exporters :
       /\ chain[c].state # "none" => chain[c].tenant \in Tenants /\ chain[c].base \subseteq used
       /\ page[c].at # "idle" => /\ chain[c].state = "open" /\ page[c].time # 0
                                /\ IsFiniteSet(page[c].keys) /\ NoKey \notin page[c].keys
  /\ RowsInv

(* What no step does to a row that is there: give it another key or tenant, *)
(* or end its hold.                                                         *)
Evolves ==
  /\ used \subseteq used'
  /\ \A e \in events' : e.id \in used =>
       \E f \in events : f.id = e.id /\ f.at = e.at /\ f.tenant = e.tenant

(* A row as it is recorded. *)
Recorded(x) == x.hold = FALSE /\ x.seal = <<FALSE, "as recorded">> /\ x.content = "as recorded"

LEMMA BuiltRow ==
  ASSUME NEW i \in EventIds, NEW t \in Tenants, NEW kind \in Kinds, NEW at \in Nat,
         NEW retention \in Nat
  PROVE  /\ Built(i, t, kind, at, retention) \in Event
         /\ Built(i, t, kind, at, retention).id = i
         /\ Built(i, t, kind, at, retention).at = at
         /\ Built(i, t, kind, at, retention).tenant = t
         /\ Recorded(Built(i, t, kind, at, retention))
<1> DEFINE e == Built(i, t, kind, at, retention)
<1>1. e.id = i /\ e.at = at /\ e.tenant = t /\ Recorded(e)
  BY DEF Built, Recorded
<1>2. at + retention \in Nat
  OBVIOUS
<1>x. <<FALSE, "as recorded">> \in BOOLEAN \X {"as recorded", "altered"}
  BY Zenon
<1>3. e \in Event
  BY <1>2, <1>x, Zenon DEF Built, Event, Kinds
<1> QED BY <1>1, <1>3

LEMMA RowFields ==
  ASSUME NEW e \in Event PROVE e.id \in EventIds /\ e.at \in Nat /\ e.tenant \in Tenants
  BY DEF Event

LEMMA HeldRow ==
  ASSUME NEW e \in Event
  PROVE  /\ Held(e) \in Event /\ Held(e).id = e.id /\ Held(e).at = e.at
         /\ Held(e).tenant = e.tenant
  BY DEF Held, Event

LEMMA HeldSeal ==
  ASSUME NEW e \in Event
  PROVE  /\ Held(e).hold = TRUE /\ Held(e).content = e.content
         /\ Held(e).seal = <<TRUE, e.content>>
  BY DEF Held, Event

LEMMA AlteredRow ==
  ASSUME NEW e \in Event, NEW f \in {Altered(e), Forged(e)}
  PROVE  /\ f \in Event /\ f.id = e.id /\ f.at = e.at /\ f.tenant = e.tenant
         /\ f.hold = e.hold /\ f.content = "altered"
         /\ f = Altered(e) => f.seal = e.seal
         /\ f = Forged(e) => f.seal = <<e.hold, "altered">>
<1>1. CASE f = Altered(e)
  BY <1>1 DEF Event, Altered, Forged
<1>2. CASE f = Forged(e)
  BY <1>2 DEF Event, Altered, Forged
<1> QED BY <1>1, <1>2

LEMMA TamperedRow ==
  ASSUME Tamper
  PROVE  \E e \in events, f \in events' :
           /\ e.content = "as recorded" /\ events' = (events \ {e}) \cup {f}
           /\ \/ f = Altered(e) /\ tampered' = tampered \cup {e.id}
              \/ f = Forged(e) /\ tampered' = tampered
  BY DEF Tamper

Fresh(x) == x.id \notin used /\ Recorded(x)

(* Rows that are added with an id of their own. *)
LEMMA AddRow ==
  ASSUME RowsInv, NEW e \in Event, e.id \notin used, e.at # 0,
         events' = events \cup {e}, Write({e}), promised' = promised, tampered' = tampered
  PROVE  RowsInv' /\ Evolves
<1>1. used' = used \cup {e.id} /\ e.id \in EventIds
  BY DEF Write, Event
<1>2. IsFiniteSet(used')
  BY <1>1, FS_AddElement DEF RowsInv
<1> QED BY <1>1, <1>2 DEF RowsInv, Evolves

LEMMA HoldRows ==
  ASSUME TypeInv, SetLegalHold
  PROVE  RowsInv' /\ Evolves
<1>1. PICK i \in EventIds \ used, t \in Tenants, at \in 1..clock, ids \in SUBSET used \ {{}} :
        LET rows == Named(t, ids)
            e == Built(i, t, "audit_legal_hold", at, Security)
        IN /\ events' = (events \ rows) \cup {Held(r) : r \in rows} \cup {e}
           /\ Write({e})
           /\ promised' = promised \cup
                IF Cardinality(rows) = Cardinality(ids) THEN ids ELSE {}
  BY DEF SetLegalHold
<1> DEFINE rows == Named(t, ids)
           e == Built(i, t, "audit_legal_hold", at, Security)
<1>2. e \in Event /\ e.id = i /\ e.at = at /\ at # 0
  <2>1. at \in Nat /\ at # 0 /\ Security \in Nat /\ "audit_legal_hold" \in Kinds
    BY TimesAssumption DEF TypeInv, Kinds
  <2> QED BY <2>1, BuiltRow
<1>3. used' = used \cup {i} /\ tampered' = tampered
  BY <1>1, <1>2 DEF Write, SetLegalHold
<1>4. IsFiniteSet(used')
  BY <1>3, FS_AddElement DEF TypeInv, RowsInv
<1>5. \A x \in events' : x = e \/ \E f \in events : /\ f.id = x.id /\ f.at = x.at /\ f.tenant = x.tenant
                                                   /\ x = (IF f \in rows THEN Held(f) ELSE f)
  <2>1. rows \subseteq events /\ \A f \in events : f \in Event
    BY DEF Named, TypeInv, RowsInv
  <2>2. events' = (events \ rows) \cup {Held(r) : r \in rows} \cup {e}
    BY <1>1
  <2> HIDE DEF rows, e
  <2> QED BY <2>1, <2>2, HeldRow
<1>6. \A x \in events' : x \in Event /\ x.id \in used' /\ x.at # 0
  BY <1>2, <1>3, <1>5, HeldRow DEF TypeInv, RowsInv
<1>7. \A x, y \in events' : x.id = y.id => x = y
  BY <1>2, <1>5 DEF TypeInv, RowsInv
<1>8. promised' \subseteq used' /\ tampered' \subseteq used' /\ used' \subseteq EventIds
  BY <1>1, <1>3 DEF TypeInv, RowsInv
<1> QED BY <1>2, <1>3, <1>4, <1>5, <1>6, <1>7, <1>8 DEF RowsInv, Evolves

LEMMA PurgeRows ==
  ASSUME TypeInv, Purge
  PROVE  /\ RowsInv' /\ Evolves
         /\ \A x \in events' : x \in events \/ Fresh(x)
         /\ \A x \in events : x.hold => x \in events'
<1>1. PICK cutoff \in 1..clock \cup Befores :
        LET due == Due(cutoff)
            hit == {e.tenant : e \in due}
        IN \E id \in [hit -> EventIds \ used] :
             LET notes == {Built(id[t], t, "audit_retention_purge", clock, Security) : t \in hit}
             IN /\ \A t, u \in hit : id[t] = id[u] => t = u
                /\ events' = (events \ due) \cup notes
                /\ Write(notes)
  BY DEF Purge
<1> DEFINE due == Due(cutoff)
           hit == {e.tenant : e \in due}
<1>2. PICK id \in [hit -> EventIds \ used] :
             LET notes == {Built(id[t], t, "audit_retention_purge", clock, Security) : t \in hit}
             IN /\ \A t, u \in hit : id[t] = id[u] => t = u
                /\ events' = (events \ due) \cup notes
                /\ Write(notes)
  BY <1>1
<1> DEFINE note(t) == Built(id[t], t, "audit_retention_purge", clock, Security)
           notes == {note(t) : t \in hit}
<1>3. due \subseteq events /\ hit \subseteq Tenants
  <2>1. due \subseteq events
    BY Zenon DEF Due
  <2> QED BY <2>1, RowFields DEF TypeInv, RowsInv
<1> HIDE DEF due
<1>4. \A t \in hit : /\ note(t) \in Event /\ note(t).id = id[t] /\ note(t).at = clock
                     /\ Recorded(note(t))
  <2>1. clock \in Nat /\ Security \in Nat /\ "audit_retention_purge" \in Kinds
    BY TimesAssumption DEF TypeInv, Kinds
  <2> SUFFICES ASSUME NEW t \in hit
               PROVE  /\ note(t) \in Event /\ note(t).id = id[t] /\ note(t).at = clock
                      /\ Recorded(note(t))
    OBVIOUS
  <2>2. id[t] \in EventIds /\ t \in Tenants
    BY <1>3
  <2> HIDE DEF hit
  <2> QED BY <2>1, <2>2, BuiltRow
<1>n. /\ \A t, u \in hit : id[t] = id[u] => t = u
      /\ events' = (events \ due) \cup notes
      /\ Write(notes)
  BY <1>2
<1>5. used' = used \cup {id[t] : t \in hit}
  <2> HIDE DEF note, hit
  <2> QED BY <1>n, <1>4 DEF Write
<1>6. IsFiniteSet(used')
  <2>1. IsFiniteSet(events)
    <3> DEFINE f == [e \in events |-> e.id]
    <3>1. f \in [events -> used] /\ \A x, y \in events : f[x] = f[y] => x = y
      BY DEF TypeInv, RowsInv
    <3>2. f \in Injection(events, used)
      BY <3>1 DEF Injection, IsInjective
    <3> QED BY <3>2, FS_Injection DEF TypeInv, RowsInv
  <2>2. IsFiniteSet(due)
    BY <1>3, <2>1, FS_Subset
  <2> DEFINE g == [e \in due |-> id[e.tenant]]
             ids == {id[t] : t \in hit}
  <2>3. g \in Surjection(due, ids)
    BY DEF Surjection
  <2>4. IsFiniteSet(ids)
    <3> HIDE DEF g, ids, due
    <3> QED BY <2>2, <2>3, FS_Surjection
  <2> QED BY <1>5, <2>4, FS_Union DEF TypeInv, RowsInv
<1>7. \A x \in events' : x \in events \/ \E t \in hit : x = note(t)
  BY <1>n
<1>8. \A x \in events' : x \in Event /\ x.id \in used' /\ x.at # 0
  <2> HIDE DEF note, hit
  <2> QED BY <1>4, <1>5, <1>7 DEF TypeInv, RowsInv
<1>9. \A x, y \in events' : x.id = y.id => x = y
  <2> HIDE DEF note
  <2> QED BY <1>n, <1>4, <1>7 DEF TypeInv, RowsInv
<1>10. \A x \in events' : x \in events \/ Fresh(x)
  <2> HIDE DEF note, hit
  <2> QED BY <1>n, <1>4, <1>7 DEF Fresh
<1>11. promised' = promised /\ tampered' = tampered /\ used' \subseteq EventIds /\ used \subseteq used'
  BY <1>5 DEF Purge, TypeInv, RowsInv
<1>12. \A x \in events : x.hold => x \in events'
  <2>1. \A x \in due : ~x.hold
    BY Zenon DEF due, Due
  <2> QED BY <1>n, <2>1, Zenon
<1>13. RowsInv'
  BY <1>6, <1>8, <1>9, <1>11 DEF TypeInv, RowsInv
<1>14. Evolves
  BY <1>10, <1>11 DEF Evolves, Fresh
<1> QED BY <1>10, <1>12, <1>13, <1>14, Zenon

LEMMA TamperRows ==
  ASSUME TypeInv, Tamper
  PROVE  RowsInv' /\ Evolves
<1>1. PICK e \in events, f \in events' :
        /\ f \in {Altered(e), Forged(e)} /\ events' = (events \ {e}) \cup {f}
        /\ tampered' = tampered \cup {e.id} \/ tampered' = tampered
  BY TamperedRow, Zenon
<1>2. used' = used /\ promised' = promised
  BY DEF Tamper
<1>3. f \in Event /\ f.id = e.id /\ f.at = e.at /\ f.tenant = e.tenant
  <2>1. e \in Event
    BY DEF TypeInv, RowsInv
  <2> QED BY <1>1, <2>1, AlteredRow
<1> HIDE DEF Event
<1>4. \A x \in events' : \E y \in events : /\ y.id = x.id /\ y.at = x.at /\ y.tenant = x.tenant
                                           /\ x = (IF y = e THEN f ELSE y)
  BY <1>1, <1>3
<1>5. \A x \in events' : x \in Event /\ x.id \in used' /\ x.at # 0
  BY <1>1, <1>2, <1>3 DEF TypeInv, RowsInv
<1>6. \A x, y \in events' : x.id = y.id => x = y
  BY <1>4 DEF TypeInv, RowsInv
<1> QED BY <1>1, <1>2, <1>4, <1>5, <1>6 DEF TypeInv, RowsInv, Evolves

(* Rows as they are after an operation that adds one of its own. *)
LEMMA RecordRows ==
  ASSUME TypeInv, NEW i \in EventIds \ used, NEW t \in Tenants, NEW kind \in Kinds,
         NEW at \in Nat \ {0}, NEW retention \in Nat,
         events' = events \cup {Built(i, t, kind, at, retention)},
         Write({Built(i, t, kind, at, retention)}), promised' = promised, tampered' = tampered
  PROVE  RowsInv' /\ Evolves /\ \A x \in events' : x \in events \/ Fresh(x)
<1> DEFINE e == Built(i, t, kind, at, retention)
<1>1. e \in Event /\ e.id = i /\ e.at = at /\ Recorded(e)
  BY BuiltRow
<1> HIDE DEF e
<1>2. RowsInv' /\ Evolves
  BY <1>1, AddRow DEF e, TypeInv
<1>3. events' = events \cup {e}
  BY DEF e
<1> QED BY <1>1, <1>2, <1>3 DEF Fresh

(* The rows, whatever the step is. *)
LEMMA RowsStep ==
  ASSUME TypeInv, [Next]_vars
  PROVE  RowsInv' /\ Evolves
<1>k. ASSUME UNCHANGED <<events, used, promised, tampered>> PROVE RowsInv' /\ Evolves
  BY <1>k DEF TypeInv, RowsInv, Evolves
<1>1. CASE Record
  <2>1. PICK i \in EventIds \ used, t \in Tenants, at \in 1..clock, retention \in Retentions :
          /\ events' = events \cup {Built(i, t, "request", at, retention)}
          /\ Write({Built(i, t, "request", at, retention)})
    BY <1>1 DEF Record
  <2>2. at \in Nat \ {0} /\ retention \in Nat /\ "request" \in Kinds
    BY TimesAssumption DEF TypeInv, Kinds
  <2>3. promised' = promised /\ tampered' = tampered
    BY <1>1 DEF Record
  <2> QED BY <2>1, <2>2, <2>3, RecordRows
<1>2. ASSUME NEW c \in Exporters, CommitExport(c) PROVE RowsInv' /\ Evolves
  <2>1. PICK i \in EventIds \ used, at \in page[c].time..clock :
          /\ events' = events \cup {Built(i, chain[c].tenant, "audit_export", at, Security)}
          /\ Write({Built(i, chain[c].tenant, "audit_export", at, Security)})
    BY <1>2 DEF CommitExport
  <2>2. page[c].at # "idle" /\ page[c] \in Page
    BY <1>2 DEF CommitExport, TypeInv
  <2>3. page[c].time \in Nat \ {0} /\ chain[c].tenant \in Tenants
    BY <2>2 DEF TypeInv, Page
  <2>4. at \in Nat \ {0} /\ Security \in Nat /\ "audit_export" \in Kinds
    BY <2>3, TimesAssumption DEF TypeInv, Kinds
  <2>5. promised' = promised /\ tampered' = tampered
    BY <1>2 DEF CommitExport
  <2> QED BY <2>1, <2>3, <2>4, <2>5, RecordRows
<1>3. ASSUME NEW c \in Exporters,
             OpenExport(c) \/ ReadPage(c) \/ FailVerification(c) \/ Deliver(c) \/ Fail(c)
      PROVE  UNCHANGED <<events, used, promised, tampered>>
  BY <1>3, Zenon DEF OpenExport, ReadPage, FailVerification, Deliver, Fail
<1>4. CASE Tick \/ UNCHANGED vars
  BY <1>4, <1>k DEF Tick, vars
<1> QED BY <1>k, <1>1, <1>2, <1>3, <1>4, HoldRows, PurgeRows, TamperRows, Zenon DEF Next

(* What each step of an export makes of its chain and page. *)
LEMMA OpenedChain ==
  ASSUME TypeInv, NEW c \in Exporters, OpenExport(c)
  PROVE  \E ch \in Chain :
           /\ chain' = [chain EXCEPT ![c] = ch] /\ page' = page /\ events' = events
           /\ ch.state = "open" /\ ch.pages = <<>> /\ ch.cursor = NoKey /\ ch.tenant \in Tenants
           /\ ch.base = {e.id : e \in {f \in events : Matches(ch, f)}} /\ ch.base \subseteq used
<1>1. PICK t \in Tenants, from \in Starts, upto \in Ends, n \in Limits :
        chain' = [chain EXCEPT ![c] = Opened(t, from, upto, n,
                    {e.id : e \in {f \in events : f.tenant = t /\ from <= f.at /\ f.at <= upto}})]
  BY Zenon DEF OpenExport
<1> DEFINE base == {e.id : e \in {f \in events : f.tenant = t /\ from <= f.at /\ f.at <= upto}}
           opened == Opened(t, from, upto, n, base)
<1>2. base \subseteq used
  BY DEF TypeInv, RowsInv
<1>3. base = {e.id : e \in {f \in events : Matches(opened, f)}}
  BY DEF Opened, Matches
<1> HIDE DEF base
<1>4. n \in Nat /\ <<>> \in Seq(SUBSET Keys) /\ NoKey \in Keys /\ base \in SUBSET EventIds
  BY LimitsAssumption, <1>2 DEF NoKey, Keys, TypeInv, RowsInv
<1>5. opened \in Chain /\ opened.state = "open" /\ opened.pages = <<>> /\ opened.cursor = NoKey
      /\ opened.tenant = t /\ opened.base = base
  BY <1>4 DEF Opened, Chain
<1>6. chain' = [chain EXCEPT ![c] = opened] /\ page' = page /\ events' = events
  BY <1>1, Zenon DEF OpenExport, base
<1> HIDE DEF opened
<1> QED BY <1>2, <1>3, <1>5, <1>6

LEMMA RowKeys ==
  ASSUME RowsInv
  PROVE  /\ \A e \in events : Key(e) \in Keys /\ Key(e) # NoKey
         /\ IsFiniteSet(events)
<1>1. \A e \in events : e.at \in Nat /\ e.id \in Nat /\ e.at # 0
  BY RowFields, IdsAssumption DEF RowsInv
<1>2. IsFiniteSet(events)
  <2> DEFINE f == [e \in events |-> e.id]
  <2>1. f \in [events -> used] /\ \A x, y \in events : f[x] = f[y] => x = y
    BY DEF RowsInv
  <2>2. f \in Injection(events, used)
    BY <2>1 DEF Injection, IsInjective
  <2> QED BY <2>2, FS_Injection DEF RowsInv
<1> QED BY <1>1, <1>2 DEF Key, Keys, NoKey

LEMMA PageRead ==
  ASSUME TypeInv, NEW c \in Exporters, ReadPage(c)
  PROVE  /\ page[c].at = "idle" /\ chain[c].state = "open"
         /\ UNCHANGED <<clock, events, used, chain>>
         /\ \E p \in Prefixes(Remaining(chain[c]), chain[c].limit) :
              page' = [page EXCEPT ![c] =
                [at |-> "read", keys |-> {Key(e) : e \in p}, more |-> p # Remaining(chain[c]),
                 time |-> clock]]
  BY DEF ReadPage

(* A chain when the answer with the page pg has arrived. *)
Turned(ch, pg) ==
  LET ended == pg.keys = {} \/ ~pg.more
  IN [ch EXCEPT !.pages = Append(@, pg.keys),
                !.cursor = IF ended THEN @ ELSE Last(pg.keys),
                !.state = IF ended THEN "done" ELSE "open"]

LEMMA PageDelivered ==
  ASSUME TypeInv, NEW c \in Exporters, Deliver(c)
  PROVE  /\ page[c].at = "reply" /\ page' = [page EXCEPT ![c] = NoPage]
         /\ UNCHANGED <<clock, events, used>>
         /\ chain' = [chain EXCEPT ![c] = Turned(chain[c], page[c])]
  BY DEF Deliver, TypeInv, Turned

(* The keys a page may hold. *)
LEMMA PageKeys ==
  ASSUME RowsInv, NEW rows \in SUBSET events, NEW n, NEW p \in Prefixes(rows, n)
  PROVE  /\ p \subseteq rows
         /\ {Key(e) : e \in p} \in SUBSET Keys /\ NoKey \notin {Key(e) : e \in p}
         /\ IsFiniteSet({Key(e) : e \in p})
<1>1. p \subseteq rows /\ p \subseteq events
  BY DEF Prefixes
<1>2. IsFiniteSet(p)
  BY <1>1, RowKeys, FS_Subset
<1> DEFINE f == [e \in p |-> Key(e)]
           keys == {Key(e) : e \in p}
<1>3. f \in Surjection(p, keys)
  BY DEF Surjection
<1>4. IsFiniteSet(keys)
  <2> HIDE DEF f, keys
  <2> QED BY <1>2, <1>3, FS_Surjection
<1> QED BY <1>1, <1>4, RowKeys

LEMMA DeliveredChain ==
  ASSUME NEW ch \in Chain, NEW pg \in Page, IsFiniteSet(pg.keys)
  PROVE  LET new == Turned(ch, pg)
         IN /\ new \in Chain /\ new.tenant = ch.tenant /\ new.base = ch.base
            /\ new.from = ch.from /\ new.upto = ch.upto
            /\ new.pages = Append(ch.pages, pg.keys)
            /\ \/ new.state = "done" /\ (pg.keys = {} \/ ~pg.more)
               \/ /\ new.state = "open" /\ new.cursor = Last(pg.keys) /\ pg.keys # {}
<1> DEFINE new == Turned(ch, pg)
<1>1. pg.keys \in SUBSET Keys /\ ch.pages \in Seq(SUBSET Keys) /\ ch.cursor \in Keys
  BY DEF Page, Chain
<1>2. Append(ch.pages, pg.keys) \in Seq(SUBSET Keys)
  BY <1>1
<1>3. CASE pg.keys = {} \/ ~pg.more
  <2>1. new = [ch EXCEPT !.pages = Append(@, pg.keys), !.cursor = @, !.state = "done"]
    BY <1>3 DEF Turned
  <2> QED BY <1>2, <1>3, <2>1 DEF Chain
<1>4. CASE ~(pg.keys = {} \/ ~pg.more)
  <2>1. new = [ch EXCEPT !.pages = Append(@, pg.keys), !.cursor = Last(pg.keys), !.state = "open"]
    BY <1>4 DEF Turned
  <2>2. Last(pg.keys) \in Keys /\ pg.keys # {}
    BY <1>1, <1>4, LastOfPage
  <2> QED BY <1>2, <2>1, <2>2 DEF Chain
<1> QED BY <1>3, <1>4

(* A step of one exporter, as the others and its own chain see it. *)
Other(c) == \A d \in Exporters \ {c} : chain'[d] = chain[d] /\ page'[d] = page[d]
Same(c)  == chain'[c] = chain[c] /\ page'[c] = page[c]
Moves(c) ==
  \/ chain'[c] = chain[c] /\ page'[c].at = "idle"
  \/ /\ chain'[c] = chain[c] /\ page[c].at = "read" /\ page'[c].at = "reply"
     /\ page'[c].keys = page[c].keys /\ page'[c].more = page[c].more
     /\ page'[c].time = page[c].time
  \/ OpenExport(c) \/ ReadPage(c) \/ Deliver(c)
  \/ page'[c] = page[c] /\ page[c].at = "idle" /\ chain[c].state = "open"
     /\ chain'[c] = [chain[c] EXCEPT !.state = "failed"]

Places == chain' \in [Exporters -> Chain] /\ page' \in [Exporters -> Page]

LEMMA ExporterStep ==
  ASSUME TypeInv, NEW c \in Exporters,
         \/ OpenExport(c) \/ ReadPage(c) \/ FailVerification(c)
         \/ CommitExport(c) \/ Deliver(c) \/ Fail(c)
  PROVE  Places /\ Other(c) /\ Moves(c) /\ clock' = clock
<1>t. chain[c] \in Chain /\ page[c] \in Page /\ chain \in [Exporters -> Chain]
      /\ page \in [Exporters -> Page]
  BY DEF TypeInv
<1>n. NoPage \in Page /\ NoPage.at = "idle"
  BY DEF NoPage, Page
<1>1. CASE OpenExport(c)
  <2>1. clock' = clock
    BY <1>1 DEF OpenExport
  <2> QED BY <1>1, <1>t, <2>1, OpenedChain DEF Places, Other, Moves
<1>2. CASE ReadPage(c)
  <2>1. PICK p \in Prefixes(Remaining(chain[c]), chain[c].limit) :
          page' = [page EXCEPT ![c] =
            [at |-> "read", keys |-> {Key(e) : e \in p}, more |-> p # Remaining(chain[c]),
             time |-> clock]]
    BY <1>2, PageRead
  <2>r. Remaining(chain[c]) \in SUBSET events
    BY Zenon DEF Remaining
  <2>p. p \subseteq events
    BY <2>r DEF Prefixes
  <2>k. {Key(e) : e \in p} \in SUBSET Keys
    BY <2>p, RowKeys DEF TypeInv
  <2>2. {Key(e) : e \in p} \in SUBSET Keys /\ clock \in Nat /\ chain' = chain /\ clock' = clock
    BY <1>2, <2>k, PageRead DEF TypeInv
  <2> DEFINE keys == {Key(e) : e \in p}
             more == p # Remaining(chain[c])
  <2> HIDE DEF keys
  <2>3. more \in BOOLEAN /\ page' = [page EXCEPT ![c] =
            [at |-> "read", keys |-> keys, more |-> more, time |-> clock]]
    BY <2>1 DEF keys
  <2> HIDE DEF more
  <2>4. page' \in [Exporters -> Page]
    BY <1>t, <2>2, <2>3 DEF Page, keys
  <2>5. \A d \in Exporters \ {c} : page'[d] = page[d]
    BY <1>t, <2>3
  <2> QED BY <1>2, <1>t, <2>2, <2>4, <2>5 DEF Places, Other, Moves
<1>3. CASE FailVerification(c)
  <2>1. chain' = [chain EXCEPT ![c] = [chain[c] EXCEPT !.state = "failed"]] /\ page' = page
        /\ clock' = clock /\ page[c].at = "idle" /\ chain[c].state = "open"
    BY <1>3, <1>t DEF FailVerification
  <2>2. [chain[c] EXCEPT !.state = "failed"] \in Chain
    BY <1>t DEF Chain
  <2> QED BY <1>t, <2>1, <2>2 DEF Places, Other, Moves
<1>4. CASE CommitExport(c)
  <2>1. page' = [page EXCEPT ![c] = [page[c] EXCEPT !.at = "reply"]] /\ chain' = chain
        /\ clock' = clock /\ page[c].at = "read"
    BY <1>4, <1>t, Zenon DEF CommitExport
  <2>2. [page[c] EXCEPT !.at = "reply"] \in Page
    BY <1>t DEF Page
  <2>3. /\ [page[c] EXCEPT !.at = "reply"].at = "reply"
        /\ [page[c] EXCEPT !.at = "reply"].keys = page[c].keys
        /\ [page[c] EXCEPT !.at = "reply"].more = page[c].more
        /\ [page[c] EXCEPT !.at = "reply"].time = page[c].time
    BY <1>t DEF Page
  <2> QED BY <1>t, <2>1, <2>2, <2>3 DEF Places, Other, Moves
<1>5. CASE Deliver(c)
  <2> DEFINE new == Turned(chain[c], page[c])
  <2>1. page[c].at = "reply" /\ page' = [page EXCEPT ![c] = NoPage] /\ clock' = clock
        /\ chain' = [chain EXCEPT ![c] = new]
    BY <1>5, PageDelivered
  <2>2. IsFiniteSet(page[c].keys)
    BY <2>1 DEF TypeInv
  <2>3. new \in Chain
    BY <1>t, <2>2, DeliveredChain
  <2> HIDE DEF new
  <2> QED BY <1>5, <1>n, <1>t, <2>1, <2>3 DEF Places, Other, Moves
<1>6. CASE Fail(c)
  <2>1. page' = [page EXCEPT ![c] = NoPage] /\ chain' = chain /\ clock' = clock
    BY <1>6 DEF Fail
  <2> QED BY <1>n, <1>t, <2>1 DEF Places, Other, Moves
<1> QED BY <1>1, <1>2, <1>3, <1>4, <1>5, <1>6

(* A step, as one exporter sees it. *)
LEMMA StepOf ==
  ASSUME TypeInv, [Next]_vars
  PROVE  /\ Places /\ clock' \in Nat \ {0}
         /\ \A d \in Exporters : Same(d) \/ Moves(d)
         /\ \A d \in Exporters : OpenExport(d) \/ ReadPage(d) \/ Deliver(d) => clock' = clock
<1>1. ASSUME UNCHANGED <<chain, page>>, clock' \in Nat \ {0}
      PROVE  Places /\ \A d \in Exporters : Same(d)
  BY <1>1 DEF TypeInv, Places, Same
<1>2. CASE Tick \/ Record \/ SetLegalHold \/ Purge \/ Tamper \/ UNCHANGED vars
  <2>1. UNCHANGED <<chain, page>>
    BY <1>2 DEF Tick, Record, SetLegalHold, Purge, Tamper, vars
  <2>2. clock' = clock \/ clock' = clock + 1
    BY <1>2 DEF Tick, Record, SetLegalHold, Purge, Tamper, vars
  <2>3. clock' \in Nat \ {0}
    BY <2>2 DEF TypeInv
  <2>4. \A d \in Exporters : OpenExport(d) \/ ReadPage(d) \/ Deliver(d) => clock' = clock
    BY DEF OpenExport, ReadPage, Deliver
  <2> QED BY <1>1, <2>1, <2>3, <2>4
<1>3. ASSUME NEW c \in Exporters,
             \/ OpenExport(c) \/ ReadPage(c) \/ FailVerification(c)
             \/ CommitExport(c) \/ Deliver(c) \/ Fail(c)
      PROVE  Places /\ Other(c) /\ Moves(c) /\ clock' \in Nat \ {0} /\ clock' = clock
  BY <1>3, ExporterStep DEF TypeInv
<1> QED BY <1>2, <1>3 DEF Next, Other, Same

LEMMA TypeStep ==
  ASSUME TypeInv, [Next]_vars
  PROVE  TypeInv'
<1> DEFINE Well(c) ==
       /\ chain[c].state # "none" => chain[c].tenant \in Tenants /\ chain[c].base \subseteq used
       /\ page[c].at # "idle" => /\ chain[c].state = "open" /\ page[c].time # 0
                                /\ IsFiniteSet(page[c].keys) /\ NoKey \notin page[c].keys
<1>1. RowsInv' /\ used \subseteq used' /\ Places /\ clock' \in Nat \ {0}
  BY RowsStep, StepOf DEF Evolves
<1>2. ASSUME NEW c \in Exporters PROVE Well(c)'
  <2>t. Well(c) /\ chain[c] \in Chain /\ page[c] \in Page
    BY DEF TypeInv
  <2>1. CASE Same(c)
    BY <1>1, <2>1, <2>t DEF Same
  <2>2. CASE OpenExport(c)
    <3>1. PICK ch \in Chain :
             /\ chain' = [chain EXCEPT ![c] = ch] /\ page' = page
             /\ ch.state = "open" /\ ch.tenant \in Tenants /\ ch.base \subseteq used
      BY <2>2, OpenedChain
    <3>2. chain'[c] = ch /\ page'[c] = page[c] /\ chain[c].state = "none"
      BY <2>2, <3>1 DEF OpenExport, TypeInv
    <3> QED BY <1>1, <2>t, <3>1, <3>2
  <2>3. CASE ReadPage(c)
    <3>1. PICK p \in Prefixes(Remaining(chain[c]), chain[c].limit) :
            page' = [page EXCEPT ![c] =
              [at |-> "read", keys |-> {Key(e) : e \in p}, more |-> p # Remaining(chain[c]),
               time |-> clock]]
      BY <2>3, PageRead
    <3>2. Remaining(chain[c]) \in SUBSET events
      BY Zenon DEF Remaining
    <3>3. NoKey \notin {Key(e) : e \in p} /\ IsFiniteSet({Key(e) : e \in p})
      BY <3>2, PageKeys DEF TypeInv
    <3>4. page'[c].keys = {Key(e) : e \in p} /\ page'[c].time = clock /\ clock # 0
      BY <3>1 DEF TypeInv
    <3>5. chain' = chain /\ chain[c].state = "open"
      BY <2>3, PageRead
    <3> QED BY <1>1, <2>t, <3>3, <3>4, <3>5
  <2>4. CASE Deliver(c)
    <3>1. /\ page[c].at = "reply" /\ page' = [page EXCEPT ![c] = NoPage]
          /\ chain'[c].tenant = chain[c].tenant /\ chain'[c].base = chain[c].base
      <4> DEFINE new == Turned(chain[c], page[c])
      <4>1. page[c].at = "reply" /\ page' = [page EXCEPT ![c] = NoPage]
            /\ chain' = [chain EXCEPT ![c] = new]
        BY <2>4, PageDelivered
      <4>f. IsFiniteSet(page[c].keys)
        BY <2>t, <4>1
      <4>2. new.tenant = chain[c].tenant /\ new.base = chain[c].base
        BY <2>t, <4>f, DeliveredChain
      <4> HIDE DEF new
      <4> QED BY <4>1, <4>2 DEF TypeInv
    <3>2. page'[c].at = "idle" /\ chain[c].state = "open"
      BY <2>t, <3>1 DEF NoPage, TypeInv
    <3> QED BY <1>1, <2>t, <3>1, <3>2
  <2>5. CASE Moves(c) /\ ~OpenExport(c) /\ ~ReadPage(c) /\ ~Deliver(c)
    BY <1>1, <2>5, <2>t DEF Moves, Chain
  <2> QED BY <2>1, <2>2, <2>3, <2>4, <2>5, StepOf
<1> QED BY <1>1, <1>2 DEF TypeInv, Places

------------------------------------------------------------------------------
(* Exports. *)

Shown(ch, k) == \E i \in DOMAIN ch.pages : k \in ch.pages[i]
Based(c) == {e \in events : e.id \in chain[c].base}

Ascending(ch) ==
  \A i, j \in DOMAIN ch.pages : i < j => \A k \in ch.pages[i], l \in ch.pages[j] : Beyond(l, k)
(* The cursor is the last key that was returned. *)
CursorLast(ch) ==
  ch.state = "open" => \A k \in Keys : Shown(ch, k) =>
    ch.cursor # NoKey /\ (k = ch.cursor \/ Beyond(ch.cursor, k))
(* A page lies past the cursor. *)
PagePast(ch, pg) ==
  pg.at # "idle" => \A k \in pg.keys : ch.cursor = NoKey \/ Beyond(k, ch.cursor)
(* An event of the base was returned or is past the cursor. *)
BaseAhead(c) ==
  chain[c].state = "open" => \A e \in Based(c) :
    /\ Matches(chain[c], e)
    /\ Shown(chain[c], Key(e)) \/ chain[c].cursor = NoKey \/ Beyond(Key(e), chain[c].cursor)
(* One that is past the cursor is on the page or behind it. *)
BaseOnPage(c) ==
  page[c].at # "idle" => \A e \in Based(c) :
    \/ Shown(chain[c], Key(e)) \/ Key(e) \in page[c].keys
    \/ /\ page[c].more /\ page[c].keys # {}
       /\ \A k \in page[c].keys : Beyond(Key(e), k)
BaseShown(c) ==
  chain[c].state = "done" => \A e \in Based(c) : Shown(chain[c], Key(e))

ExportInv ==
  \A c \in Exporters :
    /\ Ascending(chain[c]) /\ CursorLast(chain[c]) /\ PagePast(chain[c], page[c])
    /\ BaseAhead(c) /\ BaseOnPage(c) /\ BaseShown(c)

(* The rows of a base only ever become fewer. *)
LEMMA BasedStep ==
  ASSUME TypeInv, [Next]_vars, NEW c \in Exporters, chain[c].state # "none",
         chain'[c].base = chain[c].base
  PROVE  \A e \in Based(c)' : \E f \in Based(c) : f.at = e.at /\ f.tenant = e.tenant /\ Key(f) = Key(e)
<1> SUFFICES ASSUME NEW e \in events', e.id \in chain[c].base
             PROVE  \E f \in Based(c) : f.at = e.at /\ f.tenant = e.tenant /\ Key(f) = Key(e)
  BY DEF Based
<1>1. e.id \in used
  BY DEF TypeInv
<1>2. PICK f \in events : f.id = e.id /\ f.at = e.at /\ f.tenant = e.tenant
  BY <1>1, RowsStep DEF Evolves
<1> QED BY <1>2 DEF Based, Key

LEMMA ExportStays ==
  ASSUME TypeInv, ExportInv, [Next]_vars, NEW c \in Exporters, chain'[c] = chain[c],
         \/ page'[c].at = "idle"
         \/ page'[c].keys = page[c].keys /\ page'[c].more = page[c].more /\ page[c].at # "idle"
  PROVE  /\ Ascending(chain'[c]) /\ CursorLast(chain'[c]) /\ PagePast(chain'[c], page'[c])
         /\ BaseAhead(c)' /\ BaseOnPage(c)' /\ BaseShown(c)'
<1>1. Ascending(chain'[c]) /\ CursorLast(chain'[c]) /\ PagePast(chain'[c], page'[c])
  BY DEF ExportInv, PagePast
<1>2. CASE chain[c].state = "none"
  <2>1. page[c].at = "idle"
    BY <1>2 DEF TypeInv
  <2> QED BY <1>1, <1>2, <2>1 DEF BaseAhead, BaseOnPage, BaseShown
<1>3. CASE chain[c].state # "none"
  <2>1. \A e \in Based(c)' : \E f \in Based(c) : f.at = e.at /\ f.tenant = e.tenant /\ Key(f) = Key(e)
    BY <1>3, BasedStep
  <2>2. BaseAhead(c)'
    BY <2>1 DEF ExportInv, BaseAhead, Matches
  <2>3. BaseOnPage(c)'
    BY <2>1 DEF ExportInv, BaseOnPage
  <2>4. BaseShown(c)'
    BY <2>1 DEF ExportInv, BaseShown
  <2> QED BY <1>1, <2>2, <2>3, <2>4
<1> QED BY <1>2, <1>3

LEMMA ExportOpens ==
  ASSUME TypeInv, NEW c \in Exporters, OpenExport(c)
  PROVE  /\ Ascending(chain'[c]) /\ CursorLast(chain'[c]) /\ PagePast(chain'[c], page'[c])
         /\ BaseAhead(c)' /\ BaseOnPage(c)' /\ BaseShown(c)'
<1>1. PICK ch \in Chain :
        /\ chain' = [chain EXCEPT ![c] = ch] /\ page' = page /\ events' = events
        /\ ch.state = "open" /\ ch.pages = <<>> /\ ch.cursor = NoKey
        /\ ch.base = {e.id : e \in {f \in events : Matches(ch, f)}}
  BY OpenedChain
<1>2. chain'[c] = ch /\ page'[c].at = "idle"
  BY <1>1 DEF TypeInv, OpenExport
<1>3. \A k : ~Shown(ch, k)
  BY <1>1 DEF Shown
<1>4. \A e \in events : e.id \in ch.base => Matches(ch, e)
  BY <1>1 DEF TypeInv, RowsInv
<1>5. BaseAhead(c)'
  BY <1>1, <1>2, <1>4 DEF BaseAhead, Based
<1>6. BaseShown(c)' /\ BaseOnPage(c)'
  BY <1>1, <1>2 DEF BaseShown, BaseOnPage
<1>7. Ascending(ch)
  BY <1>1 DEF Ascending
<1>8. CursorLast(ch) /\ PagePast(ch, page'[c])
  BY <1>2, <1>3 DEF CursorLast, PagePast
<1> QED BY <1>2, <1>5, <1>6, <1>7, <1>8

LEMMA ExportReads ==
  ASSUME TypeInv, ExportInv, NEW c \in Exporters, ReadPage(c)
  PROVE  /\ Ascending(chain'[c]) /\ CursorLast(chain'[c]) /\ PagePast(chain'[c], page'[c])
         /\ BaseAhead(c)' /\ BaseOnPage(c)' /\ BaseShown(c)'
<1> DEFINE rows == Remaining(chain[c])
<1>1. chain' = chain /\ events' = events /\ chain[c].state = "open"
  BY PageRead
<1>2. PICK p \in Prefixes(rows, chain[c].limit) :
        page' = [page EXCEPT ![c] =
          [at |-> "read", keys |-> {Key(e) : e \in p}, more |-> p # rows, time |-> clock]]
  BY PageRead
<1>3. page'[c].keys = {Key(e) : e \in p} /\ page'[c].more = (p # rows) /\ page'[c].at = "read"
  BY <1>2, Zenon DEF TypeInv
<1>4. /\ p \subseteq rows /\ (p = {} => rows = {})
      /\ \A e \in p, f \in rows \ p : Beyond(Key(f), Key(e))
  BY DEF Prefixes
<1>5. PagePast(chain[c], page'[c])
  <2>1. \A e \in rows : chain[c].cursor = NoKey \/ Beyond(Key(e), chain[c].cursor)
    BY DEF Remaining, PastCursor, Beyond
  <2> HIDE DEF rows
  <2> QED BY <1>3, <1>4, <2>1 DEF PagePast
<1>6. ASSUME NEW e \in Based(c), ~Shown(chain[c], Key(e))
      PROVE  \/ Key(e) \in {Key(f) : f \in p}
             \/ /\ p # rows /\ {Key(f) : f \in p} # {}
                /\ \A k \in {Key(f) : f \in p} : Beyond(Key(e), k)
  <2>1. e \in rows
    BY <1>1, <1>6 DEF ExportInv, BaseAhead, Based, Remaining, PastCursor, Beyond
  <2> HIDE DEF rows
  <2> QED BY <1>4, <2>1
<1>7. BaseOnPage(c)'
  <2> HIDE DEF rows
  <2> QED BY <1>1, <1>3, <1>6, Zenon DEF BaseOnPage, Based
<1>8. Ascending(chain'[c]) /\ CursorLast(chain'[c]) /\ BaseAhead(c)' /\ BaseShown(c)'
  BY <1>1 DEF ExportInv, BaseAhead, BaseShown, Based
<1> QED BY <1>1, <1>5, <1>7, <1>8

LEMMA ExportDelivers ==
  ASSUME TypeInv, ExportInv, NEW c \in Exporters, Deliver(c)
  PROVE  /\ Ascending(chain'[c]) /\ CursorLast(chain'[c]) /\ PagePast(chain'[c], page'[c])
         /\ BaseAhead(c)' /\ BaseOnPage(c)' /\ BaseShown(c)'
<1> DEFINE ch == chain[c]
           pg == page[c]
           new == Turned(ch, pg)
<1>1. pg.at = "reply" /\ page' = [page EXCEPT ![c] = NoPage] /\ events' = events
      /\ chain' = [chain EXCEPT ![c] = new]
  BY PageDelivered
<1>2. ch \in Chain /\ pg \in Page /\ ch.state = "open" /\ IsFiniteSet(pg.keys) /\ NoKey \notin pg.keys
  BY <1>1 DEF TypeInv
<1>3. chain'[c] = new /\ page'[c].at = "idle"
  BY <1>1 DEF TypeInv, NoPage
<1>4. /\ new.base = ch.base /\ new.pages = Append(ch.pages, pg.keys)
      /\ new.tenant = ch.tenant /\ new.from = ch.from /\ new.upto = ch.upto
      /\ \/ new.state = "done" /\ (pg.keys = {} \/ ~pg.more)
         \/ new.state = "open" /\ new.cursor = Last(pg.keys) /\ pg.keys # {}
  BY <1>2, DeliveredChain
<1>5. ch.pages \in Seq(SUBSET Keys) /\ pg.keys \in SUBSET Keys /\ ch.cursor \in Keys
  BY <1>2 DEF Chain, Page
<1>inv. /\ Ascending(ch) /\ CursorLast(ch) /\ PagePast(ch, pg)
        /\ BaseAhead(c) /\ BaseOnPage(c)
  BY DEF ExportInv
<1> HIDE DEF ch, pg, new
<1>6. \A k : Shown(new, k) <=> Shown(ch, k) \/ k \in pg.keys
  <2>1. Len(ch.pages) \in Nat /\ DOMAIN ch.pages = 1..Len(ch.pages)
        /\ DOMAIN new.pages = 1..(Len(ch.pages) + 1)
    BY <1>4, <1>5
  <2>2. \A i \in 1..Len(ch.pages) : new.pages[i] = ch.pages[i]
    BY <1>4, <1>5
  <2>3. new.pages[Len(ch.pages) + 1] = pg.keys
    BY <1>4, <1>5
  <2> QED BY <2>1, <2>2, <2>3 DEF Shown
<1>7. \A k, l \in Keys : Shown(ch, k) /\ l \in pg.keys => Beyond(l, k)
  BY <1>1, <1>2, <1>5, <1>inv, BeyondOrder DEF CursorLast, PagePast
<1>8. Ascending(new)
  <2> SUFFICES ASSUME NEW i \in DOMAIN new.pages, NEW j \in DOMAIN new.pages, i < j,
                      NEW k \in new.pages[i], NEW l \in new.pages[j]
               PROVE  Beyond(l, k)
    BY DEF Ascending
  <2>1. Len(ch.pages) \in Nat /\ DOMAIN ch.pages = 1..Len(ch.pages)
        /\ DOMAIN new.pages = 1..(Len(ch.pages) + 1)
    BY <1>4, <1>5
  <2>2. i \in DOMAIN ch.pages /\ k \in ch.pages[i] /\ k \in Keys
    BY <1>4, <1>5, <2>1
  <2>3. CASE j \in DOMAIN ch.pages
    BY <1>4, <1>5, <1>inv, <2>1, <2>2, <2>3 DEF Ascending
  <2>4. CASE j = Len(ch.pages) + 1
    <3>1. l \in pg.keys /\ l \in Keys
      BY <1>4, <1>5, <2>4
    <3> QED BY <1>7, <2>2, <3>1 DEF Shown
  <2> QED BY <2>1, <2>3, <2>4
<1>9. ASSUME new.state = "open"
      PROVE  /\ new.cursor \in pg.keys /\ new.cursor \in Keys /\ new.cursor # NoKey
             /\ \A l \in pg.keys : l = new.cursor \/ Beyond(new.cursor, l)
  BY <1>2, <1>4, <1>5, <1>9, LastOfPage
<1>10. CursorLast(new)
  BY <1>6, <1>7, <1>9 DEF CursorLast
<1>11. Based(c)' = Based(c)
  BY <1>1, <1>3, <1>4 DEF Based, ch
<1>12. ASSUME NEW e \in Based(c)
       PROVE  \/ Shown(new, Key(e))
              \/ pg.more /\ pg.keys # {} /\ \A k \in pg.keys : Beyond(Key(e), k)
  BY <1>1, <1>6, <1>12, <1>inv DEF BaseOnPage, ch, pg
<1>13. BaseAhead(c)'
  <2>1. ASSUME new.state = "open", NEW e \in Based(c)
        PROVE  Matches(new, e) /\ (Shown(new, Key(e)) \/ Beyond(Key(e), new.cursor))
    <3>1. Matches(new, e)
      BY <1>2, <1>4, <1>inv, <2>1 DEF BaseAhead, Matches, ch
    <3> QED BY <1>9, <1>12, <2>1, <3>1
  <2> QED BY <1>3, <1>11, <2>1 DEF BaseAhead
<1>14. BaseShown(c)'
  BY <1>3, <1>4, <1>11, <1>12 DEF BaseShown
<1> QED BY <1>3, <1>8, <1>10, <1>13, <1>14 DEF PagePast, BaseOnPage

LEMMA ExportStep ==
  ASSUME TypeInv, ExportInv, [Next]_vars
  PROVE  ExportInv'
<1> DEFINE Good(c) == /\ Ascending(chain[c]) /\ CursorLast(chain[c]) /\ PagePast(chain[c], page[c])
                      /\ BaseAhead(c) /\ BaseOnPage(c) /\ BaseShown(c)
<1> SUFFICES ASSUME NEW c \in Exporters PROVE Good(c)'
  BY DEF ExportInv
<1>0. chain[c] \in Chain /\ page[c] \in Page /\ (Same(c) \/ Moves(c))
  BY StepOf DEF TypeInv
<1>1. CASE Same(c)
  BY <1>1, ExportStays DEF Same
<1>2. CASE OpenExport(c)
  BY <1>2, ExportOpens
<1>3. CASE ReadPage(c)
  BY <1>3, ExportReads
<1>4. CASE Deliver(c)
  BY <1>4, ExportDelivers
<1>5. CASE chain'[c] = chain[c] /\ page'[c].at = "idle"
  BY <1>5, ExportStays
<1>6. CASE /\ chain'[c] = chain[c] /\ page[c].at = "read"
           /\ page'[c].keys = page[c].keys /\ page'[c].more = page[c].more
  BY <1>6, ExportStays
<1>7. CASE page'[c] = page[c] /\ page[c].at = "idle" /\ chain'[c] = [chain[c] EXCEPT !.state = "failed"]
  <2>1. chain'[c].state = "failed" /\ chain'[c].pages = chain[c].pages
    BY <1>0, <1>7 DEF Chain
  <2> QED BY <1>7, <2>1 DEF ExportInv, Ascending, CursorLast, PagePast, BaseAhead, BaseOnPage, BaseShown
<1> QED BY <1>0, <1>1, <1>2, <1>3, <1>4, <1>5, <1>6, <1>7 DEF Moves

LEMMA InitExport ==
  ASSUME Init PROVE TypeInv /\ ExportInv
<1>1. clock = 1 /\ events = {} /\ used = {} /\ promised = {} /\ tampered = {}
  BY DEF Init
<1>2. RowsInv
  BY <1>1, FS_EmptySet DEF RowsInv
<1>3. NoChain \in Chain /\ NoPage \in Page
  <2>1. NoKey \in Keys /\ <<>> \in Seq(SUBSET Keys)
    BY DEF NoKey, Keys
  <2> QED BY <2>1 DEF NoChain, NoPage, Chain, Page
<1>4. \A c \in Exporters : chain[c] = NoChain /\ page[c] = NoPage
  BY DEF Init
<1>5. NoChain.state = "none" /\ NoChain.pages = <<>> /\ NoPage.at = "idle"
  BY DEF NoChain, NoPage
<1>6. TypeInv
  BY <1>1, <1>2, <1>3, <1>4, <1>5 DEF Init, TypeInv
<1>7. Ascending(NoChain)
  BY <1>5 DEF Ascending
<1>8. ExportInv
  BY <1>4, <1>5, <1>7
     DEF ExportInv, CursorLast, PagePast, BaseAhead, BaseOnPage, BaseShown
<1> QED BY <1>6, <1>8

LEMMA ExportsInvariant == Spec => [](TypeInv /\ ExportInv)
<1>1. TypeInv /\ ExportInv /\ [Next]_vars => (TypeInv /\ ExportInv)'
  BY TypeStep, ExportStep
<1> QED BY <1>1, InitExport, PTL DEF Spec

(* The pages of a chain ascend by occurred_at and id: an export repeats no *)
(* event, even when an answer was lost and the page asked for again.       *)
THEOREM PagesNeverRepeat == Spec => []PagesAscend
<1>1. ExportInv => PagesAscend
  BY DEF ExportInv, Ascending, PagesAscend
<1> QED BY <1>1, ExportsInvariant, PTL

(* A finished chain has returned every event of its window that was there  *)
(* when the chain was opened and is still there.                           *)
THEOREM ExportsAreComplete == Spec => []ExportComplete
<1>1. ExportInv => ExportComplete
  BY DEF ExportInv, BaseShown, Based, Shown, ExportComplete
<1> QED BY <1>1, ExportsInvariant, PTL

------------------------------------------------------------------------------
(* Holds and seals. *)

(* Rows of a tenant that are as many as the ids they were named by have    *)
(* them all.                                                               *)
LEMMA AllNamed ==
  ASSUME RowsInv, NEW t, NEW ids \in SUBSET used, Cardinality(Named(t, ids)) = Cardinality(ids)
  PROVE  \A i \in ids : \E e \in Named(t, ids) : e.id = i
<1> DEFINE rows == Named(t, ids)
           found == {e.id : e \in rows}
           f == [e \in rows |-> e.id]
<1>1. rows \subseteq events /\ found \subseteq ids
  BY DEF Named
<1>2. IsFiniteSet(rows) /\ IsFiniteSet(ids)
  BY <1>1, RowKeys, FS_Subset DEF RowsInv
<1>3. f \in Surjection(rows, found) /\ f \in Injection(rows, found)
  <2>1. f \in [rows -> found] /\ \A x, y \in rows : f[x] = f[y] => x = y
    BY <1>1 DEF RowsInv
  <2>2. \A i \in found : \E x \in rows : f[x] = i
    OBVIOUS
  <2> QED BY <2>1, <2>2 DEF Injection, Surjection, IsInjective
<1>4. Cardinality(found) = Cardinality(rows)
  <2> HIDE DEF rows, found, f
  <2> QED BY <1>2, <1>3, FS_Surjection
<1>5. found = ids
  <2> HIDE DEF found
  <2> QED BY <1>1, <1>2, <1>4, FS_Subset DEF rows
<1> QED BY <1>5

HoldOf(x) == x.hold

(* What becomes of a row that is there: it keeps its id and its hold. *)
LEMMA HoldsStay ==
  ASSUME TypeInv, [Next]_vars, NEW e \in events, HoldOf(e)
  PROVE  \E f \in events' : f.id = e.id /\ HoldOf(f)
<1>e. e \in Event
  BY DEF TypeInv, RowsInv
<1>1. CASE events \subseteq events'
  BY <1>1
<1>2. CASE SetLegalHold
  <2>1. PICK i \in EventIds \ used, t \in Tenants, at \in 1..clock, ids \in SUBSET used \ {{}} :
          events' = (events \ Named(t, ids)) \cup {Held(r) : r \in Named(t, ids)}
                      \cup {Built(i, t, "audit_legal_hold", at, Security)}
    BY <1>2 DEF SetLegalHold
  <2>2. Held(e).id = e.id /\ HoldOf(Held(e))
    BY <1>e, HeldRow, HeldSeal, Zenon DEF HoldOf
  <2>3. e \in events' \/ Held(e) \in events'
    BY <2>1
  <2> QED BY <2>2, <2>3
<1>3. CASE Purge
  <2>1. e \in events'
    BY <1>3, PurgeRows, Zenon DEF HoldOf
  <2> QED BY <2>1
<1>4. CASE Tamper
  <2>1. PICK x \in events, f \in events' :
          f \in {Altered(x), Forged(x)} /\ events' = (events \ {x}) \cup {f}
    BY <1>4, TamperedRow, Zenon
  <2>2. x = e => f.id = e.id /\ HoldOf(f)
    <3>1. x = e => f.id = e.id /\ f.hold = e.hold
      BY <2>1, <1>e, AlteredRow
    <3> QED BY <3>1, <1>e, Zenon DEF HoldOf
  <2>3. e \in events' \/ (x = e /\ f \in events')
    BY <2>1
  <2> QED BY <2>2, <2>3
<1>5. ASSUME Record \/ (\E c \in Exporters : CommitExport(c)) PROVE events \subseteq events'
  BY <1>5 DEF Record, CommitExport
<1>6. ASSUME \/ Tick \/ UNCHANGED vars
             \/ \E c \in Exporters :
                  OpenExport(c) \/ ReadPage(c) \/ FailVerification(c) \/ Deliver(c) \/ Fail(c)
      PROVE  events \subseteq events'
  BY <1>6 DEF Tick, OpenExport, ReadPage, FailVerification, Deliver, Fail, vars
<1> QED BY <1>1, <1>2, <1>3, <1>4, <1>5, <1>6 DEF Next

(* A hold that is acknowledged is a hold of every row it names. *)
LEMMA PromisedHeld ==
  ASSUME TypeInv, SetLegalHold, NEW i \in promised' \ promised
  PROVE  \E e \in events' : e.id = i /\ HoldOf(e)
<1>1. PICK t \in Tenants, ids \in SUBSET used \ {{}} :
        /\ \A r \in Named(t, ids) : Held(r) \in events'
        /\ promised' = promised \cup
             IF Cardinality(Named(t, ids)) = Cardinality(ids) THEN ids ELSE {}
  BY DEF SetLegalHold
<1>2. Cardinality(Named(t, ids)) = Cardinality(ids) /\ i \in ids
  BY <1>1
<1>3. PICK e \in Named(t, ids) : e.id = i
  BY <1>2, AllNamed DEF TypeInv
<1>4. e \in Event
  BY DEF Named, TypeInv, RowsInv
<1>5. Held(e).id = e.id /\ HoldOf(Held(e))
  BY <1>4, HeldRow, HeldSeal, Zenon DEF HoldOf
<1> QED BY <1>1, <1>3, <1>5

HoldInv == \A i \in promised : \E e \in events : e.id = i /\ HoldOf(e)

(* Once set_audit_legal_hold told its caller that it held all the events   *)
(* it named, they stay in the table, whatever purge was under way.         *)
THEOREM HoldsLast == Spec => []HeldForGood
<1>1. Init => HoldInv
  BY DEF Init, HoldInv
<1>2. ASSUME TypeInv, HoldInv, [Next]_vars PROVE HoldInv'
  <2> SUFFICES ASSUME NEW i \in promised' PROVE \E e \in events' : e.id = i /\ HoldOf(e)
    BY DEF HoldInv, HoldOf
  <2>1. CASE i \in promised
    BY <1>2, <2>1, HoldsStay DEF HoldInv
  <2>2. CASE i \notin promised
    <3>1. SetLegalHold
      BY <1>2, <2>2 DEF Next, vars, Tick, Record, Purge, Tamper, OpenExport, ReadPage,
                        FailVerification, CommitExport, Deliver, Fail
    <3> QED BY <1>2, <2>2, <3>1, PromisedHeld
  <2> QED BY <2>1, <2>2
<1>3. HoldInv => HeldForGood
  BY DEF HoldInv, HeldForGood, HoldOf
<1> QED BY <1>1, <1>2, <1>3, ExportsInvariant, PTL DEF Spec

(* The hash fits the row, unless the row was altered without it: then it   *)
(* still says that the content is as recorded.                             *)
Sealed(e) ==
  /\ e.id \in tampered => e.content = "altered" /\ e.seal = <<e.hold, "as recorded">>
  /\ e.id \notin tampered => e.seal = <<e.hold, e.content>>
SealInv == \A e \in events : Sealed(e)

LEMMA SamePair ==
  \A h, a, b : <<h, a>> = <<h, b>> <=> a = b
  OBVIOUS

LEMMA SealReads ==
  ASSUME NEW e \in Event, Sealed(e)
  PROVE  Verified(e) <=> e.id \notin tampered
<1>1. Verified(e) <=> e.seal = <<e.hold, e.content>>
  BY Zenon DEF Verified, Seal
<1>2. CASE e.id \in tampered
  <2>1. e.content = "altered" /\ e.seal = <<e.hold, "as recorded">>
    BY <1>2, Zenon DEF Sealed
  <2>2. <<e.hold, "as recorded">> # <<e.hold, "altered">>
    BY SamePair
  <2> QED BY <1>1, <1>2, <2>1, <2>2, Zenon
<1>3. CASE e.id \notin tampered
  BY <1>1, <1>3, Zenon DEF Sealed
<1> QED BY <1>2, <1>3

LEMMA FreshSealed ==
  ASSUME RowsInv, NEW x, Fresh(x), tampered' = tampered
  PROVE  Sealed(x)'
  BY Zenon DEF RowsInv, Fresh, Recorded, Sealed

LEMMA HeldSealed ==
  ASSUME NEW e \in Event, Sealed(e), Verified(e), tampered' = tampered
  PROVE  Sealed(Held(e))'
<1>1. Held(e).hold = TRUE /\ Held(e).content = e.content /\ Held(e).seal = <<TRUE, e.content>>
      /\ Held(e).id = e.id
  BY HeldSeal, HeldRow, Zenon
<1>2. e.id \notin tampered
  BY SealReads, Zenon
<1> QED BY <1>1, <1>2, Zenon DEF Sealed

(* Every row of the next state is one of this, a held one or a new one.    *)
LEMMA SealStep ==
  ASSUME TypeInv, SealInv, [Next]_vars
  PROVE  SealInv'
<1>k. ASSUME tampered' = tampered, NEW x, x \in events \/ Fresh(x) PROVE Sealed(x)'
  <2>1. CASE Fresh(x)
    BY <1>k, <2>1, FreshSealed DEF TypeInv
  <2>2. CASE x \in events
    BY <1>k, <2>2, Zenon DEF SealInv, Sealed
  <2> QED BY <1>k, <2>1, <2>2
<1>1. CASE Record
  <2>1. PICK i \in EventIds \ used, t \in Tenants, at \in 1..clock, retention \in Retentions :
          events' = events \cup {Built(i, t, "request", at, retention)}
    BY <1>1 DEF Record
  <2>2. at \in Nat /\ retention \in Nat /\ "request" \in Kinds
    BY TimesAssumption DEF TypeInv, Kinds
  <2>3. Fresh(Built(i, t, "request", at, retention))
    BY <2>2, BuiltRow DEF Fresh
  <2>4. tampered' = tampered
    BY <1>1 DEF Record
  <2> QED BY <1>k, <2>1, <2>3, <2>4 DEF SealInv
<1>2. ASSUME NEW c \in Exporters, CommitExport(c) PROVE SealInv'
  <2>1. PICK i \in EventIds \ used, at \in page[c].time..clock :
          events' = events \cup {Built(i, chain[c].tenant, "audit_export", at, Security)}
    BY <1>2 DEF CommitExport
  <2>2. page[c].at # "idle" /\ page[c] \in Page
    BY <1>2 DEF CommitExport, TypeInv
  <2>3. page[c].time \in Nat /\ chain[c].tenant \in Tenants
    BY <2>2 DEF TypeInv, Page
  <2>4. at \in Nat /\ Security \in Nat /\ "audit_export" \in Kinds
    BY <2>3, TimesAssumption DEF TypeInv, Kinds
  <2>5. Fresh(Built(i, chain[c].tenant, "audit_export", at, Security))
    BY <2>3, <2>4, BuiltRow DEF Fresh
  <2>6. tampered' = tampered
    BY <1>2 DEF CommitExport
  <2> QED BY <1>k, <2>1, <2>5, <2>6 DEF SealInv
<1>3. CASE SetLegalHold
  <2>1. PICK i \in EventIds \ used, t \in Tenants, at \in 1..clock, ids \in SUBSET used \ {{}} :
          /\ Holdable(Named(t, ids))
          /\ events' = (events \ Named(t, ids)) \cup {Held(r) : r \in Named(t, ids)}
                        \cup {Built(i, t, "audit_legal_hold", at, Security)}
    BY <1>3 DEF SetLegalHold
  <2>2. at \in Nat /\ Security \in Nat /\ "audit_legal_hold" \in Kinds
    BY TimesAssumption DEF TypeInv, Kinds
  <2>3. Fresh(Built(i, t, "audit_legal_hold", at, Security))
    BY <2>2, BuiltRow DEF Fresh
  <2>4. tampered' = tampered
    BY <1>3 DEF SetLegalHold
  <2>5. \A r \in Named(t, ids) : r \in Event /\ Sealed(r) /\ Verified(r)
    <3>1. Named(t, ids) \subseteq events
      BY DEF Named
    <3> QED BY <2>1, <3>1 DEF Holdable, SealInv, TypeInv, RowsInv
  <2>6. \A r \in Named(t, ids) : Sealed(Held(r))'
    BY <2>4, <2>5, HeldSealed
  <2> QED BY <1>k, <2>1, <2>3, <2>4, <2>6 DEF SealInv
<1>4. CASE Purge
  <2>1. \A x \in events' : x \in events \/ Fresh(x)
    BY <1>4, PurgeRows, Zenon
  <2>2. tampered' = tampered
    BY <1>4 DEF Purge
  <2> QED BY <1>k, <2>1, <2>2 DEF SealInv
<1>5. CASE Tamper
  <2>1. PICK e \in events, f \in events' :
          /\ e.content = "as recorded" /\ events' = (events \ {e}) \cup {f}
          /\ \/ f = Altered(e) /\ tampered' = tampered \cup {e.id}
             \/ f = Forged(e) /\ tampered' = tampered
    BY <1>5, TamperedRow
  <2>e. e \in Event /\ Sealed(e)
    BY DEF TypeInv, RowsInv, SealInv
  <2>2. /\ f.id = e.id /\ f.hold = e.hold /\ f.content = "altered"
        /\ f = Altered(e) => f.seal = e.seal
        /\ f = Forged(e) => f.seal = <<e.hold, "altered">>
    <3>1. f \in {Altered(e), Forged(e)}
      BY <2>1
    <3> QED BY <3>1, <2>e, AlteredRow, Zenon
  <2>a. e.id \notin tampered /\ e.seal = <<e.hold, "as recorded">>
    <3>1. "as recorded" # "altered"
      OBVIOUS
    <3> QED BY <2>1, <2>e, <3>1, Zenon DEF Sealed
  <2>3. Sealed(f)'
    <3>1. CASE f = Altered(e) /\ tampered' = tampered \cup {e.id}
      <4>1. e.id \in tampered'
        BY <3>1
      <4> QED BY <2>2, <2>a, <3>1, <4>1, Zenon DEF Sealed
    <3>2. CASE f = Forged(e) /\ tampered' = tampered
      <4>1. f.id \notin tampered' /\ f.seal = <<f.hold, f.content>>
        BY <2>2, <2>a, <3>2
      <4> QED BY <4>1, Zenon DEF Sealed
    <3> QED BY <2>1, <3>1, <3>2
  <2>4. \A x \in events \ {e} : x.id # e.id /\ Sealed(x)
    BY DEF TypeInv, RowsInv, SealInv
  <2>5. \A x \in events \ {e} : Sealed(x)'
    <3>1. \A x \in events \ {e} : x.id \in tampered' <=> x.id \in tampered
      BY <2>1, <2>4
    <3> QED BY <2>4, <3>1, Zenon DEF Sealed
  <2> QED BY <2>1, <2>3, <2>5 DEF SealInv
<1>6. ASSUME \/ Tick \/ UNCHANGED vars
             \/ \E c \in Exporters :
                  OpenExport(c) \/ ReadPage(c) \/ FailVerification(c) \/ Deliver(c) \/ Fail(c)
      PROVE  SealInv'
  <2>1. events' = events /\ tampered' = tampered
    BY <1>6 DEF Tick, OpenExport, ReadPage, FailVerification, Deliver, Fail, vars
  <2> QED BY <1>k, <2>1 DEF SealInv
<1> QED BY <1>1, <1>2, <1>3, <1>4, <1>5, <1>6 DEF Next

(* The rows that fail verification are those altered without their hash:   *)
(* no hold launders one of them and no operation makes another row fail.   *)
(* A row altered together with its hash verifies.                          *)
THEOREM SealsTell == Spec => []SealTells
<1>1. Init => SealInv
  BY DEF Init, SealInv
<1>2. ASSUME TypeInv, SealInv PROVE SealTells
  <2>1. \A e \in events : e \in Event /\ Sealed(e)
    BY <1>2 DEF TypeInv, RowsInv, SealInv
  <2> QED BY <2>1, SealReads, Zenon DEF SealTells
<1> QED BY <1>1, <1>2, SealStep, ExportsInvariant, PTL DEF Spec

------------------------------------------------------------------------------
(* The books. *)

Count(rows, t) == Cardinality({e \in rows : e.tenant = t})

LEMMA CountFinite ==
  ASSUME NEW rows, IsFiniteSet(rows), NEW t
  PROVE  IsFiniteSet({e \in rows : e.tenant = t}) /\ Count(rows, t) \in Nat
  BY FS_Subset, FS_CardinalityType DEF Count

LEMMA CountUnion ==
  ASSUME NEW x, NEW y, IsFiniteSet(x), IsFiniteSet(y), x \cap y = {}, NEW t
  PROVE  Count(x \cup y, t) = Count(x, t) + Count(y, t)
<1> DEFINE X == {e \in x : e.tenant = t}
           Y == {e \in y : e.tenant = t}
<1>1. {e \in x \cup y : e.tenant = t} = X \cup Y /\ X \cap Y = {}
  OBVIOUS
<1>2. IsFiniteSet(X) /\ IsFiniteSet(Y) /\ Cardinality(X) \in Nat /\ Cardinality(Y) \in Nat
  BY CountFinite DEF Count
<1> HIDE DEF X, Y
<1>3. Cardinality(X \cup Y) = Cardinality(X) + Cardinality(Y)
  <2>1. Cardinality(X \cup Y) = Cardinality(X) + Cardinality(Y) - Cardinality(X \cap Y)
    BY <1>2, FS_Union
  <2>2. Cardinality(X \cap Y) = 0
    BY <1>1, FS_EmptySet
  <2> QED BY <1>2, <2>1, <2>2
<1> QED BY <1>1, <1>3 DEF Count, X, Y

LEMMA CountDifference ==
  ASSUME NEW x, IsFiniteSet(x), NEW y \in SUBSET x, NEW t
  PROVE  Count(x \ y, t) = Count(x, t) - Count(y, t)
<1>1. IsFiniteSet(y) /\ IsFiniteSet(x \ y)
  BY FS_Subset
<1>2. Count(x \ y, t) \in Nat /\ Count(y, t) \in Nat /\ Count(x, t) \in Nat
  BY <1>1, CountFinite
<1>3. (x \ y) \cup y = x /\ (x \ y) \cap y = {}
  OBVIOUS
<1>4. Count(x, t) = Count(x \ y, t) + Count(y, t)
  BY <1>1, <1>3, CountUnion
<1> QED BY <1>2, <1>4

(* Rows that are exchanged for rows of the same ids are as many.           *)
LEMMA CountExchanged ==
  ASSUME RowsInv, NEW rows, NEW t,
         \A e \in events : \E x \in rows : x.id = e.id /\ x.tenant = e.tenant,
         \A x \in rows : \E e \in events : e.id = x.id /\ e.tenant = x.tenant,
         \A x, y \in rows : x.id = y.id => x = y
  PROVE  Count(rows, t) = Count(events, t) /\ IsFiniteSet(rows)
<1> DEFINE f == [x \in rows |-> CHOOSE e \in events : e.id = x.id]
<1>1. \A x \in rows : f[x] \in events /\ f[x].id = x.id /\ f[x].tenant = x.tenant
  BY DEF RowsInv
<1>2. \A x, y \in rows : f[x] = f[y] => x = y
  BY <1>1
<1>3. f \in [rows -> events]
  BY <1>1
<1> HIDE DEF f
<1>4. IsFiniteSet(rows)
  <2>1. f \in Injection(rows, events)
    BY <1>2, <1>3 DEF Injection, IsInjective
  <2> QED BY <2>1, RowKeys, FS_Injection
<1> DEFINE R == {x \in rows : x.tenant = t}
           E == {e \in events : e.tenant = t}
           g == [x \in R |-> f[x]]
<1>5. g \in [R -> E] /\ \A x, y \in R : g[x] = g[y] => x = y
  BY <1>1, <1>2
<1>6. \A e \in E : \E x \in R : g[x] = e
  <2> SUFFICES ASSUME NEW e \in E PROVE \E x \in R : g[x] = e
    OBVIOUS
  <2>1. PICK x \in rows : x.id = e.id /\ x.tenant = e.tenant
    OBVIOUS
  <2> QED BY <1>1, <2>1 DEF RowsInv
<1>7. g \in Injection(R, E) /\ g \in Surjection(R, E)
  BY <1>5, <1>6 DEF Injection, Surjection, IsInjective
<1>8. IsFiniteSet(R)
  BY <1>4, FS_Subset
<1> HIDE DEF R, E, g
<1>9. Cardinality(E) = Cardinality(R)
  BY <1>7, <1>8, FS_Surjection
<1> QED BY <1>4, <1>9 DEF Count, R, E

BookInv ==
  /\ written \in [Tenants -> Nat] /\ purged \in [Tenants -> Nat]
  /\ \A t \in Tenants : Count(events, t) + purged[t] = written[t]

LEMMA Written ==
  ASSUME NEW new, Write(new)
  PROVE  written' = [t \in Tenants |-> written[t] + Count(new, t)]
  BY DEF Write, Count

(* A row of its own beside rows that are as many as before. *)
LEMMA BookedRow ==
  ASSUME TypeInv, BookInv, NEW rows, IsFiniteSet(rows), NEW e, e \notin rows,
         \A t \in Tenants : Count(rows, t) = Count(events, t),
         events' = rows \cup {e}, Write({e}), purged' = purged
  PROVE  BookInv'
<1>1. IsFiniteSet({e}) /\ rows \cap {e} = {}
  BY FS_Singleton
<1>2. ASSUME NEW t \in Tenants
      PROVE  /\ Count(events', t) = Count(events, t) + Count({e}, t)
             /\ Count({e}, t) \in Nat /\ Count(events, t) \in Nat
  <2>1. Count(rows \cup {e}, t) = Count(rows, t) + Count({e}, t)
    BY <1>1, CountUnion
  <2>2. Count({e}, t) \in Nat /\ Count(events, t) \in Nat
    BY <1>1, CountFinite, RowKeys DEF TypeInv
  <2> QED BY <2>1, <2>2
<1>3. written' = [t \in Tenants |-> written[t] + Count({e}, t)]
  BY Written
<1>4. ASSUME NEW t \in Tenants
      PROVE  /\ Count(events', t) + purged'[t] = written'[t] /\ written'[t] \in Nat
  <2>1. written'[t] = written[t] + Count({e}, t) /\ purged'[t] = purged[t]
    BY <1>3
  <2>2. purged[t] \in Nat /\ written[t] \in Nat /\ Count(events, t) + purged[t] = written[t]
    BY DEF BookInv
  <2>3. /\ Count(events', t) = Count(events, t) + Count({e}, t)
        /\ Count({e}, t) \in Nat /\ Count(events, t) \in Nat
    BY <1>2
  <2> QED BY <2>1, <2>2, <2>3
<1>5. written' \in [Tenants -> Nat] /\ purged' \in [Tenants -> Nat]
  BY <1>3, <1>4 DEF BookInv
<1> QED BY <1>4, <1>5 DEF BookInv

LEMMA PurgeNotes ==
  ASSUME TypeInv, Purge
  PROVE  \E cutoff, notes :
           /\ IsFiniteSet(notes) /\ events \cap notes = {}
           /\ events' = (events \ Due(cutoff)) \cup notes /\ Write(notes)
           /\ purged' = [t \in Tenants |-> purged[t] + Count(Due(cutoff), t)]
<1>1. PICK cutoff \in 1..clock \cup Befores :
        LET due == Due(cutoff)
            hit == {e.tenant : e \in due}
        IN \E id \in [hit -> EventIds \ used] :
             LET notes == {Built(id[t], t, "audit_retention_purge", clock, Security) : t \in hit}
             IN /\ events' = (events \ due) \cup notes
                /\ Write(notes)
                /\ purged' = [t \in Tenants |->
                     purged[t] + IF t \in hit THEN Counted(t, cutoff) ELSE 0]
  BY DEF Purge
<1> DEFINE due == Due(cutoff)
           hit == {e.tenant : e \in due}
<1>2. PICK id \in [hit -> EventIds \ used] :
             LET notes == {Built(id[t], t, "audit_retention_purge", clock, Security) : t \in hit}
             IN /\ events' = (events \ due) \cup notes
                /\ Write(notes)
                /\ purged' = [t \in Tenants |->
                     purged[t] + IF t \in hit THEN Counted(t, cutoff) ELSE 0]
  BY <1>1
<1> DEFINE note(t) == Built(id[t], t, "audit_retention_purge", clock, Security)
           notes == {note(t) : t \in hit}
<1>3. events' = (events \ due) \cup notes /\ Write(notes)
      /\ purged' = [t \in Tenants |-> purged[t] + IF t \in hit THEN Counted(t, cutoff) ELSE 0]
  BY <1>2
<1>4. \A t \in hit : note(t).id \notin used
  <2>1. \A t \in hit : note(t).id = id[t] /\ id[t] \notin used
    BY DEF Built
  <2> QED BY <2>1
<1>5. events \cap notes = {}
  <2> HIDE DEF note, hit
  <2> QED BY <1>4 DEF TypeInv, RowsInv
<1>6. due \subseteq events
  BY Zenon DEF Due
<1>7. IsFiniteSet(notes)
  <2> DEFINE g == [e \in due |-> note(e.tenant)]
  <2>1. g \in Surjection(due, notes)
    BY DEF Surjection
  <2>2. IsFiniteSet(due)
    BY <1>6, RowKeys, FS_Subset DEF TypeInv
  <2> HIDE DEF g, notes, due
  <2> QED BY <2>1, <2>2, FS_Surjection
<1>8. \A t \in Tenants : (IF t \in hit THEN Counted(t, cutoff) ELSE 0) = Count(Due(cutoff), t)
  <2> SUFFICES ASSUME NEW t \in Tenants
               PROVE  (IF t \in hit THEN Counted(t, cutoff) ELSE 0) = Count(Due(cutoff), t)
    OBVIOUS
  <2>1. Counted(t, cutoff) = Count(Due(cutoff), t)
    <3>1. {e \in events : e.tenant = t /\ e.expires <= cutoff /\ ~e.hold}
            = {e \in Due(cutoff) : e.tenant = t}
      BY Zenon DEF Due
    <3> QED BY <3>1, Zenon DEF Counted, Count
  <2>2. CASE t \notin hit
    <3>1. {e \in Due(cutoff) : e.tenant = t} = {}
      BY <2>2
    <3> QED BY <2>2, <3>1, FS_EmptySet DEF Count
  <2> QED BY <2>1, <2>2
<1>9. purged' = [t \in Tenants |-> purged[t] + Count(Due(cutoff), t)]
  <2> HIDE DEF hit
  <2> QED BY <1>3, <1>8
<1> QED BY <1>3, <1>5, <1>7, <1>9

LEMMA BookStep ==
  ASSUME TypeInv, BookInv, [Next]_vars
  PROVE  BookInv'
<1>f. IsFiniteSet(events)
  BY RowKeys DEF TypeInv
<1>a. ASSUME NEW e, e.id \notin used, events' = events \cup {e}, Write({e}), purged' = purged
      PROVE  BookInv'
  <2>1. e \notin events
    BY <1>a DEF TypeInv, RowsInv
  <2> QED BY <1>a, <1>f, <2>1, BookedRow
<1>1. CASE Record
  <2>1. PICK i \in EventIds \ used, t \in Tenants, at \in 1..clock, retention \in Retentions :
          /\ events' = events \cup {Built(i, t, "request", at, retention)}
          /\ Write({Built(i, t, "request", at, retention)})
    BY <1>1 DEF Record
  <2>2. Built(i, t, "request", at, retention).id \notin used
    BY DEF Built
  <2>3. purged' = purged
    BY <1>1 DEF Record
  <2> QED BY <1>a, <2>1, <2>2, <2>3
<1>2. ASSUME NEW c \in Exporters, CommitExport(c) PROVE BookInv'
  <2>1. PICK i \in EventIds \ used, at \in page[c].time..clock :
          /\ events' = events \cup {Built(i, chain[c].tenant, "audit_export", at, Security)}
          /\ Write({Built(i, chain[c].tenant, "audit_export", at, Security)})
    BY <1>2 DEF CommitExport
  <2>2. Built(i, chain[c].tenant, "audit_export", at, Security).id \notin used
    BY DEF Built
  <2>3. purged' = purged
    BY <1>2 DEF CommitExport
  <2> QED BY <1>a, <2>1, <2>2, <2>3
<1>3. CASE SetLegalHold
  <2>1. PICK i \in EventIds \ used, t \in Tenants, at \in 1..clock, ids \in SUBSET used \ {{}} :
          /\ events' = (events \ Named(t, ids)) \cup {Held(r) : r \in Named(t, ids)}
                        \cup {Built(i, t, "audit_legal_hold", at, Security)}
          /\ Write({Built(i, t, "audit_legal_hold", at, Security)})
    BY <1>3 DEF SetLegalHold
  <2> DEFINE kept == (events \ Named(t, ids)) \cup {Held(r) : r \in Named(t, ids)}
             e == Built(i, t, "audit_legal_hold", at, Security)
  <2>2. Named(t, ids) \subseteq events /\ \A f \in events : f \in Event
    BY DEF Named, TypeInv, RowsInv
  <2>3. \A f \in events : Held(f).id = f.id /\ Held(f).tenant = f.tenant
    BY <2>2, HeldRow
  <2>4. /\ \A f \in events : \E x \in kept : x.id = f.id /\ x.tenant = f.tenant
        /\ \A x \in kept : \E f \in events : f.id = x.id /\ f.tenant = x.tenant
    BY <2>2, <2>3
  <2>5. \A x, y \in kept : x.id = y.id => x = y
    BY <2>2, <2>3 DEF TypeInv, RowsInv
  <2>6. e.id \notin used
    BY DEF Built
  <2> HIDE DEF kept, e
  <2>7. \A u \in Tenants : Count(kept, u) = Count(events, u) /\ IsFiniteSet(kept)
    BY <2>4, <2>5, CountExchanged DEF TypeInv
  <2>8. IsFiniteSet(kept)
    BY <2>7
  <2>9. e \notin kept
    BY <2>4, <2>6 DEF TypeInv, RowsInv
  <2>10. events' = kept \cup {e} /\ Write({e}) /\ purged' = purged
    BY <1>3, <2>1 DEF kept, e, SetLegalHold
  <2> QED BY <2>7, <2>8, <2>9, <2>10, BookedRow
<1>4. CASE Purge
  <2>1. PICK cutoff, notes :
          /\ IsFiniteSet(notes) /\ events \cap notes = {}
          /\ events' = (events \ Due(cutoff)) \cup notes /\ Write(notes)
          /\ purged' = [t \in Tenants |-> purged[t] + Count(Due(cutoff), t)]
    BY <1>4, PurgeNotes
  <2>2. Due(cutoff) \in SUBSET events
    BY Zenon DEF Due
  <2>3. IsFiniteSet(events \ Due(cutoff)) /\ IsFiniteSet(Due(cutoff))
    BY <1>f, <2>2, FS_Subset
  <2>4. (events \ Due(cutoff)) \cap notes = {}
    BY <2>1
  <2>5. ASSUME NEW t \in Tenants
        PROVE  /\ Count(events', t) = Count(events, t) - Count(Due(cutoff), t) + Count(notes, t)
               /\ Count(events, t) \in Nat /\ Count(Due(cutoff), t) \in Nat /\ Count(notes, t) \in Nat
    <3>1. Count(events', t) = Count(events \ Due(cutoff), t) + Count(notes, t)
      BY <2>1, <2>3, <2>4, CountUnion
    <3>2. Count(events \ Due(cutoff), t) = Count(events, t) - Count(Due(cutoff), t)
      BY <1>f, <2>2, CountDifference
    <3> QED BY <1>f, <2>1, <2>3, <3>1, <3>2, CountFinite
  <2>6. written' = [t \in Tenants |-> written[t] + Count(notes, t)]
    BY <2>1, Written
  <2>7. ASSUME NEW t \in Tenants
        PROVE  /\ Count(events', t) + purged'[t] = written'[t]
               /\ written'[t] \in Nat /\ purged'[t] \in Nat
    <3>1. /\ written'[t] = written[t] + Count(notes, t)
          /\ purged'[t] = purged[t] + Count(Due(cutoff), t)
      BY <2>1, <2>6
    <3>2. purged[t] \in Nat /\ written[t] \in Nat /\ Count(events, t) + purged[t] = written[t]
      BY DEF BookInv
    <3> QED BY <2>5, <3>1, <3>2
  <2>8. written' \in [Tenants -> Nat] /\ purged' \in [Tenants -> Nat]
    BY <2>1, <2>6, <2>7
  <2> QED BY <2>7, <2>8 DEF BookInv
<1>5. CASE Tamper
  <2>1. PICK e \in events, f \in events' :
          f \in {Altered(e), Forged(e)} /\ events' = (events \ {e}) \cup {f}
    BY <1>5, TamperedRow, Zenon
  <2>2. f.id = e.id /\ f.tenant = e.tenant
    <3>1. e \in Event
      BY DEF TypeInv, RowsInv
    <3> QED BY <2>1, <3>1, AlteredRow
  <2>3. /\ \A x \in events : \E y \in events' : y.id = x.id /\ y.tenant = x.tenant
        /\ \A y \in events' : \E x \in events : x.id = y.id /\ x.tenant = y.tenant
    BY <2>1, <2>2
  <2>4. \A x, y \in events' : x.id = y.id => x = y
    BY <1>5, TamperRows DEF RowsInv
  <2>5. \A t \in Tenants : Count(events', t) = Count(events, t)
    BY <2>3, <2>4, CountExchanged DEF TypeInv
  <2>6. written' = written /\ purged' = purged
    BY <1>5 DEF Tamper
  <2>7. \A t \in Tenants : Count(events, t)' = Count(events', t)
    BY DEF Count
  <2> QED BY <2>5, <2>6, <2>7 DEF BookInv
<1>6. ASSUME \/ Tick \/ UNCHANGED vars
             \/ \E c \in Exporters :
                  OpenExport(c) \/ ReadPage(c) \/ FailVerification(c) \/ Deliver(c) \/ Fail(c)
      PROVE  BookInv'
  <2>1. events' = events /\ written' = written /\ purged' = purged
    BY <1>6 DEF Tick, OpenExport, ReadPage, FailVerification, Deliver, Fail, vars
  <2> QED BY <2>1 DEF BookInv, Count
<1> QED BY <1>1, <1>2, <1>3, <1>4, <1>5, <1>6 DEF Next

LEMMA BooksInvariant == Spec => [](TypeInv /\ BookInv)
<1>1. Init => BookInv
  <2> SUFFICES ASSUME Init PROVE BookInv
    OBVIOUS
  <2>1. \A t : {e \in events : e.tenant = t} = {}
    BY DEF Init
  <2> QED BY <2>1, FS_EmptySet DEF Init, BookInv, Count
<1> QED BY <1>1, BookStep, ExportsInvariant, PTL DEF Spec

(* The rows of a tenant and the rows its purge summaries report add up to  *)
(* the events ever committed for it.                                       *)
THEOREM BooksAlwaysBalance == Spec => []BooksBalance
<1>1. BookInv => BooksBalance
  BY DEF BookInv, BooksBalance, Count
<1> QED BY <1>1, BooksInvariant, PTL

(* Every reachable state is well typed. *)
THEOREM TypeCorrect == Spec => []TypeOK
<1>1. ASSUME TypeInv, BookInv PROVE TypeOK
  <2>1. \A c \in Exporters : chain[c] \in Chain /\ page[c] \in Page
    BY <1>1 DEF TypeInv
  <2>2. events \subseteq Event /\ used \subseteq EventIds
        /\ promised \subseteq EventIds /\ tampered \subseteq EventIds
    BY <1>1 DEF TypeInv, RowsInv
  <2>3. /\ \A c \in Exporters : page[c].at \in {"idle", "read", "reply"}
        /\ \A c \in Exporters : chain[c].state \in {"none", "open", "done", "failed"}
    BY <2>1 DEF Chain, Page
  <2> QED BY <1>1, <2>2, <2>3 DEF TypeOK, TypeInv, BookInv
<1> QED BY <1>1, BooksInvariant, PTL

=============================================================================
