---------------------------- MODULE ArtifactPages ----------------------------
(***************************************************************************)
(* Paging through the artifacts of a tenant: service.list_artifacts and    *)
(* service.search.  A page is one SELECT, ordered by the time stamp of     *)
(* each artifact's current version and then by id, newest first; the       *)
(* caller passes the last item back as the cursor of the next page.        *)
(* Meanwhile artifacts are created, rewritten, shared and revoked.  A      *)
(* writer reads the clock under the write lock and commits later; readers  *)
(* do not wait for the lock.                                               *)
(*                                                                         *)
(* A search finds an artifact by its name or media type, or by the chunks  *)
(* of its current version; what it looks at of the index is limited by     *)
(* rows, and there may be many rows of one artifact.  A query of less than *)
(* three characters looks only at the newest rows of the tenant's index,   *)
(* whoever's and of whatever version they are: rows are never removed.     *)
(*                                                                         *)
(* Artifacts are numbers: their ids are ordered.                           *)
(***************************************************************************)
EXTENDS Clock, FiniteSets, Sequences, SequencesExt

CONSTANTS Artifacts,
          PageLimit,     \* items the caller asks for
          Candidates,    \* rows a search looks at (MAX_SEARCH_CANDIDATES)
          RowCounts,     \* bound: how many chunks a version may have, or be found
          PagesTime,     \* bound: where the clock stops
          MaxWrites      \* bound: writes, shares and revocations

ASSUME PagesAssumption ==
    /\ Artifacts \subseteq Nat /\ IsFiniteSet(Artifacts)
    /\ PageLimit \in Nat \ {0} /\ Candidates \in Nat \ {0}
    /\ RowCounts \subseteq Nat /\ 0 \in RowCounts
    /\ PagesTime \in Nat

VARIABLES stamp,      \* of each artifact's current version; 0: not created
          readable,   \* artifacts the caller may read: its own, and shared ones
          titled,     \* whose name and media type the filter or query finds
          hits,       \* of each artifact, the current chunks that the query finds
          indexed,    \* chunks in the tenant's index
          writer,     \* the transaction that holds the write lock
          walk,       \* the caller's walk through the pages
          writes

pagesVars == <<stamp, readable, titled, hits, indexed, writer, walk, writes>>

NoWriter == [art |-> 0, at |-> 0]
NoWalk   == [pc |-> "idle"]

Rows(arts) == MapThenSumSet(LAMBDA a : hits[a], arts)

\* The rest of the tenant may have filled the index, or not.
PagesInit ==
    /\ stamp \in [Artifacts -> {0, 1}]
    /\ LET created == {a \in Artifacts : stamp[a] > 0}
       IN  /\ readable \in SUBSET created /\ titled \in SUBSET created
           /\ hits \in {h \in [Artifacts -> RowCounts] : \A a \in Artifacts \ created : h[a] = 0}
    /\ indexed \in {Rows(Artifacts), Rows(Artifacts) + Candidates}
    /\ writer = NoWriter /\ walk = NoWalk /\ writes = 0

\* What the caller may find: list_artifacts filters by name and media type.
Found(op) ==
    {a \in readable : stamp[a] > 0 /\ (a \in titled \/ (op # "list" /\ hits[a] > 0))}

Key(a) == <<stamp[a], a>>

\* The cursor of a first page lies after every artifact.
Top == <<PagesTime + 2, 0>>

\* Ids decide where the time stamps are equal.
Older(k, cursor) ==
    k[1] < cursor[1] \/ (k[1] = cursor[1] /\ k[2] < cursor[2])

-----------------------------------------------------------------------------
(* Writers *)

\* What the caller has been promised: found all along, and not rewritten.
Disturb(arts) == walk' = IF walk.pc = "idle" THEN walk
                         ELSE [walk EXCEPT !.steady = @ \ arts]

BeginWrite(a) ==
    /\ writer = NoWriter /\ writes < MaxWrites
    /\ writer' = [art |-> a, at |-> now + 1]
    /\ writes' = writes + 1
    /\ UNCHANGED <<now, stamp, readable, titled, hits, indexed, walk>>

\* create_artifact (which makes it readable to its owner) or write_version.
CommitWrite(mine, named, found, chunks) ==
    LET a == writer.art
    IN  /\ writer # NoWriter
        /\ stamp' = [stamp EXCEPT ![a] = writer.at]
        /\ readable' = IF stamp[a] = 0 /\ mine THEN readable \cup {a} ELSE readable
        /\ titled' = IF named THEN titled \cup {a} ELSE titled \ {a}
        /\ found <= chunks
        /\ hits' = [hits EXCEPT ![a] = found]
        /\ indexed' = indexed + chunks
        /\ writer' = NoWriter
        /\ Disturb({a})
        /\ UNCHANGED <<now, writes>>

AbortWrite ==
    /\ writer # NoWriter /\ writer' = NoWriter
    /\ UNCHANGED <<now, stamp, readable, titled, hits, indexed, walk, writes>>

ChangeAccess(a) ==
    /\ writer = NoWriter /\ writes < MaxWrites /\ stamp[a] > 0
    /\ readable' = IF a \in readable THEN readable \ {a} ELSE readable \cup {a}
    /\ writes' = writes + 1
    /\ Disturb({a})
    /\ UNCHANGED <<now, stamp, titled, hits, indexed, writer>>

-----------------------------------------------------------------------------
(* The caller *)

Open(op) ==
    /\ walk.pc = "idle"
    /\ walk' = [pc |-> "paging", op |-> op, cursor |-> Top, listed |-> <<>>,
                steady |-> Found(op), crowded |-> FALSE]
    /\ UNCHANGED <<now, stamp, readable, titled, hits, indexed, writer, writes>>

\* Newest first: an artifact's place is how many are not older than it.
InOrder(arts) ==
    LET place(a) == Cardinality({b \in arts : ~Older(Key(b), Key(a))})
    IN  [n \in 1..Cardinality(arts) |-> CHOOSE a \in arts : place(a) = n]

\* Behind a cursor that compares time stamps alone, and behind one that
\* compares ids too.
EligibleByTime == {a \in Found(walk.op) : stamp[a] < walk.cursor[1]}

Eligible == {a \in Found(walk.op) : Older(Key(a), walk.cursor)}

ByBody == {a \in Eligible : hits[a] > 0}

\* More rows than are looked at: of those that are found behind the cursor,
\* which rank best; or, for a short query, of all that there are.
TooMany == \/ walk.op = "search" /\ Rows(ByBody) > Candidates
           \/ walk.op = "short" /\ indexed > Candidates

\* The artifacts behind the cursor that are left: all those found by name or
\* media type, and those that still have a row among the ones looked at.
Considered ==
    {(Eligible \cap titled) \cup c : c \in {b \in SUBSET ByBody :
        \/ b = ByBody
        \/ TooMany /\ (walk.op = "search" => Rows(b) >= Candidates)}}

\* The answer of the query is cut after so many rows, too: one for the name,
\* and each chunk once from the token and once from the substring index.
Scanned(arts) == 2 * Rows(arts) + Cardinality(arts)

Lengths(items) ==
    LET most == IF Len(items) < PageLimit THEN Len(items) ELSE PageLimit
    IN  {most} \cup {n \in 1..most : /\ walk.op # "list"
                                    /\ Scanned(ToSet(SubSeq(items, 1, n))) >= Candidates}

Page(arts, length) ==
    LET page == SubSeq(InOrder(arts), 1, length)
    IN  /\ walk' = IF page = <<>>
                   THEN [walk EXCEPT !.pc = "done", !.crowded = @ \/ TooMany]
                   ELSE [walk EXCEPT !.cursor = Key(Last(page)), !.listed = @ \o page,
                                     !.crowded = @ \/ TooMany]
        /\ UNCHANGED <<now, stamp, readable, titled, hits, indexed, writer, writes>>

NextPage ==
    /\ walk.pc = "paging"
    /\ \E arts \in Considered : \E length \in Lengths(InOrder(arts)) : Page(arts, length)

PagesElapse == now < PagesTime /\ Pass /\ UNCHANGED pagesVars

PagesNext ==
    \/ PagesElapse
    \/ \E a \in Artifacts : BeginWrite(a) \/ ChangeAccess(a)
    \/ \E mine, named \in BOOLEAN, found, chunks \in RowCounts :
         CommitWrite(mine, named, found, chunks)
    \/ AbortWrite
    \/ \E op \in {"list", "search", "short"} : Open(op)
    \/ NextPage

\* The pages never show an artifact twice, whatever is written between them.
\* When there are no more, every artifact has been shown that could be read
\* and found all the time, that was not rewritten, and whose name and media
\* type the query finds; and one that is found by its chunks alone has been
\* shown unless, for some page, there were more rows than a search looks at:
\* rows that it finds behind the cursor, or for a query of less than three
\* characters rows in the index (service.list_artifacts, service.search).
PagesWhole ==
    walk.pc \in {"paging", "done"} =>
        /\ \A i, j \in DOMAIN walk.listed : walk.listed[i] = walk.listed[j] => i = j
        /\ walk.pc = "done" =>
             \A a \in walk.steady : a \in titled \/ ~walk.crowded => a \in ToSet(walk.listed)
=============================================================================
