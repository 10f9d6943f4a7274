----------------------------- MODULE AgentBundle -----------------------------
(***************************************************************************)
(* The agent recipe (agent_recipe.run_recipe): three artifacts - css, js,  *)
(* html - that bear the bundle's id in the context of their versions.  The *)
(* recipe is idempotent by search: for each role it lists the newest       *)
(* artifacts of that name and media type, reads each, and creates one only *)
(* when none bears the context.  Every call is a request of its own that   *)
(* may fail, or whose answer may be lost after the server has done its     *)
(* work; the run then ends and is started again.  Others create artifacts  *)
(* of the same names, and write versions: of other bodies, contexts and    *)
(* media types, which may hide an artifact from the recipe's listing or    *)
(* give another one the bundle's context.                                  *)
(***************************************************************************)
EXTENDS Naturals, FiniteSets, Sequences

CONSTANTS Runs,
          MaxCandidates,   \* artifacts a run looks at (MAX_IDEMPOTENCY_CANDIDATES)
          MaxArtifacts,    \* bound: artifacts there are
          MaxEdits         \* bound: versions that others write

ASSUME BundleAssumption == MaxCandidates \in Nat \ {0}

VARIABLES assets,      \* artifact -> its current version, whether that has the
                       \* role's media type, and whether others ever gave the
                       \* artifact a context or media type
          references,  \* edges of type "references"
          run,
          asked,       \* run -> the creation that its server is at, if any
          edits,
          overlapped   \* whether a run ever began while another was at work

bundleVars == <<assets, references, run, asked, edits, overlapped>>

Roles == <<"css", "js", "html">>

Idle      == [pc |-> "none"]
Failed    == [pc |-> "failed"]
NoRequest == [role |-> "none"]
Nothing   == <<>>   \* the context, or the body, of somebody else's version

BundleInit ==
    /\ assets = <<>> /\ references = {}
    /\ run = [r \in Runs |-> Idle]
    /\ asked = [r \in Runs |-> NoRequest]
    /\ edits = 0 /\ overlapped = FALSE

Role(r) == Roles[Len(run[r].done) + 1]

\* What a run puts into a role: the html names the versions of the others.
\* A run may be given another css than the one before.
Body(r) == CASE Role(r) = "css" -> <<run[r].css>>
             [] Role(r) = "js" -> <<0>>
             [] OTHER -> run[r].done

-----------------------------------------------------------------------------
(* The artifact store, as the recipe sees it *)

\* Every version that is written gets a later time than the one before.
Written == Len(assets) + edits

\* artifact_list, by name and media type: the last written first, no more
\* than the limit.
NamedLately(role) ==
    LET named    == {a \in DOMAIN assets : assets[a].role = role /\ assets[a].typed}
        place(a) == Cardinality({b \in named : assets[b].at >= assets[a].at})
        count    == Cardinality(named)
    IN  [n \in 1..(IF count < MaxCandidates THEN count ELSE MaxCandidates) |->
            CHOOSE a \in named : place(a) = n]

Put(role, context, body) ==
    /\ Len(assets) < MaxArtifacts
    /\ assets' = Append(assets, [role |-> role, typed |-> TRUE, context |-> context,
                                body |-> body, version |-> 1, at |-> Written + 1,
                                remade |-> FALSE])

-----------------------------------------------------------------------------
(* A run *)

Working(r) == run[r].pc \notin {"none", "done", "failed"}

BeginRun(r, css) ==
    /\ run[r] = Idle
    /\ run' = [run EXCEPT ![r] = [pc |-> "listing", css |-> css, done |-> <<>>,
                                  todo |-> <<>>, matches |-> <<>>, full |-> FALSE]]
    /\ overlapped' = (overlapped \/ \E s \in Runs : Working(s) \/ asked[s] # NoRequest)
    /\ UNCHANGED <<assets, references, asked, edits>>

List(r) ==
    /\ run[r].pc = "listing"
    /\ LET found == NamedLately(Role(r))
       IN  run' = [run EXCEPT ![r].pc = "reading", ![r].todo = found, ![r].matches = <<>>,
                              ![r].full = Len(found) >= MaxCandidates]
    /\ UNCHANGED <<assets, references, asked, edits, overlapped>>

\* A version that bears the bundle's context has to have this content.
Read(r) ==
    /\ run[r].pc = "reading" /\ run[r].todo # <<>>
    /\ LET a == Head(run[r].todo)
           v == assets[a]
           rest == [run[r] EXCEPT !.todo = Tail(@)]
       IN  run' = [run EXCEPT ![r] =
             IF v.context = Nothing THEN rest
             ELSE IF v.context = Body(r) /\ v.body = Body(r)
             THEN [rest EXCEPT !.matches = Append(@, <<a, v.version>>)]
             ELSE Failed]
    /\ UNCHANGED <<assets, references, asked, edits, overlapped>>

\* The role is settled and what was listed for it forgotten; after the last
\* one the links are next.
Ensured(state, asset) ==
    LET done == Append(state.done, asset)
    IN  [state EXCEPT !.done = done, !.matches = <<>>, !.full = FALSE,
                      !.pc = IF Len(done) = Len(Roles) THEN "linking" ELSE "listing"]

\* A run that ignores how many it has seen, and the one that stops when
\* there may be more.
MayCreateAnyway(r) == run[r].matches = <<>>

MayCreate(r) == run[r].matches = <<>> /\ ~run[r].full

AllRead(r) == run[r].pc = "reading" /\ run[r].todo = <<>>

Reuse(r) ==
    /\ AllRead(r) /\ Len(run[r].matches) = 1
    /\ run' = [run EXCEPT ![r] = Ensured(@, Head(@.matches))]
    /\ UNCHANGED <<assets, references, asked, edits, overlapped>>

\* Ambiguous, or more candidates than were listed.
Refuse(r) ==
    /\ AllRead(r) /\ Len(run[r].matches) # 1 /\ ~MayCreate(r)
    /\ run' = [run EXCEPT ![r] = Failed]
    /\ UNCHANGED <<assets, references, asked, edits, overlapped>>

AskCreate(r) ==
    /\ AllRead(r) /\ MayCreate(r)
    /\ run' = [run EXCEPT ![r].pc = "creating"]
    /\ asked' = [asked EXCEPT ![r] = [role |-> Role(r), body |-> Body(r)]]
    /\ UNCHANGED <<assets, references, edits, overlapped>>

\* artifact_create commits; a run that still waits gets the answer, or not.
Create(r, lost) ==
    /\ asked[r] # NoRequest
    /\ Put(asked[r].role, asked[r].body, asked[r].body)
    /\ asked' = [asked EXCEPT ![r] = NoRequest]
    /\ run' = IF run[r].pc # "creating" THEN run
              ELSE IF lost THEN [run EXCEPT ![r] = Failed]
              ELSE [run EXCEPT ![r] = Ensured(@, <<Len(assets) + 1, 1>>)]
    /\ UNCHANGED <<references, edits, overlapped>>

\* It is refused, or its transaction fails.
CreateFails(r) ==
    /\ asked[r] # NoRequest
    /\ asked' = [asked EXCEPT ![r] = NoRequest]
    /\ run' = IF run[r].pc = "creating" THEN [run EXCEPT ![r] = Failed] ELSE run
    /\ UNCHANGED <<assets, references, edits, overlapped>>

\* graph_link from the html to the css, then to the js; an edge that is
\* there already is answered as if it were new.
Html(r)    == run[r].done[3][1]
LinksOf(r)  == {<<Html(r), run[r].done[i][1]>> : i \in 1..2}
LinkNext(r) == IF <<Html(r), run[r].done[1][1]>> \in references THEN 2 ELSE 1

LinkAssets(r) ==
    /\ run[r].pc = "linking"
    /\ references' = references \cup {<<Html(r), run[r].done[LinkNext(r)][1]>>}
    /\ run' = IF LinkNext(r) = 2 THEN [run EXCEPT ![r].pc = "checking"] ELSE run
    /\ UNCHANGED <<assets, asked, edits, overlapped>>

\* The searches, the read, the versions and the walk that the answer shows.
Check(r) ==
    /\ run[r].pc = "checking"
    /\ run' = [run EXCEPT ![r].pc = "done"]
    /\ UNCHANGED <<assets, references, asked, edits, overlapped>>

\* A call fails or times out, or the agent dies; a creation that was sent
\* goes on without it.
Fail(r) ==
    /\ Working(r)
    /\ run' = [run EXCEPT ![r] = Failed]
    /\ UNCHANGED <<assets, references, asked, edits, overlapped>>

-----------------------------------------------------------------------------
(* The others *)

Stranger(role) ==
    /\ Put(role, Nothing, Nothing)
    /\ UNCHANGED <<references, run, asked, edits, overlapped>>

\* write_version: a version of another context, body or media type, or not.
Edit(a, context, body, typed) ==
    /\ edits < MaxEdits
    /\ assets' = [assets EXCEPT ![a].context = context, ![a].body = body, ![a].typed = typed,
                                ![a].version = @ + 1, ![a].at = Written + 1,
                                ![a].remade = @ \/ context # assets[a].context
                                                \/ typed # assets[a].typed]
    /\ edits' = edits + 1
    /\ UNCHANGED <<references, run, asked, overlapped>>

\* The contexts that there are for the role of an artifact; the body is the
\* one that the context tells of, or another.
Contexts(a) == {assets[b].context : b \in {b \in DOMAIN assets : assets[b].role = assets[a].role}}

\* An artifact that others create under the name but with another media type
\* is as good as not there, until they give it the media type.
Others ==
    \/ \E i \in DOMAIN Roles : Stranger(Roles[i])
    \/ \E a \in DOMAIN assets :
         \E context \in Contexts(a) \cup {Nothing} :
           \E body \in {context, Nothing}, typed \in BOOLEAN : Edit(a, context, body, typed)

BundleStep(r) ==
    \/ \E css \in {1, 2} : BeginRun(r, css)
    \/ List(r) \/ Read(r) \/ Reuse(r) \/ Refuse(r) \/ AskCreate(r)
    \/ \E lost \in BOOLEAN : Create(r, lost)
    \/ CreateFails(r) \/ LinkAssets(r) \/ Check(r) \/ Fail(r)

BundleNext == Others \/ \E r \in Runs : BundleStep(r)

Finished == {r \in Runs : run[r].pc = "done"}

Bearers(role) == {a \in DOMAIN assets : assets[a].role = role /\ assets[a].context # Nothing}

\* However often the recipe is run again after failures and lost answers,
\* and whatever others create and write: as long as one run is over before
\* the next begins, there is at most one artifact for each role of the
\* bundle, besides those to which others gave a context or a media type: an
\* artifact that they hide is made again, once.  Runs that finish without
\* somebody's edits agree on the assets; and a finished run's links are
\* there (agent_recipe._ensure, run_recipe).
OneOfEach ==
    /\ ~overlapped => \A i \in DOMAIN Roles :
         Cardinality({a \in Bearers(Roles[i]) : ~assets[a].remade}) <= 1
    /\ ~overlapped /\ edits = 0 => \A r, s \in Finished : run[r].done = run[s].done
    /\ \A r \in Finished : LinksOf(r) \subseteq references
=============================================================================
