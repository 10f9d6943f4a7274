----------------------------- MODULE GraphWalks ------------------------------
(***************************************************************************)
(* Walks through the graph of artifacts: service.graph_component, the      *)
(* paths of a search under a root, and service.traverse.  Each node taken  *)
(* from the queue is one SELECT of its own, outside any transaction, so    *)
(* access is granted and revoked and links appear between two of them.     *)
(* Links are never removed.                                                *)
(***************************************************************************)
EXTENDS Naturals, FiniteSets, Sequences, SequencesExt

CONSTANTS Nodes, Root,
          NodeLimit,     \* nodes or items a walk returns at most
          MaxDepth,      \* of traverse
          MaxLinks,      \* bound: links in the graph
          MaxUpdates     \* bound: changes while a walk is under way

ASSUME WalksAssumption ==
    /\ Root \in Nodes /\ IsFiniteSet(Nodes)
    /\ NodeLimit \in Nat \ {0} /\ MaxDepth \in Nat

VARIABLES links,      \* <<source, target>>
          allowed,    \* nodes the caller may read
          search,     \* the walk
          updates

walksVars == <<links, allowed, search, updates>>

NoSearch == [pc |-> "idle"]

WalksInit ==
    /\ links \in {l \in SUBSET {p \in Nodes \X Nodes : p[1] # p[2]} : Cardinality(l) <= MaxLinks}
    /\ allowed \in SUBSET Nodes
    /\ search = NoSearch /\ updates = 0

Link(source, target) ==
    /\ updates < MaxUpdates /\ source # target /\ <<source, target>> \notin links
    /\ links' = links \cup {<<source, target>>}
    /\ updates' = updates + 1
    /\ UNCHANGED <<allowed, search>>

\* `ever` and `always` remember what was readable during the walk.
SetAccess(now_allowed) ==
    /\ updates < MaxUpdates /\ now_allowed # allowed
    /\ allowed' = now_allowed
    /\ search' = IF search.pc # "walking" THEN search
                 ELSE [search EXCEPT !.ever = @ \cup now_allowed,
                                     !.always = @ \cap now_allowed]
    /\ updates' = updates + 1
    /\ UNCHANGED links

\* Share one artifact with the caller, or revoke its grant.
Share(n) == SetAccess(allowed \cup {n})
Revoke(n) == SetAccess(allowed \ {n})

Adjacent(op, n) ==
    {m \in Nodes : \/ <<n, m>> \in links
                   \/ op # "traverse" /\ <<m, n>> \in links}

\* A SELECT that joins the links of a node without the access clause.
VisibleOrNot(op, n) == Adjacent(op, n)

Visible(op, n) == Adjacent(op, n) \cap allowed

\* The root is authorized first: a caller that may not read it learns
\* nothing.
Begin(op) ==
    /\ search.pc # "walking" /\ Root \in allowed
    /\ search' = [pc |-> "walking", op |-> op, queue |-> <<Root>>,
                  depth |-> [n \in {Root} |-> 0], items |-> 0, shown |-> {},
                  ever |-> allowed, always |-> allowed, before |-> links]
    /\ UNCHANGED <<links, allowed, updates>>

Full == IF search.op = "traverse" THEN search.items >= NodeLimit
        ELSE Cardinality(DOMAIN search.depth) >= NodeLimit

\* One node's SELECT, whose rows come in any order.  A component takes new
\* nodes until it is full; traverse returns an item for every link, also to a
\* node it has seen, and does not look behind MaxDepth.
Expand ==
    LET op    == search.op
        n     == Head(search.queue)
        known == DOMAIN search.depth
        deep  == op = "traverse" /\ search.depth[n] >= MaxDepth
        rows  == IF deep THEN {} ELSE Visible(op, n)
        look  == IF op = "traverse" THEN rows ELSE rows \ known
        room  == NodeLimit - (IF op = "traverse" THEN search.items ELSE Cardinality(known))
    IN  /\ search.pc = "walking" /\ search.queue # <<>> /\ ~Full
        /\ \E took \in kSubset(IF Cardinality(look) < room THEN Cardinality(look) ELSE room, look) :
             \E fresh \in SetToSeqs(took \ known) :
               search' = [search EXCEPT
                    !.queue = Tail(@) \o fresh,
                    !.depth = [m \in known \cup took |-> IF m \in known THEN @[m] ELSE @[n] + 1],
                    !.items = @ + Cardinality(took),
                    !.shown = IF op = "traverse" THEN @ \cup took ELSE @]
        /\ UNCHANGED <<links, allowed, updates>>

\* The answer: a component and a search select once more what of the nodes
\* is still readable; traverse has collected its items on the way.
Answer ==
    /\ search.pc = "walking" /\ (search.queue = <<>> \/ Full)
    /\ search' = [search EXCEPT !.pc = "answered",
                    !.shown = IF search.op = "traverse" THEN @
                              ELSE DOMAIN search.depth \cap allowed]
    /\ UNCHANGED <<links, allowed, updates>>

WalksNext ==
    \/ \E source, target \in Nodes : Link(source, target)
    \/ \E n \in Nodes : Share(n) \/ Revoke(n)
    \/ \E op \in {"component", "search", "traverse"} : Begin(op)
    \/ Expand
    \/ Answer

\* The nodes at the end of a path of at most d links from the root, over
\* links and nodes that were there all the time.
Lasting(op, d) ==
    LET step(n, m) == \/ <<n, m>> \in search.before
                      \/ op # "traverse" /\ <<m, n>> \in search.before
        paths(m, k) == {p \in [0..k -> Nodes] :
                          /\ p[0] = Root /\ p[k] = m
                          /\ \A i \in 1..k : p[i] \in search.always /\ step(p[i - 1], p[i])}
    IN  {m \in Nodes : \E k \in 0..d : paths(m, k) # {}}

Reach == IF search.op = "traverse" THEN MaxDepth ELSE Cardinality(Nodes)

\* A walk shows no node that the caller could not read at some moment of it;
\* and unless it is full, it shows every node that could be reached all the
\* time, over nodes that could be read all the time (service._component_ids,
\* _readable_graph_paths, traverse).
WalksTell ==
    search.pc = "answered" =>
        /\ search.shown \cup DOMAIN search.depth \subseteq search.ever
        /\ ~Full => Lasting(search.op, Reach) \ {Root} \subseteq search.shown
=============================================================================
