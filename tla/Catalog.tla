------------------------------- MODULE Catalog -------------------------------
(***************************************************************************)
(* The readers of the artifact store and the clients that build on them,   *)
(* side by side: a caller that pages through a listing, one that walks the *)
(* graph, agents that run the recipe, and the Slack adapter.  A behaviour  *)
(* is one of them: they share no state.                                    *)
(***************************************************************************)
EXTENDS ArtifactPages, GraphWalks, AgentBundle, SlackSaves

VARIABLE part

vars == <<part, now, pagesVars, walksVars, bundleVars, slackVars>>

Parts == {"pages", "walks", "bundle", "slack"}

\* What a part starts from matters only where it is the one that moves.
Init ==
    /\ part \in Parts
    /\ now = 0
    /\ part # "pages" => stamp = [a \in Artifacts |-> 0] /\ indexed = 0
    /\ part # "walks" => links = {} /\ allowed = {}
    /\ part # "slack" => policy = [channels |-> {}, span |-> MaxSpan]
    /\ PagesInit /\ WalksInit /\ BundleInit /\ SlackInit

Next ==
    \/ part = "pages" /\ PagesNext /\ UNCHANGED <<part, walksVars, bundleVars, slackVars>>
    \/ part = "walks" /\ WalksNext /\ UNCHANGED <<part, now, pagesVars, bundleVars, slackVars>>
    \/ part = "bundle" /\ BundleNext /\ UNCHANGED <<part, now, pagesVars, walksVars, slackVars>>
    \/ part = "slack" /\ SlackNext /\ UNCHANGED <<part, now, pagesVars, walksVars, bundleVars>>

Spec == Init /\ [][Next]_vars
=============================================================================
