----------------------------- MODULE SlackSaves ------------------------------
(***************************************************************************)
(* The Slack adapter (slack.ApprovedSlackConsumer behind                   *)
(* AuthenticatedSlackEdge): a search through one approved connection of    *)
(* the external broker, and the artifact that keeps its result.  The       *)
(* connection's policy is checked between its authorization and the call   *)
(* fence, the upstream's answer inside the fence, before the use is        *)
(* recorded; the artifact is created after the broker has returned.  The   *)
(* broker's own slots and locks are ExternalMcp's.                         *)
(***************************************************************************)
EXTENDS Naturals, FiniteSets, Sequences, SequencesExt

CONSTANTS Channels, Ids,   \* of messages
          MaxSpan,         \* bound: times are 0..MaxSpan
          MaxMessages,     \* limit a caller may ask for (MAX_SLACK_MESSAGES)
          MaxSearches      \* bound: calls in a behaviour

ASSUME SlackAssumption == MaxMessages \in Nat \ {0}

VARIABLES policy,    \* of the connection, as registered; it never changes
          active,    \* whether the connection is
          searching, \* the call
          searches,
          contacted, \* what the upstream was asked; no code keeps it
          rows,      \* audit rows: call number -> outcome
          saved      \* artifacts

slackVars == <<policy, active, searching, searches, contacted, rows, saved>>

Times    == 0..MaxSpan
Messages == [id : Ids, channel : Channels, at : Times]
Answers  == UNION {[1..n -> Messages] : n \in 0..MaxMessages + 1}

\* A policy without channels stands for every one that _policy refuses.
Policies == [channels : SUBSET Channels, span : 1..MaxSpan]

NoCallNow == [pc |-> "none"]

SlackInit ==
    /\ policy \in Policies
    /\ active = TRUE
    /\ searching = NoCallNow /\ searches = 0
    /\ contacted = {} /\ rows = {} /\ saved = {}

Asked(op, channel, from, to, limit) ==
    [pc |-> "authorize", op |-> op, channel |-> channel, from |-> from, to |-> to,
     limit |-> limit, found |-> <<>>, number |-> searches + 1]

MayUse(op, scopes) ==
    IF op = "search" THEN "search" \in scopes
    ELSE "write" \in scopes /\ scopes \cap {"search", "read"} # {}

Go(pc) == searching' = [searching EXCEPT !.pc = pc]

\* The principal's scopes and the bounds of the arguments are checked first.
Search(op, scopes, channel, from, to, limit) ==
    /\ searching.pc \in {"none", "over"} /\ searches < MaxSearches
    /\ MayUse(op, scopes) /\ from < to
    /\ searching' = Asked(op, channel, from, to, limit)
    /\ searches' = searches + 1
    /\ UNCHANGED <<policy, active, contacted, rows, saved>>

Record(outcome) == rows' = rows \cup {<<searching.number, outcome>>}

\* authorize_external_tool
Authorize ==
    /\ searching.pc = "authorize"
    /\ IF active THEN Go("check") /\ UNCHANGED rows ELSE Go("over") /\ Record("denied")
    /\ UNCHANGED <<policy, active, searches, contacted, saved>>

Approved(s) ==
    s.channel \in policy.channels /\ s.to - s.from <= policy.span

\* pre_validator: validate_policy
CheckPolicy ==
    /\ searching.pc = "check"
    /\ IF Approved(searching) THEN Go("fence") /\ UNCHANGED rows ELSE Go("over") /\ Record("denied")
    /\ UNCHANGED <<policy, active, searches, contacted, saved>>

\* external_call_fence reads the status again.
Contact ==
    /\ searching.pc = "fence"
    /\ IF active
       THEN /\ Go("upstream") /\ UNCHANGED rows
            /\ contacted' = contacted \cup {[channel |-> searching.channel, from |-> searching.from,
                                             to |-> searching.to]}
       ELSE Go("over") /\ Record("failed") /\ UNCHANGED contacted
    /\ UNCHANGED <<policy, active, searches, saved>>

\* A range that includes its end, and the half-open one of _messages.
WithinClosed(m, s) == m.channel = s.channel /\ m.at >= s.from /\ m.at <= s.to

Within(m, s) == m.channel = s.channel /\ m.at >= s.from /\ m.at < s.to

\* The first message of each id.
Unrepeated(answer) ==
    LET keep == {i \in DOMAIN answer : \A j \in 1..(i - 1) : answer[j].id # answer[i].id}
    IN  [n \in 1..Cardinality(keep) |->
           answer[CHOOSE i \in keep : Cardinality({j \in keep : j <= i}) = n]]

\* result_validator: a whole answer is refused for one message out of bounds.
Receive(answer) ==
    /\ searching.pc = "upstream"
    /\ IF Len(answer) <= searching.limit /\ \A i \in DOMAIN answer : Within(answer[i], searching)
       THEN /\ searching' = [searching EXCEPT !.pc = "record", !.found = Unrepeated(answer)]
            /\ UNCHANGED rows
       ELSE Go("over") /\ Record("failed")
    /\ UNCHANGED <<policy, active, searches, contacted, saved>>

\* The upstream fails, or what it sends is no list of messages.
ReceiveNothing ==
    /\ searching.pc = "upstream" /\ Go("over") /\ Record("failed")
    /\ UNCHANGED <<policy, active, searches, contacted, saved>>

\* Only a recorded use is answered.
RecordUse ==
    /\ searching.pc = "record" /\ Record("allowed")
    /\ Go(IF searching.op = "save" THEN "create" ELSE "over")
    /\ UNCHANGED <<policy, active, searches, contacted, saved>>

\* create_artifact, with the search in the context.
Save ==
    /\ searching.pc = "create"
    /\ saved' = saved \cup {searching}
    /\ Go("over")
    /\ UNCHANGED <<policy, active, searches, contacted, rows>>

\* A transaction fails, the artifact would be too large, or the process dies.
Abandon ==
    /\ searching.pc \notin {"none", "over"} /\ Go("over")
    /\ UNCHANGED <<policy, active, searches, contacted, rows, saved>>

\* The administrator revokes the connection: not while a call is with the
\* upstream, which holds the write lock.
Withdraw ==
    /\ active /\ searching.pc # "upstream"
    /\ active' = FALSE
    /\ UNCHANGED <<policy, searching, searches, contacted, rows, saved>>

SlackNext ==
    \/ \E op \in {"search", "save"}, scopes \in SUBSET {"search", "read", "write"},
          channel \in Channels, from, to \in Times, limit \in 1..MaxMessages :
         Search(op, scopes, channel, from, to, limit)
    \/ Authorize \/ CheckPolicy \/ Contact
    \/ \E answer \in Answers : Receive(answer)
    \/ ReceiveNothing \/ RecordUse \/ Save \/ Abandon \/ Withdraw

\* Whatever the upstream answers: an artifact holds no message outside the
\* channel and the half-open time range of its search, none twice and no
\* more than asked for; the upstream was never asked for more than the
\* connection's policy allows; and each artifact's search is on record as an
\* allowed use (slack._messages, validate_policy, _save_internal).
SavedAsApproved ==
    /\ \A s \in saved :
         /\ Len(s.found) <= s.limit
         /\ \A i, j \in DOMAIN s.found : s.found[i].id = s.found[j].id => i = j
         /\ \A i \in DOMAIN s.found :
              s.found[i].channel \in policy.channels /\ s.found[i].at \in s.from..(s.to - 1)
         /\ <<s.number, "allowed">> \in rows
    /\ \A q \in contacted : q.channel \in policy.channels /\ q.to - q.from <= policy.span
=============================================================================
