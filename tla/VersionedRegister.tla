-------------------------- MODULE VersionedRegister --------------------------
(***************************************************************************)
(* What the artifact store promises to its clients.  An artifact is an     *)
(* atomic register that keeps its past: each call takes effect at one      *)
(* moment between its start and its answer, or never.  A write takes       *)
(* effect only on the version it names, a read gets the version that is    *)
(* latest at that moment, or the one it names, and a success is reported   *)
(* only for what took effect.  A failure may be reported either way.       *)
(***************************************************************************)
EXTENDS Naturals, Sequences

CONSTANTS Artifacts, Clients, Queries

VARIABLES
  latest,  \* of each artifact, the number of its latest version; 0 before the first
  writes,  \* the versions of all artifacts, by number
  call     \* what each client has asked and where that stands

registerVars == <<latest, writes, call>>

Nothing == [state |-> "none"]
Asked(q) == [state |-> "asked", of |-> q]
Taken(q, n) == [state |-> "taken", of |-> q, number |-> n]
Told(q, n, d) == [state |-> "told", of |-> q, number |-> n, blob |-> d]
Failed(q) == [state |-> "failed", of |-> q]

Init ==
  /\ latest = [a \in Artifacts |-> 0]
  /\ writes = <<>>
  /\ call = [c \in Clients |-> Nothing]

Ask(c) ==
  /\ call[c] = Nothing
  /\ call'[c].state = "asked" /\ call'[c].of \in Queries
  /\ call' = [call EXCEPT ![c] = Asked(call'[c].of)]
  /\ UNCHANGED <<latest, writes>>

(* A write takes effect on the latest version, if that is its parent. *)
Write(c) ==
  LET q == call[c].of
      n == Len(writes) + 1
  IN
  /\ call[c].state = "asked" /\ q.op \in {"create", "write"}
  /\ latest[q.artifact] = IF q.op = "create" THEN 0 ELSE q.parent
  /\ latest[q.artifact] = 0 => q.op = "create"
  /\ writes' = Append(writes, [artifact |-> q.artifact, blob |-> q.blob])
  /\ latest' = [latest EXCEPT ![q.artifact] = n]
  /\ call' = [call EXCEPT ![c] = Taken(q, n)]

Read(c) ==
  LET q == call[c].of
      n == IF q.version = 0 THEN latest[q.artifact] ELSE q.version
  IN
  /\ call[c].state = "asked" /\ q.op = "read"
  /\ n \in DOMAIN writes /\ writes[n].artifact = q.artifact
  /\ call' = [call EXCEPT ![c] = Taken(q, n)]
  /\ UNCHANGED <<latest, writes>>

Tell(c) ==
  LET q == call[c].of
      n == call[c].number
  IN
  /\ call[c].state = "taken"
  /\ call' = [call EXCEPT ![c] = Told(q, n, writes[n].blob)]
  /\ UNCHANGED <<latest, writes>>

Fail(c) ==
  /\ call[c].state \in {"asked", "taken"}
  /\ call' = [call EXCEPT ![c] = Failed(call[c].of)]
  /\ UNCHANGED <<latest, writes>>

(* Clients get their answers, or die. *)
Leave ==
  /\ \E C \in SUBSET Clients : call' = [c \in Clients |-> IF c \in C THEN Nothing ELSE call[c]]
  /\ UNCHANGED <<latest, writes>>

Next ==
  \/ \E c \in Clients : Ask(c) \/ Write(c) \/ Read(c) \/ Tell(c) \/ Fail(c)
  \/ Leave

Register == Init /\ [][Next]_registerVars
==============================================================================
