----------------------------- MODULE McpGateway -----------------------------
(***************************************************************************)
(* How a request from a browser or to the renderer becomes requests to     *)
(* /mcp, and what bounds and authorizes each of them.                      *)
(*                                                                         *)
(* An outer call arrives at /api/mcp, /api/bridge, /api/admin/mcp          *)
(* (InspectionApp) or at the renderer (RendererApp).  It is charged to a   *)
(* rate table, takes a concurrency slot, reads its body and then calls a   *)
(* tool through HttpMcpClient, which issues a relay token for the caller's *)
(* principal, sends several HTTP requests to /mcp under that token, and    *)
(* revokes it in a finally clause.  Each of those requests is a request of *)
(* its own to FolioHttpApp: authenticated, charged and given a slot there. *)
(* The call may time out while its requests are under way or in flight.    *)
(*                                                                         *)
(* `mode` is the deployment: "trusted" (hosted, in-process token table),   *)
(* "signed" (hosted with a capability secret: signed tokens and a          *)
(* denylist), "local" (no authenticator; the separate renderer process     *)
(* signs tokens, the server's denylist never hears of their revocation).   *)
(*                                                                         *)
(* A token is known by the call it was issued for: a call issues one.      *)
(***************************************************************************)
EXTENDS Limits, Clock

CONSTANTS Calls, Requests, Actors, Ips, Scopes,
          AdminScope,    \* the scope /api/admin/mcp asks for
          Fixed,         \* the principal of the local renderer
          Nobody,        \* no principal
          Ttl,           \* life of a relay token
          DenyTime,      \* how long a revoked token stays on the denylist
          LastTime,      \* bound: where the clock stops
          MaxUpsets      \* bound: restarts and changes of memberships, together

\* run_http and run_renderer use tokens of 15 seconds, the denylist 60.
ASSUME RelayAssumption ==
    /\ Ttl \in Nat \ {0} /\ DenyTime \in Nat /\ Ttl < DenyTime
    /\ AdminScope \in Scopes /\ Fixed \in Actors /\ Nobody \notin Actors

VARIABLES mode,
          member,    \* actors with an active membership
          scopes,    \* the scopes of each membership
          call, req,
          tokens,    \* the trusted relay's table: call -> when it expires
          denied,    \* the signed relay's denylist: call -> until when
          rates,     \* the rate table of each front
          slots,     \* the concurrency slots of each front
          restarts,  \* of the server process
          changes    \* of memberships

gateVars == <<mode, member, scopes, call, req, tokens, denied, rates, slots,
              restarts, changes>>

Fronts == {"api", "renderer", "mcp"}
Doors  == {"tool", "admin", "render"}   \* /api/bridge calls a tool like /api/mcp

Hosted == mode # "local"
Empty  == [c \in {} |-> 0]

NoCall == [pc |-> "none"]
NoReq  == [pc |-> "none"]

GateInit ==
    /\ mode \in {"trusted", "signed", "local"}
    /\ member = Actors
    /\ scopes = [a \in Actors |-> Scopes]
    /\ call = [c \in Calls |-> NoCall]
    /\ req = [q \in Requests |-> NoReq]
    /\ tokens = Empty /\ denied = Empty
    /\ rates = [f \in Fronts |-> NoWindows]
    /\ slots = [f \in Fronts |-> NoSlots]
    /\ restarts = 0 /\ changes = 0

-----------------------------------------------------------------------------
(* The relays *)

Relayed(c) == call[c].principal # Nobody /\ call[c].door # "admin"

\* Tokens and denylist entries are dropped when their time has come.
Current(entries, at) == Restrict(entries, {c \in DOMAIN entries : entries[c] > at})

Entered(entries, c, until) ==
    [d \in DOMAIN Current(entries, now) \cup {c} |-> IF d = c THEN until ELSE entries[d]]

Issue(c) ==
    tokens' = IF mode = "trusted" THEN Entered(tokens, c, now + Ttl) ELSE tokens

\* A client that leaves its token to run out.
RevokeLater(c) == UNCHANGED <<tokens, denied>>

\* TrustedPrincipalRelay.revoke forgets the token, SignedPrincipalRelay's
\* puts it on its own process's denylist.
Revoke(c) ==
    /\ tokens' = Restrict(tokens, DOMAIN tokens \ {c})
    /\ denied' = IF mode = "signed" THEN Entered(denied, c, now + DenyTime) ELSE denied

Expiry(c) == call[c].iat + Ttl   \* of a signed token, to the second

Resolves(c) ==
    IF mode = "trusted"
    THEN c \in DOMAIN Current(tokens, now)
    ELSE c \notin DOMAIN Current(denied, now) /\ now <= Expiry(c)

-----------------------------------------------------------------------------
(* The outer call *)

FrontOf(door) == IF door = "render" THEN "renderer" ELSE "api"

\* InspectionApp charges tenant, actor and address, the renderer the
\* address; one tenant suffices here.
Charges(door, actor, ip) ==
    IF door = "render" THEN {<<"ip", ip>>}
    ELSE {<<"tenant", "tenant">>, <<"actor", actor>>, <<"ip", ip>>}

SlotKey(door, actor, ip) == IF door = "render" THEN <<Nobody, ip>> ELSE <<actor, ip>>

\* The charge and the slot.  A call that finds no free slot has been
\* charged all the same.
Enter(c, door, actor, ip, granted) ==
    LET f    == FrontOf(door)
        asks == Charges(door, actor, ip)
        key  == SlotKey(door, actor, ip)
        pass == Allows(rates[f], asks, now) /\ FreeSlot(slots[f], key)
    IN  /\ call[c].pc = "none"
        /\ rates' = [rates EXCEPT ![f] = Asked(@, asks, now)]
        /\ IF pass
           THEN /\ slots' = [slots EXCEPT ![f] = Taken(@, key)]
                /\ call' = [call EXCEPT ![c] =
                     [pc |-> "reading", door |-> door, principal |-> actor, ip |-> ip,
                      granted |-> granted, iat |-> 0, life |-> 0]]
           ELSE UNCHANGED <<slots, call>>
        /\ UNCHANGED <<now, mode, member, scopes, req, tokens, denied, restarts, changes>>

\* Who a browser's call is: the session's owner, or without an
\* authenticator the fixed local identity, of which nothing is passed on.
EnterInspection(c, door, actor, ip) ==
    /\ door # "render"
    /\ IF Hosted THEN actor \in member ELSE actor = Nobody
    /\ Enter(c, door, actor, ip, IF Hosted THEN scopes[actor] ELSE Scopes)

\* The renderer asks nobody who they are and acts as its fixed principal.
EnterRenderer(c, ip) == ~Hosted /\ Enter(c, "render", Fixed, ip, Scopes \ {AdminScope})

MayGoOn(c) ==
    call[c].door = "admin" /\ call[c].principal # Nobody => AdminScope \in call[c].granted

\* HttpMcpClient.call: a token is issued and the nested session begins.
BeginCall(c) ==
    /\ call' = [call EXCEPT ![c].pc = "calling", ![c].iat = now, ![c].life = restarts]
    /\ IF Relayed(c) THEN Issue(c) ELSE UNCHANGED tokens
    /\ UNCHANGED <<now, mode, member, scopes, req, denied, rates, slots, restarts, changes>>

\* The body is read and found in order.
CallTool(c) ==
    call[c].pc = "reading" /\ call[c].door # "render" /\ MayGoOn(c) /\ BeginCall(c)

\* /render and /content read one version; /health lists the tools.
Render(c) == call[c].pc = "reading" /\ call[c].door = "render" /\ BeginCall(c)

GiveBack(c) ==
    LET f == FrontOf(call[c].door)
    IN  slots' = [slots EXCEPT ![f] =
            Released(@, SlotKey(call[c].door, call[c].principal, call[c].ip))]

\* The end of a call, whatever ended it: the result, an error of the tool or
\* of the transport, too large a result, the client's, the bridge's or the
\* front's own timeout.  Both finally clauses run.
End(c) ==
    /\ call[c].pc = "calling"
    /\ call' = [call EXCEPT ![c].pc = "over"]
    /\ IF Relayed(c) THEN Revoke(c) ELSE UNCHANGED <<tokens, denied>>
    /\ GiveBack(c)
    /\ UNCHANGED <<now, mode, member, scopes, req, rates, restarts, changes>>

\* Wrong origin or content type, a body that is late, too large or no JSON,
\* an unknown tool, an attachment that is not permitted, no admin scope.
Reject(c) ==
    /\ call[c].pc = "reading"
    /\ call' = [call EXCEPT ![c].pc = "over"]
    /\ GiveBack(c)
    /\ UNCHANGED <<now, mode, member, scopes, req, tokens, denied, rates, restarts, changes>>

-----------------------------------------------------------------------------
(* A request to /mcp *)

\* The client of call c sends a request of its MCP session, with the call's
\* token if it has one.  (The admin client calls the server in-process.)
Send(c, q) ==
    /\ call[c].pc = "calling" /\ call[c].door # "admin"
    /\ req[q].pc = "none"
    /\ req' = [req EXCEPT ![q] = [pc |-> "sent", of |-> c]]
    /\ UNCHANGED <<now, mode, member, scopes, call, tokens, denied, rates, slots, restarts, changes>>

\* _authenticate_context: the principal of the request, or a refusal.
Authentic(c) ==
    IF Relayed(c)
    THEN /\ Resolves(c)
         /\ Hosted => call[c].principal \in member
                      /\ call[c].granted \subseteq scopes[call[c].principal]
    ELSE ~Hosted

McpKey(who) == IF who = Nobody THEN <<"ip", "server">> ELSE <<"identity", who>>

\* The body has arrived whole.  A request that is not authenticated is
\* charged to its address; one that is, to its identity, and then needs a
\* slot.  The charge stays when there is none.
Receive(q) ==
    LET c    == req[q].of
        ok   == Authentic(c)
        key  == McpKey(IF ok THEN call[c].principal ELSE Nobody)
        pass == ok /\ Allows(rates["mcp"], {key}, now) /\ FreeSlot(slots["mcp"], key)
    IN  /\ req[q].pc = "sent"
        /\ rates' = [rates EXCEPT !["mcp"] = Asked(@, {key}, now)]
        /\ req' = [req EXCEPT ![q] =
             IF pass THEN [pc |-> "running", of |-> c, key |-> key,
                           may |-> IF Hosted /\ Relayed(c) THEN scopes[call[c].principal]
                                   ELSE call[c].granted]
             ELSE [pc |-> "over"]]
        /\ slots' = IF pass THEN [slots EXCEPT !["mcp"] = Taken(@, key)] ELSE slots
        /\ UNCHANGED <<now, mode, member, scopes, call, tokens, denied, restarts, changes>>

\* The body is late or too large: refused before anything is charged.
DropBody(q) ==
    /\ req[q].pc = "sent"
    /\ req' = [req EXCEPT ![q] = [pc |-> "over"]]
    /\ UNCHANGED <<now, mode, member, scopes, call, tokens, denied, rates, slots, restarts, changes>>

\* The tool answers, fails or is cut off by the server's timeout.
Finish(q) ==
    /\ req[q].pc = "running"
    /\ req' = [req EXCEPT ![q] = [pc |-> "over"]]
    /\ slots' = [slots EXCEPT !["mcp"] = Released(@, req[q].key)]
    /\ UNCHANGED <<now, mode, member, scopes, call, tokens, denied, rates, restarts, changes>>

-----------------------------------------------------------------------------
(* Around them *)

SetStatus(actor, active) ==
    /\ Hosted /\ changes + restarts < MaxUpsets
    /\ member' = IF active THEN member \cup {actor} ELSE member \ {actor}
    /\ changes' = changes + 1
    /\ UNCHANGED <<now, mode, scopes, call, req, tokens, denied, rates, slots, restarts>>

SetScopes(actor, granted) ==
    /\ Hosted /\ changes + restarts < MaxUpsets
    /\ scopes' = [scopes EXCEPT ![actor] = granted]
    /\ changes' = changes + 1
    /\ UNCHANGED <<now, mode, member, call, req, tokens, denied, rates, slots, restarts>>

\* The server process is replaced: what it kept in memory is gone and what
\* it was doing is cut short.  A request in flight reaches the new process;
\* so do the renderer's calls, which live in a process of their own.
RestartServer ==
    /\ changes + restarts < MaxUpsets
    /\ restarts' = restarts + 1
    /\ tokens' = Empty /\ denied' = Empty
    /\ rates' = [rates EXCEPT !["api"] = NoWindows, !["mcp"] = NoWindows]
    /\ slots' = [slots EXCEPT !["api"] = NoSlots, !["mcp"] = NoSlots]
    /\ call' = [c \in Calls |->
            IF call[c].pc \in {"reading", "calling"} /\ call[c].door # "render"
            THEN [call[c] EXCEPT !.pc = "over"] ELSE call[c]]
    /\ req' = [q \in Requests |->
            IF req[q].pc = "running" THEN [pc |-> "over"] ELSE req[q]]
    /\ UNCHANGED <<now, mode, member, scopes, changes>>

Wait == now < LastTime /\ Pass /\ UNCHANGED gateVars

GateNext ==
    \/ \E c \in Calls :
        \/ \E door \in Doors, actor \in Actors \cup {Nobody}, ip \in Ips :
                EnterInspection(c, door, actor, ip)
        \/ \E ip \in Ips : EnterRenderer(c, ip)
        \/ CallTool(c) \/ Render(c) \/ Reject(c) \/ End(c)
        \/ \E q \in Requests : Send(c, q)
    \/ \E q \in Requests : Receive(q) \/ DropBody(q) \/ Finish(q)
    \/ \E actor \in Actors :
        \/ \E active \in BOOLEAN : SetStatus(actor, active)
        \/ \E granted \in {Scopes, Scopes \ {AdminScope}} : SetScopes(actor, granted)
    \/ RestartServer
    \/ Wait

-----------------------------------------------------------------------------
(* Properties *)

\* What a front is working on, and under which key it counts.
Work(f) ==
    IF f = "mcp"
    THEN {q \in Requests : req[q].pc = "running"}
    ELSE {c \in Calls : call[c].pc \in {"reading", "calling"} /\ FrontOf(call[c].door) = f}

KeyOf(f, w) ==
    IF f = "mcp" THEN req[w].key ELSE SlotKey(call[w].door, call[w].principal, call[w].ip)

Holders(f, key) == Cardinality({w \in Work(f) : KeyOf(f, w) = key})

SlotKeysOf(f) ==
    IF f = "mcp" THEN {McpKey(a) : a \in Actors \cup {Nobody}}
                 ELSE (Actors \cup {Nobody}) \X Ips

\* However calls and requests end, and whoever gives up first, each front's
\* slots are those of the requests it is working on, key by key, in total,
\* and within the limits (resource_limits.BoundedConcurrencyLimiter and the
\* finally clauses of server.py, inspection.py and renderer.py).
SlotsMatchWork ==
    \A f \in Fronts :
        /\ \A key \in SlotKeysOf(f) : Running(slots[f], key) = Holders(f, key)
        /\ DOMAIN slots[f].active = {key \in SlotKeysOf(f) : Holders(f, key) > 0}
        /\ slots[f].total = Cardinality(Work(f))
        /\ slots[f].total <= SlotLimit

Admitted(q) == req[q].pc = "sent" /\ req'[q].pc = "running"

\* A relayed request is let in only while the call it belongs to is still
\* waiting for it.  Where the server cannot know - the token was signed by
\* the renderer, or was revoked in a server process that is gone - the
\* token's own life ends it.  And never with more than its membership has,
\* nor for a principal that lost a scope the call was made with.
RelayedForItsCall ==
    [][\A q \in Requests :
        Admitted(q) /\ Relayed(req[q].of) =>
            LET c == req[q].of
            IN  /\ \/ call[c].pc = "calling"
                   \/ mode = "local" \/ (mode = "signed" /\ call[c].life < restarts)
                /\ now <= Expiry(c)
                /\ Hosted => call[c].granted \subseteq req'[q].may]_gateVars
=============================================================================
