---------------------------- MODULE BrowserSessions ----------------------------
(***************************************************************************)
(* Sign-in, browser sessions and memberships.  Server processes share the  *)
(* tables of sessions, login transactions and memberships; each handles    *)
(* one request at a time and its transactions interleave with those of the *)
(* others and of the operator who changes memberships.  A server may die,  *)
(* or its answer be lost, between any two steps.                           *)
(*                                                                         *)
(* A callback address carries the state of a login; a browser may open any *)
(* such address at any time, and the provider decides whether the code in  *)
(* it is good.                                                              *)
(***************************************************************************)
EXTENDS Integers, FiniteSets, FiniteSetsExt

CONSTANTS
  Browsers, Users, Processes, NoOne,
  Scopes,          \* the sets of scopes a membership may have
  Absolute, Idle,  \* absolute_ttl_seconds and idle_ttl_seconds of a session
  LoginTtl,        \* AUTH_TRANSACTION_TTL_SECONDS
  MaxTime, MaxLogins, MaxSessions, MaxChanges  \* bounds

ASSUME NoOneAssumption == NoOne \notin Browsers \cup Users \cup Scopes
ASSUME TtlAssumption == {Absolute, Idle, LoginTtl} \subseteq Nat \ {0}
ASSUME BoundAssumption == {MaxTime, MaxLogins, MaxSessions, MaxChanges} \subseteq Nat

VARIABLES
  clock,
  member,    \* oidc_memberships: user -> status and scopes
  changes,   \* how often the operator changed one
  logins,    \* auth_transactions: state -> the browser that began it, expiry, row
             \* present, and how often it was consumed
  rows,      \* browser_sessions
  jar,       \* browser -> its two cookies, 0 for none
  proc,      \* what each process is doing
  ended      \* sessions that somebody was told are over

vars == <<clock, member, changes, logins, rows, jar, proc, ended>>

------------------------------------------------------------------------------
Logins == DOMAIN logins
Sids == DOMAIN rows

(* during: the membership's states from the request to its comparison;     *)
(* barred: the session was over before the request came in.                *)
Free == [at |-> "free", by |-> NoOne, login |-> 0, sid |-> 0, old |-> 0, now |-> 0, made |-> 0,
         user |-> NoOne, scopes |-> NoOne, during |-> {}, barred |-> FALSE]

NoCookies == [state |-> 0, sid |-> 0]

(* used: the latest time of an admitted request, whatever seen says. *)
Session(u, scopes, now) ==
  [user |-> u, scopes |-> scopes, seen |-> now, expires |-> now + Absolute,
   revoked |-> FALSE, used |-> now]

(* A session that was just made may be there at first. *)
Init ==
  /\ clock = 0 /\ changes = 0
  /\ member \in [Users -> {[status |-> "none", scopes |-> NoOne]}
                         \cup [status : {"active"}, scopes : Scopes]]
  /\ logins = <<>>
  /\ \/ rows = <<>> /\ jar = [b \in Browsers |-> NoCookies]
     \/ \E b \in Browsers, u \in Users :
          /\ member[u].status = "active"
          /\ rows = <<Session(u, member[u].scopes, 0)>>
          /\ jar = [c \in Browsers |-> IF c = b THEN [NoCookies EXCEPT !.sid = 1] ELSE NoCookies]
  /\ proc = [p \in Processes |-> Free] /\ ended = {}

At(p, place) == proc[p].at = place
Goto(p, place) == proc' = [proc EXCEPT ![p].at = place]
Done(p) == proc' = [proc EXCEPT ![p] = Free]

Tick == clock < MaxTime /\ clock' = clock + 1
        /\ UNCHANGED <<member, changes, logins, rows, jar, proc, ended>>

------------------------------------------------------------------------------
(* MembershipStore.  The mapping of a user to tenant and actor never       *)
(* changes (a trigger aborts it); status and scopes do, one at a time.     *)

Change(u, m) ==
  /\ changes < MaxChanges /\ changes' = changes + 1
  /\ member[u] # m
  /\ member' = [member EXCEPT ![u] = m]
  /\ proc' = [p \in Processes |->
       IF proc[p].user = u /\ proc[p].at = "selected" THEN [proc[p] EXCEPT !.during = @ \cup {m}] ELSE proc[p]]
  /\ UNCHANGED <<clock, logins, rows, jar, ended>>

Add(u) ==
  /\ member[u].status = "none"
  /\ \E s \in Scopes : Change(u, [status |-> "active", scopes |-> s])

SetStatus(u) ==
  /\ member[u].status # "none"
  /\ \E s \in {"active", "disabled"} : Change(u, [member[u] EXCEPT !.status = s])

SetScopes(u) ==
  /\ member[u].status # "none"
  /\ \E s \in Scopes : Change(u, [member[u] EXCEPT !.scopes = s])

------------------------------------------------------------------------------
(* /auth/start: begin_auth, and the redirect to the provider. *)

BeginAuth(p, b) ==
  /\ At(p, "free") /\ Cardinality(Logins) < MaxLogins
  /\ LET t == Cardinality(Logins) + 1 IN
       /\ logins' = [u \in Logins \cup {t} |->
            IF u = t THEN [by |-> b, expires |-> clock + LoginTtl, open |-> TRUE, taken |-> 0]
            ELSE [logins[u] EXCEPT !.open = @ /\ logins[u].expires > clock]]
       /\ proc' = [proc EXCEPT ![p] = [Free EXCEPT !.at = "begun", !.by = b, !.login = t]]
  /\ UNCHANGED <<clock, member, changes, rows, jar, ended>>

(* No authorization_url can be built. *)
DiscardAuth(p) ==
  /\ At(p, "begun")
  /\ logins' = [logins EXCEPT ![proc[p].login].open = FALSE]
  /\ Done(p)
  /\ UNCHANGED <<clock, member, changes, rows, jar, ended>>

Redirect(p) ==
  /\ At(p, "begun")
  /\ jar' = [jar EXCEPT ![proc[p].by].state = proc[p].login]
  /\ Done(p)
  /\ UNCHANGED <<clock, member, changes, logins, rows, ended>>

------------------------------------------------------------------------------
(* /auth/callback *)

\* mutant: the state cookie is not asked for
PresentedOrNot(b, t) == TRUE
(* The state cookie of the browser is the state of the address. *)
Presented(b, t) == jar[b].state = t

Callback(p, b, t) ==
  /\ At(p, "free") /\ Presented(b, t)
  /\ proc' = [proc EXCEPT ![p] = [Free EXCEPT !.at = "callback", !.by = b, !.login = t,
                                              !.old = jar[b].sid, !.now = clock]]
  /\ UNCHANGED <<clock, member, changes, logins, rows, jar, ended>>

(* consume_auth: it looks at the clock before it waits for the write lock, *)
(* and then selects and deletes in one transaction.                        *)
ConsumeAuth(p) ==
  /\ At(p, "callback")
  /\ LET l == logins[proc[p].login] IN l.open /\ l.expires > proc[p].now
  /\ logins' = [logins EXCEPT ![proc[p].login].open = FALSE, ![proc[p].login].taken = @ + 1]
  /\ Goto(p, "consumed")
  /\ UNCHANGED <<clock, member, changes, rows, jar, ended>>

(* complete_callback: the code is exchanged for a token that names the     *)
(* user, signed by the provider and under the nonce of this login.          *)
Exchange(p) ==
  /\ At(p, "consumed")
  /\ \E u \in Users :
       proc' = [proc EXCEPT ![p] = [Free EXCEPT !.at = "identified", !.by = proc[p].by,
                                                !.old = proc[p].old, !.user = u]]
  /\ UNCHANGED <<clock, member, changes, logins, rows, jar, ended>>

(* create_for_identity looks the membership up, and create does again;     *)
(* what that finds goes into the session.                                   *)
LookUp(p) ==
  /\ At(p, "identified") /\ member[proc[p].user].status = "active"
  /\ proc' = [proc EXCEPT ![p].at = "creating", ![p].made = clock,
                          ![p].scopes = member[proc[p].user].scopes]
  /\ UNCHANGED <<clock, member, changes, logins, rows, jar, ended>>

Create(p) ==
  /\ At(p, "creating") /\ Cardinality(Sids) < MaxSessions
  /\ LET s == Cardinality(Sids) + 1 IN
       /\ rows' = [r \in Sids \cup {s} |-> IF r # s THEN rows[r]
                    ELSE Session(proc[p].user, proc[p].scopes, proc[p].made)]
       /\ proc' = [proc EXCEPT ![p] = [Free EXCEPT !.at = "created", !.by = proc[p].by,
                                              !.old = proc[p].old, !.sid = s]]
  /\ UNCHANGED <<clock, member, changes, logins, jar, ended>>

(* The session the browser came with is revoked, after the new one exists. *)
RevokeOld(p) ==
  /\ At(p, "created")
  /\ rows' = [s \in Sids |-> IF s = proc[p].old THEN [rows[s] EXCEPT !.revoked = TRUE] ELSE rows[s]]
  /\ Goto(p, "signed in")
  /\ UNCHANGED <<clock, member, changes, logins, jar, ended>>

SignedIn(p) ==
  /\ At(p, "signed in")
  /\ jar' = [jar EXCEPT ![proc[p].by] = [state |-> 0, sid |-> proc[p].sid]]
  /\ ended' = ended \cup ({proc[p].old} \cap Sids)
  /\ Done(p)
  /\ UNCHANGED <<clock, member, changes, logins, rows>>

------------------------------------------------------------------------------
(* A request with a session cookie: SessionStore.resolve. *)

\* mutant: the time of last use is not looked at
AliveIdleOrNot(r) == ~r.revoked /\ r.expires > clock
Alive(r) == ~r.revoked /\ r.expires > clock /\ r.seen + Idle > clock

(* The row is selected; a request whose session is not alive changes       *)
(* nothing and is no step.  A cookie may be presented after its browser    *)
(* was told to drop it.                                                     *)
Request(p, s) ==
  /\ At(p, "free") /\ Alive(rows[s])
  /\ proc' = [proc EXCEPT ![p] =
       [Free EXCEPT !.at = "selected", !.sid = s, !.now = clock,
                    !.user = rows[s].user, !.during = {member[rows[s].user]},
                    !.barred = s \in ended \/ rows[s].expires <= clock]]
  /\ UNCHANGED <<clock, member, changes, logins, rows, jar, ended>>

\* mutant: the scopes are not compared
RestsOnStatus(r, m) == m.status = "active"
(* The membership is active and is the one the session was made for. *)
Rests(r, m) == m.status = "active" /\ m.scopes = r.scopes

Compare(p) ==
  /\ At(p, "selected")
  /\ LET m == member[proc[p].user] IN
       IF Rests(rows[proc[p].sid], m)
       THEN proc' = [proc EXCEPT ![p].at = "rests", ![p].scopes = m.scopes, ![p].user = NoOne]
       ELSE proc' = [proc EXCEPT ![p] = [Free EXCEPT !.at = "falls", !.sid = proc[p].sid]]
  /\ UNCHANGED <<clock, member, changes, logins, rows, jar, ended>>

(* The request has its principal and is served: last_seen_at becomes its   *)
(* time, be it older than what is there; revoked_at is not looked at again. *)
Touch(p) ==
  /\ At(p, "rests")
  /\ rows' = [rows EXCEPT ![proc[p].sid].seen = proc[p].now,
                          ![proc[p].sid].used = Max({@, proc[p].now})]
  /\ Done(p)
  /\ UNCHANGED <<clock, member, changes, logins, jar, ended>>

Fall(p) ==
  /\ At(p, "falls")
  /\ rows' = [rows EXCEPT ![proc[p].sid].revoked = TRUE]
  /\ ended' = ended \cup {proc[p].sid}
  /\ Done(p)
  /\ UNCHANGED <<clock, member, changes, logins, jar>>

------------------------------------------------------------------------------
(* /auth/logout *)

\* mutant: the sign-out only clears the cookie
NotRevoked(s) == rows
Revoked(s) == [rows EXCEPT ![s].revoked = TRUE]

Logout(p, b) ==
  /\ At(p, "free") /\ jar[b].sid # 0
  /\ rows' = Revoked(jar[b].sid)
  /\ proc' = [proc EXCEPT ![p] = [Free EXCEPT !.at = "logged out", !.by = b, !.sid = jar[b].sid]]
  /\ UNCHANGED <<clock, member, changes, logins, jar, ended>>

LoggedOut(p) ==
  /\ At(p, "logged out")
  /\ jar' = [jar EXCEPT ![proc[p].by].sid = 0]
  /\ ended' = ended \cup {proc[p].sid}
  /\ Done(p)
  /\ UNCHANGED <<clock, member, changes, logins, rows>>

(* Every way a request ends without its effect: an error answer, a lost    *)
(* answer, death of the process.  Transactions that committed stay.        *)
Give(p) ==
  /\ ~At(p, "free") /\ Done(p)
  /\ UNCHANGED <<clock, member, changes, logins, rows, jar, ended>>

------------------------------------------------------------------------------
SignIn(p) ==
  \/ \E b \in Browsers : BeginAuth(p, b)
  \/ DiscardAuth(p) \/ Redirect(p)
  \/ \E b \in Browsers, t \in Logins : Callback(p, b, t)
  \/ ConsumeAuth(p) \/ Exchange(p) \/ LookUp(p)
  \/ Create(p) \/ RevokeOld(p) \/ SignedIn(p)

Resolve(p) ==
  \/ \E s \in Sids : Request(p, s)
  \/ Compare(p) \/ Touch(p) \/ Fall(p)

Leave(p) == (\E b \in Browsers : Logout(p, b)) \/ LoggedOut(p) \/ Give(p)

Next ==
  \/ Tick
  \/ \E u \in Users : Add(u) \/ SetStatus(u) \/ SetScopes(u)
  \/ \E p \in Processes : SignIn(p) \/ Resolve(p) \/ Leave(p)

Spec == Init /\ [][Next]_vars

------------------------------------------------------------------------------
(* The request is about to be served. *)
Admitted(p) == At(p, "rests")

(* A request is admitted only with what its membership granted at some     *)
(* moment of the request itself, and no scope that the session did not     *)
(* have when it was made: suspension, and every change of scopes, take     *)
(* effect on the next request of a session that is already open.           *)
RestsOnMembership ==
  \A p \in Processes : Admitted(p) =>
    /\ [status |-> "active", scopes |-> proc[p].scopes] \in proc[p].during
    /\ proc[p].scopes = rows[proc[p].sid].scopes

(* No request is admitted that came in after its session was over: its     *)
(* user was told of the logout, it was replaced by a sign-in of the same   *)
(* browser, it fell with its membership (even if that is back), or its     *)
(* absolute time had passed.                                                *)
OverForGood == \A p \in Processes : Admitted(p) => ~proc[p].barred

(* No request is admitted whose session was not used for the idle time     *)
(* before it, although older requests write older times over newer ones.   *)
IdleEnds ==
  \A p \in Processes : Admitted(p) => proc[p].now < rows[proc[p].sid].used + Idle

(* A login is consumed at most once, by a callback from the browser that   *)
(* began it which came in before the login expired, whichever processes    *)
(* get callbacks of it at once: so no login makes two sessions, and none   *)
(* makes one for another browser.                                           *)
OwnLogin ==
  /\ \A t \in Logins : logins[t].taken <= 1
  /\ \A p \in Processes : At(p, "consumed") =>
       LET l == logins[proc[p].login] IN l.by = proc[p].by /\ proc[p].now < l.expires

(* Type invariant *)
TypeOK ==
  /\ clock \in 0..MaxTime
  /\ \A u \in Users : member[u].status \in {"none", "active", "disabled"}
  /\ ended \subseteq Sids
  /\ \A b \in Browsers : jar[b].sid \in Sids \cup {0} /\ jar[b].state \in Logins \cup {0}

=============================================================================
