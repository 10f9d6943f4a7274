------------------------- MODULE BrowserSessionsProofs -------------------------
(***************************************************************************)
(* What is proved of BrowserSessions for every value of its constants: a   *)
(* login belongs to the browser that began it and is consumed once; a      *)
(* request is admitted only on a session that is not over, was used        *)
(* lately and rests on the membership its user has.                        *)
(***************************************************************************)
EXTENDS BrowserSessions, FiniteSetTheorems, TLAPS

------------------------------------------------------------------------------
(* Types.  A row of browser_sessions, a login, a membership, and what a    *)
(* process is doing.                                                        *)

Login == [by : Browsers, expires : Nat, open : BOOLEAN, taken : Nat]
Membership == [status : {"none", "active", "disabled"}, scopes : Scopes \cup {NoOne}]
Row == [user : Users, scopes : Scopes \cup {NoOne}, seen : Nat, expires : Nat,
        revoked : BOOLEAN, used : Nat]
Places == {"free", "begun", "callback", "consumed", "identified", "creating", "created",
           "signed in", "selected", "rests", "falls", "logged out"}
Process == [at : Places, by : Browsers \cup {NoOne}, login : Nat, sid : Nat, old : Nat, now : Nat,
            made : Nat, user : Users \cup {NoOne}, scopes : Scopes \cup {NoOne},
            during : SUBSET Membership, barred : BOOLEAN]

IsOpen(l) == l.open
IsRevoked(r) == r.revoked
IsBarred(x) == x.barred

LoginInv ==
  /\ \E n \in Nat : logins \in [1..n -> Login]
  /\ \A t \in Logins : /\ logins[t].taken <= 1
                       /\ IsOpen(logins[t]) => logins[t].taken = 0
RowInv ==
  /\ \E n \in Nat : rows \in [1..n -> Row]
  /\ \A s \in Sids : rows[s].seen <= rows[s].used
(* The cookies of a browser are a login of its own and a session. *)
JarInv ==
  /\ jar \in [Browsers -> [state : Nat, sid : Nat]]
  /\ \A b \in Browsers :
       /\ jar[b].state # 0 => jar[b].state \in Logins /\ logins[jar[b].state].by = b
       /\ jar[b].sid # 0 => jar[b].sid \in Sids
EndedInv == ended \subseteq Sids /\ \A s \in ended : IsRevoked(rows[s])

(* What a process knows while it is on its way. *)
OwnsLogin(x) ==
  /\ x.at \in {"begun", "callback", "consumed"} =>
       x.login \in Logins /\ logins[x.login].by = x.by
  /\ x.at = "consumed" => x.now < logins[x.login].expires
  /\ x.at \notin {"free", "selected", "rests", "falls"} => x.by \in Browsers
  /\ x.at \in {"identified", "creating"} => x.user \in Users
OnSession(x) ==
  /\ x.at \in {"selected", "rests", "falls", "created", "signed in", "logged out"} => x.sid \in Sids
  /\ x.at = "selected" => x.user \in Users /\ member[x.user] \in x.during
  /\ x.at = "rests" => /\ [status |-> "active", scopes |-> x.scopes] \in x.during
                       /\ x.scopes = rows[x.sid].scopes
  /\ x.at \in {"selected", "rests"} => ~IsBarred(x) /\ x.now < rows[x.sid].used + Idle
  /\ x.old # 0 => x.old \in Sids
  /\ x.at = "signed in" => (x.old # 0 => IsRevoked(rows[x.old]))
  /\ x.at = "logged out" => IsRevoked(rows[x.sid])
Well(p) == OwnsLogin(proc[p]) /\ OnSession(proc[p])

TypeInv ==
  /\ clock \in Nat /\ member \in [Users -> Membership] /\ proc \in [Processes -> Process]
  /\ LoginInv /\ RowInv /\ JarInv /\ EndedInv
  /\ \A p \in Processes : Well(p)

------------------------------------------------------------------------------
(* Logins. *)

(* What becomes of a login: only whether it is open, and how often it was   *)
(* taken, ever changes.                                                     *)
LoginsMove ==
  /\ \E n \in Nat : logins' \in [1..n -> Login]
  /\ Logins \subseteq DOMAIN logins'
  /\ \A t \in Logins : logins'[t].by = logins[t].by /\ logins'[t].expires = logins[t].expires
  /\ \A t \in DOMAIN logins' : /\ logins'[t].taken <= 1
                               /\ IsOpen(logins'[t]) => logins'[t].taken = 0

Closed(l) == [l EXCEPT !.open = FALSE]
Taken(l) == [Closed(l) EXCEPT !.taken = @ + 1]

LEMMA ClosedLogin ==
  ASSUME NEW l \in Login
  PROVE  /\ Closed(l) \in Login /\ Closed(l).by = l.by /\ Closed(l).expires = l.expires
         /\ Closed(l).taken = l.taken /\ ~IsOpen(Closed(l))
  BY DEF Closed, Login, IsOpen

LEMMA TakenLogin ==
  ASSUME NEW l \in Login
  PROVE  /\ Taken(l) \in Login /\ Taken(l).by = l.by /\ Taken(l).expires = l.expires
         /\ Taken(l).taken = l.taken + 1 /\ ~IsOpen(Taken(l))
<1>1. Closed(l) \in Login
  BY ClosedLogin
<1>2. ASSUME NEW m \in Login
      PROVE  LET n == [m EXCEPT !.taken = @ + 1]
             IN /\ n \in Login /\ n.by = m.by /\ n.expires = m.expires
                /\ n.taken = m.taken + 1 /\ IsOpen(n) = IsOpen(m)
  BY DEF Login, IsOpen
<1> QED BY <1>1, <1>2, ClosedLogin DEF Taken

LEMMA BegunLogin ==
  ASSUME TypeInv, NEW p \in Processes, NEW b \in Browsers, BeginAuth(p, b)
  PROVE  /\ LoginsMove
         /\ LET t == Cardinality(Logins) + 1
            IN t \in DOMAIN logins' /\ t \notin Logins /\ logins'[t].by = b
<1> USE DEF Logins
<1> DEFINE t == Cardinality(Logins) + 1
<1>1. PICK n \in Nat : Logins = 1..n
  BY DEF LoginInv, TypeInv
<1>2. Cardinality(Logins) = n
  BY <1>1, FS_Interval
<1>3. t = n + 1 /\ Logins \cup {t} = 1..(n + 1) /\ t \notin Logins
  BY <1>1, <1>2
<1>4. logins' = [u \in Logins \cup {t} |->
            IF u = t THEN [by |-> b, expires |-> clock + LoginTtl, open |-> TRUE, taken |-> 0]
            ELSE [logins[u] EXCEPT !.open = @ /\ logins[u].expires > clock]]
  BY DEF BeginAuth
<1> HIDE DEF t
<1>5. ASSUME NEW l \in Login, NEW k \in BOOLEAN, l.taken <= 1, IsOpen(l) => l.taken = 0
      PROVE  LET m == [l EXCEPT !.open = @ /\ k]
             IN /\ m \in Login /\ m.by = l.by /\ m.expires = l.expires /\ m.taken = l.taken
                /\ IsOpen(m) => IsOpen(l)
  BY <1>5 DEF Login, IsOpen
<1>6. clock + LoginTtl \in Nat
  BY TtlAssumption DEF TypeInv
<1>7. logins'[t] = [by |-> b, expires |-> clock + LoginTtl, open |-> TRUE, taken |-> 0]
  BY <1>4
<1>8. logins'[t] \in Login /\ logins'[t].taken = 0 /\ logins'[t].by = b
  BY <1>6, <1>7 DEF Login
<1>9. ASSUME NEW u \in Logins
      PROVE  /\ logins'[u].by = logins[u].by /\ logins'[u].expires = logins[u].expires
             /\ logins'[u] \in Login /\ logins'[u].taken <= 1
             /\ IsOpen(logins'[u]) => logins'[u].taken = 0
  <2> DEFINE k == logins[u].expires > clock
  <2>1. logins'[u] = [logins[u] EXCEPT !.open = @ /\ k]
    BY <1>3, <1>4
  <2>2. k \in BOOLEAN
    OBVIOUS
  <2> HIDE DEF k
  <2>3. logins[u] \in Login /\ logins[u].taken <= 1 /\ (IsOpen(logins[u]) => logins[u].taken = 0)
    BY DEF TypeInv, LoginInv
  <2> QED BY <1>5, <2>1, <2>2, <2>3
<1>10. DOMAIN logins' = Logins \cup {t}
  BY <1>4
<1>11. LoginsMove
  <2>1. n + 1 \in Nat /\ logins' \in [1..(n + 1) -> Login]
    BY <1>3, <1>4, <1>8, <1>9, <1>10
  <2> QED BY <1>8, <1>9, <1>10, <2>1 DEF LoginsMove
<1> QED BY <1>3, <1>8, <1>10, <1>11 DEF t

LEMMA DiscardedLogin ==
  ASSUME TypeInv, NEW p \in Processes, DiscardAuth(p)
  PROVE  LoginsMove
<1> USE DEF Logins
<1> DEFINE t == proc[p].login
<1>1. t \in Logins
  BY DEF DiscardAuth, At, TypeInv, Well, OwnsLogin
<1>2. logins' = [logins EXCEPT ![t] = Closed(logins[t])]
  BY <1>1 DEF DiscardAuth, Closed
<1>3. PICK n \in Nat : logins \in [1..n -> Login]
  BY DEF TypeInv, LoginInv
<1>4. logins[t] \in Login /\ logins[t].taken <= 1
  BY <1>1, <1>3 DEF TypeInv, LoginInv
<1>5. logins' \in [1..n -> Login]
  BY <1>2, <1>3, <1>4, ClosedLogin
<1>6. logins'[t] = Closed(logins[t]) /\ \A u \in Logins : u # t => logins'[u] = logins[u]
  BY <1>1, <1>2
<1>7. DOMAIN logins' = Logins
  BY <1>2
<1>8. ASSUME NEW u \in Logins
      PROVE  /\ logins'[u].by = logins[u].by /\ logins'[u].expires = logins[u].expires
             /\ logins'[u].taken <= 1 /\ (IsOpen(logins'[u]) => logins'[u].taken = 0)
  <2> HIDE DEF t
  <2> QED BY <1>4, <1>6, ClosedLogin DEF TypeInv, LoginInv
<1> QED BY <1>5, <1>7, <1>8 DEF LoginsMove

(* consume_auth takes a login that is open, and it is not open after it. *)
LEMMA ConsumedLogin ==
  ASSUME TypeInv, NEW p \in Processes, ConsumeAuth(p)
  PROVE  LoginsMove /\ proc[p].now < logins[proc[p].login].expires
<1> USE DEF Logins
<1> DEFINE t == proc[p].login
<1>1. t \in Logins /\ proc[p].now \in Nat
  BY DEF ConsumeAuth, At, TypeInv, Well, OwnsLogin, Process
<1>2. PICK n \in Nat : logins \in [1..n -> Login]
  BY DEF TypeInv, LoginInv
<1>3. logins' = [logins EXCEPT ![t] = Taken(logins[t])]
  BY <1>1, <1>2 DEF ConsumeAuth, Taken, Closed
<1>4. IsOpen(logins[t]) /\ logins[t].expires > proc[p].now
  BY DEF ConsumeAuth, IsOpen
<1>5. logins[t] \in Login /\ logins[t].taken = 0 /\ logins[t].expires \in Nat
  BY <1>1, <1>2, <1>4 DEF TypeInv, LoginInv, Login
<1>6. logins' \in [1..n -> Login]
  BY <1>2, <1>3, <1>5, TakenLogin
<1>7. logins'[t] = Taken(logins[t]) /\ \A u \in Logins : u # t => logins'[u] = logins[u]
  BY <1>1, <1>3
<1>8. DOMAIN logins' = Logins
  BY <1>3
<1>9. ASSUME NEW u \in Logins
      PROVE  /\ logins'[u].by = logins[u].by /\ logins'[u].expires = logins[u].expires
             /\ logins'[u].taken <= 1 /\ (IsOpen(logins'[u]) => logins'[u].taken = 0)
  <2> HIDE DEF t
  <2> QED BY <1>5, <1>7, TakenLogin DEF TypeInv, LoginInv
<1> QED BY <1>1, <1>4, <1>5, <1>6, <1>8, <1>9 DEF LoginsMove

------------------------------------------------------------------------------
(* Sessions: the scopes of one never change, its last use never goes back, *)
(* and a revocation is for ever.                                            *)

RowsMove ==
  /\ \E n \in Nat : rows' \in [1..n -> Row]
  /\ Sids \subseteq DOMAIN rows'
  /\ \A s \in Sids : /\ rows'[s].scopes = rows[s].scopes /\ rows[s].used <= rows'[s].used
                     /\ IsRevoked(rows[s]) => IsRevoked(rows'[s])
  /\ \A s \in DOMAIN rows' : rows'[s].seen <= rows'[s].used

RevokedRow(r) == [r EXCEPT !.revoked = TRUE]
TouchedRow(r, now) == [r EXCEPT !.seen = now, !.used = Max({@, now})]

LEMMA RevokedFields ==
  ASSUME NEW r \in Row
  PROVE  LET n == RevokedRow(r)
         IN /\ n \in Row /\ IsRevoked(n) /\ n.scopes = r.scopes /\ n.seen = r.seen /\ n.used = r.used
  BY DEF RevokedRow, Row, IsRevoked

LEMMA LaterOf ==
  ASSUME NEW m \in Nat, NEW n \in Nat
  PROVE  Max({m, n}) \in Nat /\ m <= Max({m, n}) /\ n <= Max({m, n})
<1>1. \E x \in {m, n} : \A y \in {m, n} : x >= y
  OBVIOUS
<1> QED BY <1>1 DEF Max

LEMMA TouchedFields ==
  ASSUME NEW r \in Row, NEW now \in Nat
  PROVE  LET n == TouchedRow(r, now)
         IN /\ n \in Row /\ IsRevoked(n) = IsRevoked(r) /\ n.scopes = r.scopes
            /\ n.seen <= n.used /\ r.used <= n.used
<1> DEFINE used == Max({r.used, now})
<1>1. used \in Nat /\ r.used <= used /\ now <= used
  BY LaterOf DEF Row
<1> HIDE DEF used
<1>2. TouchedRow(r, now) = [[r EXCEPT !.seen = now] EXCEPT !.used = used]
  BY DEF TouchedRow, used, Row
<1>3. ASSUME NEW m \in Row PROVE LET n == [m EXCEPT !.seen = now]
                                IN /\ n \in Row /\ IsRevoked(n) = IsRevoked(m) /\ n.scopes = m.scopes
                                   /\ n.seen = now
  BY DEF Row, IsRevoked
<1>4. ASSUME NEW m \in Row PROVE LET n == [m EXCEPT !.used = used]
                                IN /\ n \in Row /\ IsRevoked(n) = IsRevoked(m) /\ n.scopes = m.scopes
                                   /\ n.seen = m.seen /\ n.used = used
  BY <1>1 DEF Row, IsRevoked
<1> QED BY <1>1, <1>2, <1>3, <1>4

(* One row is exchanged for one that moved on. *)
LEMMA RowExchanged ==
  ASSUME RowInv, NEW s \in Sids, NEW r \in Row, rows' = [rows EXCEPT ![s] = r],
         r.scopes = rows[s].scopes, rows[s].used <= r.used, r.seen <= r.used,
         IsRevoked(rows[s]) => IsRevoked(r)
  PROVE  RowsMove /\ DOMAIN rows' = Sids /\ rows'[s] = r
<1>1. PICK n \in Nat : rows \in [1..n -> Row]
  BY DEF RowInv
<1>2. rows' \in [1..n -> Row] /\ rows'[s] = r /\ \A u \in Sids : u # s => rows'[u] = rows[u]
  BY <1>1 DEF Sids
<1>3. DOMAIN rows' = Sids
  BY <1>1 DEF Sids
<1>4. \A u \in Sids : rows[u].used \in Nat
  BY <1>1 DEF Sids, Row
<1> QED BY <1>2, <1>3, <1>4 DEF RowsMove, RowInv

LEMMA RowsStay ==
  ASSUME RowInv, rows' = rows PROVE RowsMove
<1>1. PICK n \in Nat : rows \in [1..n -> Row]
  BY DEF RowInv
<1>2. \A u \in Sids : rows[u].used \in Nat
  BY <1>1 DEF Sids, Row
<1> QED BY <1>1, <1>2 DEF RowsMove, RowInv, Sids

LEMMA RowRevoked ==
  ASSUME RowInv, NEW s \in Sids, rows' = [rows EXCEPT ![s].revoked = TRUE]
  PROVE  RowsMove /\ DOMAIN rows' = Sids /\ IsRevoked(rows'[s])
<1>1. rows[s] \in Row /\ rows[s].used \in Nat
  BY DEF RowInv, Sids, Row
<1>2. rows' = [rows EXCEPT ![s] = RevokedRow(rows[s])]
  BY DEF RevokedRow, Sids
<1>3. RevokedRow(rows[s]) \in Row /\ IsRevoked(RevokedRow(rows[s]))
      /\ RevokedRow(rows[s]).scopes = rows[s].scopes
      /\ RevokedRow(rows[s]).seen = rows[s].seen /\ RevokedRow(rows[s]).used = rows[s].used
  BY <1>1, RevokedFields
<1>4. rows[s].used <= RevokedRow(rows[s]).used /\ RevokedRow(rows[s]).seen <= RevokedRow(rows[s]).used
  BY <1>1, <1>3 DEF RowInv
<1> QED BY <1>2, <1>3, <1>4, RowExchanged

LEMMA RowCreated ==
  ASSUME TypeInv, NEW p \in Processes, Create(p)
  PROVE  /\ RowsMove /\ Cardinality(Sids) + 1 \in DOMAIN rows' /\ Cardinality(Sids) + 1 \notin Sids
         /\ Cardinality(Sids) + 1 \in Nat
<1> DEFINE s == Cardinality(Sids) + 1
           new == Session(proc[p].user, proc[p].scopes, proc[p].made)
<1>1. PICK n \in Nat : rows \in [1..n -> Row]
  BY DEF TypeInv, RowInv
<1>n. Sids = 1..n
  BY <1>1 DEF Sids
<1>c. Cardinality(Sids) = n
  BY <1>n, FS_Interval
<1>2. Sids = 1..n /\ s = n + 1 /\ s \notin Sids
  BY <1>n, <1>c
<1>3. rows' = [r \in Sids \cup {s} |-> IF r # s THEN rows[r] ELSE new]
  BY DEF Create
<1>4. new \in Row /\ new.seen = new.used
  <2>1. proc[p] \in Process /\ proc[p].at = "creating" /\ Well(p)
    BY DEF Create, At, TypeInv
  <2>2. proc[p].user \in Users /\ proc[p].scopes \in Scopes \cup {NoOne} /\ proc[p].made \in Nat
    BY <2>1 DEF Well, OwnsLogin, Process
  <2>3. proc[p].made + Absolute \in Nat
    BY <2>2, TtlAssumption
  <2> QED BY <2>2, <2>3 DEF Session, Row
<1> HIDE DEF s, new
<1>5. Sids \cup {s} = 1..(n + 1)
  BY <1>2
<1>6. rows'[s] = new /\ \A r \in Sids : rows'[r] = rows[r]
  BY <1>2, <1>3
<1>7. rows' \in [1..(n + 1) -> Row] /\ DOMAIN rows' = Sids \cup {s}
  BY <1>1, <1>2, <1>3, <1>4, <1>5
<1>8. \A u \in Sids : rows[u].used \in Nat
  BY <1>1 DEF Sids, Row
<1>9. new.used \in Nat
  BY <1>4 DEF Row
<1>10. n + 1 \in Nat
  BY <1>1
<1>11. RowsMove
  <2>1. \A u \in DOMAIN rows' : rows'[u].seen <= rows'[u].used
    BY <1>4, <1>6, <1>7, <1>9 DEF TypeInv, RowInv
  <2>2. \A u \in Sids : /\ rows'[u].scopes = rows[u].scopes /\ rows[u].used <= rows'[u].used
                        /\ IsRevoked(rows[u]) => IsRevoked(rows'[u])
    BY <1>6, <1>8
  <2> QED BY <1>7, <1>10, <2>1, <2>2 DEF RowsMove
<1> QED BY <1>2, <1>7, <1>10, <1>11 DEF s

(* The session a browser came with is revoked, if there is one. *)
LEMMA OldRevoked ==
  ASSUME TypeInv, NEW p \in Processes, RevokeOld(p)
  PROVE  /\ RowsMove /\ DOMAIN rows' = Sids
         /\ proc[p].old \in Sids => IsRevoked(rows'[proc[p].old])
<1> DEFINE o == proc[p].old
<1>1. PICK n \in Nat : rows \in [1..n -> Row]
  BY DEF TypeInv, RowInv
<1>2. rows' = [s \in Sids |-> IF s = o THEN RevokedRow(rows[s]) ELSE rows[s]]
  BY DEF RevokeOld, RevokedRow
<1>3. CASE o \in Sids
  <2>1. rows' = [rows EXCEPT ![o].revoked = TRUE]
    BY <1>1, <1>2, <1>3 DEF Sids, RevokedRow
  <2> QED BY <1>3, <2>1, RowRevoked DEF TypeInv
<1>4. CASE o \notin Sids
  <2>1. rows' = rows
    BY <1>1, <1>2, <1>4 DEF Sids
  <2> QED BY <1>4, <2>1, RowsStay DEF TypeInv, Sids
<1> QED BY <1>3, <1>4

LEMMA RowTouched ==
  ASSUME TypeInv, NEW p \in Processes, Touch(p)
  PROVE  RowsMove /\ DOMAIN rows' = Sids
<1> DEFINE s == proc[p].sid
<1>1. proc[p] \in Process /\ proc[p].at = "rests" /\ Well(p)
  BY DEF Touch, At, TypeInv
<1>2. s \in Sids /\ proc[p].now \in Nat
  BY <1>1 DEF Well, OnSession, Process
<1>3. rows[s] \in Row
  BY <1>2 DEF TypeInv, RowInv, Sids
<1>4. rows' = [rows EXCEPT ![s] = TouchedRow(rows[s], proc[p].now)]
  BY <1>2, <1>3 DEF Touch, TouchedRow, Sids, Row
<1> QED BY <1>2, <1>3, <1>4, TouchedFields, RowExchanged DEF TypeInv

------------------------------------------------------------------------------
(* Processes: what each step makes of the record of its own. *)

LEMMA FreeFields ==
  Free \in Process /\ Free.at = "free"
  BY DEF Free, Process, Places

LEMMA PlaceChanged ==
  ASSUME NEW x \in Process, NEW place \in Places
  PROVE  LET y == [x EXCEPT !.at = place]
         IN /\ y \in Process /\ y.at = place /\ y.by = x.by /\ y.login = x.login /\ y.sid = x.sid
            /\ y.old = x.old /\ y.now = x.now /\ y.user = x.user /\ y.scopes = x.scopes
            /\ y.during = x.during /\ IsBarred(y) = IsBarred(x)
  BY DEF Process, IsBarred

LEMMA RestsForm ==
  ASSUME NEW x \in Process, NEW c \in Scopes \cup {NoOne}
  PROVE  LET y == [[[x EXCEPT !.at = "rests"] EXCEPT !.scopes = c] EXCEPT !.user = NoOne]
         IN /\ y \in Process /\ y.at = "rests" /\ y.sid = x.sid /\ y.now = x.now /\ y.scopes = c
            /\ y.during = x.during /\ IsBarred(y) = IsBarred(x)
  BY DEF Process, Places, IsBarred

------------------------------------------------------------------------------
(* Steps.  What is needed of a step of process p. *)

Moved(p) ==
  /\ clock' \in Nat /\ member' = member
  /\ LoginsMove /\ RowsMove /\ JarInv' /\ EndedInv'
  /\ \E x \in Process : proc' = [proc EXCEPT ![p] = x] /\ OwnsLogin(x)' /\ OnSession(x)'

LEMMA LoginsStay ==
  ASSUME LoginInv, logins' = logins PROVE LoginsMove
<1>1. PICK n \in Nat : logins \in [1..n -> Login]
  BY DEF LoginInv
<1> QED BY <1>1 DEF LoginInv, LoginsMove, Logins

LEMMA JarStays ==
  ASSUME JarInv, jar' = jar, LoginsMove, RowsMove PROVE JarInv'
  BY DEF JarInv, LoginsMove, RowsMove, Logins, Sids

LEMMA EndedStays ==
  ASSUME EndedInv, ended' = ended, RowsMove PROVE EndedInv'
  BY DEF EndedInv, RowsMove, Sids

(* A process that takes no step. *)
LEMMA Bystander ==
  ASSUME TypeInv, member' = member, LoginsMove, RowsMove, NEW q \in Processes, proc'[q] = proc[q]
  PROVE  Well(q)'
<1>x. PICK x \in Process : x = proc[q] /\ OwnsLogin(x) /\ OnSession(x)
  BY DEF TypeInv, Well
<1>1. /\ x.at \in {"begun", "callback", "consumed"} =>
           x.login \in DOMAIN logins' /\ logins'[x.login].by = x.by
      /\ x.at = "consumed" => x.login \in Logins /\ x.now < logins'[x.login].expires
  BY <1>x DEF OwnsLogin, LoginsMove
<1>2. OwnsLogin(x)'
  BY <1>x, <1>1 DEF OwnsLogin, Logins
<1>3. ASSUME x.at \in {"selected", "rests"} PROVE x.now < rows'[x.sid].used + Idle
  <2>1. x.sid \in Sids /\ x.now < rows[x.sid].used + Idle /\ x.now \in Nat
    BY <1>x, <1>3 DEF OnSession, Process
  <2>2. rows[x.sid].used \in Nat /\ rows'[x.sid].used \in Nat /\ rows[x.sid].used <= rows'[x.sid].used
    BY <2>1 DEF TypeInv, RowInv, RowsMove, Row, Sids
  <2> QED BY <2>1, <2>2, TtlAssumption
<1>4. /\ x.at \in {"selected", "rests", "falls", "created", "signed in", "logged out"} => x.sid \in Sids
      /\ x.at = "selected" => x.user \in Users /\ member[x.user] \in x.during
      /\ x.at = "rests" => [status |-> "active", scopes |-> x.scopes] \in x.during
      /\ x.at = "rests" => x.scopes = rows[x.sid].scopes
      /\ x.at \in {"selected", "rests"} => ~IsBarred(x)
      /\ x.old # 0 => x.old \in Sids
      /\ x.at = "signed in" => (x.old # 0 => IsRevoked(rows[x.old]))
      /\ x.at = "logged out" => IsRevoked(rows[x.sid])
  BY <1>x DEF OnSession
<1>5. /\ x.at \in {"selected", "rests", "falls", "created", "signed in", "logged out"} => x.sid \in DOMAIN rows'
      /\ x.at = "rests" => x.scopes = rows'[x.sid].scopes
      /\ x.old # 0 => x.old \in DOMAIN rows'
      /\ x.at = "signed in" => (x.old # 0 => IsRevoked(rows'[x.old]))
      /\ x.at = "logged out" => IsRevoked(rows'[x.sid])
  BY <1>4 DEF RowsMove
<1>6. OnSession(x)'
  BY <1>3, <1>4, <1>5, Zenon DEF OnSession, Sids
<1> QED BY <1>x, <1>2, <1>6 DEF Well

(* The process is free again. *)
LEMMA DoneMoves ==
  ASSUME TypeInv, NEW p \in Processes, Done(p), clock' = clock, member' = member,
         LoginsMove, RowsMove, JarInv', EndedInv'
  PROVE  Moved(p)
<1>1. OwnsLogin(Free)' /\ OnSession(Free)'
  BY FreeFields DEF OwnsLogin, OnSession, Free
<1> QED BY <1>1, FreeFields DEF Moved, Done, TypeInv

LEMMA SidOf ==
  ASSUME RowInv PROVE 0 \notin Sids /\ Sids \subseteq Nat
  BY DEF RowInv, Sids

(* A step that leaves rows, cookies and what is over alone. *)
LEMMA QuietMoves ==
  ASSUME TypeInv, NEW p \in Processes, UNCHANGED <<clock, member, rows, jar, ended>>, LoginsMove,
         NEW x \in Process, proc' = [proc EXCEPT ![p] = x], OwnsLogin(x)', OnSession(x)
  PROVE  Moved(p)
<1>1. RowsMove
  BY RowsStay DEF TypeInv
<1>2. JarInv' /\ EndedInv'
  BY <1>1, JarStays, EndedStays DEF TypeInv
<1>3. OnSession(x)'
  BY Zenon DEF OnSession, Sids
<1> QED BY <1>1, <1>2, <1>3 DEF Moved, TypeInv

LEMMA BeginMoves ==
  ASSUME TypeInv, NEW p \in Processes, NEW b \in Browsers, BeginAuth(p, b)
  PROVE  Moved(p)
<1> DEFINE t == Cardinality(Logins) + 1
           x == [Free EXCEPT !.at = "begun", !.by = b, !.login = t]
<1>1. LoginsMove /\ t \in DOMAIN logins' /\ logins'[t].by = b
  BY BegunLogin
<1>2. proc' = [proc EXCEPT ![p] = x] /\ UNCHANGED <<clock, member, rows, jar, ended>>
  BY DEF BeginAuth
<1>3. t \in Nat
  <2>1. PICK n \in Nat : logins' \in [1..n -> Login]
    BY <1>1 DEF LoginsMove
  <2> QED BY <1>1, <2>1
<1> HIDE DEF t
<1>4. x \in Process /\ x.at = "begun" /\ x.by = b /\ x.login = t /\ x.old = 0
  BY <1>3 DEF Free, Process, Places
<1>5. PICK y : y = x
  OBVIOUS
<1> HIDE DEF x
<1>6. OwnsLogin(y)' /\ OnSession(y)
  BY <1>1, <1>4, <1>5 DEF OwnsLogin, OnSession, Logins
<1> QED BY <1>1, <1>2, <1>4, <1>5, <1>6, QuietMoves

LEMMA LeaveLoginMoves ==
  ASSUME TypeInv, NEW p \in Processes, DiscardAuth(p) \/ Redirect(p)
  PROVE  Moved(p)
<1>r. RowsMove /\ clock' = clock /\ member' = member /\ Done(p) /\ ended' = ended /\ EndedInv'
  <2>1. rows' = rows /\ clock' = clock /\ member' = member /\ Done(p) /\ ended' = ended
    BY DEF DiscardAuth, Redirect
  <2> QED BY <2>1, RowsStay, EndedStays DEF TypeInv
<1>1. CASE DiscardAuth(p)
  <2>1. LoginsMove /\ jar' = jar
    BY <1>1, DiscardedLogin DEF DiscardAuth
  <2> QED BY <1>r, <2>1, JarStays, DoneMoves DEF TypeInv
<1>2. CASE Redirect(p)
  <2> DEFINE b == proc[p].by
             t == proc[p].login
  <2>1. LoginsMove
    BY <1>2, LoginsStay DEF Redirect, TypeInv
  <2>2. b \in Browsers /\ t \in Logins /\ logins[t].by = b /\ t \in Nat
    BY <1>2 DEF Redirect, At, TypeInv, Well, OwnsLogin, Process
  <2>3. jar' = [jar EXCEPT ![b] = [jar[b] EXCEPT !.state = t]] /\ logins' = logins /\ rows' = rows
    BY <1>2 DEF Redirect
  <2>4. JarInv'
    BY <2>2, <2>3 DEF TypeInv, JarInv, Logins, Sids
  <2> QED BY <1>r, <2>1, <2>4, DoneMoves
<1> QED BY <1>1, <1>2

LEMMA CallbackMoves ==
  ASSUME TypeInv, NEW p \in Processes, NEW b \in Browsers, NEW t \in Logins, Callback(p, b, t)
  PROVE  Moved(p)
<1> DEFINE x == [Free EXCEPT !.at = "callback", !.by = b, !.login = t,
                             !.old = jar[b].sid, !.now = clock]
<1>1. PICK n \in Nat : logins \in [1..n -> Login]
  BY DEF TypeInv, LoginInv
<1>2. t \in Nat /\ t # 0 /\ jar[b].state = t
  BY <1>1 DEF Callback, Presented, Logins
<1>3. logins[t].by = b /\ (jar[b].sid # 0 => jar[b].sid \in Sids) /\ jar[b].sid \in Nat
  BY <1>2 DEF TypeInv, JarInv
<1>4. x \in Process /\ x.at = "callback" /\ x.by = b /\ x.login = t /\ x.old = jar[b].sid
  BY <1>2, <1>3 DEF Free, Process, Places, TypeInv
<1>5. proc' = [proc EXCEPT ![p] = x] /\ UNCHANGED <<clock, member, logins, rows, jar, ended>>
  BY DEF Callback
<1>6. LoginsMove
  BY <1>5, LoginsStay DEF TypeInv
<1>7. PICK y : y = x
  OBVIOUS
<1> HIDE DEF x
<1>8. OwnsLogin(y)' /\ OnSession(y)
  BY <1>3, <1>4, <1>5, <1>7 DEF OwnsLogin, OnSession, Logins
<1> QED BY <1>4, <1>5, <1>6, <1>7, <1>8, QuietMoves

LEMMA ConsumeMoves ==
  ASSUME TypeInv, NEW p \in Processes, ConsumeAuth(p)
  PROVE  Moved(p)
<1>1. LoginsMove /\ proc[p].now < logins[proc[p].login].expires
  BY ConsumedLogin
<1>2. PICK x \in Process : x = proc[p] /\ x.at = "callback" /\ OwnsLogin(x) /\ OnSession(x)
  BY DEF ConsumeAuth, At, TypeInv, Well
<1>3. PICK y : y = [x EXCEPT !.at = "consumed"]
  OBVIOUS
<1>4. /\ y \in Process /\ y.at = "consumed" /\ y.by = x.by /\ y.login = x.login /\ y.old = x.old
      /\ y.now = x.now
  BY <1>2, <1>3, PlaceChanged DEF Places
<1>5. proc' = [proc EXCEPT ![p] = y] /\ UNCHANGED <<clock, member, rows, jar, ended>>
  BY <1>2, <1>3 DEF ConsumeAuth, Goto
<1>6. OwnsLogin(y)' /\ OnSession(y)
  BY <1>1, <1>2, <1>4 DEF OwnsLogin, OnSession, LoginsMove, Logins
<1> QED BY <1>1, <1>4, <1>5, <1>6, QuietMoves

LEMMA ExchangeMoves ==
  ASSUME TypeInv, NEW p \in Processes, Exchange(p)
  PROVE  Moved(p)
<1>1. PICK u \in Users : proc' = [proc EXCEPT ![p] =
        [Free EXCEPT !.at = "identified", !.by = proc[p].by, !.old = proc[p].old, !.user = u]]
  BY DEF Exchange
<1>2. PICK x \in Process : x = proc[p] /\ x.at = "consumed" /\ OwnsLogin(x) /\ OnSession(x)
  BY DEF Exchange, At, TypeInv, Well
<1>3. x.by \in Browsers /\ x.old \in Nat /\ (x.old # 0 => x.old \in Sids)
  BY <1>2 DEF OwnsLogin, OnSession, Process
<1>4. PICK y : y = [Free EXCEPT !.at = "identified", !.by = x.by, !.old = x.old, !.user = u]
  OBVIOUS
<1>5. y \in Process /\ y.at = "identified" /\ y.by = x.by /\ y.user = u /\ y.old = x.old
  BY <1>3, <1>4 DEF Free, Process, Places
<1>6. LoginsMove /\ UNCHANGED <<clock, member, rows, jar, ended>>
  BY LoginsStay DEF Exchange, TypeInv
<1>7. OwnsLogin(y)' /\ OnSession(y)
  BY <1>3, <1>5 DEF OwnsLogin, OnSession
<1>8. proc' = [proc EXCEPT ![p] = y]
  BY <1>1, <1>2, <1>4
<1> QED BY <1>5, <1>6, <1>7, <1>8, QuietMoves

LEMMA LookUpMoves ==
  ASSUME TypeInv, NEW p \in Processes, LookUp(p)
  PROVE  Moved(p)
<1>1. PICK x \in Process : x = proc[p] /\ x.at = "identified" /\ OwnsLogin(x) /\ OnSession(x)
  BY DEF LookUp, At, TypeInv, Well
<1>2. x.by \in Browsers /\ x.user \in Users /\ (x.old # 0 => x.old \in Sids)
  BY <1>1 DEF OwnsLogin, OnSession
<1>3. PICK c \in Scopes \cup {NoOne} : c = member[x.user].scopes
  BY <1>2 DEF TypeInv, Membership
<1>4. PICK y : y = [[[x EXCEPT !.at = "creating"] EXCEPT !.made = clock] EXCEPT !.scopes = c]
  OBVIOUS
<1>5. y \in Process /\ y.at = "creating" /\ y.by = x.by /\ y.user = x.user /\ y.old = x.old
  BY <1>4 DEF Process, Places, TypeInv
<1>6. proc' = [proc EXCEPT ![p] = y]
  BY <1>1, <1>3, <1>4 DEF LookUp, TypeInv
<1>7. LoginsMove /\ UNCHANGED <<clock, member, rows, jar, ended>>
  BY LoginsStay DEF LookUp, TypeInv
<1>8. OwnsLogin(y)' /\ OnSession(y)
  BY <1>2, <1>5 DEF OwnsLogin, OnSession
<1> QED BY <1>5, <1>6, <1>7, <1>8, QuietMoves

(* Logins and cookies are as they were. *)
LEMMA RowMoves ==
  ASSUME TypeInv, NEW p \in Processes, UNCHANGED <<clock, member, logins, jar, ended>>, RowsMove,
         NEW x \in Process, proc' = [proc EXCEPT ![p] = x], OwnsLogin(x), OnSession(x)'
  PROVE  Moved(p)
<1>1. LoginsMove
  BY LoginsStay DEF TypeInv
<1>2. JarInv' /\ EndedInv'
  BY <1>1, JarStays, EndedStays DEF TypeInv
<1>3. OwnsLogin(x)'
  BY Zenon DEF OwnsLogin, Logins
<1> QED BY <1>1, <1>2, <1>3 DEF Moved, TypeInv

LEMMA CreateMoves ==
  ASSUME TypeInv, NEW p \in Processes, Create(p)
  PROVE  Moved(p)
<1>1. PICK s \in Nat : s = Cardinality(Sids) + 1 /\ s \in DOMAIN rows' /\ RowsMove
  BY RowCreated
<1>2. PICK x \in Process : x = proc[p] /\ x.at = "creating" /\ OwnsLogin(x) /\ OnSession(x)
  BY DEF Create, At, TypeInv, Well
<1>3. x.by \in Browsers /\ x.old \in Nat /\ (x.old # 0 => x.old \in Sids)
  BY <1>2 DEF OwnsLogin, OnSession, Process
<1>4. PICK y : y = [Free EXCEPT !.at = "created", !.by = x.by, !.old = x.old, !.sid = s]
  OBVIOUS
<1>5. y \in Process /\ y.at = "created" /\ y.by = x.by /\ y.sid = s /\ y.old = x.old
  BY <1>3, <1>4 DEF Free, Process, Places
<1>6. proc' = [proc EXCEPT ![p] = y] /\ UNCHANGED <<clock, member, logins, jar, ended>>
  BY <1>1, <1>2, <1>4 DEF Create
<1>7. OwnsLogin(y) /\ OnSession(y)'
  BY <1>1, <1>3, <1>5 DEF OwnsLogin, OnSession, RowsMove, Sids
<1> QED BY <1>1, <1>5, <1>6, <1>7, RowMoves

LEMMA RevokeOldMoves ==
  ASSUME TypeInv, NEW p \in Processes, RevokeOld(p)
  PROVE  Moved(p)
<1>1. PICK x \in Process : x = proc[p] /\ x.at = "created" /\ OwnsLogin(x) /\ OnSession(x)
  BY DEF RevokeOld, At, TypeInv, Well
<1>2. RowsMove /\ DOMAIN rows' = Sids /\ (x.old \in Sids => IsRevoked(rows'[x.old]))
  BY <1>1, OldRevoked
<1>3. PICK y : y = [x EXCEPT !.at = "signed in"]
  OBVIOUS
<1>4. y \in Process /\ y.at = "signed in" /\ y.by = x.by /\ y.sid = x.sid /\ y.old = x.old
  BY <1>1, <1>3, PlaceChanged DEF Places
<1>5. proc' = [proc EXCEPT ![p] = y] /\ UNCHANGED <<clock, member, logins, jar, ended>>
  BY <1>1, <1>3 DEF RevokeOld, Goto
<1>6. OwnsLogin(y) /\ OnSession(y)'
  BY <1>1, <1>2, <1>4 DEF OwnsLogin, OnSession, Sids
<1> QED BY <1>2, <1>4, <1>5, <1>6, RowMoves

LEMMA SignedInMoves ==
  ASSUME TypeInv, NEW p \in Processes, SignedIn(p)
  PROVE  Moved(p)
<1>1. PICK x \in Process : x = proc[p] /\ x.at = "signed in" /\ OwnsLogin(x) /\ OnSession(x)
  BY DEF SignedIn, At, TypeInv, Well
<1>2. x.by \in Browsers /\ x.sid \in Sids /\ x.sid \in Nat /\ (x.old # 0 => IsRevoked(rows[x.old]))
  BY <1>1 DEF OwnsLogin, OnSession, Process
<1>3. /\ jar' = [jar EXCEPT ![x.by] = [state |-> 0, sid |-> x.sid]]
      /\ ended' = ended \cup ({x.old} \cap Sids) /\ Done(p)
      /\ UNCHANGED <<clock, member, logins, rows>>
  BY <1>1 DEF SignedIn
<1>4. LoginsMove /\ RowsMove
  BY <1>3, LoginsStay, RowsStay DEF TypeInv
<1>5. JarInv'
  BY <1>2, <1>3 DEF TypeInv, JarInv, Logins, Sids
<1>6. EndedInv'
  BY <1>2, <1>3, SidOf DEF TypeInv, EndedInv, Sids
<1> QED BY <1>3, <1>4, <1>5, <1>6, DoneMoves

------------------------------------------------------------------------------
(* Requests with a session. *)

LEMMA RequestMoves ==
  ASSUME TypeInv, NEW p \in Processes, NEW s \in Sids, Request(p, s)
  PROVE  Moved(p)
<1>1. rows[s] \in Row /\ rows[s].seen <= rows[s].used
  BY DEF TypeInv, RowInv, Sids
<1>2. ~IsRevoked(rows[s]) /\ rows[s].expires > clock /\ rows[s].seen + Idle > clock
  BY DEF Request, Alive, IsRevoked
<1>3. s \notin ended
  BY <1>2 DEF TypeInv, EndedInv
<1>4. clock \in Nat /\ s \in Nat
  BY SidOf DEF TypeInv
<1>5. PICK u \in Users : u = rows[s].user
  BY <1>1 DEF Row
<1>6. PICK d \in SUBSET Membership : d = {member[u]}
  BY DEF TypeInv
<1>7. (s \in ended \/ rows[s].expires <= clock) = FALSE
  BY <1>1, <1>2, <1>3, <1>4 DEF Row
<1>8. clock < rows[s].used + Idle
  BY <1>1, <1>2, <1>4, TtlAssumption DEF Row
<1>9. PICK y : y = [Free EXCEPT !.at = "selected", !.sid = s, !.now = clock,
                                !.user = u, !.during = d, !.barred = FALSE]
  OBVIOUS
<1>10. /\ y \in Process /\ y.at = "selected" /\ y.sid = s /\ y.now = clock /\ y.user = u
       /\ y.during = d /\ ~IsBarred(y)
  BY <1>4, <1>9 DEF Free, Process, Places, IsBarred
<1>11. y.old = 0
  BY <1>9 DEF Free
<1>12. UNCHANGED <<clock, member, rows, jar, ended>> /\ LoginsMove
  BY LoginsStay DEF Request, TypeInv
<1>13. proc' = [proc EXCEPT ![p] = y]
  <2>1. proc' = [proc EXCEPT ![p] =
          [Free EXCEPT !.at = "selected", !.sid = s, !.now = clock,
                       !.user = u, !.during = d,
                       !.barred = (s \in ended \/ rows[s].expires <= clock)]]
    BY <1>5, <1>6, Zenon DEF Request
  <2> QED BY <1>7, <1>9, <2>1, Zenon
<1>14. OwnsLogin(y)' /\ OnSession(y)
  BY <1>6, <1>8, <1>10, <1>11 DEF OwnsLogin, OnSession
<1> QED BY <1>10, <1>12, <1>13, <1>14, QuietMoves

LEMMA CompareMoves ==
  ASSUME TypeInv, NEW p \in Processes, Compare(p)
  PROVE  Moved(p)
<1>1. PICK x \in Process : x = proc[p] /\ x.at = "selected" /\ OwnsLogin(x) /\ OnSession(x)
  BY DEF Compare, At, TypeInv, Well
<1>2. /\ x.sid \in Sids /\ x.user \in Users /\ member[x.user] \in x.during
      /\ ~IsBarred(x) /\ x.now < rows[x.sid].used + Idle /\ (x.old # 0 => x.old \in Sids)
  BY <1>1 DEF OnSession
<1>3. UNCHANGED <<clock, member, rows, jar, ended>> /\ LoginsMove
  BY LoginsStay DEF Compare, TypeInv
<1>4. PICK m \in Membership : m = member[x.user]
  BY <1>2 DEF TypeInv
<1>5. CASE Rests(rows[x.sid], m)
  <2>1. PICK y : y = [[[x EXCEPT !.at = "rests"] EXCEPT !.scopes = m.scopes] EXCEPT !.user = NoOne]
    OBVIOUS
  <2>2. /\ y \in Process /\ y.at = "rests" /\ y.sid = x.sid /\ y.now = x.now
        /\ y.scopes = m.scopes /\ y.during = x.during /\ IsBarred(y) = IsBarred(x)
    BY <2>1, RestsForm DEF Membership
  <2>3. y.old = x.old
    BY <2>1 DEF Process
  <2>4. m.status = "active" /\ m.scopes = rows[x.sid].scopes
    BY <1>5 DEF Rests
  <2>5. m = [status |-> "active", scopes |-> m.scopes]
    BY <2>4 DEF Membership
  <2>6. proc' = [proc EXCEPT ![p] = y]
    BY <1>1, <1>4, <1>5, <2>1 DEF Compare, TypeInv
  <2>7. OwnsLogin(y)' /\ OnSession(y)
    <3>1. [status |-> "active", scopes |-> y.scopes] \in y.during
      BY <1>2, <1>4, <2>2, <2>5
    <3> QED BY <1>2, <2>2, <2>3, <2>4, <3>1 DEF OwnsLogin, OnSession
  <2> QED BY <1>3, <2>2, <2>6, <2>7, QuietMoves
<1>6. CASE ~Rests(rows[x.sid], m)
  <2>1. PICK y : y = [Free EXCEPT !.at = "falls", !.sid = x.sid]
    OBVIOUS
  <2>2. y \in Process /\ y.at = "falls" /\ y.sid = x.sid /\ y.old = 0
    BY <2>1 DEF Free, Process, Places
  <2>3. proc' = [proc EXCEPT ![p] = y]
    BY <1>1, <1>4, <1>6, <2>1 DEF Compare
  <2>4. OwnsLogin(y)' /\ OnSession(y)
    BY <1>2, <2>2 DEF OwnsLogin, OnSession
  <2> QED BY <1>3, <2>2, <2>3, <2>4, QuietMoves
<1> QED BY <1>5, <1>6

LEMMA TouchMoves ==
  ASSUME TypeInv, NEW p \in Processes, Touch(p)
  PROVE  Moved(p)
<1>1. RowsMove /\ Done(p) /\ UNCHANGED <<clock, member, logins, jar, ended>>
  BY RowTouched DEF Touch
<1>2. LoginsMove
  BY <1>1, LoginsStay DEF TypeInv
<1>3. JarInv' /\ EndedInv'
  BY <1>1, <1>2, JarStays, EndedStays DEF TypeInv
<1> QED BY <1>1, <1>2, <1>3, DoneMoves

LEMMA FallMoves ==
  ASSUME TypeInv, NEW p \in Processes, Fall(p)
  PROVE  Moved(p)
<1> DEFINE s == proc[p].sid
<1>1. s \in Sids
  BY DEF Fall, At, TypeInv, Well, OnSession
<1>2. /\ rows' = [rows EXCEPT ![s].revoked = TRUE] /\ ended' = ended \cup {s} /\ Done(p)
      /\ UNCHANGED <<clock, member, logins, jar>>
  BY DEF Fall
<1>3. RowsMove /\ DOMAIN rows' = Sids /\ IsRevoked(rows'[s])
  BY <1>1, <1>2, RowRevoked DEF TypeInv
<1>4. LoginsMove
  BY <1>2, LoginsStay DEF TypeInv
<1>5. JarInv'
  BY <1>2, <1>3, <1>4, JarStays DEF TypeInv
<1> HIDE DEF s
<1>6. EndedInv'
  BY <1>1, <1>2, <1>3 DEF TypeInv, EndedInv, RowsMove, Sids
<1> QED BY <1>2, <1>3, <1>4, <1>5, <1>6, DoneMoves

LEMMA LogoutMoves ==
  ASSUME TypeInv, NEW p \in Processes, NEW b \in Browsers, Logout(p, b)
  PROVE  Moved(p)
<1>1. PICK s \in Nat : s = jar[b].sid /\ s \in Sids
  BY DEF Logout, TypeInv, JarInv
<1>2. rows' = [rows EXCEPT ![s].revoked = TRUE] /\ UNCHANGED <<clock, member, logins, jar, ended>>
  BY <1>1 DEF Logout, Revoked
<1>3. RowsMove /\ DOMAIN rows' = Sids /\ IsRevoked(rows'[s])
  BY <1>1, <1>2, RowRevoked DEF TypeInv
<1>4. PICK y : y = [Free EXCEPT !.at = "logged out", !.by = b, !.sid = s]
  OBVIOUS
<1>5. y \in Process /\ y.at = "logged out" /\ y.by = b /\ y.sid = s /\ y.old = 0
  BY <1>4 DEF Free, Process, Places
<1>6. proc' = [proc EXCEPT ![p] = y]
  BY <1>1, <1>4 DEF Logout
<1>7. OwnsLogin(y) /\ OnSession(y)'
  BY <1>1, <1>3, <1>5 DEF OwnsLogin, OnSession, Sids
<1> QED BY <1>2, <1>3, <1>5, <1>6, <1>7, RowMoves

LEMMA LoggedOutMoves ==
  ASSUME TypeInv, NEW p \in Processes, LoggedOut(p)
  PROVE  Moved(p)
<1>1. PICK x \in Process : x = proc[p] /\ x.at = "logged out" /\ OwnsLogin(x) /\ OnSession(x)
  BY DEF LoggedOut, At, TypeInv, Well
<1>2. x.by \in Browsers /\ x.sid \in Sids /\ IsRevoked(rows[x.sid])
  BY <1>1 DEF OwnsLogin, OnSession
<1>3. /\ jar' = [jar EXCEPT ![x.by] = [jar[x.by] EXCEPT !.sid = 0]] /\ ended' = ended \cup {x.sid}
      /\ Done(p) /\ UNCHANGED <<clock, member, logins, rows>>
  BY <1>1 DEF LoggedOut
<1>4. LoginsMove /\ RowsMove
  BY <1>3, LoginsStay, RowsStay DEF TypeInv
<1>5. JarInv'
  BY <1>2, <1>3 DEF TypeInv, JarInv, Logins, Sids
<1>6. EndedInv'
  BY <1>2, <1>3 DEF TypeInv, EndedInv, Sids
<1> QED BY <1>3, <1>4, <1>5, <1>6, DoneMoves

LEMMA GiveMoves ==
  ASSUME TypeInv, NEW p \in Processes, Give(p)
  PROVE  Moved(p)
<1>1. Done(p) /\ UNCHANGED <<clock, member, logins, rows, jar, ended>>
  BY DEF Give
<1>2. LoginsMove /\ RowsMove
  BY <1>1, LoginsStay, RowsStay DEF TypeInv
<1>3. JarInv' /\ EndedInv'
  BY <1>1, <1>2, JarStays, EndedStays DEF TypeInv
<1> QED BY <1>1, <1>2, <1>3, DoneMoves

------------------------------------------------------------------------------
(* The operator's changes reach the requests that are just being compared. *)

LEMMA WidenedForm ==
  ASSUME NEW x \in Process, NEW m \in Membership
  PROVE  LET y == [x EXCEPT !.during = @ \cup {m}]
         IN /\ y \in Process /\ y.at = x.at /\ y.by = x.by /\ y.login = x.login /\ y.sid = x.sid
            /\ y.old = x.old /\ y.now = x.now /\ y.user = x.user /\ y.scopes = x.scopes
            /\ y.during = x.during \cup {m} /\ IsBarred(y) = IsBarred(x)
  BY DEF Process, IsBarred

LEMMA ChangeStep ==
  ASSUME TypeInv, NEW u \in Users, NEW m \in Membership, Change(u, m)
  PROVE  TypeInv'
<1>1. /\ member' = [member EXCEPT ![u] = m] /\ UNCHANGED <<clock, logins, rows, jar, ended>>
      /\ proc' = [p \in Processes |-> IF proc[p].user = u /\ proc[p].at = "selected"
                                     THEN [proc[p] EXCEPT !.during = @ \cup {m}] ELSE proc[p]]
  BY DEF Change
<1>2. member' \in [Users -> Membership] /\ clock' \in Nat
  BY <1>1 DEF TypeInv
<1>3. LoginsMove /\ RowsMove
  BY <1>1, LoginsStay, RowsStay DEF TypeInv
<1>4. JarInv' /\ EndedInv'
  BY <1>1, <1>3, JarStays, EndedStays DEF TypeInv
<1>5. ASSUME NEW p \in Processes PROVE proc'[p] \in Process /\ Well(p)'
  <2>1. PICK x \in Process : x = proc[p] /\ OwnsLogin(x) /\ OnSession(x)
    BY DEF TypeInv, Well
  <2>2. CASE x.user = u /\ x.at = "selected"
    <3>1. PICK y : y = [x EXCEPT !.during = @ \cup {m}]
      OBVIOUS
    <3>2. /\ y \in Process /\ y.at = "selected" /\ y.sid = x.sid /\ y.old = x.old /\ y.now = x.now
          /\ y.user = u /\ y.during = x.during \cup {m} /\ IsBarred(y) = IsBarred(x)
      BY <2>1, <2>2, <3>1, WidenedForm
    <3>3. proc'[p] = y
      BY <1>1, <2>1, <2>2, <3>1
    <3>4. member'[y.user] \in y.during
      BY <1>1, <3>2 DEF TypeInv
    <3>5. OwnsLogin(y)'
      BY <3>2 DEF OwnsLogin
    <3>6. OnSession(y)'
      <4>1. /\ y.sid \in Sids /\ ~IsBarred(y) /\ y.now < rows[y.sid].used + Idle
            /\ (y.old # 0 => y.old \in Sids)
        BY <2>1, <2>2, <3>2 DEF OnSession
      <4> QED BY <1>1, <3>2, <3>4, <4>1 DEF OnSession, Sids
    <3> QED BY <3>2, <3>3, <3>5, <3>6 DEF Well
  <2>3. CASE ~(x.user = u /\ x.at = "selected")
    <3>1. proc'[p] = x
      BY <1>1, <2>1, <2>3
    <3>2. OwnsLogin(x)'
      BY <1>1, <2>1, Zenon DEF OwnsLogin, Logins
    <3>3. x.at = "selected" => member'[x.user] = member[x.user]
      BY <1>1, <2>3 DEF TypeInv
    <3>4. OnSession(x)'
      BY <1>1, <2>1, <3>3, Zenon DEF OnSession, Sids
    <3> QED BY <3>1, <3>2, <3>4 DEF Well
  <2> QED BY <2>2, <2>3
<1>6. proc' \in [Processes -> Process]
  BY <1>1, <1>5
<1>7. LoginInv' /\ RowInv'
  BY <1>1 DEF TypeInv, LoginInv, RowInv, Logins, Sids
<1> QED BY <1>2, <1>4, <1>5, <1>6, <1>7 DEF TypeInv

LEMMA MovedStep ==
  ASSUME TypeInv, NEW p \in Processes, Moved(p)
  PROVE  TypeInv'
<1>1. PICK x \in Process : proc' = [proc EXCEPT ![p] = x] /\ OwnsLogin(x)' /\ OnSession(x)'
  BY DEF Moved
<1>2. proc' \in [Processes -> Process] /\ proc'[p] = x
      /\ \A q \in Processes : q # p => proc'[q] = proc[q]
  BY <1>1 DEF TypeInv
<1>3. Well(p)'
  BY <1>1, <1>2 DEF Well
<1>4. \A q \in Processes : q # p => Well(q)'
  BY <1>2, Bystander DEF Moved
<1>5. LoginInv' /\ RowInv'
  BY DEF Moved, LoginsMove, RowsMove, LoginInv, RowInv, Logins, Sids
<1> QED BY <1>2, <1>3, <1>4, <1>5 DEF Moved, TypeInv

LEMMA TypeStep ==
  ASSUME TypeInv, [Next]_vars
  PROVE  TypeInv'
<1>1. CASE Tick \/ UNCHANGED vars
  <2>1. UNCHANGED <<member, logins, rows, jar, proc, ended>> /\ clock' \in Nat
    BY <1>1 DEF Tick, vars, TypeInv
  <2>2. LoginInv' /\ RowInv' /\ JarInv' /\ EndedInv'
    BY <2>1 DEF TypeInv, LoginInv, RowInv, JarInv, EndedInv, Logins, Sids
  <2>3. \A p \in Processes : Well(p)'
    <3>1. LoginsMove /\ RowsMove
      BY <2>1, LoginsStay, RowsStay DEF TypeInv
    <3> QED BY <2>1, <3>1, Bystander
  <2> QED BY <2>1, <2>2, <2>3 DEF TypeInv
<1>2. ASSUME NEW u \in Users, Add(u) \/ SetStatus(u) \/ SetScopes(u) PROVE TypeInv'
  <2>1. \A s \in Scopes : [status |-> "active", scopes |-> s] \in Membership
    BY DEF Membership
  <2>2. \A s \in {"active", "disabled"} : [member[u] EXCEPT !.status = s] \in Membership
    BY DEF Membership, TypeInv
  <2>3. \A s \in Scopes : [member[u] EXCEPT !.scopes = s] \in Membership
    BY DEF Membership, TypeInv
  <2>4. PICK m \in Membership : Change(u, m)
    BY <1>2, <2>1, <2>2, <2>3 DEF Add, SetStatus, SetScopes
  <2> QED BY <2>4, ChangeStep
<1>3. ASSUME NEW p \in Processes, SignIn(p) PROVE Moved(p)
  BY <1>3, BeginMoves, LeaveLoginMoves, CallbackMoves, ConsumeMoves, ExchangeMoves, LookUpMoves,
     CreateMoves, RevokeOldMoves, SignedInMoves DEF SignIn
<1>4. ASSUME NEW p \in Processes, Resolve(p) PROVE Moved(p)
  BY <1>4, RequestMoves, CompareMoves, TouchMoves, FallMoves DEF Resolve
<1>5. ASSUME NEW p \in Processes, Leave(p) PROVE Moved(p)
  BY <1>5, LogoutMoves, LoggedOutMoves, GiveMoves DEF Leave
<1> QED BY <1>1, <1>2, <1>3, <1>4, <1>5, MovedStep DEF Next

LEMMA TypeInit ==
  ASSUME Init PROVE TypeInv
<1>1. clock = 0 /\ logins = <<>> /\ ended = {}
      /\ proc = [p \in Processes |-> Free]
  BY DEF Init
<1>2. member \in [Users -> Membership]
  <2>1. [status |-> "none", scopes |-> NoOne] \in Membership
        /\ [status : {"active"}, scopes : Scopes] \subseteq Membership
    BY DEF Membership
  <2> QED BY <2>1 DEF Init
<1>3. logins \in [1..0 -> Login] /\ Logins = {} /\ DOMAIN logins = {}
  BY <1>1 DEF Logins
<1>4. LoginInv /\ EndedInv
  BY <1>1, <1>3 DEF LoginInv, EndedInv, Logins
<1>5. proc \in [Processes -> Process] /\ \A p \in Processes : Well(p)
  <2>1. OwnsLogin(Free) /\ OnSession(Free)
    BY FreeFields DEF OwnsLogin, OnSession, Free
  <2> QED BY <1>1, <2>1, FreeFields DEF Well
<1>6. CASE rows = <<>> /\ jar = [b \in Browsers |-> NoCookies]
  <2>1. rows \in [1..0 -> Row] /\ RowInv
    BY <1>6 DEF RowInv, Sids
  <2>2. JarInv
    BY <1>6 DEF JarInv, NoCookies
  <2> QED BY <1>1, <1>2, <1>4, <1>5, <2>1, <2>2 DEF TypeInv
<1>7. ASSUME NEW b \in Browsers, NEW u \in Users,
             rows = <<Session(u, member[u].scopes, 0)>>,
             jar = [c \in Browsers |-> IF c = b THEN [NoCookies EXCEPT !.sid = 1] ELSE NoCookies]
      PROVE  TypeInv
  <2>1. Session(u, member[u].scopes, 0) \in Row
        /\ Session(u, member[u].scopes, 0).seen <= Session(u, member[u].scopes, 0).used
    BY <1>2, TtlAssumption DEF Session, Row, Membership
  <2>2. rows \in [1..1 -> Row] /\ Sids = {1} /\ rows[1].seen <= rows[1].used
    <3> HIDE DEF Session, Row
    <3> QED BY <1>7, <2>1 DEF Sids
  <2>3. RowInv
    BY <2>2 DEF RowInv
  <2>4. JarInv
    BY <1>7, <2>2 DEF JarInv, NoCookies
  <2> QED BY <1>1, <1>2, <1>4, <1>5, <2>3, <2>4 DEF TypeInv
<1> QED BY <1>6, <1>7 DEF Init

LEMMA Invariant == Spec => []TypeInv
<1> QED BY TypeInit, TypeStep, PTL DEF Spec

------------------------------------------------------------------------------
(* A request is admitted only with scopes its membership granted during    *)
(* the request, and which the session was made with: resolve compares both *)
(* in each request.                                                         *)
THEOREM SessionsRestOnMemberships == Spec => []RestsOnMembership
<1>1. TypeInv => RestsOnMembership
  BY DEF TypeInv, Well, OnSession, RestsOnMembership, Admitted, At
<1> QED BY <1>1, Invariant, PTL

(* No request is admitted that came in after its session was over, by      *)
(* logout, by replacement, by the fall of its membership or by its time.   *)
THEOREM SessionsEndForGood == Spec => []OverForGood
<1>1. TypeInv => OverForGood
  BY Zenon DEF TypeInv, Well, OnSession, OverForGood, Admitted, At, IsBarred
<1> QED BY <1>1, Invariant, PTL

(* No request is admitted whose session was idle for too long before it,   *)
(* although older requests write older times over newer ones.               *)
THEOREM IdleSessionsEnd == Spec => []IdleEnds
<1>1. TypeInv => IdleEnds
  BY DEF TypeInv, Well, OnSession, IdleEnds, Admitted, At
<1> QED BY <1>1, Invariant, PTL

(* A login is consumed at most once, by a callback of the browser that     *)
(* began it which came in before the login expired.                        *)
THEOREM LoginsAreOwn == Spec => []OwnLogin
<1>1. TypeInv => OwnLogin
  BY DEF TypeInv, Well, OwnsLogin, LoginInv, OwnLogin, At
<1> QED BY <1>1, Invariant, PTL

=============================================================================
