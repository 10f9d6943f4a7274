----------------------------- MODULE GatewayProofs -----------------------------
(***************************************************************************)
(* What is proved of the gateway for every value of its constants: how old *)
(* the key of an accepted token may be, what a rate limiter lets through,  *)
(* that a relayed request is let in only for a call that still waits for   *)
(* it, that concurrency slots are those of the work under way, and what it *)
(* means that the server calls its backups in order.                       *)
(***************************************************************************)
EXTENDS Gateway, FiniteSetTheorems, TLAPS

------------------------------------------------------------------------------
(* The key cache.  A key set on its way was published when it was sent; the *)
(* cache's keys were published not long before they expire; and a cache in  *)
(* which a thread looks for the second time was filled since its answer.    *)

KeyTypes ==
  /\ now \in Nat
  /\ published \subseteq Kids
  /\ lastPublished \in [Kids -> Int]
  /\ cached.keys \subseteq Kids
  /\ cached.expires \in Nat
  /\ DOMAIN verifier = Threads

Publishing == \A k \in Kids : /\ lastPublished[k] <= now
                              /\ k \in published => lastPublished[k] = now

CacheRecent ==
  /\ cached.expires <= now + CacheTime
  /\ \A k \in cached.keys :
       lastPublished[k] >= 0 /\ lastPublished[k] >= cached.expires - (CacheTime + FetchTime)

InTime(v) ==
  /\ v.pc \in {"parsing", "looking"} => v.at \in Nat /\ v.at <= now /\ now <= v.at + FetchTime
  /\ v.pc = "parsing" => v.keys \subseteq Kids /\ \A k \in v.keys : lastPublished[k] >= v.at
  /\ v.pc = "looking" => cached.expires >= v.at + CacheTime

KeyInv == KeyTypes /\ Publishing /\ CacheRecent /\ \A t \in Threads : InTime(verifier[t])

FreshStep ==
  \A t \in Threads :
    verifier'[t].pc = "accepted" /\ verifier[t].pc # "accepted" =>
      LET kid == verifier'[t].token.kid
      IN  lastPublished[kid] >= 0 /\ now - lastPublished[kid] <= CacheTime + FetchTime

LEMMA InitKeyInv == Init => KeyInv
<1> SUFFICES ASSUME Init PROVE KeyInv
  OBVIOUS
<1>1. \A t \in Threads : verifier[t].pc = "idle"
  BY DEF Init, KeyInit, Idle
<1>2. KeyTypes
  BY KeyAssumption DEF Init, KeyInit, KeyTypes
<1>3. Publishing /\ CacheRecent
  BY KeyAssumption DEF Init, KeyInit, Publishing, CacheRecent
<1> QED BY <1>1, <1>2, <1>3 DEF KeyInv, InTime

(* A step that leaves the cache, the provider and the clock alone and moves *)
(* one thread.                                                              *)
LEMMA ThreadMoves ==
  ASSUME KeyInv, NEW t \in Threads, NEW v, verifier' = [verifier EXCEPT ![t] = v], InTime(v),
         UNCHANGED <<now, published, lastPublished, cached>>
  PROVE  KeyInv'
<1>1. \A s \in Threads : InTime(verifier'[s])
  BY DEF KeyInv, KeyTypes
<1>2. \A s \in Threads : InTime(verifier[s])'
  BY <1>1 DEF InTime
<1> QED BY <1>2 DEF KeyInv, KeyTypes, Publishing, CacheRecent

LEMMA KeyStepInv ==
  ASSUME KeyInv, KeyNext
  PROVE  KeyInv' /\ FreshStep
<1> USE KeyAssumption
<1>1. CASE Pause
  <2>1. \A t \in Threads : InTime(verifier[t])'
    BY <1>1 DEF Pause, Pass, KeyInv, KeyTypes, Publishing, InTime
  <2>2. KeyTypes'
    BY <1>1 DEF Pause, Pass, KeyInv, KeyTypes
  <2>3. Publishing' /\ CacheRecent'
    BY <1>1 DEF Pause, Pass, KeyInv, KeyTypes, Publishing, CacheRecent
  <2> QED BY <1>1, <2>1, <2>2, <2>3 DEF KeyInv, FreshStep, Pause
<1>2. ASSUME NEW keys \in SUBSET Kids, Rotate(keys) PROVE KeyInv' /\ FreshStep
  <2>1. \A k \in Kids : lastPublished'[k] >= lastPublished[k]
    BY <1>2 DEF Rotate, KeyInv, KeyTypes, Publishing
  <2>2. KeyTypes'
    BY <1>2 DEF Rotate, KeyInv, KeyTypes
  <2>3. Publishing' /\ CacheRecent'
    BY <1>2, <2>1, <2>2 DEF Rotate, KeyInv, KeyTypes, Publishing, CacheRecent
  <2>4. \A t \in Threads : InTime(verifier[t])'
    BY <1>2, <2>1, <2>2 DEF Rotate, KeyInv, KeyTypes, InTime
  <2> QED BY <1>2, <2>2, <2>3, <2>4 DEF KeyInv, FreshStep, Rotate
<1>3. ASSUME NEW subjects \in SUBSET Subjects, Enrol(subjects) PROVE KeyInv' /\ FreshStep
  BY <1>3 DEF Enrol, KeyInv, KeyTypes, Publishing, CacheRecent, InTime, FreshStep
<1>4. ASSUME NEW t \in Threads, NEW token \in Tokens, Verify(t, token)
      PROVE KeyInv' /\ FreshStep
  <2> DEFINE place == IF Cached(token.kid) THEN Verdict(token) ELSE "fetching"
  <2>1. place \in {"accepted", "refused", "fetching"}
    BY DEF Verdict
  <2>2. KeyInv'
    <3>1. InTime([pc |-> place, token |-> token])
      BY <2>1 DEF InTime
    <3> HIDE DEF place
    <3>2. verifier' = [verifier EXCEPT ![t] = [pc |-> place, token |-> token]]
      BY <1>4 DEF Verify, place
    <3> QED BY <1>4, <3>1, <3>2, ThreadMoves DEF Verify
  <2>3. \A s \in Threads \ {t} : verifier'[s] = verifier[s]
    BY <1>4 DEF Verify, KeyInv, KeyTypes
  <2>4. verifier'[t].pc = "accepted" => verifier'[t].token = token /\ Cached(token.kid)
    BY <1>4 DEF Verify, KeyInv, KeyTypes
  <2>5. Cached(token.kid) =>
          lastPublished[token.kid] >= 0 /\ now - lastPublished[token.kid] <= CacheTime + FetchTime
    BY DEF Cached, KeyInv, KeyTypes, CacheRecent
  <2> QED BY <2>2, <2>3, <2>4, <2>5 DEF FreshStep
<1>5. ASSUME NEW t \in Threads, Respond(t) PROVE KeyInv' /\ FreshStep
  <2> DEFINE v == [pc |-> "parsing", token |-> verifier[t].token, keys |-> published, at |-> now]
  <2>1. InTime(v)
    BY DEF InTime, KeyInv, KeyTypes, Publishing
  <2>2. verifier' = [verifier EXCEPT ![t] = v]
    BY <1>5 DEF Respond
  <2>3. v.pc # "accepted"
    OBVIOUS
  <2> HIDE DEF v
  <2>4. KeyInv'
    BY <1>5, <2>1, <2>2, ThreadMoves DEF Respond
  <2> QED BY <2>2, <2>3, <2>4 DEF FreshStep, KeyInv, KeyTypes
<1>6. ASSUME NEW t \in Threads, Store(t) PROVE KeyInv' /\ FreshStep
  <2>1. verifier[t].pc = "parsing" /\ InTime(verifier[t])
    BY <1>6 DEF Store, KeyInv
  <2>2. KeyTypes' /\ cached'.expires = now + CacheTime /\ cached'.keys = verifier[t].keys
    BY <1>6, <2>1 DEF Store, KeyInv, KeyTypes, InTime
  <2>3. Publishing' /\ CacheRecent'
    <3>1. \A k \in verifier[t].keys : k \in Kids /\ lastPublished[k] >= now - FetchTime
                                      /\ lastPublished[k] >= 0
      BY <2>1 DEF InTime, KeyInv, KeyTypes
    <3> QED BY <1>6, <2>2, <3>1 DEF Store, KeyInv, KeyTypes, Publishing, CacheRecent
  <2>4. cached'.expires >= cached.expires
    BY <2>2 DEF KeyInv, CacheRecent
  <2>5. \A s \in Threads \ {t} : verifier'[s] = verifier[s]
    BY <1>6 DEF Store, KeyInv, KeyTypes
  <2>6. verifier'[t] = [pc |-> "looking", token |-> verifier[t].token, at |-> verifier[t].at]
    BY <1>6 DEF Store, KeyInv, KeyTypes
  <2>7. \A s \in Threads \ {t} : InTime(verifier[s])'
    BY <1>6, <2>2, <2>4, <2>5 DEF Store, KeyInv, KeyTypes, InTime
  <2>8. InTime(verifier[t])'
    BY <1>6, <2>1, <2>2, <2>6 DEF Store, InTime, KeyInv, KeyTypes
  <2> QED BY <2>2, <2>3, <2>5, <2>6, <2>7, <2>8 DEF KeyInv, FreshStep
<1>7. ASSUME NEW t \in Threads, FailFetch(t) PROVE KeyInv' /\ FreshStep
  <2>1. KeyInv'
    BY <1>7, ThreadMoves DEF FailFetch, InTime
  <2> QED BY <1>7, <2>1 DEF FailFetch, FreshStep, KeyInv, KeyTypes
<1>8. ASSUME NEW t \in Threads, Look(t) PROVE KeyInv' /\ FreshStep
  <2> DEFINE kid == verifier[t].token.kid
             place == IF kid \in cached.keys THEN Verdict(verifier[t].token) ELSE "refused"
             v == [pc |-> place, token |-> verifier[t].token]
  <2>1. place \in {"accepted", "refused"}
    BY DEF Verdict
  <2>2. InTime(v)
    BY <2>1 DEF InTime
  <2>3. verifier' = [verifier EXCEPT ![t] = v]
    BY <1>8 DEF Look
  <2>4. v.token.kid = kid /\ (v.pc = "accepted" => kid \in cached.keys)
    OBVIOUS
  <2> HIDE DEF place, v, kid
  <2>5. KeyInv'
    BY <1>8, <2>2, <2>3, ThreadMoves DEF Look
  <2>6. now <= cached.expires
    BY <1>8 DEF Look, KeyInv, KeyTypes, InTime
  <2>7. kid \in cached.keys =>
          lastPublished[kid] >= 0 /\ now - lastPublished[kid] <= CacheTime + FetchTime
    BY <2>6 DEF KeyInv, KeyTypes, CacheRecent
  <2> QED BY <2>3, <2>4, <2>5, <2>7 DEF FreshStep, KeyInv, KeyTypes
<1>9. ASSUME NEW t \in Threads, Reply(t) PROVE KeyInv' /\ FreshStep
  <2>1. KeyInv'
    BY <1>9, ThreadMoves DEF Reply, InTime, Idle
  <2> QED BY <1>9, <2>1 DEF Reply, Idle, FreshStep, KeyInv, KeyTypes
<1> QED BY <1>1, <1>2, <1>3, <1>4, <1>5, <1>6, <1>7, <1>8, <1>9 DEF KeyNext

LEMMA NextKeyInv == (part = "keys" => KeyInv) /\ [Next]_vars => (part = "keys" => KeyInv)'
<1> SUFFICES ASSUME part = "keys" => KeyInv, [Next]_vars, part' = "keys" PROVE KeyInv'
  OBVIOUS
<1>1. CASE UNCHANGED vars
  BY <1>1 DEF vars, keyVars, KeyInv, KeyTypes, Publishing, CacheRecent, InTime
<1>2. CASE Next
  BY <1>2, KeyStepInv DEF Next
<1> QED BY <1>1, <1>2

(* KeysFresh.  Whatever threads fetch at once and whichever of them fills   *)
(* the cache last, a token is accepted only under a key that the provider  *)
(* published within CacheTime + FetchTime (JwksClient.key, refresh).       *)
THEOREM KeysStayFresh == Spec => KeysFresh
<1>1. Init => (part = "keys" => KeyInv)
  BY InitKeyInv
<1>2. (part = "keys" => KeyInv) /\ [Next]_vars => [FreshStep]_keyVars
  <2> SUFFICES ASSUME part = "keys" => KeyInv, [Next]_vars PROVE FreshStep \/ UNCHANGED keyVars
    OBVIOUS
  <2>1. CASE UNCHANGED vars
    BY <2>1 DEF vars
  <2>2. CASE Next
    BY <2>2, KeyStepInv DEF Next
  <2> QED BY <2>1, <2>2
<1> QED BY <1>1, <1>2, NextKeyInv, PTL DEF Spec, KeysFresh, FreshStep

------------------------------------------------------------------------------
(* The rate windows.  C counts what a dimension had let through by each     *)
(* instant.                                                                 *)

Before(C, t) == IF t = 0 THEN 0 ELSE C[t - 1]

Counts(C, at) ==
  /\ C \in [0..FlowTime -> Nat]
  /\ \A s, t \in 0..FlowTime : s <= t => C[s] <= C[t]
  /\ \A t \in 0..FlowTime : at <= t => C[t] = C[at]

TwiceAtMost(C) ==
  \A t \in 0..FlowTime :
    t + RateWindow - 1 <= FlowTime => C[t + RateWindow - 1] - Before(C, t) < 2 * RateLimit

(* Of n requests fewer than the limit were let through in a window that     *)
(* ends with `at`. *)
Few(n, C, at) ==
  \A t \in 0..FlowTime : t <= at /\ at - t < RateWindow => n - Before(C, t) < RateLimit

Quiet(C, at) == C[at] = Before(C, at)

Fits(w, C, at) ==
  /\ w = [start |-> w.start, count |-> w.count]
  /\ w.start \in 0..FlowTime /\ w.start <= at
  /\ w.count \in Nat \ {0} /\ w.count <= RateLimit
  /\ w.count = C[at] - Before(C, w.start)
  /\ C[w.start] > Before(C, w.start)
  /\ Few(Before(C, w.start), C, w.start)
  /\ Quiet(C, at) \/ at - w.start < RateWindow

OneMore(C, at) == [t \in 0..FlowTime |-> C[t] + (IF t >= at THEN 1 ELSE 0)]

LEMMA BeforeCounts ==
  ASSUME NEW at \in 0..FlowTime, NEW C, Counts(C, at)
  PROVE  /\ \A t \in 0..FlowTime : Before(C, t) \in Nat /\ Before(C, t) <= C[t]
         /\ \A s, t \in 0..FlowTime : s <= t => Before(C, s) <= Before(C, t)
         /\ \A s, t \in 0..FlowTime : s < t => C[s] <= Before(C, t)
<1>1. \A t \in 0..FlowTime \ {0} : t - 1 \in 0..FlowTime
  BY FlowAssumption
<1> QED BY <1>1, FlowAssumption DEF Counts, Before

LEMMA ExpiredFew ==
  ASSUME NEW at \in 0..FlowTime, NEW C, Counts(C, at), NEW w, Fits(w, C, at),
         at - w.start >= RateWindow
  PROVE  Few(C[at], C, at)
<1> SUFFICES ASSUME NEW t \in 0..FlowTime, t <= at, at - t < RateWindow
             PROVE  C[at] - Before(C, t) < RateLimit
  BY DEF Few
<1>1. w.start < t /\ w.start \in 0..FlowTime
  BY LimitsAssumption, FlowAssumption DEF Fits
<1>2. C[w.start] <= Before(C, t)
  BY <1>1, BeforeCounts
<1>3. /\ Before(C, w.start) \in Nat /\ Before(C, t) \in Nat /\ C[w.start] \in Nat
      /\ C[at] \in Nat
  BY <1>1, BeforeCounts DEF Counts
<1> QED BY <1>2, <1>3, LimitsAssumption DEF Fits

LEMMA Later ==
  ASSUME NEW at \in 0..FlowTime, at + 1 <= FlowTime, NEW C, Counts(C, at)
  PROVE  /\ Counts(C, at + 1)
         /\ Quiet(C, at + 1)
         /\ \A w : Fits(w, C, at) => Fits(w, C, at + 1)
         /\ Few(C[at], C, at) => Few(C[at + 1], C, at + 1)
<1>1. C[at + 1] = C[at] /\ at + 1 \in 0..FlowTime
  BY FlowAssumption DEF Counts
<1>2. Counts(C, at + 1)
  BY <1>1, FlowAssumption DEF Counts
<1>5. Quiet(C, at + 1)
  BY <1>1, FlowAssumption DEF Quiet, Before
<1>3. ASSUME NEW w, Fits(w, C, at) PROVE Fits(w, C, at + 1)
  BY <1>1, <1>3, <1>5, FlowAssumption DEF Fits
<1>4. ASSUME Few(C[at], C, at) PROVE Few(C[at + 1], C, at + 1)
  <2> SUFFICES ASSUME NEW t \in 0..FlowTime, t <= at + 1, at + 1 - t < RateWindow
               PROVE  C[at + 1] - Before(C, t) < RateLimit
    BY DEF Few
  <2>1. CASE t <= at
    BY <1>1, <1>4, <2>1, LimitsAssumption, FlowAssumption DEF Few
  <2>2. CASE t = at + 1
    <3>1. Before(C, t) = C[at]
      BY <2>2, FlowAssumption DEF Before
    <3>2. C[at] \in Nat
      BY DEF Counts
    <3> QED BY <3>1, <3>2, <1>1, LimitsAssumption
  <2> QED BY <2>1, <2>2, FlowAssumption
<1> QED BY <1>2, <1>3, <1>4, <1>5

LEMMA MoreCounts ==
  ASSUME NEW at \in 0..FlowTime, NEW C, Counts(C, at)
  PROVE  /\ Counts(OneMore(C, at), at)
         /\ OneMore(C, at)[at] = C[at] + 1
         /\ \A t \in 0..FlowTime : t <= at => Before(OneMore(C, at), t) = Before(C, t)
<1> DEFINE D == OneMore(C, at)
<1>1. \A t \in 0..FlowTime : D[t] = C[t] + (IF t >= at THEN 1 ELSE 0)
  BY DEF OneMore
<1>2. D \in [0..FlowTime -> Nat]
  BY FlowAssumption DEF OneMore, Counts
<1> HIDE DEF D
<1>3. \A s, t \in 0..FlowTime : s <= t => D[s] <= D[t]
  BY <1>1, FlowAssumption DEF Counts
<1>4. \A t \in 0..FlowTime : at <= t => D[t] = D[at]
  BY <1>1, FlowAssumption DEF Counts
<1>5. \A t \in 0..FlowTime : t <= at => Before(D, t) = Before(C, t)
  <2> SUFFICES ASSUME NEW t \in 0..FlowTime, t <= at, t # 0 PROVE D[t - 1] = C[t - 1]
    BY DEF Before
  <2> QED BY <1>1, FlowAssumption DEF Counts
<1>6. D[at] = C[at] + 1
  BY <1>1, FlowAssumption
<1>7. Counts(D, at)
  BY <1>2, <1>3, <1>4 DEF Counts
<1> QED BY <1>5, <1>6, <1>7 DEF D

(* A window that is open bounds what a stretch that reaches into it lets    *)
(* through. *)
LEMMA StillTwice ==
  ASSUME NEW at \in 0..FlowTime, NEW C, Counts(C, at), TwiceAtMost(C),
         NEW w, Fits(w, OneMore(C, at), at), at - w.start < RateWindow
  PROVE  TwiceAtMost(OneMore(C, at))
<1> DEFINE D == OneMore(C, at)
<1>1. Counts(D, at) /\ \A t \in 0..FlowTime : D[t] = C[t] + (IF t >= at THEN 1 ELSE 0)
  BY MoreCounts DEF OneMore
<1>2. Fits(w, D, at)
  OBVIOUS
<1> HIDE DEF D
<1> SUFFICES ASSUME NEW t \in 0..FlowTime, t + RateWindow - 1 <= FlowTime
             PROVE  D[t + RateWindow - 1] - Before(D, t) < 2 * RateLimit
  BY DEF D, TwiceAtMost
<1> DEFINE e == t + RateWindow - 1
<1>3. e \in 0..FlowTime /\ t <= e /\ RateLimit \in Nat \ {0} /\ RateWindow \in Nat \ {0}
  BY LimitsAssumption, FlowAssumption
<1>4. /\ Before(D, t) \in Nat /\ Before(D, t) <= D[t] /\ D[e] \in Nat /\ D[t] \in Nat
      /\ Before(C, t) \in Nat /\ C[e] \in Nat
      /\ C[e] - Before(C, t) < 2 * RateLimit
  BY <1>1, <1>3, BeforeCounts DEF Counts, TwiceAtMost
<1>5. CASE e < at
  <2>1. D[e] = C[e] /\ Before(D, t) = Before(C, t)
    <3>1. D[e] = C[e] /\ t <= at
      BY <1>1, <1>3, <1>5, FlowAssumption DEF Counts
    <3>2. Before(D, t) = Before(C, t)
      BY <3>1, MoreCounts DEF D
    <3> QED BY <3>1, <3>2
  <2> QED BY <1>4, <2>1
<1>6. CASE at < t
  <2>1. D[e] = D[at] /\ D[t - 1] = D[at] /\ t # 0
    BY <1>1, <1>3, <1>6, FlowAssumption DEF Counts
  <2>2. Before(D, t) = D[e]
    BY <2>1 DEF Before
  <2> QED BY <1>3, <1>4, <2>2
<1>7. CASE t <= at /\ at <= e
  <2>1. D[e] = D[at] /\ D[at] \in Nat
    BY <1>1, <1>3, <1>7 DEF Counts
  <2>2. /\ w.start \in 0..FlowTime /\ w.count = D[at] - Before(D, w.start)
        /\ w.count \in Nat /\ w.count <= RateLimit /\ Before(D, w.start) \in Nat
        /\ w.start <= at
    BY <1>1, <1>2, BeforeCounts DEF Fits
  <2>3. CASE t <= w.start
    <3>1. w.start - t < RateWindow
      BY <2>2, <1>3, <1>7, FlowAssumption
    <3>2. Before(D, w.start) - Before(D, t) < RateLimit
      BY <1>2, <2>3, <3>1 DEF Fits, Few
    <3> QED BY <1>3, <1>4, <2>1, <2>2, <3>2
  <2>4. CASE w.start < t
    <3>1. Before(D, w.start) <= Before(D, t)
      BY <1>1, <2>2, <2>4, BeforeCounts
    <3> QED BY <1>3, <1>4, <2>1, <2>2, <3>1
  <2> QED BY <2>2, <2>3, <2>4, FlowAssumption
<1> QED BY <1>3, <1>5, <1>6, <1>7, FlowAssumption

LEMMA WindowOpens ==
  ASSUME NEW at \in 0..FlowTime, NEW C, Counts(C, at), Few(C[at], C, at), Quiet(C, at)
  PROVE  Fits([start |-> at, count |-> 1], OneMore(C, at), at)
<1> DEFINE D == OneMore(C, at)
<1>1. D[at] = C[at] + 1 /\ \A t \in 0..FlowTime : t <= at => Before(D, t) = Before(C, t)
  BY MoreCounts
<1>2. Before(C, at) \in Nat /\ C[at] \in Nat /\ Before(C, at) <= C[at]
  BY BeforeCounts DEF Counts
<1> DEFINE v == [start |-> at, count |-> 1]
<1>3. v = [start |-> v.start, count |-> v.count] /\ v.start = at /\ v.count = 1
  OBVIOUS
<1> HIDE DEF D, v
<1>4. Before(D, at) = C[at] /\ D[at] - Before(D, at) = 1 /\ D[at] > Before(D, at)
  BY <1>1, <1>2 DEF Quiet
<1>5. Few(Before(D, at), D, at)
  BY <1>1, <1>4 DEF Few
<1>6. Fits(v, D, at)
  BY <1>3, <1>4, <1>5, LimitsAssumption DEF Fits
<1> QED BY <1>6 DEF v, D

LEMMA WindowCounts ==
  ASSUME NEW at \in 0..FlowTime, NEW C, Counts(C, at), NEW w, Fits(w, C, at),
         w.count < RateLimit, at - w.start < RateWindow
  PROVE  Fits([w EXCEPT !.count = @ + 1], OneMore(C, at), at)
<1> DEFINE D == OneMore(C, at)
           v == [w EXCEPT !.count = @ + 1]
<1>1. /\ Counts(D, at) /\ D[at] = C[at] + 1
      /\ \A t \in 0..FlowTime : t <= at => Before(D, t) = Before(C, t)
      /\ \A t \in 0..FlowTime : D[t] >= C[t]
  <2>1. \A t \in 0..FlowTime : D[t] >= C[t]
    BY DEF OneMore, Counts
  <2> QED BY <2>1, MoreCounts
<1>2. w.start \in 0..FlowTime /\ w.start <= at /\ w.count \in Nat \ {0}
  BY DEF Fits
<1>3. v = [start |-> w.start, count |-> w.count + 1] /\ v.start = w.start /\ v.count = w.count + 1
  BY DEF Fits
<1>4. Before(D, w.start) = Before(C, w.start) /\ Before(C, w.start) \in Nat /\ C[at] \in Nat
      /\ C[w.start] \in Nat /\ D[w.start] >= C[w.start] /\ D[w.start] \in Nat
  BY <1>1, <1>2, BeforeCounts DEF Counts
<1> HIDE DEF D, v
<1>5. Few(Before(D, w.start), D, w.start)
  <2> SUFFICES ASSUME NEW t \in 0..FlowTime, t <= w.start, w.start - t < RateWindow
               PROVE  Before(D, w.start) - Before(D, t) < RateLimit
    BY DEF Few
  <2>1. Before(D, t) = Before(C, t)
    BY <1>1, <1>2, FlowAssumption
  <2> QED BY <1>4, <2>1 DEF Fits, Few
<1>6. w.count + 1 = D[at] - Before(D, w.start) /\ D[w.start] > Before(D, w.start)
      /\ w.count + 1 <= RateLimit /\ w.count + 1 \in Nat \ {0}
  BY <1>1, <1>2, <1>4, LimitsAssumption DEF Fits
<1>7. Fits(v, D, at)
  BY <1>2, <1>3, <1>5, <1>6 DEF Fits
<1> QED BY <1>7 DEF v, D

(* What is so of one dimension d of a table T. *)
Kept(T, d, C, at) ==
  /\ Counts(C, at) /\ TwiceAtMost(C)
  /\ IF d \in DOMAIN T THEN Fits(T[d], C, at) ELSE Few(C[at], C, at) /\ Quiet(C, at)

FlowInv ==
  /\ now \in 0..FlowTime
  /\ DOMAIN table \subseteq Dimensions /\ DOMAIN passed = Dimensions
  /\ \A d \in Dimensions : Kept(table, d, passed[d], now)

LEMMA NothingPassed ==
  ASSUME NEW C \in [0..FlowTime -> Nat], \A t \in 0..FlowTime : C[t] = 0
  PROVE  Counts(C, 0) /\ TwiceAtMost(C) /\ Few(C[0], C, 0) /\ Quiet(C, 0)
<1>1. \A t \in 0..FlowTime : Before(C, t) = 0
  BY FlowAssumption DEF Before
<1>2. 0 \in 0..FlowTime /\ RateLimit \in Nat /\ RateLimit > 0 /\ RateWindow \in Nat \ {0}
  BY FlowAssumption, LimitsAssumption
<1>3. TwiceAtMost(C)
  <2> SUFFICES ASSUME NEW t \in 0..FlowTime, t + RateWindow - 1 <= FlowTime
               PROVE  C[t + RateWindow - 1] - Before(C, t) < 2 * RateLimit
    BY DEF TwiceAtMost
  <2>1. t + RateWindow - 1 \in 0..FlowTime
    BY <1>2, FlowAssumption
  <2>2. C[t + RateWindow - 1] = 0 /\ Before(C, t) = 0
    BY <1>1, <2>1
  <2> QED BY <1>2, <2>2
<1>4. Counts(C, 0)
  BY <1>2 DEF Counts
<1>5. Few(C[0], C, 0) /\ Quiet(C, 0)
  BY <1>1, <1>2 DEF Few, Quiet
<1> QED BY <1>3, <1>4, <1>5

LEMMA InitFlowInv == Init => FlowInv
<1> SUFFICES ASSUME Init PROVE FlowInv
  OBVIOUS
<1>1. now = 0 /\ table = NoWindows /\ passed = [d \in Dimensions |-> [t \in 0..FlowTime |-> 0]]
  BY DEF Init, FlowInit
<1>2. DOMAIN table = {}
  BY <1>1 DEF NoWindows
<1>3. ASSUME NEW d \in Dimensions PROVE Kept(table, d, passed[d], now)
  <2>1. passed[d] \in [0..FlowTime -> Nat] /\ \A t \in 0..FlowTime : passed[d][t] = 0
    BY <1>1
  <2> QED BY <1>1, <1>2, <2>1, NothingPassed DEF Kept
<1> QED BY <1>1, <1>2, <1>3, FlowAssumption DEF FlowInv

LEMMA UnexpiredKept ==
  ASSUME NEW at \in 0..FlowTime, NEW T, NEW d, NEW C, Kept(T, d, C, at)
  PROVE  /\ Kept(Unexpired(T, at), d, C, at)
         /\ d \in DOMAIN Unexpired(T, at) => at - Unexpired(T, at)[d].start < RateWindow
<1> DEFINE U == Unexpired(T, at)
<1>1. /\ DOMAIN U = {x \in DOMAIN T : at - T[x].start < RateWindow}
      /\ \A x \in DOMAIN U : U[x] = T[x]
  BY DEF Unexpired, Restrict
<1> HIDE DEF U
<1>2. CASE d \in DOMAIN T /\ d \notin DOMAIN U
  <2>1. Fits(T[d], C, at) /\ at - T[d].start >= RateWindow
    BY <1>1, <1>2, LimitsAssumption, FlowAssumption DEF Kept, Fits
  <2>2. Few(C[at], C, at) /\ Quiet(C, at)
    <3>1. Few(C[at], C, at)
      BY <2>1, ExpiredFew DEF Kept
    <3>2. Quiet(C, at)
      BY <2>1, LimitsAssumption, FlowAssumption DEF Fits
    <3> QED BY <3>1, <3>2
  <2> QED BY <1>2, <2>2 DEF Kept, U
<1>3. CASE d \notin DOMAIN T \/ d \in DOMAIN U
  BY <1>1, <1>3 DEF Kept, U
<1> QED BY <1>2, <1>3

LEMMA ChargedKept ==
  ASSUME NEW at \in 0..FlowTime, NEW T, NEW d, NEW C, Kept(T, d, C, at),
         NEW asked, Allows(T, asked, at), d \in asked
  PROVE  Kept(Charged(T, asked, at), d, OneMore(C, at), at)
<1> DEFINE U == Unexpired(T, at)
           D == OneMore(C, at)
           w == IF d \in DOMAIN U THEN [U[d] EXCEPT !.count = @ + 1]
                                  ELSE [start |-> at, count |-> 1]
<1>1. d \in DOMAIN Charged(T, asked, at) /\ Charged(T, asked, at)[d] = w
  BY DEF Charged
<1>2. Kept(U, d, C, at) /\ (d \in DOMAIN U => at - U[d].start < RateWindow)
  BY UnexpiredKept
<1>3. d \in DOMAIN U => U[d].count < RateLimit
  BY DEF Allows, HasRoom
<1> HIDE DEF U
<1>4. Fits(w, D, at) /\ at - w.start < RateWindow
  <2>1. CASE d \in DOMAIN U
    <3>1. Fits(U[d], C, at) /\ Counts(C, at)
      BY <1>2, <2>1 DEF Kept
    <3>2. Fits([U[d] EXCEPT !.count = @ + 1], D, at)
      BY <1>2, <1>3, <2>1, <3>1, WindowCounts
    <3>3. w = [U[d] EXCEPT !.count = @ + 1] /\ w.start = U[d].start
      BY <2>1, <3>1 DEF Fits
    <3> QED BY <1>2, <2>1, <3>2, <3>3
  <2>2. CASE d \notin DOMAIN U
    <3>1. w = [start |-> at, count |-> 1] /\ w.start = at
      BY <2>2
    <3>2. Fits([start |-> at, count |-> 1], D, at)
      BY <1>2, <2>2, WindowOpens DEF Kept
    <3> HIDE DEF w
    <3>3. at - w.start < RateWindow
      BY <3>1, LimitsAssumption, FlowAssumption
    <3> QED BY <3>1, <3>2, <3>3
  <2> QED BY <2>1, <2>2
<1> HIDE DEF w
<1>5. Counts(C, at) /\ TwiceAtMost(C)
  BY DEF Kept
<1>6. Counts(D, at) /\ TwiceAtMost(D)
  BY <1>4, <1>5, MoreCounts, StillTwice
<1> QED BY <1>1, <1>4, <1>6 DEF Kept

LEMMA FlowStepInv ==
  ASSUME FlowInv, FlowNext
  PROVE  FlowInv'
<1>1. CASE Elapse
  <2>1. /\ now' = now + 1 /\ now + 1 <= FlowTime /\ UNCHANGED <<table, passed>>
        /\ now \in 0..FlowTime
    BY <1>1, FlowAssumption DEF Elapse, Pass, flowVars, FlowInv
  <2>2. ASSUME NEW d \in Dimensions PROVE Kept(table, d, passed[d], now + 1)
    <3>1. Kept(table, d, passed[d], now)
      BY DEF FlowInv
    <3> QED BY <2>1, <3>1, Later DEF Kept
  <2>3. now' \in 0..FlowTime
    BY <2>1, FlowAssumption
  <2>4. \A d \in Dimensions : Kept(table', d, passed'[d], now')
    BY <2>1, <2>2
  <2> QED BY <2>1, <2>3, <2>4 DEF FlowInv, Dimensions
<1>2. ASSUME NEW tenant \in Tenants, NEW ip \in Addresses, Request(tenant, ip)
      PROVE  FlowInv'
  <2> DEFINE asked == {<<"tenant", tenant>>, <<"ip", ip>>}
  <2>1. asked \subseteq Dimensions
    BY DEF Dimensions
  <2>2. /\ table' = Asked(table, asked, now) /\ UNCHANGED now
        /\ passed' = IF Allows(table, asked, now)
                     THEN [d \in Dimensions |-> [t \in 0..FlowTime |->
                             passed[d][t] + (IF d \in asked /\ t >= now THEN 1 ELSE 0)]]
                     ELSE passed
    BY <1>2 DEF Request
  <2> HIDE DEF asked
  <2>3. \A d \in Dimensions : Kept(table, d, passed[d], now)
    BY DEF FlowInv
  <2>4. now \in 0..FlowTime /\ DOMAIN table \subseteq Dimensions /\ DOMAIN passed = Dimensions
    BY DEF FlowInv
  <2>5. DOMAIN Unexpired(table, now) \subseteq DOMAIN table
    BY DEF Unexpired, Restrict
  <2>6. CASE ~Allows(table, asked, now)
    <3>1. table' = Unexpired(table, now) /\ passed' = passed
      BY <2>2, <2>6 DEF Asked
    <3>2. \A d \in Dimensions : Kept(table', d, passed'[d], now')
      BY <2>2, <2>3, <2>4, <3>1, UnexpiredKept
    <3> QED BY <2>2, <2>4, <2>5, <3>1, <3>2 DEF FlowInv, Dimensions
  <2>7. CASE Allows(table, asked, now)
    <3>1. table' = Charged(table, asked, now) /\ DOMAIN passed' = Dimensions
      BY <2>2, <2>7 DEF Asked
    <3>2. DOMAIN table' = DOMAIN Unexpired(table, now) \cup asked
      BY <3>1 DEF Charged
    <3>3. ASSUME NEW d \in Dimensions PROVE Kept(table', d, passed'[d], now')
      <4>1. CASE d \in asked
        <5>1. passed'[d] = OneMore(passed[d], now)
          BY <2>2, <2>7, <4>1 DEF OneMore
        <5>2. Kept(Charged(table, asked, now), d, OneMore(passed[d], now), now)
          BY <2>3, <2>4, <2>7, <4>1, ChargedKept
        <5> QED BY <2>2, <3>1, <5>1, <5>2
      <4>2. CASE d \notin asked
        <5>1. passed[d] \in [0..FlowTime -> Nat]
          BY <2>3 DEF Kept, Counts
        <5>2. passed'[d] = passed[d]
          <6>1. passed'[d] = [t \in 0..FlowTime |-> passed[d][t] + 0]
            BY <2>2, <2>7, <4>2
          <6>2. \A t \in 0..FlowTime : passed[d][t] + 0 = passed[d][t]
            <7> DEFINE C == passed[d]
            <7>1. \A t \in 0..FlowTime : C[t] \in Nat
              BY <5>1
            <7> HIDE DEF C
            <7>2. \A t \in 0..FlowTime : C[t] + 0 = C[t]
              BY <7>1
            <7> QED BY <7>2 DEF C
          <6>3. passed'[d] = [t \in 0..FlowTime |-> passed[d][t]]
            BY <6>1, <6>2
          <6> QED BY <5>1, <6>3
        <5>3. Kept(Unexpired(table, now), d, passed[d], now)
          BY <2>3, <2>4, UnexpiredKept
        <5>4. /\ d \in DOMAIN table' <=> d \in DOMAIN Unexpired(table, now)
              /\ d \in DOMAIN table' => table'[d] = Unexpired(table, now)[d]
          BY <3>1, <3>2, <4>2 DEF Charged
        <5> QED BY <2>2, <5>2, <5>3, <5>4 DEF Kept
      <4> QED BY <4>1, <4>2
    <3> QED BY <2>1, <2>2, <2>4, <2>5, <3>1, <3>2, <3>3 DEF FlowInv, Dimensions
  <2> QED BY <2>6, <2>7
<1> QED BY <1>1, <1>2 DEF FlowNext

LEMMA FlowHolds == FlowInv => RatesHold
<1> SUFFICES ASSUME FlowInv PROVE RatesHold
  OBVIOUS
<1>1. \A d, from, to : PassedIn(d, from, to) = passed[d][to] - Before(passed[d], from)
  BY DEF PassedIn, Before
<1>2. \A d \in Dimensions : Kept(table, d, passed[d], now)
  BY DEF FlowInv
<1>3. FlowBounded
  BY <1>1, <1>2 DEF FlowBounded, Kept, TwiceAtMost
<1>4. OnlyPassedCounted
  BY <1>1, <1>2 DEF OnlyPassedCounted, FlowInv, Kept, Fits
<1> QED BY <1>3, <1>4 DEF RatesHold

LEMMA QuietHolds == FlowInit => RatesHold
<1> SUFFICES ASSUME FlowInit PROVE RatesHold
  OBVIOUS
<1>1. /\ DOMAIN table = {}
      /\ \A d \in Dimensions : /\ passed[d] \in [0..FlowTime -> Nat]
                               /\ \A t \in 0..FlowTime : passed[d][t] = 0
  BY DEF FlowInit, NoWindows
<1>2. \A d, from, to : PassedIn(d, from, to) = passed[d][to] - Before(passed[d], from)
  BY DEF PassedIn, Before
<1> QED BY <1>1, <1>2, NothingPassed DEF RatesHold, FlowBounded, OnlyPassedCounted, TwiceAtMost

(* RatesHold.  However requests arrive, any stretch as long as a window lets *)
(* less than twice the limit through for a tenant or an address, and a      *)
(* window counts exactly what it let through since it opened: nothing is    *)
(* charged for a refusal (DimensionRateLimiter.allow).                      *)
THEOREM RatesAlwaysHold == Spec => []RatesHold
<1> DEFINE I == (part = "rates" => FlowInv) /\ (part # "rates" => FlowInit)
<1>1. Init => I
  BY InitFlowInv DEF Init
<1>2. I /\ [Next]_vars => I'
  <2> SUFFICES ASSUME I, [Next]_vars PROVE I'
    OBVIOUS
  <2>1. CASE part = "rates" /\ UNCHANGED <<now, flowVars, part>>
    BY <2>1 DEF flowVars, FlowInv, Dimensions
  <2>2. CASE part = "rates" /\ FlowNext /\ UNCHANGED part
    BY <2>2, FlowStepInv
  <2>3. CASE part # "rates" /\ UNCHANGED <<flowVars, part>>
    BY <2>3 DEF flowVars, FlowInit, Dimensions
  <2> QED BY <2>1, <2>2, <2>3 DEF Next, vars
<1>3. I => RatesHold
  BY FlowHolds, QuietHolds
<1> QED BY <1>1, <1>2, <1>3, PTL DEF Spec

------------------------------------------------------------------------------
(* The relay.  The trusted table holds tokens of calls that wait, each with *)
(* its life.  A request was sent by a call that had begun.  The token of a *)
(* call that is over is on the denylist of the process that revoked it     *)
(* until after its own end.                                                *)

RelayTypes ==
  /\ now \in Nat /\ restarts \in Nat
  /\ mode \in {"trusted", "signed", "local"}
  /\ DOMAIN call = Calls /\ DOMAIN req = Requests
  /\ DOMAIN rates = Fronts /\ DOMAIN slots = Fronts
  /\ DOMAIN tokens \subseteq Calls /\ DOMAIN denied \subseteq Calls
  /\ \A c \in DOMAIN denied : denied[c] \in Nat

IsCall(x) == x = [pc |-> x.pc, door |-> x.door, principal |-> x.principal, ip |-> x.ip,
                  granted |-> x.granted, iat |-> x.iat, life |-> x.life]
Times(x) ==
  x.pc # "none" =>
    /\ IsCall(x)
    /\ x.iat \in Nat /\ x.life \in Nat /\ x.iat <= now /\ x.life <= restarts
    /\ x.door \in Doors
    /\ x.door = "render" => mode = "local"
Held(c) ==
  c \in DOMAIN tokens => call[c].pc = "calling" /\ Relayed(c) /\ tokens[c] = Expiry(c)
Denied(c) ==
  call[c].pc = "over" /\ mode = "signed" /\ Relayed(c) /\ call[c].life = restarts =>
    now > Expiry(c) \/ (c \in DOMAIN denied /\ denied[c] > Expiry(c))
Sent(q) == req[q].pc = "sent" => /\ req[q].of \in Calls
                                 /\ call[req[q].of].pc \in {"calling", "over"}
                                 /\ call[req[q].of].pc = "over" => Denied(req[q].of)

RelayInv ==
  /\ RelayTypes
  /\ \A c \in Calls : Times(call[c]) /\ Held(c)
  /\ \A q \in Requests : Sent(q)

AdmitStep ==
  \A q \in Requests :
    Admitted(q) /\ Relayed(req[q].of) =>
      LET c == req[q].of
      IN  /\ \/ call[c].pc = "calling"
             \/ mode = "local" \/ (mode = "signed" /\ call[c].life < restarts)
          /\ now <= Expiry(c)
          /\ Hosted => call[c].granted \subseteq req'[q].may

LEMMA InitRelayInv == Init => RelayInv
<1> SUFFICES ASSUME Init PROVE RelayInv
  OBVIOUS
<1>1. (\A c \in Calls : call[c].pc = "none") /\ \A q \in Requests : req[q].pc = "none"
  BY DEF Init, GateInit, NoCall, NoReq
<1>2. DOMAIN tokens = {} /\ DOMAIN denied = {}
  BY DEF Init, GateInit, Empty
<1>3. RelayTypes
  BY <1>2 DEF Init, GateInit, RelayTypes
<1> QED BY <1>1, <1>2, <1>3 DEF RelayInv, Times, Held, Sent

(* The steps of other calls and of the clock keep what was said of a call  *)
(* that is over. *)
LEMMA StaysDenied ==
  ASSUME RelayInv, NEW d \in Calls, Denied(d), call'[d] = call[d], mode' = mode,
         now' \in Nat, now <= now', restarts' \in Nat, restarts <= restarts', Times(call[d]),
         \/ denied' = denied
         \/ restarts < restarts'
         \/ \E c \in Calls : denied' = Entered(denied, c, now + DenyTime) /\ d # c
  PROVE  Denied(d)'
<1> USE RelayAssumption
<1>1. CASE denied' = denied
  BY <1>1 DEF Denied, Relayed, Expiry, RelayInv, RelayTypes, Times
<1>2. CASE restarts < restarts'
  BY <1>2 DEF Denied, Times, RelayInv, RelayTypes
<1>3. ASSUME NEW c \in Calls, denied' = Entered(denied, c, now + DenyTime), d # c
      PROVE Denied(d)'
  <2>1. ASSUME d \in DOMAIN denied, denied[d] > now
        PROVE d \in DOMAIN denied' /\ denied'[d] = denied[d]
    BY <1>3, <2>1 DEF Entered, Current, Restrict
  <2>2. d \in DOMAIN denied => denied[d] \in Nat
    BY DEF RelayInv, RelayTypes
  <2> QED BY <2>1, <2>2 DEF Denied, Relayed, Expiry, Times, RelayInv, RelayTypes
<1> QED BY <1>1, <1>2, <1>3

(* A request changes its place and no call does. *)
LEMMA RequestMoves ==
  ASSUME RelayInv, NEW q \in Requests, NEW x, req' = [req EXCEPT ![q] = x], x.pc # "sent",
         UNCHANGED <<now, mode, call, tokens, denied, restarts>>,
         DOMAIN rates' = Fronts, DOMAIN slots' = Fronts
  PROVE  RelayInv'
<1>1. RelayTypes'
  BY DEF RelayInv, RelayTypes
<1>2. \A c \in Calls : Times(call[c])' /\ Held(c)'
  BY DEF RelayInv, Times, Held, Expiry, Relayed
<1>3. ASSUME NEW p \in Requests PROVE Sent(p)'
  <2>1. p # q => req'[p] = req[p]
    BY DEF RelayInv, RelayTypes
  <2>2. req'[q] = x
    BY DEF RelayInv, RelayTypes
  <2>3. Sent(p)
    BY DEF RelayInv
  <2> QED BY <2>1, <2>2, <2>3 DEF Sent, Denied, Relayed, Expiry
<1> QED BY <1>1, <1>2, <1>3 DEF RelayInv

(* One call moves; no request was sent for it, or it is over now and its    *)
(* token is denied.                                                         *)
LEMMA CallMoves ==
  ASSUME RelayInv, NEW c \in Calls, DOMAIN call' = Calls,
         \A d \in Calls \ {c} : call'[d] = call[d],
         UNCHANGED <<now, mode, req, restarts>>,
         DOMAIN rates' = Fronts, DOMAIN slots' = Fronts,
         Times(call[c])', Held(c)',
         DOMAIN tokens' \subseteq Calls,
         \A d \in DOMAIN tokens' \ {c} : d \in DOMAIN tokens /\ tokens'[d] = tokens[d],
         \/ denied' = denied
         \/ denied' = Entered(denied, c, now + DenyTime),
         \/ call[c].pc \in {"none", "reading"}
         \/ call[c].pc = "calling" /\ call'[c].pc = "over" /\ Denied(c)'
  PROVE  RelayInv'
<1> USE RelayAssumption
<1>1. DOMAIN denied' \subseteq Calls /\ \A d \in DOMAIN denied' : denied'[d] \in Nat
  BY DEF RelayInv, RelayTypes, Entered, Current, Restrict
<1>2. RelayTypes'
  BY <1>1 DEF RelayInv, RelayTypes
<1>3. ASSUME NEW d \in Calls \ {c} PROVE Times(call[d])' /\ Held(d)'
  <2>1. Times(call[d]) /\ Held(d) /\ call'[d] = call[d]
    BY DEF RelayInv
  <2> QED BY <2>1 DEF Times, Held, Expiry, Relayed
<1>4. ASSUME NEW p \in Requests, req[p].pc = "sent" PROVE Sent(p)'
  <2>1. Sent(p) /\ req[p].of \in Calls /\ call[req[p].of].pc \in {"calling", "over"}
    BY <1>4 DEF RelayInv, Sent
  <2>2. CASE req[p].of = c
    BY <1>4, <2>1, <2>2 DEF Sent
  <2>3. CASE req[p].of # c
    <3>1. PICK d \in Calls \ {c} : d = req[p].of
      BY <2>1, <2>3
    <3>2. call'[d] = call[d]
      OBVIOUS
    <3>3. now \in Nat /\ restarts \in Nat /\ Times(call[d])
      BY DEF RelayInv, RelayTypes
    <3>4. Denied(d) => Denied(d)'
      BY <3>2, <3>3, StaysDenied
    <3> QED BY <1>4, <2>1, <3>1, <3>2, <3>4 DEF Sent
  <2> QED BY <2>2, <2>3
<1>5. \A p \in Requests : Sent(p)'
  BY <1>4 DEF Sent
<1> QED BY <1>2, <1>3, <1>5 DEF RelayInv

LEMMA GateStepInv ==
  ASSUME RelayInv, GateNext
  PROVE  RelayInv'
<1> USE RelayAssumption
<1>1. ASSUME NEW c \in Calls, NEW door \in Doors, NEW actor, NEW ip, NEW granted,
             Enter(c, door, actor, ip, granted), door = "render" => mode = "local"
      PROVE  RelayInv'
  <2>1. \/ call' = call /\ slots' = slots
        \/ /\ call' = [call EXCEPT ![c] =
                [pc |-> "reading", door |-> door, principal |-> actor, ip |-> ip,
                 granted |-> granted, iat |-> 0, life |-> 0]]
           /\ \E f \in Fronts : \E x : slots' = [slots EXCEPT ![f] = x]
    BY <1>1 DEF Enter, Fronts, FrontOf
  <2>2. DOMAIN rates' = Fronts /\ DOMAIN slots' = Fronts /\ DOMAIN call' = Calls
    BY <1>1, <2>1 DEF Enter, RelayInv, RelayTypes
  <2>3. \A d \in Calls \ {c} : call'[d] = call[d]
    BY <2>1 DEF RelayInv, RelayTypes
  <2>4. Times(call[c])'
    BY <1>1, <2>1 DEF Enter, Times, IsCall, RelayInv, RelayTypes
  <2>5. c \notin DOMAIN tokens
    BY <1>1 DEF Enter, RelayInv, Held
  <2> QED BY <1>1, <2>2, <2>3, <2>4, <2>5, CallMoves DEF Enter, Held, RelayInv, RelayTypes
<1>2. ASSUME NEW c \in Calls, BeginCall(c), call[c].pc = "reading" PROVE RelayInv'
  <2>1. c \notin DOMAIN tokens
    BY <1>2 DEF RelayInv, Held
  <2>2. Times(call[c]) /\ IsCall(call[c])
    BY <1>2 DEF RelayInv, Times
  <2>3. /\ call'[c].pc = "calling" /\ call'[c].iat = now /\ call'[c].life = restarts
        /\ call'[c].principal = call[c].principal /\ call'[c].door = call[c].door
        /\ IsCall(call'[c])
    BY <1>2, <2>2 DEF BeginCall, RelayInv, RelayTypes, IsCall
  <2>4. (\A d \in Calls \ {c} : call'[d] = call[d]) /\ DOMAIN call' = Calls
    BY <1>2 DEF BeginCall, RelayInv, RelayTypes
  <2>5. Times(call[c])'
    BY <1>2, <2>2, <2>3 DEF BeginCall, Times, RelayInv, RelayTypes
  <2>6. Expiry(c)' = now + Ttl /\ (Relayed(c))' = Relayed(c)
    BY <1>2, <2>3 DEF BeginCall, Expiry, Relayed
  <2>7. /\ DOMAIN tokens' \subseteq Calls
        /\ \A d \in DOMAIN tokens' \ {c} : d \in DOMAIN tokens /\ tokens'[d] = tokens[d]
        /\ c \in DOMAIN tokens' => Relayed(c) /\ tokens'[c] = now + Ttl
    BY <1>2, <2>1 DEF BeginCall, Issue, Entered, Current, Restrict, RelayInv, RelayTypes
  <2>8. Held(c)'
    BY <2>3, <2>6, <2>7 DEF Held
  <2> QED BY <1>2, <2>4, <2>5, <2>7, <2>8, CallMoves DEF BeginCall, RelayInv, RelayTypes
<1>3. ASSUME NEW c \in Calls, End(c) \/ Reject(c) PROVE RelayInv'
  <2>1. Times(call[c]) /\ IsCall(call[c]) /\ call[c].pc \in {"reading", "calling"}
    BY <1>3 DEF RelayInv, Times, End, Reject
  <2>2. /\ call'[c].pc = "over" /\ call'[c].iat = call[c].iat /\ call'[c].life = call[c].life
        /\ call'[c].principal = call[c].principal /\ call'[c].door = call[c].door
        /\ IsCall(call'[c])
    BY <1>3, <2>1 DEF End, Reject, RelayInv, RelayTypes, IsCall
  <2>3. (\A d \in Calls \ {c} : call'[d] = call[d]) /\ DOMAIN call' = Calls
    BY <1>3 DEF End, Reject, RelayInv, RelayTypes
  <2>4. Times(call[c])'
    BY <1>3, <2>1, <2>2 DEF End, Reject, Times
  <2>5. Expiry(c)' = Expiry(c) /\ (Relayed(c))' = Relayed(c)
    BY <2>2 DEF Expiry, Relayed
  <2>6. Held(c) /\ now \in Nat
    BY DEF RelayInv, RelayTypes
  <2>7. /\ DOMAIN tokens' \subseteq Calls /\ c \notin DOMAIN tokens'
        /\ \A d \in DOMAIN tokens' \ {c} : d \in DOMAIN tokens /\ tokens'[d] = tokens[d]
    BY <1>3, <2>6 DEF End, Reject, Revoke, Restrict, RelayInv, RelayTypes, Held
  <2>8. DOMAIN slots' = Fronts /\ DOMAIN rates' = Fronts
    BY <1>3 DEF End, Reject, GiveBack, RelayInv, RelayTypes
  <2>9. Held(c)'
    BY <2>7 DEF Held
  <2>10. CASE Reject(c)
    BY <2>10, <2>3, <2>4, <2>7, <2>8, <2>9, CallMoves DEF Reject
  <2>11. CASE End(c)
    <3>1. Denied(c)'
      <4> SUFFICES ASSUME mode' = "signed", Relayed(c)' PROVE c \in DOMAIN denied' /\ denied'[c] > Expiry(c)'
        BY DEF Denied
      <4>1. denied' = Entered(denied, c, now + DenyTime)
        BY <2>11, <2>5 DEF End, Revoke
      <4>2. c \in DOMAIN denied' /\ denied'[c] = now + DenyTime
        BY <4>1 DEF Entered
      <4>3. call[c].iat \in Nat /\ call[c].iat <= now
        BY <2>1 DEF Times
      <4> QED BY <4>2, <4>3, <2>5, <2>6 DEF Expiry
    <3>2. denied' = denied \/ denied' = Entered(denied, c, now + DenyTime)
      BY <2>11 DEF End, Revoke
    <3> QED BY <2>11, <2>2, <2>3, <2>4, <2>7, <2>8, <2>9, <3>1, <3>2, CallMoves DEF End
  <2> QED BY <1>3, <2>10, <2>11
<1>4. ASSUME NEW c \in Calls, NEW q \in Requests, Send(c, q) PROVE RelayInv'
  <2>1. RelayTypes'
    BY <1>4 DEF Send, RelayInv, RelayTypes
  <2>2. \A d \in Calls : Times(call[d])' /\ Held(d)'
    BY <1>4 DEF Send, RelayInv, Times, IsCall, Held, Expiry, Relayed
  <2>3. ASSUME NEW p \in Requests PROVE Sent(p)'
    <3>1. CASE p = q
      BY <1>4, <3>1 DEF Send, RelayInv, RelayTypes, Sent
    <3>2. CASE p # q
      <4>1. Sent(p) /\ req'[p] = req[p]
        BY <1>4, <3>2 DEF Send, RelayInv, RelayTypes
      <4> QED BY <1>4, <4>1 DEF Send, Sent, Denied, Relayed, Expiry
    <3> QED BY <3>1, <3>2
  <2> QED BY <2>1, <2>2, <2>3 DEF RelayInv
<1>5. ASSUME NEW q \in Requests, Receive(q) \/ DropBody(q) \/ Finish(q) PROVE RelayInv'
  <2>1. PICK x : req' = [req EXCEPT ![q] = x] /\ x.pc # "sent"
    <3>2. CASE Receive(q)
      <4>1. \/ req' = [req EXCEPT ![q] = [pc |-> "over"]]
            \/ \E k, m : req' = [req EXCEPT ![q] =
                 [pc |-> "running", of |-> req[q].of, key |-> k, may |-> m]]
        BY <3>2, Zenon DEF Receive
      <4>2. CASE req' = [req EXCEPT ![q] = [pc |-> "over"]]
        <5>1. [pc |-> "over"].pc # "sent"
          OBVIOUS
        <5> QED BY <4>2, <5>1
      <4>3. ASSUME NEW k, NEW m, req' = [req EXCEPT ![q] =
                     [pc |-> "running", of |-> req[q].of, key |-> k, may |-> m]]
            PROVE \E x : req' = [req EXCEPT ![q] = x] /\ x.pc # "sent"
        <5>1. [pc |-> "running", of |-> req[q].of, key |-> k, may |-> m].pc # "sent"
          OBVIOUS
        <5> QED BY <4>3, <5>1
      <4> QED BY <4>1, <4>2, <4>3
    <3>3. CASE DropBody(q) \/ Finish(q)
      BY <3>3 DEF DropBody, Finish
    <3> QED BY <1>5, <3>2, <3>3
  <2>2. DOMAIN rates' = Fronts /\ DOMAIN slots' = Fronts
    BY <1>5 DEF Receive, DropBody, Finish, RelayInv, RelayTypes
  <2> QED BY <1>5, <2>1, <2>2, RequestMoves DEF Receive, DropBody, Finish
<1>6. ASSUME NEW actor \in Actors, \/ \E active \in BOOLEAN : SetStatus(actor, active)
                                   \/ \E granted : SetScopes(actor, granted)
      PROVE  RelayInv'
  BY <1>6 DEF SetStatus, SetScopes, RelayInv, RelayTypes, Times, IsCall, Held, Sent, Denied,
              Relayed, Expiry
<1>7. CASE Wait
  <2>1. RelayTypes' /\ \A c \in Calls : Times(call[c])' /\ Held(c)'
    BY <1>7 DEF Wait, Pass, gateVars, RelayInv, RelayTypes, Times, IsCall, Held, Expiry, Relayed
  <2>2. \A c \in Calls : Denied(c) => Denied(c)'
    BY <1>7, StaysDenied DEF Wait, Pass, gateVars, RelayInv, RelayTypes
  <2> QED BY <1>7, <2>1, <2>2 DEF Wait, gateVars, RelayInv, Sent
<1>8. CASE RestartServer
  <2>1. RelayTypes'
    BY <1>8 DEF RestartServer, Empty, RelayInv, RelayTypes
  <2>2. ASSUME NEW c \in Calls PROVE Times(call[c])' /\ Held(c)'
    BY <1>8 DEF RestartServer, Empty, RelayInv, RelayTypes, Times, IsCall, Held
  <2>3. ASSUME NEW q \in Requests PROVE Sent(q)'
    <3>1. Sent(q)
      BY DEF RelayInv
    <3> QED BY <1>8, <3>1 DEF RestartServer, RelayInv, RelayTypes, Sent, Times, Denied
  <2> QED BY <2>1, <2>2, <2>3 DEF RelayInv
<1>9. ASSUME NEW c \in Calls, NEW door \in Doors, NEW actor, NEW ip,
             EnterInspection(c, door, actor, ip)
      PROVE  RelayInv'
  BY <1>1, <1>9 DEF EnterInspection
<1>10. ASSUME NEW c \in Calls, NEW ip \in Ips, EnterRenderer(c, ip) PROVE RelayInv'
  <2>1. mode = "local" /\ "render" \in Doors
    BY <1>10 DEF EnterRenderer, Hosted, Doors
  <2> QED BY <1>1, <1>10, <2>1 DEF EnterRenderer
<1>11. ASSUME NEW c \in Calls, CallTool(c) \/ Render(c) PROVE RelayInv'
  BY <1>2, <1>11 DEF CallTool, Render
<1> QED BY <1>3, <1>4, <1>5, <1>6, <1>7, <1>8, <1>9, <1>10, <1>11 DEF GateNext

LEMMA AdmittedForCall ==
  ASSUME RelayInv, GateNext
  PROVE  AdmitStep
<1> SUFFICES ASSUME NEW q \in Requests, Admitted(q), Relayed(req[q].of)
             PROVE  /\ \/ call[req[q].of].pc = "calling"
                       \/ mode = "local" \/ (mode = "signed" /\ call[req[q].of].life < restarts)
                    /\ now <= Expiry(req[q].of)
                    /\ Hosted => call[req[q].of].granted \subseteq req'[q].may
  BY DEF AdmitStep
<1> DEFINE c == req[q].of
<1>1. Receive(q)
  <2>1. \A p \in Requests : DropBody(p) \/ Finish(p) => ~Admitted(q)
    BY DEF DropBody, Finish, Admitted, RelayInv, RelayTypes
  <2>2. \A p \in Requests \ {q} : Receive(p) => ~Admitted(q)
    BY DEF Receive, Admitted
  <2>3. \A d \in Calls, p \in Requests : Send(d, p) => ~Admitted(q)
    BY DEF Send, Admitted, RelayInv, RelayTypes
  <2>4. req' = req => ~Admitted(q)
    BY DEF Admitted
  <2>5. RestartServer => ~Admitted(q)
    BY DEF RestartServer, Admitted
  <2>6. \/ \E p \in Requests : Receive(p) \/ DropBody(p) \/ Finish(p)
        \/ \E d \in Calls, p \in Requests : Send(d, p)
        \/ RestartServer
        \/ req' = req
    <3>1. ASSUME NEW d \in Calls, NEW door, NEW actor, NEW ip, EnterInspection(d, door, actor, ip)
          PROVE req' = req
      BY <3>1 DEF EnterInspection, Enter
    <3>2. ASSUME NEW d \in Calls, NEW ip, EnterRenderer(d, ip) PROVE req' = req
      BY <3>2 DEF EnterRenderer, Enter
    <3>3. ASSUME NEW d \in Calls, CallTool(d) \/ Render(d) \/ Reject(d) \/ End(d)
          PROVE req' = req
      BY <3>3 DEF CallTool, Render, BeginCall, Reject, End
    <3>4. ASSUME NEW actor, NEW x, SetStatus(actor, x) \/ SetScopes(actor, x) PROVE req' = req
      BY <3>4 DEF SetStatus, SetScopes
    <3>5. Wait => req' = req
      BY DEF Wait, gateVars
    <3> QED BY <3>1, <3>2, <3>3, <3>4, <3>5 DEF GateNext
  <2> QED BY <2>1, <2>2, <2>3, <2>4, <2>5, <2>6
<1>2. c \in Calls /\ Times(call[c]) /\ Held(c) /\ Sent(q) /\ req[q].pc = "sent"
  BY DEF Admitted, RelayInv, Sent
<1>3. Authentic(c)
  BY <1>1 DEF Receive, Admitted, RelayInv, RelayTypes
<1>4. Resolves(c)
  BY <1>3 DEF Authentic
<1>5. Hosted => call[c].granted \subseteq req'[q].may
  <2>1. Hosted => call[c].granted \subseteq scopes[call[c].principal]
    BY <1>3 DEF Authentic
  <2>2. Hosted => req'[q].may = scopes[call[c].principal]
    BY <1>1 DEF Receive, Admitted, RelayInv, RelayTypes
  <2> QED BY <2>1, <2>2
<1>6. now \in Nat /\ call[c].iat \in Nat /\ call[c].life \in Nat /\ call[c].life <= restarts
      /\ call[c].pc \in {"calling", "over"} /\ mode \in {"trusted", "signed", "local"}
  BY <1>2 DEF RelayInv, RelayTypes, Times, Sent
<1>7. CASE mode = "trusted"
  <2>1. c \in DOMAIN tokens /\ tokens[c] > now
    BY <1>4, <1>7 DEF Resolves, Current, Restrict
  <2> QED BY <1>2, <1>5, <1>6, <2>1, RelayAssumption DEF Held, Expiry
<1>8. CASE mode # "trusted"
  <2>1. now <= Expiry(c) /\ ~(c \in DOMAIN denied /\ denied[c] > now)
    BY <1>4, <1>8 DEF Resolves, Current, Restrict
  <2>2. ASSUME mode = "signed", call[c].pc = "over", call[c].life = restarts PROVE FALSE
    <3>1. now > Expiry(c) \/ (c \in DOMAIN denied /\ denied[c] > Expiry(c))
      BY <1>2, <2>2 DEF Sent, Denied
    <3>2. c \in DOMAIN denied => denied[c] \in Nat
      BY DEF RelayInv, RelayTypes
    <3> QED BY <1>6, <2>1, <3>1, <3>2, RelayAssumption DEF Expiry
  <2> QED BY <1>5, <1>6, <1>8, <2>1, <2>2 DEF RelayInv, RelayTypes
<1> QED BY <1>7, <1>8

LEMMA NextRelayInv == (part = "requests" => RelayInv) /\ [Next]_vars
                        => (part = "requests" => RelayInv)'
<1> SUFFICES ASSUME part = "requests" => RelayInv, [Next]_vars, part' = "requests"
             PROVE  RelayInv'
  OBVIOUS
<1>1. CASE UNCHANGED vars
  BY <1>1 DEF vars, gateVars, RelayInv, RelayTypes, Times, IsCall, Held, Sent, Denied, Relayed,
              Expiry
<1>2. CASE Next
  BY <1>2, GateStepInv DEF Next
<1> QED BY <1>1, <1>2

(* RelayedForItsCall.  Late and repeated requests of a call that is over    *)
(* are refused: the relay's table has forgotten the token or its denylist  *)
(* remembers it longer than the token lives, unless the server that        *)
(* revoked it is gone or is not the one that is asked                      *)
(* (TrustedPrincipalRelay, SignedPrincipalRelay, _authenticate_context).   *)
THEOREM RelaysForItsCall == Spec => RelayedForItsCall
<1>1. Init => (part = "requests" => RelayInv)
  BY InitRelayInv
<1>2. (part = "requests" => RelayInv) /\ [Next]_vars => [AdmitStep]_gateVars
  <2> SUFFICES ASSUME part = "requests" => RelayInv, [Next]_vars
               PROVE  AdmitStep \/ UNCHANGED gateVars
    OBVIOUS
  <2>1. CASE UNCHANGED vars
    BY <2>1 DEF vars
  <2>2. CASE Next
    BY <2>2, AdmittedForCall DEF Next
  <2> QED BY <2>1, <2>2
<1> QED BY <1>1, <1>2, NextRelayInv, PTL DEF Spec, RelayedForItsCall, AdmitStep

------------------------------------------------------------------------------
(* The limiter's slots.  k maps what a front is working on to the key it    *)
(* counts under; the table counts k's values.                               *)

CountOf(k, key) == Cardinality({w \in DOMAIN k : k[w] = key})

Matches(s, k, keys) ==
  /\ IsFiniteSet(DOMAIN k)
  /\ \A w \in DOMAIN k : k[w] \in keys
  /\ s = [active |-> s.active, total |-> s.total]
  /\ s.active = [key \in {k[w] : w \in DOMAIN k} |-> CountOf(k, key)]
  /\ s.total = Cardinality(DOMAIN k)
  /\ s.total <= SlotLimit

LEMMA CountType ==
  ASSUME NEW k, IsFiniteSet(DOMAIN k), NEW key
  PROVE  /\ IsFiniteSet({w \in DOMAIN k : k[w] = key})
         /\ CountOf(k, key) \in Nat
         /\ CountOf(k, key) = 0 <=> \A w \in DOMAIN k : k[w] # key
<1> DEFINE W == {w \in DOMAIN k : k[w] = key}
<1>1. IsFiniteSet(W)
  BY FS_Subset
<1>2. Cardinality(W) \in Nat
  BY <1>1, FS_CardinalityType
<1>3. Cardinality(W) = 0 <=> W = {}
  BY <1>1, FS_EmptySet
<1> QED BY <1>1, <1>2, <1>3 DEF CountOf

LEMMA RunningCounts ==
  ASSUME NEW s, NEW k, NEW keys, Matches(s, k, keys), NEW key
  PROVE  Running(s, key) = CountOf(k, key) /\ Running(s, key) \in Nat
<1>1. CountOf(k, key) \in Nat /\ (CountOf(k, key) = 0 <=> \A w \in DOMAIN k : k[w] # key)
  BY CountType DEF Matches
<1>2. DOMAIN s.active = {k[w] : w \in DOMAIN k}
      /\ (key \in DOMAIN s.active => s.active[key] = CountOf(k, key))
  BY DEF Matches
<1> QED BY <1>1, <1>2 DEF Running

(* More work, less work. *)
LEMMA CountMore ==
  ASSUME NEW k, IsFiniteSet(DOMAIN k), NEW n, NEW w, w \notin DOMAIN k,
         DOMAIN n = DOMAIN k \cup {w}, \A v \in DOMAIN k : n[v] = k[v], NEW key
  PROVE  CountOf(n, key) = CountOf(k, key) + (IF n[w] = key THEN 1 ELSE 0)
<1> DEFINE W == {v \in DOMAIN k : k[v] = key}
           V == {v \in DOMAIN n : n[v] = key}
<1>1. IsFiniteSet(W) /\ Cardinality(W) \in Nat
  BY CountType DEF CountOf
<1>2. V = IF n[w] = key THEN W \cup {w} ELSE W
  OBVIOUS
<1>3. Cardinality(W \cup {w}) = Cardinality(W) + 1
  BY <1>1, FS_AddElement
<1> HIDE DEF W, V
<1>4. Cardinality(V) = Cardinality(W) + (IF n[w] = key THEN 1 ELSE 0)
  BY <1>1, <1>2, <1>3
<1> QED BY <1>4 DEF CountOf, W, V

LEMMA CountLess ==
  ASSUME NEW k, IsFiniteSet(DOMAIN k), NEW n, NEW w \in DOMAIN k,
         DOMAIN n = DOMAIN k \ {w}, \A v \in DOMAIN n : n[v] = k[v], NEW key
  PROVE  CountOf(k, key) = CountOf(n, key) + (IF k[w] = key THEN 1 ELSE 0)
<1> DEFINE W == {v \in DOMAIN k : k[v] = key}
           V == {v \in DOMAIN n : n[v] = key}
<1>1. IsFiniteSet(W) /\ Cardinality(W) \in Nat
  BY CountType DEF CountOf
<1>2. V = W \ {w} /\ (w \in W <=> k[w] = key)
  OBVIOUS
<1>3. Cardinality(W \ {w}) = IF w \in W THEN Cardinality(W) - 1 ELSE Cardinality(W)
  BY <1>1, FS_RemoveElement
<1> HIDE DEF W, V
<1>4. Cardinality(W) = Cardinality(V) + (IF k[w] = key THEN 1 ELSE 0)
  BY <1>1, <1>2, <1>3
<1> QED BY <1>4 DEF CountOf, W, V

LEMMA TakenMatches ==
  ASSUME NEW s, NEW k, NEW keys, Matches(s, k, keys), NEW key \in keys, FreeSlot(s, key),
         NEW n, NEW w, w \notin DOMAIN k, DOMAIN n = DOMAIN k \cup {w}, n[w] = key,
         \A v \in DOMAIN k : n[v] = k[v], n = [v \in DOMAIN n |-> n[v]]
  PROVE  Matches(Taken(s, key), n, keys)
<1> DEFINE t == Taken(s, key)
<1>1. IsFiniteSet(DOMAIN n) /\ Cardinality(DOMAIN n) = Cardinality(DOMAIN k) + 1
      /\ Cardinality(DOMAIN k) \in Nat
  BY FS_AddElement, FS_CardinalityType DEF Matches
<1>2. t.total = s.total + 1 /\ s.total = Cardinality(DOMAIN k) /\ s.total < SlotLimit
  BY DEF Taken, Matches, FreeSlot
<1>3. DOMAIN s.active \cup {key} = {n[v] : v \in DOMAIN n}
  BY DEF Matches
<1>4. t.active = [x \in {n[v] : v \in DOMAIN n} |->
                     Running(s, x) + (IF x = key THEN 1 ELSE 0)]
  BY <1>3 DEF Taken
<1>5. \A x : Running(s, x) + (IF x = key THEN 1 ELSE 0) = CountOf(n, x)
  <2> TAKE x
  <2>1. CountOf(n, x) = CountOf(k, x) + (IF n[w] = x THEN 1 ELSE 0)
    BY CountMore DEF Matches
  <2>2. Running(s, x) = CountOf(k, x)
    BY RunningCounts
  <2> QED BY <2>1, <2>2
<1>6. t.active = [x \in {n[v] : v \in DOMAIN n} |-> CountOf(n, x)]
  BY <1>4, <1>5
<1>7. \A v \in DOMAIN n : n[v] \in keys
  BY DEF Matches
<1>8. t = [active |-> t.active, total |-> t.total]
  BY DEF Taken
<1>9. SlotLimit \in Nat
  BY LimitsAssumption
<1> HIDE DEF t
<1>10. t.total = Cardinality(DOMAIN n) /\ t.total <= SlotLimit
  BY <1>1, <1>2, <1>9
<1>11. Matches(t, n, keys)
  BY <1>1, <1>6, <1>7, <1>8, <1>10 DEF Matches
<1> QED BY <1>11 DEF t

LEMMA ReleasedMatches ==
  ASSUME NEW s, NEW k, NEW keys, Matches(s, k, keys), NEW w \in DOMAIN k,
         NEW n, DOMAIN n = DOMAIN k \ {w}, \A v \in DOMAIN n : n[v] = k[v]
  PROVE  Matches(Released(s, k[w]), n, keys)
<1> DEFINE key == k[w]
           t == Released(s, key)
<1>1. IsFiniteSet(DOMAIN n) /\ Cardinality(DOMAIN n) = Cardinality(DOMAIN k) - 1
      /\ Cardinality(DOMAIN k) \in Nat /\ Cardinality(DOMAIN n) \in Nat
  BY FS_RemoveElement, FS_CardinalityType DEF Matches
<1>2. \A x : CountOf(k, x) = CountOf(n, x) + (IF k[w] = x THEN 1 ELSE 0)
  BY CountLess DEF Matches
<1>3. \A x : Running(s, x) = CountOf(k, x) /\ CountOf(n, x) \in Nat
             /\ (CountOf(n, x) = 0 <=> \A v \in DOMAIN n : n[v] # x)
  BY RunningCounts, CountType, <1>1
<1>4. Running(s, key) = CountOf(n, key) + 1 /\ Running(s, key) # 0
  BY <1>2, <1>3
<1>5. DOMAIN s.active = {k[v] : v \in DOMAIN k} /\ s.total = Cardinality(DOMAIN k)
      /\ s.total <= SlotLimit /\ s = [active |-> s.active, total |-> s.total]
  BY DEF Matches
<1>6. \A x \in DOMAIN s.active : s.active[x] = CountOf(k, x)
  BY <1>3, <1>5 DEF Running
<1>7. SlotLimit \in Nat
  BY LimitsAssumption
<1>8. /\ t = [active |-> t.active, total |-> s.total - 1] /\ t.total = s.total - 1
      /\ t.active = [x \in {n[v] : v \in DOMAIN n} |-> CountOf(n, x)]
  <2>1. CASE Running(s, key) = 1
    <3>1. t = [active |-> Restrict(s.active, DOMAIN s.active \ {key}), total |-> s.total - 1]
      BY <2>1, <1>4 DEF Released
    <3>2. \A v \in DOMAIN n : n[v] # key
      BY <2>1, <1>3, <1>4
    <3>3. DOMAIN s.active \ {key} = {n[v] : v \in DOMAIN n}
      BY <3>2, <1>5
    <3>4. \A x \in DOMAIN s.active \ {key} : s.active[x] = CountOf(n, x)
      BY <1>2, <1>3, <1>6
    <3>5. Restrict(s.active, DOMAIN s.active \ {key})
            = [x \in {n[v] : v \in DOMAIN n} |-> CountOf(n, x)]
      BY <3>3, <3>4 DEF Restrict
    <3> QED BY <3>1, <3>5
  <2>2. CASE Running(s, key) # 1
    <3>1. t = [s EXCEPT !.active[key] = @ - 1, !.total = @ - 1]
      BY <2>2, <1>4 DEF Released
    <3> DEFINE b == [s.active EXCEPT ![key] = @ - 1]
    <3>2. t = [active |-> b, total |-> s.total - 1]
      BY <3>1, <1>5
    <3>3. \E v \in DOMAIN n : n[v] = key
      BY <2>2, <1>3, <1>4
    <3>4. DOMAIN s.active = {n[v] : v \in DOMAIN n}
      BY <3>3, <1>5
    <3>5. \A x \in DOMAIN s.active : b[x] = CountOf(n, x)
      <4> TAKE x \in DOMAIN s.active
      <4>1. b[x] = IF x = key THEN s.active[x] - 1 ELSE s.active[x]
        OBVIOUS
      <4>2. s.active[x] = CountOf(n, x) + (IF key = x THEN 1 ELSE 0) /\ CountOf(n, x) \in Nat
        BY <1>2, <1>3, <1>6
      <4> HIDE DEF b, key
      <4> QED BY <4>1, <4>2
    <3>6. b = [x \in {n[v] : v \in DOMAIN n} |-> CountOf(n, x)]
      BY <3>4, <3>5
    <3> HIDE DEF b
    <3> QED BY <3>2, <3>6
  <2> QED BY <2>1, <2>2
<1>9. \A v \in DOMAIN n : n[v] \in keys
  BY DEF Matches
<1> HIDE DEF t
<1>10. t.total = Cardinality(DOMAIN n) /\ t.total <= SlotLimit
  BY <1>1, <1>5, <1>7, <1>8
<1>11. Matches(t, n, keys)
  BY <1>1, <1>8, <1>9, <1>10 DEF Matches
<1> QED BY <1>11 DEF t

KeysOfWork(f) == [w \in Work(f) |-> KeyOf(f, w)]

SlotInv ==
  /\ RelayInv
  /\ \A c \in Calls : call[c].pc # "none" => call[c].principal \in Actors \cup {Nobody}
  /\ \A f \in Fronts : Matches(slots[f], KeysOfWork(f), SlotKeysOf(f))

LEMMA NoSlotsMatch ==
  ASSUME NEW k, DOMAIN k = {}, NEW keys
  PROVE  Matches(NoSlots, k, keys)
<1>1. IsFiniteSet(DOMAIN k) /\ Cardinality(DOMAIN k) = 0
  BY FS_EmptySet
<1>2. {k[w] : w \in DOMAIN k} = {}
  OBVIOUS
<1>3. [x \in {} |-> 0] = [x \in {} |-> CountOf(k, x)]
  OBVIOUS
<1> QED BY <1>1, <1>2, <1>3, LimitsAssumption DEF Matches, NoSlots

LEMMA InitSlotInv == Init => SlotInv
<1> SUFFICES ASSUME Init PROVE SlotInv
  OBVIOUS
<1>1. (\A c \in Calls : call[c].pc = "none") /\ \A q \in Requests : req[q].pc = "none"
  BY DEF Init, GateInit, NoCall, NoReq
<1>2. ASSUME NEW f \in Fronts PROVE Matches(slots[f], KeysOfWork(f), SlotKeysOf(f))
  <2>1. DOMAIN KeysOfWork(f) = {}
    BY <1>1 DEF KeysOfWork, Work
  <2>2. slots[f] = NoSlots
    BY DEF Init, GateInit
  <2> QED BY <2>1, <2>2, NoSlotsMatch
<1> QED BY <1>1, <1>2, InitRelayInv DEF SlotInv

(* A front whose work is what it was keeps its slots. *)
LEMMA SameWork ==
  ASSUME SlotInv, NEW f \in Fronts, slots'[f] = slots[f], Work(f)' = Work(f),
         \A w \in Work(f) : KeyOf(f, w)' = KeyOf(f, w)
  PROVE  Matches(slots[f], KeysOfWork(f), SlotKeysOf(f))'
<1>1. KeysOfWork(f)' = KeysOfWork(f)
  BY DEF KeysOfWork
<1>2. SlotKeysOf(f)' = SlotKeysOf(f)
  BY DEF SlotKeysOf, McpKey
<1>3. Matches(slots'[f], KeysOfWork(f)', SlotKeysOf(f)')
  BY <1>1, <1>2 DEF SlotInv
<1> QED BY <1>3

(* It takes one up... *)
LEMMA MoreWork ==
  ASSUME SlotInv, NEW f \in Fronts, NEW w, w \notin Work(f), NEW key \in SlotKeysOf(f),
         FreeSlot(slots[f], key), slots' = [slots EXCEPT ![f] = Taken(@, key)],
         Work(f)' = Work(f) \cup {w}, KeyOf(f, w)' = key,
         \A v \in Work(f) : KeyOf(f, v)' = KeyOf(f, v)
  PROVE  Matches(slots[f], KeysOfWork(f), SlotKeysOf(f))'
<1> DEFINE k == KeysOfWork(f)
           n == KeysOfWork(f)'
<1>1. Matches(slots[f], k, SlotKeysOf(f)) /\ slots'[f] = Taken(slots[f], key)
  BY DEF SlotInv, RelayInv, RelayTypes
<1>2. /\ w \notin DOMAIN k /\ DOMAIN n = DOMAIN k \cup {w} /\ n[w] = key
      /\ \A v \in DOMAIN k : n[v] = k[v]
      /\ n = [v \in DOMAIN n |-> n[v]]
  BY DEF KeysOfWork
<1>3. SlotKeysOf(f)' = SlotKeysOf(f)
  BY DEF SlotKeysOf, McpKey
<1> HIDE DEF k, n
<1>4. Matches(slots'[f], n, SlotKeysOf(f)')
  BY <1>1, <1>2, <1>3, TakenMatches
<1> QED BY <1>4 DEF n

(* ... or is done with it. *)
LEMMA LessWork ==
  ASSUME SlotInv, NEW f \in Fronts, NEW w \in Work(f),
         slots' = [slots EXCEPT ![f] = Released(@, KeyOf(f, w))],
         Work(f)' = Work(f) \ {w}, \A v \in Work(f)' : KeyOf(f, v)' = KeyOf(f, v)
  PROVE  Matches(slots[f], KeysOfWork(f), SlotKeysOf(f))'
<1> DEFINE k == KeysOfWork(f)
           n == KeysOfWork(f)'
<1>1. Matches(slots[f], k, SlotKeysOf(f)) /\ slots'[f] = Released(slots[f], KeyOf(f, w))
  BY DEF SlotInv, RelayInv, RelayTypes
<1>2. /\ w \in DOMAIN k /\ k[w] = KeyOf(f, w) /\ DOMAIN n = DOMAIN k \ {w}
      /\ \A v \in DOMAIN n : n[v] = k[v]
  BY DEF KeysOfWork
<1>3. SlotKeysOf(f)' = SlotKeysOf(f)
  BY DEF SlotKeysOf, McpKey
<1> HIDE DEF k, n
<1>4. Matches(slots'[f], n, SlotKeysOf(f)')
  <2>1. Matches(Released(slots[f], k[w]), n, SlotKeysOf(f))
    BY <1>1, <1>2, ReleasedMatches
  <2>2. slots'[f] = Released(slots[f], k[w])
    BY <1>1, <1>2
  <2> QED BY <2>1, <2>2, <1>3
<1> QED BY <1>4 DEF n

LEMMA SlotStepInv ==
  ASSUME SlotInv, GateNext
  PROVE  SlotInv'
<1> USE DEF Fronts
<1>r. RelayInv /\ RelayInv' /\ RelayTypes
  BY GateStepInv DEF SlotInv, RelayInv
<1>p. \A c \in Calls : call[c].pc # "none" => call[c].principal \in Actors \cup {Nobody}
  BY DEF SlotInv
<1>1. ASSUME NEW c \in Calls, NEW door \in Doors, NEW actor \in Actors \cup {Nobody},
             NEW ip \in Ips, NEW granted, Enter(c, door, actor, ip, granted)
      PROVE  SlotInv'
  <2> DEFINE f == FrontOf(door)
             key == SlotKey(door, actor, ip)
             new == [pc |-> "reading", door |-> door, principal |-> actor, ip |-> ip,
                     granted |-> granted, iat |-> 0, life |-> 0]
  <2>1. UNCHANGED req /\ call[c].pc = "none"
    BY <1>1 DEF Enter
  <2>2. CASE UNCHANGED <<slots, call>>
    <3>1. \A g \in Fronts : Matches(slots[g], KeysOfWork(g), SlotKeysOf(g))'
      BY <2>1, <2>2, SameWork DEF Work, KeyOf
    <3> QED BY <1>r, <1>p, <2>2, <3>1 DEF SlotInv
  <2>3. CASE /\ FreeSlot(slots[f], key) /\ slots' = [slots EXCEPT ![f] = Taken(@, key)]
             /\ call' = [call EXCEPT ![c] = new]
    <3>1. call'[c] = new /\ \A d \in Calls \ {c} : call'[d] = call[d]
      BY <2>3, <1>r DEF RelayTypes
    <3>2. /\ f \in {"api", "renderer"} /\ c \notin Work(f)
          /\ Work(f)' = Work(f) \cup {c} /\ KeyOf(f, c)' = key
          /\ \A v \in Work(f) : KeyOf(f, v)' = KeyOf(f, v)
      BY <2>1, <3>1 DEF Work, KeyOf, FrontOf
    <3>3. key \in SlotKeysOf(f)
      BY DEF SlotKey, SlotKeysOf, FrontOf
    <3>4. \A g \in Fronts \ {f} : /\ slots'[g] = slots[g] /\ Work(g)' = Work(g)
                                  /\ \A v \in Work(g) : KeyOf(g, v)' = KeyOf(g, v)
      BY <2>1, <2>3, <3>1, <1>r DEF Work, KeyOf, RelayTypes
    <3>5. \A d \in Calls : call'[d].pc # "none" => call'[d].principal \in Actors \cup {Nobody}
      BY <3>1, <1>p
    <3> HIDE DEF f, key
    <3>6. Matches(slots[f], KeysOfWork(f), SlotKeysOf(f))'
      BY <2>3, <3>2, <3>3, MoreWork
    <3>7. \A g \in Fronts \ {f} : Matches(slots[g], KeysOfWork(g), SlotKeysOf(g))'
      BY <3>4, SameWork
    <3> QED BY <1>r, <3>5, <3>6, <3>7 DEF SlotInv
  <2> QED BY <1>1, <2>2, <2>3 DEF Enter
<1>2. ASSUME NEW c \in Calls, BeginCall(c), call[c].pc = "reading" PROVE SlotInv'
  <2>1. UNCHANGED <<req, slots>>
    BY <1>2 DEF BeginCall
  <2>2. \A d \in Calls : /\ call'[d].door = call[d].door /\ call'[d].ip = call[d].ip
                        /\ call'[d].principal = call[d].principal
                        /\ call'[d].pc = IF d = c THEN "calling" ELSE call[d].pc
    <3>1. IsCall(call[c])
      BY <1>2, <1>r DEF RelayInv, Times
    <3>2. \A d \in Calls \ {c} : call'[d] = call[d]
      BY <1>2, <1>r DEF BeginCall, RelayTypes
    <3>3. /\ call'[c].pc = "calling" /\ call'[c].door = call[c].door
          /\ call'[c].ip = call[c].ip /\ call'[c].principal = call[c].principal
      BY <1>2, <3>1, <1>r DEF BeginCall, IsCall, RelayTypes
    <3> QED BY <3>2, <3>3
  <2>3. \A g \in Fronts : /\ Work(g)' = Work(g)
                         /\ \A v \in Work(g) : KeyOf(g, v)' = KeyOf(g, v)
    BY <1>2, <2>1, <2>2 DEF Work, KeyOf
  <2>4. \A g \in Fronts : Matches(slots[g], KeysOfWork(g), SlotKeysOf(g))'
    BY <2>1, <2>3, SameWork
  <2>5. \A d \in Calls : call'[d].pc # "none" => call'[d].principal \in Actors \cup {Nobody}
    BY <2>2, <1>2, <1>p
  <2> QED BY <1>r, <2>4, <2>5 DEF SlotInv
<1>3. ASSUME NEW c \in Calls, End(c) \/ Reject(c) PROVE SlotInv'
  <2>0. PICK f \in {"api", "renderer"} : f = FrontOf(call[c].door)
    BY DEF FrontOf
  <2>1. /\ UNCHANGED req /\ call[c].pc \in {"reading", "calling"}
        /\ call' = [call EXCEPT ![c].pc = "over"]
        /\ slots' = [slots EXCEPT ![f] = Released(@, KeyOf(f, c))]
    BY <1>3, <2>0 DEF End, Reject, GiveBack, KeyOf
  <2>2. /\ call'[c].pc = "over" /\ call'[c].principal = call[c].principal
        /\ \A d \in Calls \ {c} : call'[d] = call[d]
    <3>1. IsCall(call[c])
      BY <2>1, <1>r DEF RelayInv, Times
    <3> QED BY <3>1, <2>1, <1>r DEF IsCall, RelayTypes
  <2>4. /\ c \in Work(f) /\ Work(f)' = Work(f) \ {c}
        /\ \A v \in Work(f)' : KeyOf(f, v)' = KeyOf(f, v)
    BY <2>0, <2>1, <2>2 DEF Work, KeyOf
  <2>5. \A g \in Fronts \ {f} : /\ slots'[g] = slots[g] /\ Work(g)' = Work(g)
                                /\ \A v \in Work(g) : KeyOf(g, v)' = KeyOf(g, v)
    BY <2>0, <2>1, <2>2, <1>r DEF Work, KeyOf, RelayTypes
  <2>6. \A d \in Calls : call'[d].pc # "none" => call'[d].principal \in Actors \cup {Nobody}
    BY <2>1, <2>2, <1>p
  <2>7. Matches(slots[f], KeysOfWork(f), SlotKeysOf(f))'
    BY <2>1, <2>4, LessWork
  <2>8. \A g \in Fronts \ {f} : Matches(slots[g], KeysOfWork(g), SlotKeysOf(g))'
    BY <2>5, SameWork
  <2> QED BY <1>r, <2>6, <2>7, <2>8 DEF SlotInv
<1>4. ASSUME UNCHANGED <<call, slots>>, DOMAIN req' = Requests,
             \A q \in Requests :
               req[q].pc = "running" \/ req'[q].pc = "running" => req'[q] = req[q]
      PROVE  SlotInv'
  <2>1. \A g \in Fronts : /\ Work(g)' = Work(g)
                         /\ \A v \in Work(g) : KeyOf(g, v)' = KeyOf(g, v)
    BY <1>4 DEF Work, KeyOf
  <2>2. \A g \in Fronts : Matches(slots[g], KeysOfWork(g), SlotKeysOf(g))'
    BY <1>4, <2>1, SameWork
  <2> QED BY <1>r, <1>p, <1>4, <2>2 DEF SlotInv
<1>5. ASSUME NEW c \in Calls, NEW q \in Requests, Send(c, q) PROVE SlotInv'
  BY <1>5, <1>4, <1>r DEF Send, RelayTypes
<1>6. ASSUME NEW q \in Requests, DropBody(q) PROVE SlotInv'
  BY <1>6, <1>4, <1>r DEF DropBody, RelayTypes
<1>7. ASSUME NEW q \in Requests, Receive(q) PROVE SlotInv'
  <2> DEFINE c == req[q].of
             ok == Authentic(c)
             key == McpKey(IF ok THEN call[c].principal ELSE Nobody)
             pass == ok /\ Allows(rates["mcp"], {key}, now) /\ FreeSlot(slots["mcp"], key)
             may == IF Hosted /\ Relayed(c) THEN scopes[call[c].principal]
                                            ELSE call[c].granted
             new == IF pass THEN [pc |-> "running", of |-> c, key |-> key, may |-> may]
                            ELSE [pc |-> "over"]
  <2>1. /\ req[q].pc = "sent" /\ UNCHANGED call /\ req' = [req EXCEPT ![q] = new]
        /\ slots' = IF pass THEN [slots EXCEPT !["mcp"] = Taken(@, key)] ELSE slots
    BY <1>7 DEF Receive
  <2>2. c \in Calls /\ call[c].pc # "none"
    BY <2>1, <1>r DEF RelayInv, Sent
  <2>3. key \in SlotKeysOf("mcp")
    BY <2>2, <1>p DEF SlotKeysOf
  <2>4. pass => new.pc = "running" /\ new.key = key /\ FreeSlot(slots["mcp"], key)
    OBVIOUS
  <2>5. ~pass => new.pc # "running"
    OBVIOUS
  <2> HIDE DEF pass, key, new, c
  <2>6. req'[q] = new /\ DOMAIN req' = Requests /\ \A r \in Requests \ {q} : req'[r] = req[r]
    BY <2>1, <1>r DEF RelayTypes
  <2>7. CASE ~pass
    BY <2>1, <2>5, <2>6, <2>7, <1>4
  <2>8. CASE pass
    <3>1. slots' = [slots EXCEPT !["mcp"] = Taken(@, key)]
      BY <2>1, <2>8
    <3>2. /\ q \notin Work("mcp") /\ Work("mcp")' = Work("mcp") \cup {q}
          /\ KeyOf("mcp", q)' = key
          /\ \A v \in Work("mcp") : KeyOf("mcp", v)' = KeyOf("mcp", v)
      BY <2>1, <2>4, <2>6, <2>8 DEF Work, KeyOf
    <3>3. Matches(slots["mcp"], KeysOfWork("mcp"), SlotKeysOf("mcp"))'
      BY <2>3, <2>4, <2>8, <3>1, <3>2, MoreWork
    <3>4. \A g \in Fronts \ {"mcp"} : /\ slots'[g] = slots[g] /\ Work(g)' = Work(g)
                                      /\ \A v \in Work(g) : KeyOf(g, v)' = KeyOf(g, v)
      BY <2>1, <3>1, <1>r DEF Work, KeyOf, RelayTypes
    <3>5. \A g \in Fronts \ {"mcp"} : Matches(slots[g], KeysOfWork(g), SlotKeysOf(g))'
      BY <3>4, SameWork
    <3> QED BY <1>r, <1>p, <2>1, <3>3, <3>5 DEF SlotInv
  <2> QED BY <2>7, <2>8
<1>8. ASSUME NEW q \in Requests, Finish(q) PROVE SlotInv'
  <2>1. /\ req[q].pc = "running" /\ req' = [req EXCEPT ![q] = [pc |-> "over"]] /\ UNCHANGED call
        /\ slots' = [slots EXCEPT !["mcp"] = Released(@, KeyOf("mcp", q))]
    BY <1>8 DEF Finish, KeyOf
  <2>2. req'[q].pc = "over" /\ \A r \in Requests \ {q} : req'[r] = req[r]
    BY <2>1, <1>r DEF RelayTypes
  <2>3. /\ q \in Work("mcp") /\ Work("mcp")' = Work("mcp") \ {q}
        /\ \A v \in Work("mcp")' : KeyOf("mcp", v)' = KeyOf("mcp", v)
    BY <2>1, <2>2 DEF Work, KeyOf
  <2>4. Matches(slots["mcp"], KeysOfWork("mcp"), SlotKeysOf("mcp"))'
    BY <2>1, <2>3, LessWork
  <2>5. \A g \in Fronts \ {"mcp"} : /\ slots'[g] = slots[g] /\ Work(g)' = Work(g)
                                    /\ \A v \in Work(g) : KeyOf(g, v)' = KeyOf(g, v)
    BY <2>1, <1>r DEF Work, KeyOf, RelayTypes
  <2>6. \A g \in Fronts \ {"mcp"} : Matches(slots[g], KeysOfWork(g), SlotKeysOf(g))'
    BY <2>5, SameWork
  <2> QED BY <1>r, <1>p, <2>1, <2>4, <2>6 DEF SlotInv
<1>9. CASE RestartServer
  <2>1. /\ slots'["api"] = NoSlots /\ slots'["mcp"] = NoSlots
        /\ slots'["renderer"] = slots["renderer"]
    BY <1>9, <1>r DEF RestartServer, RelayTypes
  <2>2. \A c \in Calls : /\ call'[c].principal = call[c].principal
                        /\ (call'[c].pc = "none") = (call[c].pc = "none")
                        /\ \/ call'[c] = call[c] /\ (call[c].pc \in {"reading", "calling"}
                                                      => call[c].door = "render")
                           \/ call'[c].pc = "over" /\ call[c].door # "render"
    <3> TAKE c \in Calls
    <3>1. call[c].pc # "none" => IsCall(call[c])
      BY <1>r DEF RelayInv, Times
    <3>2. call'[c] = IF call[c].pc \in {"reading", "calling"} /\ call[c].door # "render"
                     THEN [call[c] EXCEPT !.pc = "over"] ELSE call[c]
      BY <1>9 DEF RestartServer
    <3> QED BY <3>1, <3>2 DEF IsCall
  <2>3. \A q \in Requests : req'[q].pc # "running"
    BY <1>9 DEF RestartServer
  <2>4. Work("api")' = {} /\ Work("mcp")' = {}
    BY <2>2, <2>3 DEF Work, FrontOf
  <2>5. /\ Work("renderer")' = Work("renderer")
        /\ \A v \in Work("renderer") : KeyOf("renderer", v)' = KeyOf("renderer", v)
    BY <2>2 DEF Work, FrontOf, KeyOf
  <2>6. \A g \in {"api", "mcp"} : Matches(slots[g], KeysOfWork(g), SlotKeysOf(g))'
    <3> TAKE g \in {"api", "mcp"}
    <3> DEFINE n == KeysOfWork(g)'
    <3>1. DOMAIN n = {} /\ slots'[g] = NoSlots
      BY <2>1, <2>4 DEF KeysOfWork
    <3> HIDE DEF n
    <3>2. Matches(slots'[g], n, SlotKeysOf(g)')
      BY <3>1, NoSlotsMatch
    <3> QED BY <3>2 DEF n
  <2>7. Matches(slots["renderer"], KeysOfWork("renderer"), SlotKeysOf("renderer"))'
    BY <2>1, <2>5, SameWork
  <2>8. \A c \in Calls : call'[c].pc # "none" => call'[c].principal \in Actors \cup {Nobody}
    BY <2>2, <1>p
  <2> QED BY <1>r, <2>6, <2>7, <2>8 DEF SlotInv
<1>10. ASSUME NEW actor \in Actors, \/ \E active \in BOOLEAN : SetStatus(actor, active)
                                    \/ \E granted : SetScopes(actor, granted)
       PROVE  SlotInv'
  BY <1>10, <1>4, <1>r DEF SetStatus, SetScopes, RelayTypes
<1>11. CASE Wait
  BY <1>11, <1>4, <1>r DEF Wait, gateVars, RelayTypes
<1>12. ASSUME NEW c \in Calls, NEW ip \in Ips, EnterRenderer(c, ip) PROVE SlotInv'
  BY <1>1, <1>12, RelayAssumption DEF EnterRenderer, Doors
<1>13. ASSUME NEW c \in Calls, CallTool(c) \/ Render(c) PROVE SlotInv'
  BY <1>2, <1>13 DEF CallTool, Render
<1>14. ASSUME NEW c \in Calls, NEW door \in Doors, NEW actor \in Actors \cup {Nobody},
              NEW ip \in Ips, EnterInspection(c, door, actor, ip)
       PROVE  SlotInv'
  BY <1>1, <1>14 DEF EnterInspection
<1> QED BY <1>3, <1>5, <1>6, <1>7, <1>8, <1>9, <1>10, <1>11, <1>12, <1>13, <1>14 DEF GateNext

LEMMA SlotsMatch ==
  ASSUME \A f \in Fronts : Matches(slots[f], KeysOfWork(f), SlotKeysOf(f))
  PROVE  SlotsMatchWork
<1> SUFFICES ASSUME NEW f \in Fronts
             PROVE  /\ \A key \in SlotKeysOf(f) : Running(slots[f], key) = Holders(f, key)
                    /\ DOMAIN slots[f].active = {key \in SlotKeysOf(f) : Holders(f, key) > 0}
                    /\ slots[f].total = Cardinality(Work(f))
                    /\ slots[f].total <= SlotLimit
  BY DEF SlotsMatchWork
<1> DEFINE k == KeysOfWork(f)
<1>1. Matches(slots[f], k, SlotKeysOf(f))
  OBVIOUS
<1>2. DOMAIN k = Work(f) /\ \A w \in Work(f) : k[w] = KeyOf(f, w)
  BY DEF KeysOfWork
<1>3. \A key : CountOf(k, key) = Holders(f, key)
  <2> TAKE key
  <2>1. {w \in DOMAIN k : k[w] = key} = {w \in Work(f) : KeyOf(f, w) = key}
    BY <1>2
  <2> QED BY <2>1 DEF CountOf, Holders
<1> HIDE DEF k
<1>4. \A key : /\ Running(slots[f], key) = CountOf(k, key) /\ CountOf(k, key) \in Nat
              /\ (CountOf(k, key) = 0 <=> \A w \in DOMAIN k : k[w] # key)
  <2>1. \A key : Running(slots[f], key) = CountOf(k, key)
    BY <1>1, RunningCounts
  <2>2. IsFiniteSet(DOMAIN k)
    BY <1>1 DEF Matches
  <2> QED BY <2>1, <2>2, CountType
<1>5. DOMAIN slots[f].active = {k[w] : w \in DOMAIN k} /\ \A w \in DOMAIN k : k[w] \in SlotKeysOf(f)
  BY <1>1 DEF Matches
<1>6. \A key \in SlotKeysOf(f) : Holders(f, key) > 0 <=> \E w \in DOMAIN k : k[w] = key
  BY <1>3, <1>4
<1>7. DOMAIN slots[f].active = {key \in SlotKeysOf(f) : Holders(f, key) > 0}
  BY <1>5, <1>6
<1> QED BY <1>1, <1>2, <1>3, <1>4, <1>7 DEF Matches

(* Where nothing is called nothing is held. *)
NoWork ==
  /\ call = [c \in Calls |-> NoCall] /\ req = [q \in Requests |-> NoReq]
  /\ slots = [f \in Fronts |-> NoSlots]

LEMMA NoWorkMatches ==
  ASSUME NoWork
  PROVE  \A f \in Fronts : Matches(slots[f], KeysOfWork(f), SlotKeysOf(f))
<1> TAKE f \in Fronts
<1>1. DOMAIN KeysOfWork(f) = {} /\ slots[f] = NoSlots
  BY DEF NoWork, KeysOfWork, Work, NoCall, NoReq
<1> QED BY <1>1, NoSlotsMatch

(* SlotsMatchWork.  However calls and requests end, and whoever gives up    *)
(* first, each front's slots are those of the requests it is working on,    *)
(* key by key and in total, and within the limit                            *)
(* (BoundedConcurrencyLimiter.try_acquire, release).                        *)
THEOREM SlotsMatchTheWork == Spec => []SlotsMatchWork
<1> DEFINE I == (part = "requests" => SlotInv) /\ (part # "requests" => NoWork)
<1>1. Init => I
  BY InitSlotInv DEF Init, GateInit, NoWork
<1>2. I /\ [Next]_vars => I'
  <2> SUFFICES ASSUME I, [Next]_vars PROVE I'
    OBVIOUS
  <2>1. CASE part = "requests" /\ UNCHANGED <<now, gateVars, part>>
    <3> HIDE DEF I
    <3>1. SlotInv
      BY <2>1 DEF I
    <3>2. \A f \in Fronts : Matches(slots[f], KeysOfWork(f), SlotKeysOf(f))'
      BY <2>1, <3>1, SameWork DEF gateVars, Work, KeyOf
    <3>3. RelayInv'
      BY <2>1, <3>1 DEF SlotInv, gateVars, RelayInv, RelayTypes, Times, IsCall, Held, Sent,
         Denied, Relayed, Expiry
    <3> QED BY <2>1, <3>1, <3>2, <3>3 DEF SlotInv, gateVars, I
  <2>2. CASE part = "requests" /\ GateNext /\ UNCHANGED part
    BY <2>2, SlotStepInv
  <2>3. CASE part # "requests" /\ UNCHANGED <<gateVars, part>>
    BY <2>3 DEF gateVars, NoWork
  <2> QED BY <2>1, <2>2, <2>3 DEF Next, vars
<1>3. I => SlotsMatchWork
  BY SlotsMatch, NoWorkMatches DEF SlotInv
<1> QED BY <1>1, <1>2, <1>3, PTL DEF Spec

------------------------------------------------------------------------------
(* The status of backups.  Whatever was so at some time of a check is among *)
(* what was witnessed.  While all was in order throughout, the newest       *)
(* backup is the same, and nothing was found to complain of.                *)

Backup == [created : Nat, until : Nat, keys : [Purposes -> Nat],
           state : {"sound", "damaged", "gone"}]

StatusTypes ==
  /\ now \in Nat /\ wired \in BOOLEAN
  /\ custody \in [up : BOOLEAN, active : [Purposes -> Nat], accepted : SUBSET (Purposes \X Nat)]
  /\ store \in [ready : BOOLEAN, guarded : BOOLEAN]
  /\ objects \in Seq(Backup)
  /\ check = [pc |-> check.pc, at |-> check.at, alerts |-> check.alerts,
              accepted |-> check.accepted, candidate |-> check.candidate]
  /\ check.at \in Nat
  /\ witnessed = [pairs |-> witnessed.pairs, sound |-> witnessed.sound,
                  calm |-> witnessed.calm]
  /\ witnessed.calm \in BOOLEAN

Newest(n) == n \in Listed(objects) /\ \A i \in Listed(objects) : i <= n

WitnessKept ==
  /\ witnessed.sound \subseteq DOMAIN objects
  /\ check.pc # "idle" =>
       SoundAt(objects) \subseteq witnessed.sound /\ custody.accepted \subseteq witnessed.pairs
  /\ check.accepted \subseteq witnessed.pairs
  /\ witnessed.calm => InOrder(check.at)

CalmSoFar ==
  witnessed.calm =>
    /\ check.pc \in {"keys", "store", "latest", "inspect"} => check.alerts = {}
    /\ check.pc \in {"store", "latest", "inspect"} =>
         \A n \in DOMAIN objects : Newest(n) => VersionsAccepted(objects[n], check.accepted)
    /\ check.pc = "inspect" => Newest(check.candidate)

Concluded ==
  check.pc \in {"tell", "told"} =>
    RecoverableWhenTold /\ (wired /\ witnessed.calm => check.alerts = {})

CandidateStored == check.pc = "inspect" => check.candidate \in DOMAIN objects

StatusInv == StatusTypes /\ WitnessKept /\ CalmSoFar /\ Concluded /\ CandidateStored

LEMMA Altered ==
  ASSUME NEW S, NEW s \in Seq(S), NEW i \in DOMAIN s, NEW x \in S
  PROVE  [s EXCEPT ![i] = x] \in Seq(S) /\ DOMAIN [s EXCEPT ![i] = x] = DOMAIN s
  OBVIOUS

LEMMA InitStatusInv == Init => StatusInv
<1> SUFFICES ASSUME Init PROVE StatusInv
  OBVIOUS
<1> USE DEF Init, StatusInit, AtRest
<1>1. StatusTypes
  BY DEF StatusTypes, Purposes
<1>2. WitnessKept /\ CalmSoFar /\ Concluded /\ CandidateStored
  BY DEF WitnessKept, CalmSoFar, Concluded, CandidateStored
<1> QED BY <1>1, <1>2 DEF StatusInv

(* What a change of the world keeps of a check. *)
LEMMA WorldKeeps ==
  ASSUME StatusInv, StatusTypes', check' = check, wired' = wired,
         \A i \in DOMAIN objects :
           /\ i \in DOMAIN objects' /\ objects'[i].created = objects[i].created
           /\ objects'[i].until = objects[i].until /\ objects'[i].keys = objects[i].keys,
         witnessed.pairs \subseteq witnessed'.pairs, witnessed.sound \subseteq witnessed'.sound,
         witnessed'.sound \subseteq DOMAIN objects',
         check.pc # "idle" => /\ SoundAt(objects') \subseteq witnessed'.sound
                              /\ custody'.accepted \subseteq witnessed'.pairs,
         witnessed'.calm => /\ witnessed.calm /\ InOrder(check.at)'
                            /\ DOMAIN objects' = DOMAIN objects
                            /\ Listed(objects') = Listed(objects)
  PROVE  StatusInv'
<1> USE DEF StatusInv
<1>1. WitnessKept'
  BY DEF WitnessKept
<1>2. \A n \in DOMAIN objects : witnessed'.calm => (Newest(n)' <=> Newest(n))
  BY DEF Newest
<1>3. \A i \in DOMAIN objects : \A pairs : VersionsAccepted(objects'[i], pairs)
                                         <=> VersionsAccepted(objects[i], pairs)
  BY DEF VersionsAccepted
<1>4. CalmSoFar'
  <2>1. CandidateStored
    OBVIOUS
  <2> QED BY <1>2, <1>3, <2>1 DEF CalmSoFar, CandidateStored
<1>5. \A i \in witnessed.sound :
        /\ TimelyAt(objects[i], check.at) => TimelyAt(objects'[i], check.at)
        /\ VersionsAccepted(objects[i], witnessed.pairs)
             => VersionsAccepted(objects'[i], witnessed'.pairs)
  BY DEF WitnessKept, TimelyAt, VersionsAccepted
<1>6. Concluded'
  <2>1. RecoverableWhenTold => RecoverableWhenTold'
    BY <1>5 DEF RecoverableWhenTold
  <2> QED BY <2>1 DEF Concluded
<1>7. CandidateStored'
  BY DEF CandidateStored
<1> QED BY <1>1, <1>4, <1>6, <1>7

LEMMA ChangeKeeps ==
  ASSUME StatusInv, Changed, objects' \in Seq(Backup), DOMAIN objects' = DOMAIN objects,
         custody' \in [up : BOOLEAN, active : [Purposes -> Nat], accepted : SUBSET (Purposes \X Nat)],
         store' \in [ready : BOOLEAN, guarded : BOOLEAN],
         \A i \in DOMAIN objects :
           /\ objects'[i].created = objects[i].created
           /\ objects'[i].until = objects[i].until /\ objects'[i].keys = objects[i].keys,
         Listed(objects') = Listed(objects)
  PROVE  StatusInv'
<1>1. /\ witnessed'.pairs = witnessed.pairs \cup custody'.accepted
      /\ witnessed'.sound = witnessed.sound \cup SoundAt(objects')
      /\ witnessed'.calm = (witnessed.calm /\ InOrder(check.at)')
      /\ witnessed' = [pairs |-> witnessed'.pairs, sound |-> witnessed'.sound,
                       calm |-> witnessed'.calm]
  BY DEF Changed, Witness
<1>2. UNCHANGED <<now, wired, check>>
  BY DEF Changed
<1>3. SoundAt(objects') \subseteq DOMAIN objects /\ DOMAIN objects \subseteq Nat
  BY DEF SoundAt, StatusInv, StatusTypes
<1>4. StatusTypes'
  BY <1>1, <1>2, <1>3 DEF StatusInv, StatusTypes
<1>5. witnessed.sound \subseteq DOMAIN objects
  BY DEF StatusInv, WitnessKept
<1> QED BY <1>1, <1>2, <1>3, <1>4, <1>5, WorldKeeps

LEMMA WorldStep ==
  ASSUME StatusInv, WorldNext
  PROVE  StatusInv'
<1>t. StatusTypes /\ WitnessKept
  BY DEF StatusInv
<1> USE <1>t DEF StatusTypes
<1>1. CASE TakeBackup
  <2> DEFINE b == [created |-> now, until |-> now + Retention, keys |-> custody.active,
                   state |-> "sound"]
  <2>1. b \in Backup
    BY StatusAssumption DEF Backup
  <2>2. objects' = Append(objects, b) /\ UNCHANGED <<now, wired, custody, store, check>>
    BY <1>1 DEF TakeBackup
  <2> HIDE DEF b
  <2>3. /\ objects' \in Seq(Backup) /\ Len(objects') = Len(objects) + 1
        /\ DOMAIN objects = 1..Len(objects) /\ DOMAIN objects' = 1..(Len(objects) + 1)
        /\ Len(objects) \in Nat
        /\ \A i \in DOMAIN objects : objects'[i] = objects[i]
    BY <2>1, <2>2
  <2>4. witnessed' = [witnessed EXCEPT !.sound = @ \cup {Len(objects')}, !.calm = FALSE]
    BY <1>1 DEF TakeBackup
  <2>5. StatusTypes'
    BY <2>2, <2>3, <2>4
  <2>6. /\ witnessed'.pairs = witnessed.pairs /\ ~witnessed'.calm
        /\ witnessed'.sound = witnessed.sound \cup {Len(objects) + 1}
    BY <2>3, <2>4
  <2>7. SoundAt(objects') \subseteq SoundAt(objects) \cup {Len(objects) + 1}
    BY <2>3 DEF SoundAt
  <2>8. check.pc # "idle" => /\ SoundAt(objects') \subseteq witnessed'.sound
                             /\ custody'.accepted \subseteq witnessed'.pairs
    BY <2>2, <2>6, <2>7 DEF WitnessKept
  <2>9. witnessed'.sound \subseteq DOMAIN objects'
    BY <2>3, <2>6 DEF WitnessKept
  <2>10. \A i \in DOMAIN objects :
           /\ i \in DOMAIN objects' /\ objects'[i].created = objects[i].created
           /\ objects'[i].until = objects[i].until /\ objects'[i].keys = objects[i].keys
    BY <2>3
  <2> QED BY <2>2, <2>5, <2>6, <2>8, <2>9, <2>10, WorldKeeps
<1>2. ASSUME NEW i \in DOMAIN objects, Damage(i) PROVE StatusInv'
  <2>1. objects' = [objects EXCEPT ![i].state = "damaged"] /\ UNCHANGED <<custody, store>>
        /\ Changed /\ objects[i].state = "sound"
    BY <1>2 DEF Damage
  <2>2. \A n \in DOMAIN objects : objects[n] \in Backup
    OBVIOUS
  <2>3. objects' \in Seq(Backup) /\ DOMAIN objects' = DOMAIN objects
    BY <2>1, <2>2, Altered DEF Backup
  <2>4. \A n \in DOMAIN objects :
          /\ objects'[n].created = objects[n].created
          /\ objects'[n].until = objects[n].until /\ objects'[n].keys = objects[n].keys
          /\ (objects'[n].state # "gone" <=> objects[n].state # "gone")
    BY <2>1, <2>2 DEF Backup
  <2>5. Listed(objects') = Listed(objects)
    BY <2>3, <2>4 DEF Listed
  <2> QED BY <2>1, <2>3, <2>4, <2>5, ChangeKeeps
<1>3. ASSUME NEW i \in DOMAIN objects, Drop(i) PROVE StatusInv'
  <2>1. objects' = [objects EXCEPT ![i].state = "gone"]
        /\ witnessed' = [witnessed EXCEPT !.calm = FALSE]
        /\ UNCHANGED <<now, wired, custody, store, check>>
    BY <1>3 DEF Drop
  <2>2. \A n \in DOMAIN objects : objects[n] \in Backup
    OBVIOUS
  <2>3. objects' \in Seq(Backup) /\ DOMAIN objects' = DOMAIN objects
    BY <2>1, <2>2, Altered DEF Backup
  <2>4. \A n \in DOMAIN objects :
          /\ objects'[n].created = objects[n].created
          /\ objects'[n].until = objects[n].until /\ objects'[n].keys = objects[n].keys
          /\ (objects'[n].state = "sound" => objects[n].state = "sound")
    BY <2>1, <2>2 DEF Backup
  <2>5. SoundAt(objects') \subseteq SoundAt(objects)
    BY <2>3, <2>4 DEF SoundAt
  <2>6. /\ witnessed'.pairs = witnessed.pairs /\ witnessed'.sound = witnessed.sound
        /\ ~witnessed'.calm
    BY <2>1
  <2>7. StatusTypes'
    BY <2>1, <2>3
  <2> QED BY <2>1, <2>3, <2>4, <2>5, <2>6, <2>7, WorldKeeps DEF WitnessKept
<1>c. /\ custody = [up |-> custody.up, active |-> custody.active, accepted |-> custody.accepted]
      /\ custody.up \in BOOLEAN /\ custody.active \in [Purposes -> Nat]
      /\ custody.accepted \in SUBSET (Purposes \X Nat)
  OBVIOUS
<1>4. CASE CustodyChanges
  <2>1. custody' = [up |-> ~custody.up, active |-> custody.active, accepted |-> custody.accepted]
    BY <1>4, <1>c DEF CustodyChanges
  <2> QED BY <1>4, <1>c, <2>1, ChangeKeeps DEF CustodyChanges
<1>6. ASSUME NEW p \in Purposes, RotateKey(p) PROVE StatusInv'
  <2> DEFINE next == [custody.active EXCEPT ![p] = @ + 1]
             pairs == custody.accepted \cup {<<p, custody.active[p] + 1>>}
  <2>1. custody' = [up |-> custody.up, active |-> next, accepted |-> pairs]
    BY <1>6, <1>c DEF RotateKey
  <2>2. next \in [Purposes -> Nat] /\ pairs \in SUBSET (Purposes \X Nat)
    BY <1>c
  <2> HIDE DEF next, pairs
  <2> QED BY <1>6, <1>c, <2>1, <2>2, ChangeKeeps DEF RotateKey
<1>7. ASSUME NEW pair \in custody.accepted, Retire(pair) PROVE StatusInv'
  <2>1. custody' = [up |-> custody.up, active |-> custody.active,
                    accepted |-> custody.accepted \ {pair}]
    BY <1>7, <1>c DEF Retire
  <2> QED BY <1>7, <1>c, <2>1, ChangeKeeps DEF Retire
<1>5. CASE StoreChanges
  BY <1>5, ChangeKeeps DEF StoreChanges
<1> QED BY <1>1, <1>2, <1>3, <1>4, <1>5, <1>6, <1>7 DEF WorldNext

(* What a step of the check leaves as it is. *)
LEMMA CheckMoves ==
  ASSUME StatusInv, NEW p, NEW a, NEW keys, NEW n, keys \subseteq witnessed.pairs,
         check' = [pc |-> p, at |-> check.at, alerts |-> a, accepted |-> keys, candidate |-> n],
         check.pc # "idle", UNCHANGED <<now, wired, custody, store, objects>>,
         witnessed'.pairs = witnessed.pairs, witnessed'.sound = witnessed.sound,
         witnessed'.calm \in {witnessed.calm, FALSE},
         witnessed' = [pairs |-> witnessed'.pairs, sound |-> witnessed'.sound,
                       calm |-> witnessed'.calm]
  PROVE  StatusTypes' /\ WitnessKept'
<1>1. /\ check'.pc = p /\ check'.at = check.at /\ check'.alerts = a
      /\ check'.accepted = keys /\ check'.candidate = n
  OBVIOUS
<1>2. StatusTypes'
  BY <1>1 DEF StatusInv, StatusTypes
<1>3. InOrder(check.at)' = InOrder(check.at)
  BY <1>1 DEF InOrder, TimelyAt, VersionsAccepted, ActiveAccepted, Listed, SoundAt
<1>4. SoundAt(objects)' = SoundAt(objects)
  BY DEF SoundAt
<1>5. WitnessKept'
  BY <1>1, <1>3, <1>4 DEF StatusInv, WitnessKept
<1> QED BY <1>2, <1>5

(* In order means that the newest backup is sound, timely and under         *)
(* accepted keys.                                                           *)
LEMMA NewestInOrder ==
  ASSUME StatusInv, NEW at, InOrder(at), NEW n, Newest(n)
  PROVE  /\ objects[n].state = "sound" /\ TimelyAt(objects[n], at)
         /\ VersionsAccepted(objects[n], custody.accepted)
<1>1. PICK m \in SoundAt(objects) :
        /\ \A i \in Listed(objects) : i <= m
        /\ TimelyAt(objects[m], at) /\ VersionsAccepted(objects[m], custody.accepted)
  BY DEF InOrder
<1>2. m \in Listed(objects) /\ n \in Listed(objects)
  BY DEF SoundAt, Listed, Newest
<1>3. DOMAIN objects \subseteq Nat
  BY DEF StatusInv, StatusTypes
<1>4. m = n
  BY <1>1, <1>2, <1>3 DEF Listed, Newest
<1> QED BY <1>1, <1>4 DEF SoundAt

LEMMA AllAccepted ==
  ASSUME NEW backup, NEW few, NEW many, few \subseteq many, VersionsAccepted(backup, few)
  PROVE  VersionsAccepted(backup, many)
  BY DEF VersionsAccepted

(* The step the check stands or falls by. *)
LEMMA InspectStep ==
  ASSUME StatusInv, Inspect
  PROVE  StatusInv'
<1> DEFINE backup == objects[check.candidate]
           found == IF backup.state # "sound" THEN {"integrity"}
                    ELSE AgeAlerts(backup)
                           \cup Alert("versions", ~VersionsAccepted(backup, check.accepted))
<1>t. StatusTypes /\ WitnessKept /\ CalmSoFar /\ CandidateStored /\ check.pc = "inspect"
  BY DEF StatusInv, Inspect
<1>1. check' = [check EXCEPT !.pc = "tell", !.alerts = @ \cup found]
      /\ UNCHANGED <<now, wired, custody, store, objects, witnessed>>
  BY DEF Inspect, Goes, worldVars
<1>c. check.candidate \in DOMAIN objects /\ backup \in Backup /\ check.at \in Nat
  BY <1>t DEF CandidateStored, StatusTypes
<1>2. found = {} <=> /\ backup.state = "sound" /\ AgeAlerts(backup) = {}
                     /\ VersionsAccepted(backup, check.accepted)
  BY DEF Alert
<1>3. AgeAlerts(backup) = {} <=> TimelyAt(backup, check.at)
  BY <1>c, StatusAssumption DEF AgeAlerts, Alert, TimelyAt, Backup
<1> HIDE DEF found
<1>4. /\ check'.pc = "tell" /\ check'.at = check.at /\ check'.alerts = check.alerts \cup found
      /\ check' = [pc |-> "tell", at |-> check.at, alerts |-> check.alerts \cup found,
                   accepted |-> check.accepted, candidate |-> check.candidate]
  BY <1>1, <1>t DEF StatusTypes
<1>5. StatusTypes' /\ WitnessKept'
  BY <1>1, <1>4, <1>t, CheckMoves DEF StatusTypes, WitnessKept
<1>6. CalmSoFar' /\ CandidateStored'
  BY <1>4 DEF CalmSoFar, CandidateStored
<1>7. ASSUME found = {}
      PROVE  /\ check.candidate \in witnessed.sound /\ TimelyAt(backup, check.at)
             /\ VersionsAccepted(backup, witnessed.pairs)
  <2>1. check.candidate \in SoundAt(objects)
    BY <1>7, <1>2, <1>c DEF SoundAt
  <2>2. check.candidate \in witnessed.sound /\ check.accepted \subseteq witnessed.pairs
    BY <2>1, <1>t DEF WitnessKept
  <2> QED BY <2>2, <1>7, <1>2, <1>3, AllAccepted
<1>8. RecoverableWhenTold'
  BY <1>7, <1>1, <1>4 DEF RecoverableWhenTold, TimelyAt, VersionsAccepted
<1>9. ASSUME witnessed.calm PROVE check.alerts \cup found = {}
  <2>1. InOrder(check.at) /\ check.alerts = {} /\ Newest(check.candidate)
        /\ VersionsAccepted(backup, check.accepted)
    BY <1>9, <1>t, <1>c DEF WitnessKept, CalmSoFar
  <2>2. backup.state = "sound" /\ TimelyAt(backup, check.at)
    BY <2>1, NewestInOrder
  <2> QED BY <2>1, <2>2, <1>2, <1>3
<1>10. Concluded'
  BY <1>1, <1>4, <1>8, <1>9 DEF Concluded
<1> QED BY <1>5, <1>6, <1>10 DEF StatusInv

(* What the other steps of a check keep. *)
LEMMA CheckStep ==
  ASSUME StatusInv,
         Begin \/ KeyStatus \/ StoreStatus \/ Latest \/ AdapterFails \/ Tell \/ PassTime
  PROVE  StatusInv'
<1>t. StatusTypes /\ WitnessKept /\ CalmSoFar /\ Concluded /\ CandidateStored
  BY DEF StatusInv
<1>b. /\ check = [pc |-> check.pc, at |-> check.at, alerts |-> check.alerts,
                  accepted |-> check.accepted, candidate |-> check.candidate]
      /\ witnessed = [pairs |-> witnessed.pairs, sound |-> witnessed.sound,
                      calm |-> witnessed.calm]
      /\ witnessed.calm \in BOOLEAN
  BY <1>t DEF StatusTypes
<1>o. witnessed.calm => InOrder(check.at)
  BY <1>t DEF WitnessKept
<1>1. CASE Begin
  <2>1. /\ UNCHANGED <<now, wired, custody, store, objects>>
        /\ witnessed' = [pairs |-> custody.accepted, sound |-> SoundAt(objects),
                         calm |-> InOrder(now)]
    BY <1>1 DEF Begin, worldVars
  <2>2. check' = [pc |-> IF wired THEN "keys" ELSE "told", at |-> now,
                  alerts |-> Alert("not configured", ~wired), accepted |-> {}, candidate |-> 0]
    BY <1>1 DEF Begin, AtRest
  <2>3. InOrder(check.at)' <=> InOrder(now)
    BY <2>1, <2>2 DEF InOrder, TimelyAt, VersionsAccepted, ActiveAccepted, Listed, SoundAt
  <2>4. StatusTypes'
    BY <2>1, <2>2, <1>t DEF StatusTypes, InOrder
  <2>5. WitnessKept'
    BY <2>1, <2>2, <2>3 DEF WitnessKept, SoundAt
  <2>6. CalmSoFar' /\ Concluded' /\ CandidateStored'
    BY <2>1, <2>2, <1>t DEF CalmSoFar, Concluded, CandidateStored, RecoverableWhenTold, Alert,
       StatusTypes
  <2> QED BY <2>4, <2>5, <2>6 DEF StatusInv
<1>2. CASE PassTime
  <2>1. now' \in Nat /\ UNCHANGED <<wired, custody, store, objects, check, witnessed>>
    BY <1>2, <1>t DEF PassTime, Pass, statusVars, worldVars, StatusTypes
  <2>2. StatusTypes'
    BY <2>1, <1>t DEF StatusTypes
  <2>3. WitnessKept'
    BY <2>1, <1>t DEF WitnessKept, InOrder, TimelyAt, VersionsAccepted, ActiveAccepted, Listed,
       SoundAt
  <2>4. CalmSoFar'
    BY <2>1, <1>t DEF CalmSoFar, Newest, Listed, VersionsAccepted
  <2>5. Concluded' /\ CandidateStored'
    BY <2>1, <1>t DEF Concluded, CandidateStored, RecoverableWhenTold, TimelyAt, VersionsAccepted
  <2> QED BY <2>2, <2>3, <2>4, <2>5 DEF StatusInv
<1>3. CASE KeyStatus
  <2> DEFINE a == Alert("custody", ~custody.up) \cup Alert("rotation", ~ActiveAccepted(custody))
  <2>1. /\ UNCHANGED <<now, wired, custody, store, objects, witnessed>> /\ check.pc = "keys"
        /\ check' = [check EXCEPT !.pc = "store", !.accepted = custody.accepted, !.alerts = a]
    BY <1>3 DEF KeyStatus, worldVars
  <2>2. witnessed.calm => a = {}
    BY <1>o DEF InOrder, Alert
  <2> HIDE DEF a
  <2>3. /\ check' = [pc |-> "store", at |-> check.at, alerts |-> a, accepted |-> custody.accepted,
                     candidate |-> check.candidate]
        /\ check'.pc = "store" /\ check'.alerts = a /\ check'.accepted = custody.accepted
    BY <2>1, <1>b
  <2>4. StatusTypes' /\ WitnessKept'
    BY <2>1, <2>3, <1>t, <1>b, CheckMoves DEF WitnessKept
  <2>5. witnessed.calm =>
          \A n \in DOMAIN objects : Newest(n) => VersionsAccepted(objects[n], custody.accepted)
    BY <1>o, NewestInOrder
  <2>6. CalmSoFar'
    BY <2>1, <2>2, <2>3, <2>5 DEF CalmSoFar, Newest, Listed, VersionsAccepted
  <2>7. Concluded' /\ CandidateStored'
    BY <2>3 DEF Concluded, CandidateStored
  <2> QED BY <2>4, <2>6, <2>7 DEF StatusInv
<1>4. CASE StoreStatus
  <2> DEFINE a == Alert("store", ~store.ready \/ ~store.guarded)
             p == IF store.ready THEN "latest" ELSE "tell"
  <2>1. /\ UNCHANGED <<now, wired, custody, store, objects, witnessed>> /\ check.pc = "store"
        /\ check' = [check EXCEPT !.pc = p, !.alerts = @ \cup a]
    BY <1>4 DEF StoreStatus, worldVars, Goes
  <2>2. /\ witnessed.calm => a = {} /\ p = "latest"
        /\ p \in {"latest", "tell"} /\ (p = "tell" => a # {})
    BY <1>o DEF InOrder, Alert
  <2> HIDE DEF a, p
  <2>3. /\ check' = [pc |-> p, at |-> check.at, alerts |-> check.alerts \cup a,
                     accepted |-> check.accepted, candidate |-> check.candidate]
        /\ check'.pc = p /\ check'.alerts = check.alerts \cup a
        /\ check'.accepted = check.accepted
    BY <2>1, <1>b
  <2>4. StatusTypes' /\ WitnessKept'
    BY <2>1, <2>3, <1>t, <1>b, CheckMoves DEF WitnessKept
  <2>5. CalmSoFar'
    BY <2>1, <2>2, <2>3, <1>t DEF CalmSoFar, Newest, Listed, VersionsAccepted
  <2>6. Concluded' /\ CandidateStored'
    BY <2>1, <2>2, <2>3 DEF Concluded, CandidateStored, RecoverableWhenTold
  <2> QED BY <2>4, <2>5, <2>6 DEF StatusInv
<1>5. CASE Latest
  <2>0. UNCHANGED <<now, wired, custody, store, objects, witnessed>> /\ check.pc = "latest"
    BY <1>5 DEF Latest, worldVars
  <2>1. CASE Listed(objects) = {}
    <3>1. check' = [check EXCEPT !.pc = "tell", !.alerts = @ \cup {"missing"}]
      BY <1>5, <2>1 DEF Latest, Goes
    <3>2. /\ check' = [pc |-> "tell", at |-> check.at, alerts |-> check.alerts \cup {"missing"},
                       accepted |-> check.accepted, candidate |-> check.candidate]
          /\ check'.pc = "tell" /\ check'.alerts # {}
      BY <3>1, <1>b
    <3>3. StatusTypes' /\ WitnessKept'
      BY <2>0, <3>2, <1>t, <1>b, CheckMoves DEF WitnessKept
    <3>4. ~witnessed.calm
      BY <1>o, <2>1 DEF InOrder, SoundAt, Listed
    <3>5. CalmSoFar' /\ Concluded' /\ CandidateStored'
      BY <2>0, <3>2, <3>4 DEF CalmSoFar, Concluded, CandidateStored, RecoverableWhenTold
    <3> QED BY <3>3, <3>5 DEF StatusInv
  <2>2. CASE Listed(objects) # {}
    <3>1. PICK n \in Listed(objects) :
            /\ \A i \in Listed(objects) : i <= n
            /\ check' = [check EXCEPT !.pc = "inspect", !.candidate = n]
      BY <1>5, <2>2 DEF Latest
    <3>2. /\ check' = [pc |-> "inspect", at |-> check.at, alerts |-> check.alerts,
                       accepted |-> check.accepted, candidate |-> n]
          /\ check'.pc = "inspect" /\ check'.alerts = check.alerts /\ check'.candidate = n
          /\ check'.accepted = check.accepted
      BY <3>1, <1>b
    <3>3. StatusTypes' /\ WitnessKept'
      BY <2>0, <3>2, <1>t, <1>b, CheckMoves DEF WitnessKept
    <3>4. CalmSoFar'
      BY <2>0, <3>1, <3>2, <1>t DEF CalmSoFar, Newest, Listed, VersionsAccepted
    <3>5. Concluded' /\ CandidateStored'
      BY <2>0, <3>1, <3>2 DEF Concluded, CandidateStored, Listed
    <3> QED BY <3>3, <3>4, <3>5 DEF StatusInv
  <2> QED BY <2>1, <2>2
<1>6. CASE AdapterFails
  <2>1. /\ UNCHANGED <<now, wired, custody, store, objects>> /\ check.pc # "idle"
        /\ witnessed' = [witnessed EXCEPT !.calm = FALSE]
    BY <1>6 DEF AdapterFails
  <2>2. PICK p, a : /\ p \in {"store", "tell"} /\ a # {}
                   /\ check' = [check EXCEPT !.pc = p, !.alerts = @ \cup a]
    BY <1>6 DEF AdapterFails, Goes
  <2>3. /\ check' = [pc |-> p, at |-> check.at, alerts |-> check.alerts \cup a,
                     accepted |-> check.accepted, candidate |-> check.candidate]
        /\ check'.pc = p /\ check'.alerts # {}
    BY <2>2, <1>b
  <2>4. /\ witnessed'.pairs = witnessed.pairs /\ witnessed'.sound = witnessed.sound
        /\ ~witnessed'.calm /\ witnessed'.calm \in {witnessed.calm, FALSE}
        /\ witnessed' = [pairs |-> witnessed'.pairs, sound |-> witnessed'.sound,
                         calm |-> witnessed'.calm]
    BY <2>1, <1>b
  <2>5. StatusTypes' /\ WitnessKept'
    BY <2>1, <2>3, <2>4, <1>t, CheckMoves DEF WitnessKept
  <2>6. CalmSoFar' /\ Concluded' /\ CandidateStored'
    BY <2>2, <2>3, <2>4 DEF CalmSoFar, Concluded, CandidateStored, RecoverableWhenTold
  <2> QED BY <2>5, <2>6 DEF StatusInv
<1>7. CASE Tell
  <2>1. /\ UNCHANGED <<now, wired, custody, store, objects, witnessed>> /\ check.pc = "tell"
        /\ check' = [check EXCEPT !.pc = "told", !.accepted = {}]
    BY <1>7 DEF Tell, worldVars
  <2>2. /\ check' = [pc |-> "told", at |-> check.at, alerts |-> check.alerts, accepted |-> {},
                     candidate |-> check.candidate]
        /\ check'.pc = "told" /\ check'.at = check.at /\ check'.alerts = check.alerts
        /\ check'.candidate = check.candidate
    BY <2>1, <1>b
  <2>3. StatusTypes' /\ WitnessKept'
    BY <2>1, <2>2, <1>t, <1>b, CheckMoves
  <2>4. CalmSoFar' /\ Concluded' /\ CandidateStored'
    BY <2>1, <2>2, <1>t DEF CalmSoFar, Concluded, CandidateStored, RecoverableWhenTold, TimelyAt,
       VersionsAccepted
  <2> QED BY <2>3, <2>4 DEF StatusInv
<1> QED BY <1>1, <1>2, <1>3, <1>4, <1>5, <1>6, <1>7

LEMMA NextStatusInv == (part = "status" => StatusInv) /\ [Next]_vars
                         => (part = "status" => StatusInv)'
<1> SUFFICES ASSUME part = "status" => StatusInv, [Next]_vars, part' = "status"
             PROVE  StatusInv'
  OBVIOUS
<1>1. CASE UNCHANGED vars
  <2>1. StatusInv /\ UNCHANGED <<now, wired, custody, store, objects, check, witnessed>>
    BY <1>1 DEF vars, statusVars, worldVars
  <2> HIDE DEF StatusInv
  <2>2. StatusTypes'
    BY <2>1 DEF StatusInv, StatusTypes
  <2>3. WitnessKept'
    BY <2>1 DEF StatusInv, WitnessKept, InOrder, TimelyAt, VersionsAccepted, ActiveAccepted,
                Listed, SoundAt
  <2>4. CalmSoFar'
    BY <2>1 DEF StatusInv, CalmSoFar, Newest, Listed, VersionsAccepted
  <2>5. Concluded' /\ CandidateStored'
    BY <2>1 DEF StatusInv, Concluded, CandidateStored, RecoverableWhenTold, TimelyAt,
                VersionsAccepted
  <2> QED BY <2>2, <2>3, <2>4, <2>5 DEF StatusInv
<1>2. CASE Next
  <2>1. StatusInv /\ StatusNext
    BY <1>2 DEF Next
  <2> QED BY <2>1, WorldStep, InspectStep, CheckStep DEF StatusNext
<1> QED BY <1>1, <1>2

(* StatusTold.  Whatever rotates, fails, is dropped or is stored between    *)
(* the four calls of a check, a server that says its backups are in order   *)
(* names one that could be restored, and it says so if all was in order     *)
(* throughout (BackupOperationsMonitor.status).                             *)
THEOREM BackupsToldTruly == Spec => []StatusTold
<1> DEFINE I == (part = "status" => StatusInv) /\ (part # "status" => check.pc = "idle")
<1>1. Init => I
  BY InitStatusInv DEF Init, StatusInit, AtRest
<1>2. I /\ [Next]_vars => I'
  <2> SUFFICES ASSUME I, [Next]_vars PROVE (part # "status" => check.pc = "idle")'
    BY NextStatusInv
  <2>1. part' = part /\ (part # "status" => UNCHANGED check)
    BY DEF Next, vars, statusVars
  <2> QED BY <2>1
<1>3. I => StatusTold
  BY DEF StatusInv, Concluded, StatusTold
<1> QED BY <1>1, <1>2, <1>3, PTL DEF Spec
=============================================================================
