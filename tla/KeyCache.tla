------------------------------ MODULE KeyCache ------------------------------
(***************************************************************************)
(* auth.JwksClient and the verifier that uses it.  A bearer token names    *)
(* the key it is signed with.  The client answers from its cache while     *)
(* that is fresh; otherwise it fetches the provider's key set, with no     *)
(* lock held, and then replaces the cache under the lock.  Several         *)
(* threads may do so at once while the provider rotates its keys.          *)
(*                                                                         *)
(* The provider takes at most FetchTime to answer: an assumption about it, *)
(* since the code's timeout limits each wait on the socket, not the sum.   *)
(***************************************************************************)
EXTENDS Clock, Integers

CONSTANTS Kids, Threads, Subjects,
          CacheTime,     \* how long a fetched key set is used (cache_seconds)
          FetchTime,     \* longest time from an answer to the verdict
          ClockSkew,     \* tolerance for a token's times
          MaxRotations   \* bound: times the provider changes its keys

ASSUME KeyAssumption == {CacheTime, FetchTime, ClockSkew} \subseteq Nat /\ FetchTime <= CacheTime

VARIABLES published,     \* keys the provider publishes now
          lastPublished, \* per key, the last instant it was published
          activeSubjects,\* subjects with an active membership
          cached,        \* [keys, expires] of the client
          verifier,      \* what each thread is doing
          rotations

keyVars == <<published, lastPublished, activeSubjects, cached, verifier, rotations>>

\* Claims: the times are absolute; `nbf` stands for nbf and iat alike.  A
\* token that lasts, one that soon expires, one that is not valid yet.
Tokens == {t \in [kid : Kids, sub : Subjects, nbf : {0, 1}, exp : {1, MaxTime + 1}] :
                t.nbf < t.exp}

Idle == [pc |-> "idle"]

KeyInit ==
    /\ published \in SUBSET Kids \ {{}}
    /\ lastPublished = [k \in Kids |-> IF k \in published THEN 0 ELSE -1]
    /\ activeSubjects = Subjects
    /\ cached = [keys |-> {}, expires |-> 0]
    /\ verifier = [t \in Threads |-> Idle]
    /\ rotations = 0

\* A client that never asks how old its keys are.
CachedOnce(kid) == kid \in cached.keys

Cached(kid) == kid \in cached.keys /\ now < cached.expires

\* The tail of verify: the claims are read after the key is known.
Timely(token) == token.exp > now - ClockSkew /\ token.nbf <= now + ClockSkew

Verdict(token) ==
    IF Timely(token) /\ token.sub \in activeSubjects THEN "accepted" ELSE "refused"

Verify(t, token) ==
    /\ verifier[t].pc = "idle"
    /\ verifier' = [verifier EXCEPT ![t] =
            [pc    |-> IF Cached(token.kid) THEN Verdict(token) ELSE "fetching",
             token |-> token]]
    /\ UNCHANGED <<now, published, lastPublished, activeSubjects, cached, rotations>>

\* The provider answers: what it publishes at this moment is on its way.
Respond(t) ==
    /\ verifier[t].pc = "fetching"
    /\ verifier' = [verifier EXCEPT ![t] =
            [pc |-> "parsing", token |-> @.token, keys |-> published, at |-> now]]
    /\ UNCHANGED <<now, published, lastPublished, activeSubjects, cached, rotations>>

\* refresh: nothing orders this store after that of a fetch begun later.
Store(t) ==
    /\ verifier[t].pc = "parsing"
    /\ cached' = [keys |-> verifier[t].keys, expires |-> now + CacheTime]
    /\ verifier' = [verifier EXCEPT ![t] = [pc |-> "looking", token |-> @.token, at |-> @.at]]
    /\ UNCHANGED <<now, published, lastPublished, activeSubjects, rotations>>

\* Unreachable, too large, malformed, duplicate ids, no usable key.
FailFetch(t) ==
    /\ verifier[t].pc \in {"fetching", "parsing"}
    /\ verifier' = [verifier EXCEPT ![t] = [pc |-> "refused", token |-> @.token]]
    /\ UNCHANGED <<now, published, lastPublished, activeSubjects, cached, rotations>>

\* The second look does not ask whether the cache is still fresh.
Look(t) ==
    /\ verifier[t].pc = "looking"
    /\ verifier' = [verifier EXCEPT ![t] =
            [pc    |-> IF @.token.kid \in cached.keys THEN Verdict(@.token) ELSE "refused",
             token |-> @.token]]
    /\ UNCHANGED <<now, published, lastPublished, activeSubjects, cached, rotations>>

Reply(t) ==
    /\ verifier[t].pc \in {"accepted", "refused"}
    /\ verifier' = [verifier EXCEPT ![t] = Idle]
    /\ UNCHANGED <<now, published, lastPublished, activeSubjects, cached, rotations>>

Rotate(keys) ==
    /\ rotations < MaxRotations /\ keys # published /\ keys # {}
    /\ published' = keys
    /\ lastPublished' = [k \in Kids |-> IF k \in keys THEN now ELSE lastPublished[k]]
    /\ rotations' = rotations + 1
    /\ UNCHANGED <<now, activeSubjects, cached, verifier>>

Enrol(subjects) ==
    /\ rotations < MaxRotations /\ subjects # activeSubjects
    /\ activeSubjects' = subjects
    /\ rotations' = rotations + 1
    /\ UNCHANGED <<now, published, lastPublished, cached, verifier>>

\* A thread with an answer in hand is done with it within FetchTime.
Pause ==
    /\ Pass
    /\ \A t \in Threads :
        verifier[t].pc \in {"parsing", "looking"} => now < verifier[t].at + FetchTime
    /\ lastPublished' = [k \in Kids |-> IF k \in published THEN now' ELSE lastPublished[k]]
    /\ UNCHANGED <<published, activeSubjects, cached, verifier, rotations>>

KeyNext ==
    \/ Pause
    \/ \E keys \in SUBSET Kids : Rotate(keys)
    \/ \E subjects \in SUBSET Subjects : Enrol(subjects)
    \/ \E t \in Threads :
        \/ \E token \in Tokens : Verify(t, token)
        \/ Respond(t) \/ Store(t) \/ FailFetch(t) \/ Look(t) \/ Reply(t)

\* A token is accepted only under a key that the provider still published
\* within the cache time and the time a fetch may take, whichever thread's
\* key set won the cache (auth.JwksClient.key, refresh).
KeysFresh ==
    [][\A t \in Threads :
        verifier'[t].pc = "accepted" /\ verifier[t].pc # "accepted" =>
            LET kid == verifier'[t].token.kid
            IN  lastPublished[kid] >= 0 /\ now - lastPublished[kid] <= CacheTime + FetchTime]_keyVars
=============================================================================
