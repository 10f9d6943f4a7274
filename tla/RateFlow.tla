------------------------------ MODULE RateFlow ------------------------------
(***************************************************************************)
(* A rate limiter and what it lets through.  Requests come from any tenant *)
(* over any address at any time; the table is small enough to be full.     *)
(* `passed` counts, per dimension, the requests let through by an instant. *)
(***************************************************************************)
EXTENDS Limits, Clock

CONSTANTS Tenants, Addresses,
          FlowTime       \* bound: where the clock stops

ASSUME FlowAssumption == FlowTime \in Nat

VARIABLES table, passed

flowVars == <<table, passed>>

Dimensions == ({"tenant"} \X Tenants) \cup ({"ip"} \X Addresses)

FlowInit ==
    /\ table = NoWindows
    /\ passed = [d \in Dimensions |-> [t \in 0..FlowTime |-> 0]]

Request(tenant, ip) ==
    LET asked == {<<"tenant", tenant>>, <<"ip", ip>>}
    IN  /\ table' = Asked(table, asked, now)
        /\ passed' = IF Allows(table, asked, now)
                     THEN [d \in Dimensions |-> [t \in 0..FlowTime |->
                             passed[d][t] + (IF d \in asked /\ t >= now THEN 1 ELSE 0)]]
                     ELSE passed
        /\ UNCHANGED now

Elapse == now < FlowTime /\ Pass /\ UNCHANGED flowVars

FlowNext == Elapse \/ \E tenant \in Tenants, ip \in Addresses : Request(tenant, ip)

PassedIn(d, from, to) == passed[d][to] - (IF from = 0 THEN 0 ELSE passed[d][from - 1])

\* Over any stretch as long as a window, however it lies across the windows,
\* a tenant or address gets less than twice its limit through.
FlowBounded ==
    \A d \in Dimensions, t \in 0..FlowTime :
        t + RateWindow - 1 <= FlowTime =>
            PassedIn(d, t, t + RateWindow - 1) < 2 * RateLimit

\* A window counts exactly the requests let through since it opened: a
\* request that another dimension refused is charged to nobody.
OnlyPassedCounted ==
    \A d \in DOMAIN table : table[d].count = PassedIn(d, table[d].start, now)

\* What a rate limiter owes a caller that shares a dimension with others:
\* never more than the limiter promised, and nothing paid for a refusal
\* (resource_limits.DimensionRateLimiter.allow).
RatesHold == FlowBounded /\ OnlyPassedCounted
=============================================================================
