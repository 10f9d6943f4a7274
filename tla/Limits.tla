------------------------------- MODULE Limits -------------------------------
(***************************************************************************)
(* The two limiters of resource_limits.py, of which server.py keeps its    *)
(* own copies: fixed rate windows counted per dimension, and concurrency   *)
(* slots counted per key.  Both run under one lock and never block, so a   *)
(* call of theirs is one step, and this module only defines what a step    *)
(* does to a table.                                                        *)
(*                                                                         *)
(* A rate table maps <<dimension, value>> to the window it is counted in;  *)
(* a limiter with a single key is one with a single dimension.             *)
(***************************************************************************)
EXTENDS Integers, FiniteSets, Functions

CONSTANTS RateLimit,     \* requests that one window lets pass
          RateWindow,    \* length of a window
          RateKeys,      \* windows a table keeps for one dimension
          SlotLimit,     \* requests that may run at once
          SlotsPerKey,   \* ... for one key
          SlotKeys       \* keys that may have requests running

ASSUME LimitsAssumption ==
    {RateLimit, RateWindow, RateKeys, SlotLimit, SlotsPerKey, SlotKeys} \subseteq Nat \ {0}

NoWindows == [d \in {} |-> [start |-> 0, count |-> 0]]

Unexpired(table, at) ==
    Restrict(table, {d \in DOMAIN table : at - table[d].start < RateWindow})

KeptFor(table, name) == {d \in DOMAIN table : d[1] = name}

HasRoom(table, d) ==
    IF d \in DOMAIN table THEN table[d].count < RateLimit
                          ELSE Cardinality(KeptFor(table, d[1])) < RateKeys

\* Every dimension is looked at before any of them is charged.
Allows(table, asked, at) ==
    /\ asked # {}
    /\ \A d \in asked : HasRoom(Unexpired(table, at), d)

Charged(table, asked, at) ==
    LET live == Unexpired(table, at)
    IN  [d \in DOMAIN live \cup asked |->
            IF d \notin DOMAIN live THEN [start |-> at, count |-> 1]
            ELSE IF d \in asked THEN [live[d] EXCEPT !.count = @ + 1] ELSE live[d]]

\* A limiter that charges a dimension before it has looked at the next.
AskedInTurn(table, asked, at) ==
    Charged(table, {d \in asked : HasRoom(Unexpired(table, at), d)}, at)

\* The table after a request has asked, whatever the answer was.
Asked(table, asked, at) ==
    IF Allows(table, asked, at) THEN Charged(table, asked, at) ELSE Unexpired(table, at)

NoSlots == [active |-> [k \in {} |-> 0], total |-> 0]

Running(slots, key) == IF key \in DOMAIN slots.active THEN slots.active[key] ELSE 0

FreeSlot(slots, key) ==
    /\ slots.total < SlotLimit
    /\ Running(slots, key) < SlotsPerKey
    /\ Running(slots, key) = 0 => Cardinality(DOMAIN slots.active) < SlotKeys

Taken(slots, key) ==
    [active |-> [k \in DOMAIN slots.active \cup {key} |->
                    Running(slots, k) + (IF k = key THEN 1 ELSE 0)],
     total  |-> slots.total + 1]

\* A limiter that forgets the total when a key's last request ends.
ReleasedOfKey(slots, key) ==
    IF Running(slots, key) > 1 THEN [slots EXCEPT !.active[key] = @ - 1, !.total = @ - 1]
    ELSE [slots EXCEPT !.active = Restrict(@, DOMAIN @ \ {key})]

Released(slots, key) ==
    CASE Running(slots, key) = 0 -> slots
      [] Running(slots, key) = 1 ->
            [active |-> Restrict(slots.active, DOMAIN slots.active \ {key}),
             total  |-> slots.total - 1]
      [] OTHER -> [slots EXCEPT !.active[key] = @ - 1, !.total = @ - 1]
=============================================================================
