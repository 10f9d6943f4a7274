---------------------------- MODULE ConnectionGate ----------------------------
(***************************************************************************)
(* What the registry of external connections promises to whoever revokes   *)
(* one: once the revocation is done nobody uses the connection, and nobody *)
(* ever will.  A revocation therefore waits for the uses in flight.        *)
(***************************************************************************)
CONSTANTS Conns, Users

VARIABLES
  status,  \* of each connection
  using    \* who is using which connection

gateVars == <<status, using>>

Init == status = [k \in Conns |-> "none"] /\ using = {}

Register(k) ==
  /\ status[k] = "none"
  /\ status' = [status EXCEPT ![k] = "active"]
  /\ UNCHANGED using

Start(u, k) ==
  /\ status[k] = "active"
  /\ using' = using \cup {<<u, k>>}
  /\ UNCHANGED status

Stop(u, k) ==
  /\ <<u, k>> \in using
  /\ using' = using \ {<<u, k>>}
  /\ UNCHANGED status

Revoke(k) ==
  /\ status[k] = "active"
  /\ \A u \in Users : <<u, k>> \notin using
  /\ status' = [status EXCEPT ![k] = "revoked"]
  /\ UNCHANGED using

(* All users are gone at once. *)
Abandon == using' = {} /\ UNCHANGED status

Next ==
  \/ \E k \in Conns : Register(k) \/ Revoke(k)
  \/ \E u \in Users, k \in Conns : Start(u, k) \/ Stop(u, k)
  \/ Abandon

Gate == Init /\ [][Next]_gateVars
==============================================================================
