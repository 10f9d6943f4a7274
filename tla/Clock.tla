------------------------------- MODULE Clock --------------------------------
(***************************************************************************)
(* The clock the parts of the gateway read.  The processes of a deployment *)
(* that talk to each other run on one machine (server.run_http insists on  *)
(* a local /mcp endpoint), so one clock stands for time.time() and for     *)
(* time.monotonic().                                                       *)
(***************************************************************************)
EXTENDS Naturals

CONSTANT MaxTime   \* bound: where the clock stops
VARIABLE now

Pass == now < MaxTime /\ now' = now + 1
=============================================================================
