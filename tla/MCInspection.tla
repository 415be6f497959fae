---------------------------- MODULE MCInspection ----------------------------
(* The two threads of the daemon, with reports, one target and an          *)
(* authority that publishes twice.                                         *)
EXTENDS Inspection, TLC

CONSTANTS a, b, x, i1, i2, p1, c1, k1, cycle, control

MCDestinations == (b :> {p1})
MCQuotas == (a :> 1)
MCTarget == (k1 :> [destination |-> b, protocol |-> p1, class |-> c1])
MCCauses == {"OperatorRequested", "PolicyRejected", "PathExhaustion", "LocalRuntimeFailure"}
MCCallerStates == {"Active", "Degraded", "Migrating", "Reconciling", "Closing", "Failed"}

\* Versions: allowed along udp; no route; the node itself denied, while the
\* target is allowed through the relay.
MCAllowing == {0, 1, 2}
MCRouteOf == (0 :> "udp" @@ 1 :> NoRoute @@ 2 :> "relay")

=============================================================================
