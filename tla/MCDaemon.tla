------------------------------ MODULE MCDaemon ------------------------------
(* The two threads of the daemon, one target, and an authority whose facts *)
(* change the target's route or whether it is allowed.                     *)
EXTENDS Daemon, TLC

CONSTANTS a, b, x, i1, i2, p1, c1, k1, cycle, control

MCDestinations == (b :> {p1})
MCQuotas == (a :> 1)
MCTarget == (k1 :> [destination |-> b, protocol |-> p1, class |-> c1])
MCCauses == {"OperatorRequested", "PolicyRejected", "PathExhaustion", "LocalRuntimeFailure"}
MCCallerStates == {"Active", "Degraded", "Migrating", "Reconciling", "Closing", "Failed"}

\* Versions: allowed along udp; denied; allowed along lan.
AllowingAgain == {0, 2}
RouteOfAgain == (0 :> "udp" @@ 1 :> "udp" @@ 2 :> "lan")

\* Versions: allowed along udp; allowed through the relay; the target denied
\* and the listener's protocol not granted; the node itself denied, while the
\* target is allowed along lan.
AllowingFour == {0, 1, 3}
GrantingFour == {0, 1, 3}
RouteOfFour == (0 :> "udp" @@ 1 :> "relay" @@ 2 :> "lan" @@ 3 :> "lan")

=============================================================================
