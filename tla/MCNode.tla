------------------------------- MODULE MCNode -------------------------------
(* An authority whose commands are run one after the other, and a daemon   *)
(* that starts seeded or, with --sync, with the built-in state.            *)
EXTENDS Node, TLC

CONSTANTS i1, b1, b2, local, worker, fra, ams, mute

\* With --sync, and without.
BothWays == [sync : BOOLEAN, revocationSync : {TRUE}]

MCTargets ==
  {[kind |-> "peer", peer |-> worker],
   [kind |-> "membership", issued |-> 0],
   [kind |-> "grant", seq |-> 1]}

MCHints == {[peer |-> worker, addresses |-> {[quic |-> TRUE, v6 |-> FALSE]}]}

MCRelayInfo ==
  (fra :> [addresses |-> {[quic |-> TRUE, v6 |-> FALSE]}, mbps |-> 1500,
           classes |-> {"NetworkControl", "InteractiveRpc", "Background"}])
  @@ (ams :> [addresses |-> {[quic |-> TRUE, v6 |-> TRUE]}, mbps |-> 40,
              classes |-> {"Realtime"}])
  @@ (mute :> [addresses |-> {}, mbps |-> 5000, classes |-> {}])

MCOwnMap == [version |-> 1, relays |-> {fra}]

\* The built-in report before its public address was taken into account: ipv6
\* alone, or nothing, is reachable.  The first reprobe leads to udp.
MCStartNetchecks ==
  {[FixtureNetcheck EXCEPT !.udp = FALSE],
   [FixtureNetcheck EXCEPT !.nat = "UdpBlocked", !.udp = FALSE, !.ipv6 = FALSE]}

=============================================================================
