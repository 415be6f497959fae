---------------------------- MODULE MCTransport -----------------------------
(* The two threads of the daemon, one session and a relay                  *)
(* that can open three transport sessions before it refuses.               *)
EXTENDS Transport, TLC

CONSTANTS a, b, x, i1, i2, i3, p1, c1, k1, t1, t2

MCIds == {x, i1, i2, i3}
MCAttemptIds == {x}
MCPeers == {a, b}
MCProtocols == {p1}
MCClasses == {c1}
MCDestinations == (b :> {p1})
MCQuotas == (a :> 2)
MCKeys == {k1}
MCTarget == [k \in MCKeys |-> [destination |-> b, protocol |-> p1, class |-> c1]]
MCThreads == {t1, t2}

Symmetry == Permutations({i1, i2, i3}) \cup Permutations(MCThreads)

=============================================================================
