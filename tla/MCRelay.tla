------------------------------ MODULE MCRelay -------------------------------
(* Two peers, one with a quota; four identifiers, two of which may also    *)
(* be drawn as identifiers of attempts.                                    *)
EXTENDS Relay, TLC

CONSTANTS a, b, i1, i2, i3, i4, p1, c1, c2

MCIds == {i1, i2, i3, i4}
MCAttemptIds == {i1, i2}
MCPeers == {a, b}
MCProtocols == {p1}
MCClasses == {c1, c2}
MCSupportedClasses == {c1}
MCDestinations == (b :> {p1})
MCQuotas == (a :> 2)

=============================================================================
