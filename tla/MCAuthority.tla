---------------------------- MODULE MCAuthority -----------------------------
(* One daemon, and an authority whose commands two issuers run.            *)
EXTENDS Authority, TLC

CONSTANTS i1, i2, b1, b2, p, q, r1

TwoIssuers == {i1, i2}

\* With --sync, and without.
BothWays == [sync : BOOLEAN, revocationSync : {TRUE}]
CursorOnly == [sync : {FALSE}, revocationSync : {TRUE}]

NoMap == [version |-> 0, relays |-> {}]

=============================================================================
