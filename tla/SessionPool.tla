---------------------------- MODULE SessionPool -----------------------------
(***************************************************************************)
(* What a relay promises its peers, without frames, statuses and tables:   *)
(* a session is admitted under an identifier that nothing has used, while  *)
(* its source is below its quota; it stays open until it is closed, until  *)
(* an attempt takes its identifier, or until the relay loses everything.   *)
(***************************************************************************)
EXTENDS Naturals, FiniteSets

CONSTANTS Ids, Peers, Quotas

VARIABLES
  open,   \* [Peers -> the identifiers of the peer's open sessions]
  used    \* the identifiers that a session or an attempt has used

poolVars == <<open, used>>

Below(p) == p \in DOMAIN Quotas => Cardinality(open[p]) < Quotas[p]

Init == open = [p \in Peers |-> {}] /\ used = {}

\* A session of peer p under identifier id, asked for by an attempt.
Admit(p, id, attempt) ==
  /\ Below(p)
  /\ id \notin used
  /\ open' = [q \in Peers |-> (open[q] \ {attempt}) \cup (IF q = p THEN {id} ELSE {})]
  /\ used' = used \cup {id, attempt}

Close(id) ==
  /\ id \in used
  /\ open' = [q \in Peers |-> open[q] \ {id}]
  /\ used' = used

LoseAll == open' = [p \in Peers |-> {}] /\ used' = {}

Next ==
  \/ \E p \in Peers, id, attempt \in Ids : Admit(p, id, attempt)
  \/ \E id \in Ids : Close(id)
  \/ LoseAll

Spec == Init /\ [][Next]_poolVars

=============================================================================
