---------------------------- MODULE RelayRuntime ----------------------------
(***************************************************************************)
(* The session table of a relay (crates/relay): what RelayService decides  *)
(* about an open request and what each RelayFrame does to the table.  The  *)
(* operators take the table as an argument, so that the relay process      *)
(* (module Relay) and the daemon that calls it over HTTP (module           *)
(* Transport) use the same ones.                                           *)
(***************************************************************************)
EXTENDS Naturals, FiniteSets

CONSTANTS
  Ids,              \* 16-byte identifiers: session ids and attempt ids share them
  AttemptIds,       \* the ones a client draws for its attempts
  Peers,
  Protocols,
  NoProtocol,       \* a request that negotiates no protocol
  Classes,          \* traffic classes
  SupportedClasses, \* the classes named by the relay's announcement
  Destinations,     \* [a set of peers -> the protocols the relay forwards to them]
  Quotas,           \* [a set of peers -> max_concurrent_sessions]
  NoSession         \* no entry in the table

ASSUME RelayAssumption ==
  /\ AttemptIds \subseteq Ids
  /\ IsFiniteSet(Ids)
  /\ NoProtocol \notin Protocols
  /\ SupportedClasses \subseteq Classes
  /\ DOMAIN Destinations \subseteq Peers
  /\ \A d \in DOMAIN Destinations : Destinations[d] \subseteq Protocols
  /\ DOMAIN Quotas \subseteq Peers
  /\ \A p \in DOMAIN Quotas : Quotas[p] \in Nat

(* A RelayOpenRequest.  `proof' stands for the source's public key, its    *)
(* signed credential, the credential's network, expiry and protocols.      *)
Requests ==
  [attempt     : AttemptIds,
   source      : Peers,
   destination : Peers,
   protocol    : Protocols \cup {NoProtocol},
   class       : Classes,
   proof       : BOOLEAN]

RelaySessions ==
  [source      : Peers,
   destination : Peers,
   status      : {"Pending", "Open", "Closed"}]

ASSUME NoSessionAssumption == NoSession \notin RelaySessions

Tables == [Ids -> RelaySessions \cup {NoSession}]

EmptyTable == [id \in Ids |-> NoSession]

HasStatus(table, id, status) ==
  /\ table[id] # NoSession
  /\ table[id].status = status

OpenIds(table) == {id \in Ids : HasStatus(table, id, "Open")}

OpenOf(table, peer) == {id \in OpenIds(table) : table[id].source = peer}

-----------------------------------------------------------------------------
(* What open_session checks, in the order it checks.                       *)

VerifyOpenRequest(req) == req.proof

SupportsTrafficClass(req) == req.class \in SupportedClasses

KnownDestination(req) == req.destination \in DOMAIN Destinations

AuthorizedProtocol(req) ==
  req.protocol # NoProtocol => req.protocol \in Destinations[req.destination]

\* A mutant: the comparison lets one session too many through.
QuotaOffByOne(table, req) ==
  req.source \in DOMAIN Quotas =>
    Cardinality(OpenOf(table, req.source)) <= Quotas[req.source]

WithinQuota(table, req) ==
  req.source \in DOMAIN Quotas =>
    Cardinality(OpenOf(table, req.source)) < Quotas[req.source]

\* The code of the refusal, or "Accepted".  `id' is the identifier the relay
\* draws once the other checks have passed.
OpenOutcome(table, req, id) ==
  IF ~ VerifyOpenRequest(req) THEN "InvalidIdentityProof"
  ELSE IF ~ SupportsTrafficClass(req) THEN "UnsupportedTrafficClass"
  ELSE IF ~ KnownDestination(req) THEN "DestinationUnauthorized"
  ELSE IF ~ AuthorizedProtocol(req) THEN "DestinationProtocolRejected"
  ELSE IF ~ WithinQuota(table, req) THEN "CapacityExceeded"
  ELSE IF table[id] # NoSession THEN "SessionExists"
  ELSE "Accepted"

-----------------------------------------------------------------------------
(* RelayRuntime::apply_frame.                                              *)

Entry(req, status) ==
  [source |-> req.source, destination |-> req.destination, status |-> status]

\* RelayFrame::OpenSession: the pending entry is keyed by the attempt and
\* replaces whatever is stored under that key.
FrameOpenSession(table, req) ==
  [table EXCEPT ![req.attempt] = Entry(req, "Pending")]

\* RelayFrame::SessionAccepted.
FrameSessionAccepted(table, req, id) ==
  [table EXCEPT ![id] = Entry(req, "Open")]

\* RelayFrame::Close.
FrameClose(table, id) ==
  IF table[id] = NoSession
  THEN table
  ELSE [table EXCEPT ![id].status = "Closed"]

-----------------------------------------------------------------------------
(* RelayService::open_session (once accepted) and close_session.           *)

OpenSession(table, req, id) ==
  FrameSessionAccepted(FrameOpenSession(table, req), req, id)

CloseKnown(table, id) == table[id] # NoSession

CloseSession(table, id) == FrameClose(table, id)

=============================================================================
