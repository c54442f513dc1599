-------------------------- MODULE PublishingDomain --------------------------
(***************************************************************************)
(* What the outbox and the idempotency table have in common: handoffs, the *)
(* request hashes of their payloads, and the instants of a bounded clock.  *)
(***************************************************************************)
EXTENDS Integers, FiniteSets

CONSTANTS
  Handoffs,     \* handoff identifiers; each names one target
  NoHandoff,    \* the handoff of a process that works on none
  Hashes,       \* request hashes of payloads
  NoHash,       \* the hash of a row that does not exist
  Horizon       \* the last instant of the clock

ASSUME DomainConstants ==
  /\ NoHandoff \notin Handoffs
  /\ NoHash \notin Hashes
  /\ Horizon \in Nat

Times == 0..Horizon

=============================================================================
