----------------------------- MODULE MCAuditChain -----------------------------
(* Instances of the audit chain for TLC. *)
EXTENDS AuditChain, TLC

CONSTANTS signed, declined, declinedNoReason

\* A decline without a reason logs metadata {recipientId, reason: undefined}.
JsonColumn == signed :> signed @@ declined :> declined
                @@ declinedNoReason :> declined

SlotSymmetry == Permutations(Slots)
===============================================================================
