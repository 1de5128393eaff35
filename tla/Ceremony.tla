------------------------------- MODULE Ceremony -------------------------------
(***************************************************************************)
(* What the signing core promises however its requests interleave, fail or *)
(* repeat: a recipient consents only once the envelope has been sent,      *)
(* signs only after consenting, the envelope completes only when every     *)
(* signer has signed, and none of this is ever taken back.                 *)
(***************************************************************************)
CONSTANTS Recipients, Signers

VARIABLES sent, consented, signed, completed

vars == <<sent, consented, signed, completed>>

Init == sent = FALSE /\ consented = {} /\ signed = {} /\ completed = FALSE

Send ==
  /\ sent' = TRUE
  /\ UNCHANGED <<consented, signed, completed>>

Consent(r) ==
  /\ sent
  /\ consented' = consented \cup {r}
  /\ UNCHANGED <<sent, signed, completed>>

Sign(r) ==
  /\ r \in consented
  /\ signed' = signed \cup {r}
  /\ UNCHANGED <<sent, consented, completed>>

Complete ==
  /\ Signers \subseteq signed
  /\ completed' = TRUE
  /\ UNCHANGED <<sent, consented, signed>>

Next == Send \/ Complete \/ \E r \in Recipients : Consent(r) \/ Sign(r)

Spec == Init /\ [][Next]_vars
===============================================================================
