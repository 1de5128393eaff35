------------------------------ MODULE MCEvidence ------------------------------
(* The instance of Evidence for TLC: the events, which the column keeps, and  *)
(* the symmetry of the documents' names, which are only compared.             *)
EXTENDS Evidence, TLC

Events == {"DOCUMENT_VIEWED", "ENVELOPE_COMPLETED", "EMAIL_SENT",
           "EMAIL_BOUNCED"} \X Slots

Kept == [e \in Events |-> e]

Renamed == Permutations(FileNames)
===============================================================================
