------------------------------ MODULE MCEnvelope ------------------------------
(* Instances of the signing core for TLC. *)
EXTENDS EnvelopeSystem, TLC

CONSTANTS alice, bob, carol

\* alice before bob; one after the other; alice and bob before carol.
AliceFirst == alice :> 1 @@ bob :> 2
OneByOne   == alice :> 1 @@ bob :> 2 @@ carol :> 3
TwoThenOne == alice :> 1 @@ bob :> 1 @@ carol :> 2

OneName     == 1 :> "contract.pdf"
TwoNames    == 1 :> "contract.pdf" @@ 2 :> "annex.pdf"
AllOwn      == 1 :> Recipients
\* the second document holds no field of alice
BobsAnnex   == 1 :> Recipients @@ 2 :> {bob}

\* Slots are interchangeable.
SlotSymmetry == Permutations(Slots)
===============================================================================
