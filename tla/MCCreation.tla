------------------------------ MODULE MCCreation ------------------------------
(* An instance of the creation of envelopes, with one of the limiters that are *)
(* asked first: one quick and one slow, and a map that is full with one bucket.*)
EXTENDS Creation, RateLimit, TLC

CONSTANTS quick, slow

Capacities == quick :> 1 @@ slow :> 2
Refills    == quick :> 3 @@ slow :> 1

\* Arrive takes either answer of a limiter, a limiter any sequence of requests, and
\* they share no state: one of them moves while the other rests.
LimitedInit == Init /\ LimitInit

LimitedNext ==
  \/ LimitInit /\ Next /\ UNCHANGED limitVars
  \/ Init /\ LimitNext /\ UNCHANGED vars

LimitedSpec ==
  /\ LimitedInit /\ [][LimitedNext]_<<vars, limitVars>>
  /\ \A r \in Requests : WF_vars(Step(r))
  /\ \A k \in Keys : WF_vars(Prune(k))
===============================================================================
