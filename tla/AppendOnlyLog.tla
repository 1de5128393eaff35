---------------------------- MODULE AppendOnlyLog ----------------------------
(***************************************************************************)
(* What an audit trail promises: entries are numbered from 1 without gaps, *)
(* new ones are added behind the last one, several at once if one          *)
(* transaction writes several, and no entry ever changes or disappears.    *)
(***************************************************************************)
EXTENDS Naturals

VARIABLE log   \* the entries, by number

Gapless(S) == \A n \in S : n = 1 \/ n - 1 \in S

Init == DOMAIN log = {}

Extend ==
  /\ Gapless(DOMAIN log')
  /\ \A n \in DOMAIN log : n \in DOMAIN log' /\ log'[n] = log[n]

Spec == Init /\ [][Extend]_log
=============================================================================
