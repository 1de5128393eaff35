---------------------------- MODULE MCDocuSignImport ----------------------------
(* A DocuSign account with three templates, for TLC. *)
EXTENDS DocuSignImport, TLC

Portrait == [w |-> 612, h |-> 792, rotation |-> 0]
Sideways == [w |-> 612, h |-> 792, rotation |-> 90]

\* "contract" says "Signature:" on both pages; the sizes of "scan" are unreadable.
Files ==
  "contract" :> [readable |-> TRUE, pages |-> <<Portrait, Portrait>>,
                 texts |-> <<[text |-> "Signature:", page |-> 1, x |-> 72, y |-> 90],
                             [text |-> "Signature:", page |-> 2, x |-> 72, y |-> 90]>>]
  @@ "annex" :> [readable |-> TRUE, pages |-> <<Sideways>>, texts |-> <<>>]
  @@ "scan"  :> [readable |-> FALSE, pages |-> <<Portrait>>, texts |-> <<>>]

Tab(type, doc, page, x, y, required) ==
  [type |-> type, doc |-> doc, page |-> page, x |-> x, y |-> y, w |-> 100,
   h |-> 40, anchor |-> NoAnchor, required |-> required]

Anchored(type, doc, anchor) ==
  [type |-> type, doc |-> doc, page |-> 1, x |-> 0, y |-> 0, w |-> 0, h |-> 0,
   anchor |-> anchor, required |-> TRUE]

\* The second signer comes first; both documents; a tab that is dropped, one of
\* an unknown document and one of no document, which reaches below its page.
Lease ==
  [docs    |-> <<[id |-> "d1", file |-> "contract"], [id |-> "d2", file |-> "annex"]>>,
   signers |-> <<[role |-> "tenant", routing |-> 2,
                  tabs |-> <<Tab("SIGNATURE", "d1", 2, 100, 700, TRUE),
                             Tab("email", "d1", 1, 301, 55, FALSE),
                             Tab("formula", "d1", 1, 10, 10, TRUE)>>],
                 [role |-> "landlord", routing |-> 1,
                  tabs |-> <<Tab("SIGNATURE", NoDocument, 2, 400, 770, TRUE),
                             Tab("DATE", "d2", 1, 50, 60, TRUE),
                             Tab("DATE", "d9", 1, 50, 60, TRUE)>>]>>,
   ccs     |-> <<[role |-> "agent", routing |-> 3]>>]

\* Placed by the text next to it.
Offer ==
  [docs    |-> <<[id |-> "d1", file |-> "contract"], [id |-> "d2", file |-> "scan"]>>,
   signers |-> <<[role |-> "buyer", routing |-> 1,
                  tabs |-> <<Anchored("SIGNATURE", "d1", "Signature:"),
                             Tab("INITIALS", "d1", 1, 500, 745, TRUE),
                             Tab("TEXT", "d2", 1, 100, 100, TRUE)>>]>>,
   ccs     |-> <<>>]

\* Nobody to sign, or a field behind the last page.
Notice ==
  [docs |-> <<[id |-> "d1", file |-> "annex"]>>, signers |-> <<>>, ccs |-> <<>>]

Misplaced ==
  [docs    |-> <<[id |-> "d1", file |-> "contract"]>>,
   signers |-> <<[role |-> "owner", routing |-> 1,
                  tabs |-> <<Tab("SIGNATURE", "d1", 1, 612, 0, TRUE),
                             Tab("TEXT", "d1", 3, 5, 5, FALSE)>>]>>,
   ccs     |-> <<>>]

Details == "lease" :> Lease @@ "offer" :> Offer @@ "notice" :> Notice
           @@ "misplaced" :> Misplaced

AnyAccount == {<<>>, <<"lease", "offer">>, <<"misplaced", "notice", "lease">>}

AllOrTwo == {{}, {"lease", "notice"}}
=================================================================================
