------------------------------- MODULE Templates -------------------------------
(***************************************************************************)
(* Templates of one user: POST and DELETE of /api/v1/templates, envelopes  *)
(* created from a template or from the same contents inline, and the ink   *)
(* that the fields of an envelope leave on the sealed file.                *)
(***************************************************************************)
EXTENDS Placement, FiniteSets, SequencesExt

CONSTANTS
  TemplateSlots, EnvelopeSlots,  \* rows that there may come to be
  Pdf,         \* what the files hold: pages, texts, whether sizes can be read
  Shares,      \* per cents of its box's height that a signature may be drawn in
  NoAnchor     \* a field without anchor

\* Pages have an extent.
ASSUME PdfAssumption ==
  \A file \in DOMAIN Pdf :
    Pdf[file].pages \in Seq([w : Nat \ {0}, h : Nat \ {0}, rotation : Int])

ASSUME SharesAssumption == Shares \subseteq 1..100

VARIABLES
  template,    \* Template rows
  envelope     \* envelopes, with the fields and the ink they have so far

NoEnvelope ==
  [stage |-> "none", by |-> "none", source |-> "none", docs |-> <<>>,
   people |-> <<>>, fields |-> {}, ink |-> {}]

NoTemplate ==
  [stage |-> "free", source |-> "none", docs |-> {}, roles |-> {}, fields |-> {}]

Rows == {t \in TemplateSlots : template[t].stage = "kept"}

TemplatesInit ==
  /\ template = [t \in TemplateSlots |-> NoTemplate]
  /\ envelope = [e \in EnvelopeSlots |-> NoEnvelope]

-----------------------------------------------------------------------------
\* The body of a POST: schema and references.
ValidBody(p) ==
  /\ p.docs # <<>> /\ p.roles # <<>>
  /\ \A f \in p.fields : f.role \in DOMAIN p.roles /\ f.document \in DOMAIN p.docs
  /\ \A f \in p.fields : f.page >= 1

Default(f) ==
  [f EXCEPT !.w = IF @ = 0 THEN 3000 ELSE @, !.h = IF @ = 0 THEN 500 ELSE @]

\* Rows of three tables; only order tells what came first.
NewTemplate(p, source) ==
  [stage  |-> "kept",
   source |-> source,
   docs   |-> {[id |-> <<"document", i>>, order |-> i, file |-> p.docs[i]] :
                 i \in DOMAIN p.docs},
   roles  |-> {[id |-> <<"role", i>>, order |-> i, name |-> p.roles[i].name,
                routing |-> p.roles[i].routing, type |-> p.roles[i].type] :
                 i \in DOMAIN p.roles},
   fields |-> {[row |-> Default(f), document |-> <<"document", f.document>>,
                role |-> <<"role", f.role>>] : f \in p.fields}]

PostTemplate(t, p, source) ==
  /\ template[t].stage = "free"
  /\ ValidBody(p)
  /\ template' = [template EXCEPT ![t] = NewTemplate(p, source)]

\* The rows go, the files in the bucket stay.
DeleteTemplate(t) ==
  /\ t \in Rows
  /\ template' = [template EXCEPT ![t] = [NoTemplate EXCEPT !.stage = "deleted"]]
  /\ UNCHANGED envelope

-----------------------------------------------------------------------------
\* The k-th of the rows is the one with k rows up to it.
InOrder(rows) ==
  [k \in 1..Cardinality(rows) |->
     CHOOSE r \in rows : Cardinality({q \in rows : q.order <= r.order}) = k]

IndexOf(id, rows) == CHOOSE i \in DOMAIN rows : rows[i].id = id

\* resolveTemplateToEnvelopeInput, if every role name is assigned: role names
\* stand for the people they are assigned to.
Resolve(row) ==
  LET documents == InOrder(row.docs)
      roles     == row.roles
      sorted    == InOrder(roles)
  IN  [docs   |-> [i \in DOMAIN documents |-> documents[i].file],
       people |-> [i \in DOMAIN sorted |->
                     [who |-> sorted[i].name, role |-> sorted[i].type,
                      routing |-> sorted[i].routing]],
       fields |-> {[f.row EXCEPT !.document = IndexOf(f.document, documents),
                                 !.role = IndexOf(f.role, sorted)] :
                     f \in row.fields}]

\* POST /envelopes reads and resolves the template.
LoadTemplate(e, t) ==
  /\ envelope[e].stage = "none"
  /\ t \in Rows
  /\ LET input == Resolve(template[t])
     IN  envelope' = [envelope EXCEPT ![e] =
           [stage |-> "loaded", by |-> "template", source |-> template[t].source,
            docs |-> input.docs, people |-> input.people,
            fields |-> input.fields, ink |-> {}]]
  /\ UNCHANGED template

\* Its rows are written from what was read, whatever happened to the template.
CommitEnvelope(e) ==
  /\ envelope[e].stage = "loaded"
  /\ envelope' = [envelope EXCEPT ![e].stage = "created"]
  /\ UNCHANGED template

InRange(f, pdf) == OnPage(f, pdf) /\ f.x \in 0..Full /\ f.y \in 0..Full

Resolved(f, pdf) == IF f.anchor = NoAnchor THEN f ELSE AnchorPlace(f, pdf)

\* The same contents without a template: refused if an anchor is not found or a
\* field is off its page.
CreateInline(e, p, source) ==
  LET file(f) == Pdf[p.docs[f.document]]
      fields  == {Default(Resolved(f, file(f))) : f \in p.fields}
  IN  /\ envelope[e].stage = "none"
      /\ ValidBody(p)
      /\ \A f \in p.fields :
           f.anchor # NoAnchor => Occurrences(f.anchor, file(f)) # {}
      /\ \A f \in fields : InRange(f, file(f))
      /\ envelope' = [envelope EXCEPT ![e] =
           [stage |-> "created", by |-> "inline", source |-> source,
            docs |-> p.docs,
            people |-> [i \in DOMAIN p.roles |->
                          [who |-> p.roles[i].name, role |-> p.roles[i].type,
                           routing |-> p.roles[i].routing]],
            fields |-> fields, ink |-> {}]]
      /\ UNCHANGED template

-----------------------------------------------------------------------------
\* Everybody has signed: required fields hold a value, others may.  The page shows
\* no field that is not on a page, so a required one there cannot be filled.  What
\* it puts on a signature is always a picture, as wide as its ink.
SealEnvelope(e) ==
  LET file(f)  == Pdf[envelope[e].docs[f.document]]
      required == {f \in envelope[e].fields : f.required}
      shown    == {f \in envelope[e].fields : OnPage(f, file(f))}
  IN  /\ envelope[e].stage = "created"
      /\ required \subseteq shown
      /\ \E filled \in SUBSET shown :
         \E share \in [{f \in filled : f.type \in Pictures} -> Shares] :
           /\ required \subseteq filled
           /\ envelope' = [envelope EXCEPT
                ![e].stage = "sealed",
                ![e].ink = {[field |-> f, box |-> Drawn(f, file(f), share[f]),
                             who |-> envelope[e].people[f.role].who] :
                              f \in filled}]
      /\ UNCHANGED template
=================================================================================
