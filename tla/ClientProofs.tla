----------------------------- MODULE ClientProofs -----------------------------
(***************************************************************************)
(* What the programs beside the API promise, for any number of rows, keys  *)
(* and calls: nothing live is emailed unasked, a repeated create makes one *)
(* envelope, and a list read page by page misses no row and repeats none.  *)
(* The import from DocuSign reports what it did, and ink is where tabs     *)
(* were, for any account, templates and files.                             *)
(***************************************************************************)
EXTENDS Clients, DocuSignImport, FiniteSetTheorems, WellFoundedInduction, TLAPS

-----------------------------------------------------------------------------
\* Lists: the order of rows, and what a page of them holds.

RowTypes ==
  /\ state \in [Ids -> Statuses \cup {"none", "TEMPLATE", "DELETED"}]
  /\ mode \in [Ids -> {"TEST", "LIVE"}]
  /\ at \in [Ids -> Nat]
  /\ under \in [IdemKeys -> SUBSET Ids]
  /\ DOMAIN bound = IdemKeys

LEMMA LeastOf ==
  ASSUME NEW T, T \subseteq Nat, T # {}
  PROVE  \E n \in T : \A m \in T : n <= m
<1>1. IsWellFoundedOn(OpToRel(<, Nat), Nat)
  BY NatLessThanWellFounded
<1>2. PICK n \in T : \A m \in T : ~(<<m, n>> \in OpToRel(<, Nat))
  BY <1>1, WFMin
<1>3. \A m \in T : ~(m < n)
  BY <1>2 DEF OpToRel
<1> QED
  BY <1>3

\* Of any two rows one is newer, even if they were made in the same millisecond.
LEMMA NewerIsOrder ==
  ASSUME RowTypes, NEW i \in Ids, NEW j \in Ids, NEW k \in Ids
  PROVE  /\ ~Newer(i, i)
         /\ i = j \/ Newer(i, j) \/ Newer(j, i)
         /\ Newer(i, j) /\ Newer(j, k) => Newer(i, k)
         /\ Past(<<at[i], i>>, j) <=> Newer(i, j)
<1>1. at[i] \in Nat /\ at[j] \in Nat /\ at[k] \in Nat
  BY DEF RowTypes
<1>2. i \in Nat /\ j \in Nat /\ k \in Nat
  BY ApiAssumption
<1>3. <<at[i], i>> # <<>>
  OBVIOUS
<1> QED
  BY <1>1, <1>2, <1>3 DEF Newer, Past

LEMMA OldestOf ==
  ASSUME RowTypes, NEW S, S \subseteq Ids, S # {}
  PROVE  \E l \in S : \A j \in S : l = j \/ Newer(j, l)
<1> DEFINE times == {at[i] : i \in S}
<1>1. times \subseteq Nat /\ times # {}
  BY DEF RowTypes
<1>2. PICK t \in times : \A u \in times : t <= u
  BY <1>1, LeastOf
<1> DEFINE first == {i \in S : at[i] = t}
<1>3. first \subseteq Nat /\ first # {}
  BY <1>2, ApiAssumption
<1>4. PICK l \in first : \A j \in first : l <= j
  BY <1>3, LeastOf
<1>5. ASSUME NEW j \in S PROVE l = j \/ Newer(j, l)
  <2>1. at[l] = t /\ at[j] \in Nat /\ t \in Nat /\ t <= at[j]
    BY <1>1, <1>2
  <2>2. j \in Nat /\ l \in Nat
    BY ApiAssumption
  <2>3. at[j] = t => l <= j
    BY <1>4
  <2> QED
    BY <2>1, <2>2, <2>3 DEF Newer
<1> QED
  BY <1>5

LEMMA PageIs ==
  ASSUME RowTypes, NEW found, found \subseteq Ids, NEW limit \in Nat \ {0}
  PROVE  \E data \in SUBSET found, more \in BOOLEAN : \E next :
           /\ PageOf(found, limit) = [data |-> data, more |-> more, next |-> next]
           /\ ~more => data = found
           /\ more => \E l \in data : /\ next = <<at[l], l>>
                                      /\ \A i \in data : l = i \/ Newer(i, l)
                                      /\ \A i \in found \ data : Newer(l, i)
<1> DEFINE before(i) == {j \in found : Newer(j, i)}
           data == {i \in found : Cardinality(before(i)) < limit}
           last == CHOOSE i \in data : \A j \in data : i = j \/ Newer(j, i)
<1>1. PICK more \in BOOLEAN : more = (Cardinality(found) > limit)
  <2>1. (Cardinality(found) > limit) \in BOOLEAN
    OBVIOUS
  <2> QED
    BY <2>1, Zenon
<1>2. PageOf(found, limit) =
        [data |-> data, more |-> Cardinality(found) > limit,
         next |-> IF Cardinality(found) > limit THEN <<at[last], last>> ELSE <<>>]
  BY Zenon DEF PageOf
<1> DEFINE next == IF more THEN <<at[last], last>> ELSE <<>>
<1>3. PageOf(found, limit) = [data |-> data, more |-> more, next |-> next]
  <2> HIDE DEF data, last
  <2> QED
    BY <1>1, <1>2, Zenon
<1>4. IsFiniteSet(found) /\ Cardinality(found) \in Nat
  BY ApiAssumption, FS_Subset, FS_CardinalityType
<1>5. \A i \in found : /\ IsFiniteSet(before(i)) /\ Cardinality(before(i)) \in Nat
                       /\ Cardinality(before(i)) < Cardinality(found)
  <2>1. SUFFICES ASSUME NEW i \in found
                 PROVE  /\ IsFiniteSet(before(i)) /\ Cardinality(before(i)) \in Nat
                        /\ Cardinality(before(i)) < Cardinality(found)
    OBVIOUS
  <2>2. i \notin before(i) /\ before(i) \in SUBSET found
    BY NewerIsOrder
  <2>3. before(i) # found
    BY <2>2
  <2> HIDE DEF before
  <2>4. /\ IsFiniteSet(before(i)) /\ Cardinality(before(i)) <= Cardinality(found)
        /\ Cardinality(before(i)) # Cardinality(found)
    BY <1>4, <2>2, <2>3, FS_Subset
  <2>5. Cardinality(before(i)) \in Nat
    BY <2>4, FS_CardinalityType
  <2> QED
    BY <1>4, <2>4, <2>5
<1>6. \A i, j \in found : Newer(i, j) =>
        /\ before(i) \subseteq before(j)
        /\ Cardinality(before(i)) < Cardinality(before(j))
  <2>1. SUFFICES ASSUME NEW i \in found, NEW j \in found, Newer(i, j)
                 PROVE  /\ before(i) \subseteq before(j)
                        /\ Cardinality(before(i)) < Cardinality(before(j))
    OBVIOUS
  <2>2. before(i) \in SUBSET before(j) /\ i \in before(j) /\ i \notin before(i)
    BY <2>1, NewerIsOrder
  <2>3. before(i) # before(j)
    BY <2>2
  <2>4. /\ Cardinality(before(i)) \in Nat /\ Cardinality(before(j)) \in Nat
        /\ IsFiniteSet(before(j))
    BY <1>5
  <2> HIDE DEF before
  <2>5. /\ Cardinality(before(i)) <= Cardinality(before(j))
        /\ Cardinality(before(i)) # Cardinality(before(j))
    BY <2>2, <2>3, <2>4, FS_Subset
  <2> QED
    BY <2>2, <2>4, <2>5
<1>7. ~more => data = found
  <2>1. SUFFICES ASSUME ~more, NEW i \in found PROVE i \in data
    BY Zenon
  <2>2. ~(Cardinality(found) > limit)
    BY <1>1, <2>1, Zenon
  <2> HIDE DEF before
  <2>3. Cardinality(before(i)) < limit
    BY <1>4, <1>5, <2>2
  <2> QED
    BY <2>3
<1>8. ASSUME more PROVE data # {}
  <2>1. found # {}
    <3>1. Cardinality(found) > limit
      BY <1>1, <1>8, Zenon
    <3>2. Cardinality(found) # 0
      BY <1>4, <3>1
    <3> QED
      BY <1>4, <3>2, FS_EmptySet
  <2> DEFINE counts == {Cardinality(before(i)) : i \in found}
  <2>2. counts \subseteq Nat /\ counts # {}
    BY <1>5, <2>1
  <2>3. PICK n \in counts : \A m \in counts : n <= m
    <3> HIDE DEF counts
    <3> QED
      BY <2>2, LeastOf
  <2>4. PICK i \in found : n = Cardinality(before(i))
    BY <2>3
  <2>5. \A j \in found : ~Newer(j, i)
    <3>1. SUFFICES ASSUME NEW j \in found, Newer(j, i) PROVE FALSE
      OBVIOUS
    <3>2. Cardinality(before(j)) < Cardinality(before(i))
      BY <1>6, <3>1
    <3>3. Cardinality(before(i)) <= Cardinality(before(j))
      BY <2>3, <2>4
    <3>4. Cardinality(before(i)) \in Nat /\ Cardinality(before(j)) \in Nat
      BY <1>5
    <3> HIDE DEF before
    <3> QED
      BY <3>2, <3>3, <3>4
  <2>6. before(i) = {}
    BY <2>5
  <2>7. Cardinality(before(i)) = 0
    BY <2>6, FS_EmptySet, Zenon
  <2>8. Cardinality(before(i)) < limit
    BY <2>7
  <2> QED
    BY <2>8
<1>9. ASSUME more PROVE \E l \in data : /\ next = <<at[l], l>>
                                        /\ \A i \in data : l = i \/ Newer(i, l)
                                        /\ \A i \in found \ data : Newer(l, i)
  <2>1. data \subseteq Ids
    OBVIOUS
  <2>2. last \in data /\ \A j \in data : last = j \/ Newer(j, last)
    <3> HIDE DEF data
    <3>1. \E l \in data : \A j \in data : l = j \/ Newer(j, l)
      BY <1>8, <1>9, <2>1, OldestOf
    <3> QED
      BY <3>1
  <2>3. next = <<at[last], last>>
    BY <1>9, Zenon
  <2> HIDE DEF last, next
  <2>4. ASSUME NEW i \in found \ data PROVE Newer(last, i)
    <3>1. last \in found /\ Cardinality(before(last)) < limit
      BY <2>2
    <3>2. ~(Cardinality(before(i)) < limit)
      OBVIOUS
    <3>3. i # last
      BY <2>2
    <3>4. ~Newer(i, last)
      <4>1. SUFFICES ASSUME Newer(i, last) PROVE FALSE
        OBVIOUS
      <4>2. Cardinality(before(i)) < Cardinality(before(last))
        BY <1>6, <3>1, <4>1
      <4>3. Cardinality(before(i)) \in Nat /\ Cardinality(before(last)) \in Nat
        BY <1>5, <3>1
      <4> HIDE DEF before
      <4> QED
        BY <3>1, <3>2, <4>2, <4>3
    <3> QED
      BY <3>1, <3>3, <3>4, NewerIsOrder
  <2> QED
    BY <2>2, <2>3, <2>4
<1>10. data \in SUBSET found
  OBVIOUS
<1> HIDE DEF data, next
<1> QED
  BY <1>3, <1>7, <1>9, <1>10

-----------------------------------------------------------------------------
\* The inductive invariant.

\* Requests about one row.
OfRow == {"send", "void", "delete_template", "download", "embedded_url", "get",
          "get_template", "patch_template"}

\* A request that may still be served: it carries the key it was meant for, and
\* a request to send was asked for, is a test, or comes too late to send anything.
Fits(q, st, md, asked) ==
  /\ q.meant = q.idem
  /\ q.idem \in IdemKeys => q.op \in {"create", "from_template", "create_template"}
  /\ q.op \in OfRow => q.id \in Ids
  /\ q.op = "send" =>
       /\ st[q.id] # "none"
       /\ q.id \in asked \/ md[q.id] = "TEST" \/ st[q.id] # "DRAFT"

NetHeld == \A q \in late \cup {req} : Fits(q, state, mode, confirmed)

\* swiftsign_send_envelope knows the mode of the draft it has made.
SendHeld ==
  tool = "send_envelope" =>
    /\ req.op \in {"create", "from_template"} /\ req.idem = Fresh
    /\ reply[1] = "ok" => /\ reply[2] \in Ids /\ state[reply[2]] # "none"
                          /\ mode[reply[2]] = ModeOf(req.secret)

\* A key that is remembered answers with the one row that was made under it.
KeysHeld ==
  \A k \in IdemKeys :
    IF bound[k] = <<>> THEN under[k] = {}
    ELSE bound[k][1] \in Ids /\ under[k] = {bound[k][1]}

\* An answer that its caller has not read yet names that row.
AnswerHeld ==
  req.idem \in IdemKeys /\ reply[1] = "ok" => under[req.idem] = {reply[2]}

\* The list of a program that reads none is empty.
IdleHeld ==
  /\ tool = "idle" => req = NoReq /\ reply = NoReply
  /\ tool = "send_envelope" => req.op # "list"
  /\ req.op # "list" => walk = NoWalk /\ reply[1] # "page"

Cursors == {<<>>} \cup (Nat \X Nat)
Lists == [query : Queries, limit : 1..MaxLimit, cursor : Cursors,
          seen : SUBSET Ids]

\* What was read stays behind the cursor; a deleted row loses its place, and
\* matches no list any more.
Behind(i, cursor) ==
  state[i] # "none" /\ (state[i] = "DELETED" \/ ~Past(cursor, i))

\* What is owed has been read or lies ahead.
WalkHeld ==
  req.op = "list" =>
    /\ walk \in Lists /\ due \subseteq Ids
    /\ \A i \in due : Matches(walk.query, i)
    /\ \A i \in due : i \in walk.seen \/ Past(walk.cursor, i)
    /\ \A i \in walk.seen : Behind(i, walk.cursor)

\* So it is once the page that has come is read, too.
PageHeld ==
  reply[1] = "page" =>
    \E data \in SUBSET Ids, more \in BOOLEAN, next \in Cursors :
      /\ reply[2] = [data |-> data, more |-> more, next |-> next]
      /\ walk.seen \cap data = {}
      /\ \A i \in due : i \in walk.seen \cup data \/ (more /\ Past(next, i))
      /\ more => /\ next \in Nat \X Nat
                 /\ \A i \in walk.seen \cup data : Behind(i, next)

ClientInv ==
  /\ RowTypes /\ LiveNeedsConfirmation /\ KeysHeld
  /\ NetHeld /\ SendHeld /\ AnswerHeld
  /\ IdleHeld /\ WalkHeld /\ PageHeld

-----------------------------------------------------------------------------
\* What any route does to the rows.

\* Rows are made once, keep their mode and their time until they are deleted for
\* good, and are drafts only at first.
RowsAge ==
  \A i \in Ids :
    /\ state[i] # "none" => /\ state'[i] # "none" /\ mode'[i] = mode[i]
                            /\ at'[i] = at[i] \/ state'[i] = "DELETED"
    /\ state[i] = "DELETED" => state'[i] = "DELETED"
    /\ state[i] \notin {"none", "DRAFT"} => state'[i] # "DRAFT"

\* A key that is remembered stays bound to its row.
KeysStay == \A k \in IdemKeys : under[k] # {} => under'[k] = under[k]

RowsHeld == RowTypes /\ LiveNeedsConfirmation /\ KeysHeld

LEMMA RowsStay ==
  ASSUME RowsHeld, UNCHANGED rows, confirmed \subseteq confirmed'
  PROVE  RowsHeld' /\ RowsAge /\ KeysStay
<1>1. state' = state /\ mode' = mode /\ at' = at /\ bound' = bound /\ under' = under
  BY DEF rows
<1>2. RowTypes' /\ KeysHeld'
  BY <1>1, Zenon DEF RowsHeld, RowTypes, KeysHeld
<1>3. LiveNeedsConfirmation'
  BY <1>1 DEF RowsHeld, LiveNeedsConfirmation
<1> QED
  BY <1>1, <1>2, <1>3 DEF RowsHeld, RowsAge, KeysStay

\* A route that changes the state of one row, to one that is no draft and, if it
\* is sent, was to be.
LEMMA RowMoves ==
  ASSUME RowsHeld, UNCHANGED confirmed, NEW i \in Ids, NEW to,
         to \in Statuses \cup {"TEMPLATE", "DELETED"},
         state[i] # "none", to = "DRAFT" => state[i] = "DRAFT",
         state[i] = "DELETED" => to = "DELETED",
         to \in {"SENT", "COMPLETED", "DECLINED"} =>
           \/ i \in confirmed \/ mode[i] = "TEST"
           \/ state[i] \in {"SENT", "COMPLETED", "DECLINED"},
         state' = [state EXCEPT ![i] = to],
         at' \in [Ids -> Nat], \A j \in Ids : at'[j] = at[j] \/ (j = i /\ to = "DELETED"),
         UNCHANGED <<mode, bound, under>>
  PROVE  RowsHeld' /\ RowsAge /\ KeysStay
<1>1. mode' = mode /\ bound' = bound /\ under' = under
  OBVIOUS
<1>2. \A j \in Ids : state'[j] = IF j = i THEN to ELSE state[j]
  BY DEF RowsHeld, RowTypes
<1>3. RowTypes'
  BY <1>1 DEF RowsHeld, RowTypes, Statuses
<1>4. KeysHeld'
  BY <1>1, Zenon DEF RowsHeld, KeysHeld
<1>5. LiveNeedsConfirmation'
  BY <1>1, <1>2 DEF RowsHeld, LiveNeedsConfirmation
<1>6. RowsAge
  BY <1>1, <1>2 DEF RowsAge, Statuses
<1> QED
  BY <1>1, <1>3, <1>4, <1>5, <1>6 DEF RowsHeld, KeysStay

LEMMA MoveHolds ==
  ASSUME RowsHeld, UNCHANGED confirmed, NEW q, NEW from, NEW to, NEW a, Move(q, from, to, a),
         q.id \in Ids, "none" \notin from, "DELETED" \notin from,
         to \in Statuses \cup {"TEMPLATE"}, to = "DRAFT" => state[q.id] = "DRAFT",
         state[q.id] \in from /\ to \in {"SENT", "COMPLETED", "DECLINED"} =>
           \/ q.id \in confirmed \/ mode[q.id] = "TEST"
           \/ state[q.id] \in {"SENT", "COMPLETED", "DECLINED"}
  PROVE  RowsHeld' /\ RowsAge /\ KeysStay
<1>1. CASE state[q.id] \notin from
  BY <1>1, RowsStay DEF Move
<1>2. CASE state[q.id] \in from
  <2>1. state' = [state EXCEPT ![q.id] = to] /\ UNCHANGED <<mode, at, bound, under>>
    BY <1>2 DEF Move
  <2>2. at' \in [Ids -> Nat] /\ \A j \in Ids : at'[j] = at[j]
    BY <2>1 DEF RowsHeld, RowTypes
  <2>3. state[q.id] # "none" /\ state[q.id] # "DELETED"
    BY <1>2
  <2> QED
    BY <1>2, <2>1, <2>2, <2>3, RowMoves
<1> QED
  BY <1>1, <1>2

LEMMA InsertHolds ==
  ASSUME RowsHeld, UNCHANGED confirmed, NEW q, q.meant = q.idem, ~Known(q),
         NEW i \in Ids, state[i] = "none", NEW t \in Times, Insert(q, i, t)
  PROVE  /\ RowsHeld' /\ RowsAge /\ KeysStay
         /\ state'[i] # "none"
         /\ q.op # "create_template" => mode'[i] = ModeOf(q.secret)
         /\ q.idem \in IdemKeys => under'[q.idem] = {i}
<1>1. i \in Ids /\ state[i] = "none"
  OBVIOUS
<1>2. PICK st \in {"TEMPLATE", "DRAFT"}, md \in {"TEST", "LIVE"} :
        /\ state' = [state EXCEPT ![i] = st] /\ mode' = [mode EXCEPT ![i] = md]
        /\ q.op # "create_template" => md = ModeOf(q.secret)
  <2>1. /\ state' = [state EXCEPT ![i] =
                       IF q.op = "create_template" THEN "TEMPLATE" ELSE "DRAFT"]
        /\ mode' = [mode EXCEPT ![i] = IF q.op = "create_template" THEN mode[i]
                                       ELSE ModeOf(q.secret)]
    BY DEF Insert
  <2>2. mode[i] \in {"TEST", "LIVE"} /\ ModeOf(q.secret) \in {"TEST", "LIVE"}
    BY <1>1 DEF RowsHeld, RowTypes, ModeOf
  <2> QED
    BY <2>1, <2>2
<1>3. at' = [at EXCEPT ![i] = t] /\ t \in Nat
  BY ApiAssumption DEF Insert
<1>4. /\ DOMAIN bound' = IdemKeys
      /\ \A k \in IdemKeys : bound'[k] = IF k = q.idem THEN <<i, Body(q)>> ELSE bound[k]
      /\ under' = [k \in IdemKeys |-> IF k = q.meant THEN under[k] \cup {i}
                                      ELSE under[k]]
  BY DEF Insert
<1>5. \A j \in Ids : /\ state'[j] = IF j = i THEN st ELSE state[j]
                     /\ mode'[j] = IF j = i THEN md ELSE mode[j]
                     /\ at'[j] = IF j = i THEN t ELSE at[j]
  BY <1>2, <1>3 DEF RowsHeld, RowTypes
<1>6. RowTypes'
  BY <1>1, <1>2, <1>3, <1>4 DEF RowsHeld, RowTypes, Statuses
<1>7. LiveNeedsConfirmation'
  BY <1>5 DEF RowsHeld, LiveNeedsConfirmation
<1>8. KeysHeld' /\ KeysStay /\ (q.idem \in IdemKeys => under'[q.idem] = {i})
  <2>1. ASSUME NEW k \in IdemKeys, k = q.idem
        PROVE  under[k] = {} /\ under'[k] = {i} /\ bound'[k] = <<i, Body(q)>>
    <3>1. bound[k] = <<>>
      BY <2>1, ApiAssumption DEF Known
    <3>2. under[k] = {}
      BY <3>1 DEF RowsHeld, KeysHeld
    <3> QED
      BY <1>4, <2>1, <3>2
  <2>2. ASSUME NEW k \in IdemKeys, k # q.idem
        PROVE  under'[k] = under[k] /\ bound'[k] = bound[k]
    BY <1>4, <2>2
  <2>3. ASSUME NEW k \in IdemKeys
        PROVE  IF bound'[k] = <<>> THEN under'[k] = {}
               ELSE bound'[k][1] \in Ids /\ under'[k] = {bound'[k][1]}
    <3>1. CASE k = q.idem
      <4>1. under'[k] = {i} /\ bound'[k] = <<i, Body(q)>>
        BY <2>1, <3>1
      <4> QED
        BY <4>1
    <3>2. CASE k # q.idem
      <4>1. under'[k] = under[k] /\ bound'[k] = bound[k]
        BY <2>2, <3>2
      <4>2. IF bound[k] = <<>> THEN under[k] = {}
            ELSE bound[k][1] \in Ids /\ under[k] = {bound[k][1]}
        BY Zenon DEF RowsHeld, KeysHeld
      <4> QED
        BY <4>1, <4>2
    <3> QED
      BY <3>1, <3>2
  <2>4. KeysHeld'
    BY <2>3, Zenon DEF KeysHeld
  <2>5. KeysStay
    BY <2>1, <2>2 DEF KeysStay
  <2> QED
    BY <2>1, <2>4, <2>5
<1>9. RowsAge
  BY <1>1, <1>5 DEF RowsAge
<1> QED
  BY <1>1, <1>2, <1>5, <1>6, <1>7, <1>8, <1>9 DEF RowsHeld

\* Whatever a request does, and what its answer says of a row it has made.
LEMMA HandleHolds ==
  ASSUME RowsHeld, UNCHANGED confirmed, NEW q,
         Fits(q, state, mode, confirmed), NEW a, Handle(q, a)
  PROVE  /\ RowsHeld' /\ RowsAge /\ KeysStay
         /\ q.idem \in IdemKeys /\ a[1] = "ok" => under'[q.idem] = {a[2]}
         /\ q.op \in {"create", "from_template"} /\ q.idem = Fresh /\ a[1] = "ok" =>
              /\ a[2] \in Ids /\ state'[a[2]] # "none"
              /\ mode'[a[2]] = ModeOf(q.secret)
<1> DEFINE Made == q.op \in {"create", "from_template"} /\ q.idem = Fresh /\ a[1] = "ok" =>
                     /\ a[2] \in Ids /\ state'[a[2]] # "none"
                     /\ mode'[a[2]] = ModeOf(q.secret)
           Named == q.idem \in IdemKeys /\ a[1] = "ok" => under'[q.idem] = {a[2]}
<1>1. ASSUME q.op \in {"create", "from_template", "create_template"}, CreateRow(q, a)
      PROVE  RowsHeld' /\ RowsAge /\ KeysStay /\ Made /\ Named
  <2>1. ASSUME UNCHANGED rows, a = Failed
        PROVE  RowsHeld' /\ RowsAge /\ KeysStay /\ Made /\ Named
    <3>1. RowsHeld' /\ RowsAge /\ KeysStay
      BY <2>1, RowsStay
    <3>2. a[1] # "ok"
      BY <2>1 DEF Failed
    <3> QED
      BY <3>1, <3>2
  <2>2. ASSUME UNCHANGED rows, Known(q), a = Ok(bound[q.idem][1])
        PROVE  RowsHeld' /\ RowsAge /\ KeysStay /\ Made /\ Named
    <3>1. RowsHeld' /\ RowsAge /\ KeysStay
      BY <2>2, RowsStay
    <3>2. q.idem # Fresh /\ bound[q.idem] # <<>>
      BY <2>2 DEF Known
    <3>3. q.idem \in IdemKeys => under[q.idem] = {bound[q.idem][1]}
      BY <3>2 DEF RowsHeld, KeysHeld
    <3>4. a[2] = bound[q.idem][1] /\ under' = under
      BY <2>2 DEF Ok, rows
    <3> QED
      BY <3>1, <3>2, <3>3, <3>4
  <2>3. ASSUME ~Known(q), NEW i \in Ids, NEW t \in Times, state[i] = "none",
               Insert(q, i, t), a = Ok(i)
        PROVE  RowsHeld' /\ RowsAge /\ KeysStay /\ Made /\ Named
    <3>1. q.meant = q.idem
      BY DEF Fits
    <3>2. /\ RowsHeld' /\ RowsAge /\ KeysStay /\ state'[i] # "none"
          /\ q.op # "create_template" => mode'[i] = ModeOf(q.secret)
          /\ q.idem \in IdemKeys => under'[q.idem] = {i}
      BY <2>3, <3>1, InsertHolds
    <3>3. a[2] = i
      BY <2>3 DEF Ok
    <3> QED
      BY <3>2, <3>3
  <2>4. \/ UNCHANGED rows /\ a = Failed
        \/ UNCHANGED rows /\ Known(q) /\ a = Ok(bound[q.idem][1])
        \/ ~Known(q) /\ \E i \in Ids, t \in Times :
                           state[i] = "none" /\ Insert(q, i, t) /\ a = Ok(i)
    BY <1>1, Zenon DEF CreateRow
  <2> QED
    BY <2>1, <2>2, <2>3, <2>4, Zenon
<1>2. q.op \in OfRow => q.id \in Ids
  BY DEF Fits
<1>3. ASSUME q.op = "send", SendRow(q, a) PROVE RowsHeld' /\ RowsAge /\ KeysStay
  <2>1. q.id \in Ids /\ (q.id \in confirmed \/ mode[q.id] = "TEST" \/ state[q.id] # "DRAFT")
    BY <1>2, <1>3 DEF Fits, OfRow
  <2>2. Move(q, {"DRAFT"}, "SENT", a)
    BY <1>3 DEF SendRow
  <2> QED
    BY <2>1, <2>2, MoveHolds DEF Statuses
<1>4. ASSUME q.op = "void", VoidRow(q, a) PROVE RowsHeld' /\ RowsAge /\ KeysStay
  <2>1. q.id \in Ids /\ Move(q, {"DRAFT", "SENT", "DECLINED"}, "VOIDED", a)
    BY <1>2, <1>4 DEF OfRow, VoidRow
  <2> QED
    BY <2>1, MoveHolds DEF Statuses
<1>5. ASSUME q.op = "delete_template", DeleteRow(q, a) PROVE RowsHeld' /\ RowsAge /\ KeysStay
  <2>1. q.id \in Ids
    BY <1>2, <1>5 DEF OfRow
  <2>2. CASE state[q.id] # "TEMPLATE"
    BY <1>5, <2>2, RowsStay DEF DeleteRow
  <2>3. CASE state[q.id] = "TEMPLATE"
    <3>1. /\ state' = [state EXCEPT ![q.id] = "DELETED"]
          /\ at' = [at EXCEPT ![q.id] = 0] /\ UNCHANGED <<mode, bound, under>>
      BY <1>5, <2>3 DEF DeleteRow
    <3>2. at' \in [Ids -> Nat] /\ \A j \in Ids : at'[j] = at[j] \/ j = q.id
      BY <3>1 DEF RowsHeld, RowTypes
    <3> QED
      BY <2>1, <2>3, <3>1, <3>2, RowMoves
  <2> QED
    BY <2>2, <2>3
<1>6. ASSUME \/ q.op = "download" /\ Download(q, a)
             \/ q.op = "embedded_url" /\ EmbeddedUrl(q, a)
             \/ q.op = "get_template" /\ GetTemplate(q, a)
             \/ q.op = "patch_template" /\ PatchTemplate(q, a)
      PROVE  RowsHeld' /\ RowsAge /\ KeysStay
  <2>1. q.id \in Ids
    BY <1>2, <1>6 DEF OfRow
  <2>2. \E s \in {"COMPLETED", "SENT", "TEMPLATE"} : Move(q, {s}, s, a)
    BY <1>6, Zenon DEF Download, EmbeddedUrl, GetTemplate, PatchTemplate
  <2> QED
    BY <2>1, <2>2, MoveHolds DEF Statuses
<1>7. ASSUME q.op = "get", GetEnvelope(q, a) PROVE RowsHeld' /\ RowsAge /\ KeysStay
  <2>1. q.id \in Ids /\ Move(q, Statuses, state[q.id], a)
    BY <1>2, <1>7 DEF OfRow, GetEnvelope
  <2>2. CASE state[q.id] \in Statuses
    BY <2>1, <2>2, MoveHolds DEF Statuses
  <2>3. CASE state[q.id] \notin Statuses
    BY <2>1, <2>3, RowsStay DEF Move
  <2> QED
    BY <2>2, <2>3
<1>8. ASSUME q.op \in {"signup", "upgrade"}, Account(q, a) PROVE RowsHeld' /\ RowsAge /\ KeysStay
  BY <1>8, RowsStay DEF Account
<1>9. q.op \notin {"create", "from_template", "create_template"} => Made /\ Named
  BY DEF Fits
<1>10. \/ q.op \in {"create", "from_template", "create_template"} /\ CreateRow(q, a)
       \/ /\ RowsHeld' /\ RowsAge /\ KeysStay
          /\ q.op \notin {"create", "from_template", "create_template"}
  BY <1>3, <1>4, <1>5, <1>6, <1>7, <1>8 DEF Handle
<1> HIDE DEF Made, Named
<1>11. RowsHeld' /\ RowsAge /\ KeysStay /\ Made /\ Named
  BY <1>1, <1>9, <1>10
<1> QED
  BY <1>11 DEF Made, Named

-----------------------------------------------------------------------------
\* The steps of the world: requests in flight and lists under way.

LEMMA FitsStay ==
  ASSUME RowsAge, confirmed \subseteq confirmed', NEW q, Fits(q, state, mode, confirmed)
  PROVE  Fits(q, state', mode', confirmed')
<1>1. q.op = "send" => q.id \in Ids
  BY DEF Fits, OfRow
<1> QED
  BY <1>1 DEF Fits, RowsAge

LEMMA PlacesStay ==
  ASSUME RowsAge, NEW i \in Ids, NEW cursor
  PROVE  /\ Behind(i, cursor) => Behind(i, cursor)'
         /\ state[i] # "none" /\ state'[i] # "DELETED" =>
              (Past(cursor, i)' <=> Past(cursor, i))
<1>1. state[i] # "none" /\ state'[i] # "DELETED" => at'[i] = at[i]
  BY DEF RowsAge
<1>2. /\ state[i] # "none" => state'[i] # "none"
      /\ state[i] = "DELETED" => state'[i] = "DELETED"
  BY DEF RowsAge
<1>3. state[i] # "none" /\ state'[i] # "DELETED" => (Past(cursor, i)' <=> Past(cursor, i))
  BY <1>1 DEF Past
<1> QED
  BY <1>2, <1>3, Zenon DEF Behind

\* No list owes a row that is not there.
LEMMA MatchIsThere ==
  ASSUME NEW query, NEW i \in Ids, Matches(query, i)
  PROVE  state[i] # "none" /\ state[i] # "DELETED"
BY DEF Matches, MatchesTemplate, MatchesEnvelope, Envelope, Statuses

LEMMA ListIs ==
  ASSUME walk \in Lists
  PROVE  /\ walk # NoWalk
         /\ walk.limit \in Nat \ {0} /\ walk.cursor \in Cursors /\ walk.seen \in SUBSET Ids
<1>1. walk.limit \in 1..MaxLimit /\ walk.cursor \in Cursors /\ walk.seen \in SUBSET Ids
  BY DEF Lists
<1>2. MaxLimit \in Int
  BY ApiAssumption
<1>3. walk.limit \in Nat \ {0}
  BY <1>1, <1>2
<1>4. NoWalk.limit = 0
  BY DEF NoWalk
<1> QED
  BY <1>1, <1>3, <1>4

\* While the list itself rests, rows that are made, change and vanish do it no harm.
LEMMA ListRests ==
  ASSUME RowTypes, RowsAge, WalkHeld, PageHeld, IdleHeld, Owed,
         UNCHANGED <<walk, req, reply>>
  PROVE  WalkHeld' /\ PageHeld'
<1> USE DEF Owed
<1>1. CASE req.op # "list"
  <2>1. req'.op # "list" /\ reply'[1] # "page"
    BY <1>1 DEF IdleHeld
  <2> QED
    BY <2>1, Zenon DEF WalkHeld, PageHeld
<1>2. CASE req.op = "list"
  <2>1. walk \in Lists /\ due \subseteq Ids /\ walk' = walk
    BY <1>2 DEF WalkHeld
  <2>2. walk # NoWalk /\ walk.seen \subseteq Ids
    BY <2>1, ListIs
  <2>3. due' = {i \in due : Matches(walk.query, i)'}
    BY <2>1, <2>2, Zenon
  <2>4. /\ \A i \in due : Matches(walk.query, i)
        /\ \A i \in due : i \in walk.seen \/ Past(walk.cursor, i)
        /\ \A i \in walk.seen : Behind(i, walk.cursor)
    BY <1>2 DEF WalkHeld
  <2>5. \A i \in due' : /\ i \in due /\ i \in Ids /\ state[i] # "none"
                        /\ state'[i] # "DELETED"
    <3>1. SUFFICES ASSUME NEW i \in due, i \in Ids, Matches(walk.query, i)'
                   PROVE  state[i] # "none" /\ state'[i] # "DELETED"
      BY <2>1, <2>3, Zenon
    <3>2. state[i] # "none"
      BY <2>4, <3>1, MatchIsThere
    <3>3. state'[i] # "DELETED"
      BY <3>1 DEF Matches, MatchesTemplate, MatchesEnvelope, Envelope, Statuses
    <3> QED
      BY <3>2, <3>3
  <2>6. ASSUME NEW cursor
        PROVE  /\ \A i \in due' : Past(cursor, i) => Past(cursor, i)'
               /\ \A i \in Ids : Behind(i, cursor) => Behind(i, cursor)'
    BY <2>5, PlacesStay
  <2>7. WalkHeld'
    <3>1. walk' \in Lists /\ due' \subseteq Ids /\ walk'.seen = walk.seen
      BY <2>1, <2>5
    <3>2. \A i \in due' : Matches(walk.query, i)'
      BY <2>3, Zenon
    <3>3. PICK cursor : cursor = walk.cursor
      OBVIOUS
    <3>4. \A i \in due' : i \in walk'.seen \/ Past(cursor, i)'
      BY <2>4, <2>5, <2>6, <3>1, <3>3
    <3>5. \A i \in walk'.seen : Behind(i, cursor)'
      BY <2>2, <2>4, <2>6, <3>1, <3>3
    <3>6. \A i \in due' : i \in walk'.seen \/ Past(walk.cursor, i)'
      BY <2>1, <3>3, <3>4 DEF Past
    <3>7. \A i \in walk'.seen : Behind(i, walk.cursor)'
      BY <2>1, <3>3, <3>5 DEF Past, Behind
    <3> QED
      BY <3>1, <3>2, <3>6, <3>7, Zenon DEF WalkHeld
  <2>8. PageHeld'
    <3>1. SUFFICES ASSUME reply[1] = "page" PROVE PageHeld'
      BY Zenon DEF PageHeld
    <3>2. PICK data \in SUBSET Ids, more \in BOOLEAN, next \in Cursors :
            /\ reply[2] = [data |-> data, more |-> more, next |-> next]
            /\ walk.seen \cap data = {}
            /\ \A i \in due : i \in walk.seen \cup data \/ (more /\ Past(next, i))
            /\ more => /\ next \in Nat \X Nat
                       /\ \A i \in walk.seen \cup data : Behind(i, next)
      BY <3>1, Zenon DEF PageHeld
    <3>3. \A i \in due' : i \in walk.seen \cup data \/ (more /\ Past(next, i)')
      BY <2>5, <2>6, <3>2, Zenon
    <3>4. more => \A i \in walk.seen \cup data : Behind(i, next)'
      BY <2>2, <2>6, <3>2
    <3>5. /\ reply'[2] = [data |-> data, more |-> more, next |-> next]
          /\ walk'.seen = walk.seen
      BY <2>1, <3>2, Zenon
    <3> QED
      BY <3>2, <3>3, <3>4, <3>5, Zenon DEF PageHeld
  <2> QED
    BY <2>7, <2>8
<1> QED
  BY <1>1, <1>2

LEMMA NetRests ==
  ASSUME NetHeld, RowsAge, UNCHANGED confirmed, req' = req, late' \subseteq late \cup {req}
  PROVE  NetHeld'
<1>1. SUFFICES ASSUME NEW q \in late' \cup {req'} PROVE Fits(q, state', mode', confirmed')
  BY Zenon DEF NetHeld
<1>2. Fits(q, state, mode, confirmed)
  BY DEF NetHeld
<1> QED
  BY <1>2, FitsStay

LEMMA SendRests ==
  ASSUME SendHeld, RowsAge, UNCHANGED <<tool, req>>, reply' = reply \/ reply' = Failed
  PROVE  SendHeld'
<1>1. SUFFICES ASSUME tool = "send_envelope" PROVE SendHeld'
  BY Zenon DEF SendHeld
<1>2. /\ req.op \in {"create", "from_template"} /\ req.idem = Fresh
      /\ reply[1] = "ok" => /\ reply[2] \in Ids /\ state[reply[2]] # "none"
                            /\ mode[reply[2]] = ModeOf(req.secret)
  BY <1>1, Zenon DEF SendHeld
<1>3. CASE reply' = Failed
  BY <1>2, <1>3 DEF SendHeld, Failed
<1>4. CASE reply' = reply
  <2>1. reply[1] = "ok" => state'[reply[2]] # "none" /\ mode'[reply[2]] = mode[reply[2]]
    BY <1>2 DEF RowsAge
  <2> QED
    BY <1>2, <1>4, <2>1 DEF SendHeld
<1> QED
  BY <1>3, <1>4

\* A step that changes rows, or what is in flight, and answers no request but
\* perhaps with an error.
LEMMA WorldRests ==
  ASSUME ClientInv, RowsHeld', RowsAge, Owed,
         req.idem \in IdemKeys /\ under[req.idem] # {} =>
           under'[req.idem] = under[req.idem],
         UNCHANGED <<walk, caller>>, UNCHANGED <<req, reply>>, late' \subseteq late \cup {req}
  PROVE  ClientInv'
<1>1. UNCHANGED tool /\ UNCHANGED confirmed
  BY DEF caller
<1>2. NetHeld' /\ SendHeld'
  BY <1>1, NetRests, SendRests, Zenon DEF ClientInv
<1>3. WalkHeld' /\ PageHeld'
  BY ListRests DEF ClientInv
<1>4. IdleHeld'
  BY <1>1, Zenon DEF ClientInv, IdleHeld
<1>5. AnswerHeld'
  BY DEF ClientInv, AnswerHeld
<1> QED
  BY <1>2, <1>3, <1>4, <1>5, Zenon DEF ClientInv, RowsHeld

LEMMA ServeHolds ==
  ASSUME ClientInv, Serve, UNCHANGED <<walk, caller>>, Owed
  PROVE  ClientInv'
<1>1. PICK a \in Answers : Handle(req, a) /\ reply' \in {a, Failed}
  BY DEF Serve
<1>2. req # NoReq /\ req' = req /\ late' = late
  BY DEF Serve
<1>3. tool' = tool /\ confirmed' = confirmed /\ walk' = walk
  BY DEF caller
<1>4. Fits(req, state, mode, confirmed) /\ RowsHeld
  BY DEF ClientInv, NetHeld, RowsHeld
<1>5. /\ RowsHeld' /\ RowsAge
      /\ req.idem \in IdemKeys /\ a[1] = "ok" => under'[req.idem] = {a[2]}
      /\ req.op \in {"create", "from_template"} /\ req.idem = Fresh /\ a[1] = "ok" =>
           /\ a[2] \in Ids /\ state'[a[2]] # "none"
           /\ mode'[a[2]] = ModeOf(req.secret)
  BY <1>1, <1>3, <1>4, HandleHolds
<1>6. req.op # "list"
  BY <1>1 DEF Handle
<1>7. reply'[1] # "page" /\ (reply'[1] = "ok" => reply' = a)
  BY <1>1 DEF Answers, Failed, Ok
<1>8. NetHeld'
  BY <1>2, <1>3, <1>5, NetRests DEF ClientInv
<1>9. SendHeld'
  <2>1. SUFFICES ASSUME tool = "send_envelope" PROVE SendHeld'
    BY <1>3, Zenon DEF SendHeld
  <2>2. req.op \in {"create", "from_template"} /\ req.idem = Fresh
    BY <2>1, Zenon DEF ClientInv, SendHeld
  <2>3. reply'[1] = "ok" => /\ reply'[2] \in Ids /\ state'[reply'[2]] # "none"
                            /\ mode'[reply'[2]] = ModeOf(req'.secret)
    BY <1>2, <1>5, <1>7, <2>2
  <2> QED
    BY <1>2, <2>2, <2>3, Zenon DEF SendHeld
<1>10. IdleHeld'
  BY <1>2, <1>3, <1>6, <1>7, Zenon DEF ClientInv, IdleHeld
<1>11. WalkHeld' /\ PageHeld'
  BY <1>2, <1>6, <1>7, Zenon DEF WalkHeld, PageHeld
<1>12. AnswerHeld'
  BY <1>2, <1>5, <1>7, Zenon DEF AnswerHeld
<1> QED
  BY <1>5, <1>8, <1>9, <1>10, <1>11, <1>12, Zenon DEF ClientInv, RowsHeld

LEMMA GiveUpHolds ==
  ASSUME ClientInv, GiveUp, UNCHANGED <<walk, caller>>, Owed
  PROVE  ClientInv'
<1>1. tool' = tool /\ confirmed' = confirmed /\ walk' = walk
  BY DEF caller
<1>2. /\ req # NoReq /\ req' = req /\ reply' = Failed
      /\ late' \subseteq late \cup {req} /\ UNCHANGED rows
  BY DEF GiveUp
<1>3. RowsHeld' /\ RowsAge
  BY <1>1, <1>2, RowsStay DEF ClientInv, RowsHeld
<1>4. NetHeld' /\ SendHeld'
  BY <1>1, <1>2, <1>3, NetRests, SendRests, Zenon DEF ClientInv
<1>5. reply'[1] # "page" /\ AnswerHeld'
  BY <1>2 DEF Failed, AnswerHeld
<1>6. PageHeld'
  BY <1>5, Zenon DEF PageHeld
<1>7. IdleHeld'
  BY <1>1, <1>2, <1>5, Zenon DEF ClientInv, IdleHeld
<1>8. WalkHeld'
  <2>1. CASE req.op # "list"
    BY <1>2, <2>1, Zenon DEF WalkHeld
  <2>2. CASE req.op = "list"
    <3>1. /\ walk \in Lists /\ due \subseteq Ids
          /\ \A i \in due : Matches(walk.query, i)
          /\ \A i \in due : i \in walk.seen \/ Past(walk.cursor, i)
          /\ \A i \in walk.seen : Behind(i, walk.cursor)
      BY <2>2, Zenon DEF ClientInv, WalkHeld
    <3>2. state' = state /\ mode' = mode /\ at' = at
      BY <1>2 DEF rows
    <3>3. due' \subseteq due
      BY <1>1, <3>1, ListIs DEF Owed
    <3>4. \A i \in due' : Matches(walk.query, i)'
      BY <1>1, <3>1, <3>2, <3>3
         DEF Matches, MatchesTemplate, MatchesEnvelope, Envelope
    <3>5. /\ \A i \in due' : i \in walk'.seen \/ Past(walk.cursor, i)'
          /\ \A i \in walk'.seen : Behind(i, walk.cursor)'
      BY <1>1, <3>1, <3>2, <3>3 DEF Past, Behind
    <3> QED
      BY <1>1, <3>1, <3>3, <3>4, <3>5 DEF WalkHeld
  <2> QED
    BY <2>1, <2>2
<1> QED
  BY <1>3, <1>4, <1>5, <1>6, <1>7, <1>8, Zenon DEF ClientInv, RowsHeld

LEMMA ServeLateHolds ==
  ASSUME ClientInv, ServeLate, UNCHANGED <<walk, caller>>, Owed
  PROVE  ClientInv'
<1>1. PICK q \in late, a \in Answers :
        Handle(q, a) /\ late' = late \ {q} /\ UNCHANGED <<req, reply>>
  BY DEF ServeLate
<1>2. Fits(q, state, mode, confirmed) /\ RowsHeld /\ UNCHANGED confirmed
  BY DEF ClientInv, NetHeld, RowsHeld, caller
<1>3. RowsHeld' /\ RowsAge /\ KeysStay
  BY <1>1, <1>2, HandleHolds
<1> QED
  BY <1>1, <1>3, WorldRests DEF KeysStay

LEMMA EndsHolds ==
  ASSUME ClientInv, NEW i \in Ids, LastSigns(i) \/ Declines(i),
         UNCHANGED <<walk, caller>>, Owed
  PROVE  ClientInv'
<1>1. PICK to \in {"COMPLETED", "DECLINED"} :
        /\ state[i] = "SENT" /\ state' = [state EXCEPT ![i] = to]
        /\ UNCHANGED <<mode, at, bound, under, net>>
  BY DEF LastSigns, Declines, Ends
<1>2. RowsHeld /\ UNCHANGED confirmed
  BY DEF ClientInv, RowsHeld, caller
<1>3. at' \in [Ids -> Nat] /\ \A j \in Ids : at'[j] = at[j]
  BY <1>1, <1>2 DEF RowsHeld, RowTypes
<1>4. RowsHeld' /\ RowsAge /\ KeysStay
  BY <1>1, <1>2, <1>3, RowMoves DEF Statuses
<1>5. UNCHANGED <<req, reply, late>>
  BY <1>1 DEF net
<1> QED
  BY <1>4, <1>5, WorldRests DEF KeysStay

LEMMA ForgetKeyHolds ==
  ASSUME ClientInv, NEW k \in IdemKeys, ForgetKey(k), UNCHANGED <<walk, caller>>, Owed
  PROVE  ClientInv'
<1>1. /\ req.idem # k /\ UNCHANGED <<state, mode, at, req, reply, late, confirmed>>
      /\ bound' = [bound EXCEPT ![k] = <<>>] /\ under' = [under EXCEPT ![k] = {}]
  BY DEF ForgetKey, net, caller
<1>2. RowTypes /\ LiveNeedsConfirmation /\ KeysHeld
  BY DEF ClientInv
<1>3. under'[k] = {} /\ \A j \in IdemKeys \ {k} : under'[j] = under[j]
  BY <1>1, <1>2 DEF RowTypes
<1>4. KeysHeld'
  <2>1. SUFFICES ASSUME NEW j \in IdemKeys
                 PROVE  IF bound'[j] = <<>> THEN under'[j] = {}
                        ELSE bound'[j][1] \in Ids /\ under'[j] = {bound'[j][1]}
    BY Zenon DEF KeysHeld
  <2>2. IF bound[j] = <<>> THEN under[j] = {}
        ELSE bound[j][1] \in Ids /\ under[j] = {bound[j][1]}
    BY <1>2, Zenon DEF KeysHeld
  <2> QED
    BY <1>1, <1>2, <1>3, <2>2 DEF RowTypes
<1>5. RowTypes' /\ LiveNeedsConfirmation'
  BY <1>1, <1>2 DEF RowTypes, LiveNeedsConfirmation
<1>6. RowsHeld' /\ RowsAge
  BY <1>1, <1>4, <1>5 DEF RowsHeld, RowsAge
<1> QED
  BY <1>1, <1>3, <1>6, WorldRests

LEMMA ElsewhereHolds ==
  ASSUME ClientInv, Elsewhere, UNCHANGED <<walk, caller>>, Owed
  PROVE  ClientInv'
<1>1. UNCHANGED <<req, reply, late>>
  BY DEF Elsewhere, net
<1>2. RowsHeld /\ UNCHANGED confirmed
  BY DEF ClientInv, RowsHeld, caller
<1>3. ASSUME NEW op \in {"create", "create_template"}, NEW secret, NEW a,
             Handle(Creation(op, secret, 0, Fresh, Fresh), a)
      PROVE  RowsHeld' /\ RowsAge /\ KeysStay
  <2> DEFINE q == Creation(op, secret, 0, Fresh, Fresh)
  <2>1. Fits(q, state, mode, confirmed)
    BY <1>3, ApiAssumption DEF Creation, Fits, OfRow
  <2> HIDE DEF q
  <2>2. Handle(q, a)
    BY <1>3 DEF q
  <2> QED
    BY <1>2, <2>1, <2>2, HandleHolds
<1>4. ASSUME NEW op \in {"void", "delete_template"}, NEW i \in Ids, NEW a,
             Handle(About(op, i), a)
      PROVE  RowsHeld' /\ RowsAge /\ KeysStay
  <2> DEFINE q == About(op, i)
  <2>1. Fits(q, state, mode, confirmed)
    BY <1>4, ApiAssumption DEF About, Creation, Fits, OfRow
  <2> HIDE DEF q
  <2>2. Handle(q, a)
    BY <1>4 DEF q
  <2> QED
    BY <1>2, <2>1, <2>2, HandleHolds
<1>5. RowsHeld' /\ RowsAge /\ KeysStay
  BY <1>3, <1>4, Zenon DEF Elsewhere
<1> QED
  BY <1>1, <1>5, WorldRests DEF KeysStay

\* A page comes: what it shows was not read before, and what it leaves out of
\* what is owed lies behind its last row.
LEMMA ServeListHolds ==
  ASSUME ClientInv, ServeList, UNCHANGED <<walk, caller>>, Owed
  PROVE  ClientInv'
<1> DEFINE found == Rest(walk.query, walk.cursor)
<1>1. /\ req.op = "list" /\ req' = req /\ late' = late /\ UNCHANGED rows
      /\ reply' = <<"page", PageOf(found, walk.limit)>>
  BY DEF ServeList
<1>2. tool' = tool /\ confirmed' = confirmed /\ walk' = walk
  BY DEF caller
<1>3. RowsHeld' /\ RowsAge
  BY <1>1, <1>2, RowsStay DEF ClientInv, RowsHeld
<1>4. state' = state /\ mode' = mode /\ at' = at
  BY <1>1 DEF rows
<1>5. /\ walk \in Lists /\ due \subseteq Ids
      /\ \A i \in due : Matches(walk.query, i)
      /\ \A i \in due : i \in walk.seen \/ Past(walk.cursor, i)
      /\ \A i \in walk.seen : Behind(i, walk.cursor)
  BY <1>1, Zenon DEF ClientInv, WalkHeld
<1>6. /\ walk # NoWalk /\ walk.limit \in Nat \ {0}
      /\ walk.cursor \in Cursors /\ walk.seen \in SUBSET Ids
  BY <1>5, ListIs
<1>7. due' \subseteq due /\ \A i \in due' : Matches(walk.query, i)'
  BY <1>2, <1>6, Zenon DEF Owed
<1>8. tool # "idle" /\ tool # "send_envelope"
  <2>1. req # NoReq
    BY <1>1 DEF NoReq, About, Creation
  <2> QED
    BY <1>1, <2>1, Zenon DEF ClientInv, IdleHeld
<1>9. NetHeld'
  BY <1>1, <1>2, <1>3, NetRests DEF ClientInv
<1>10. SendHeld' /\ IdleHeld'
  BY <1>1, <1>2, <1>8, Zenon DEF SendHeld, IdleHeld
<1>11. WalkHeld'
  <2>1. /\ \A i \in due' : i \in walk'.seen \/ Past(walk.cursor, i)'
        /\ \A i \in walk'.seen : Behind(i, walk.cursor)'
    BY <1>2, <1>4, <1>5, <1>7 DEF Past, Behind
  <2> QED
    BY <1>2, <1>5, <1>7, <2>1 DEF WalkHeld
<1>12. PageHeld'
  <2>1. /\ found \subseteq Ids
        /\ \A i \in Ids : i \in found <=> Matches(walk.query, i) /\ Past(walk.cursor, i)
    BY DEF Rest
  <2> HIDE DEF found
  <2>2. RowTypes
    BY DEF ClientInv
  <2>21. PICK data \in SUBSET found, more \in BOOLEAN : \E next :
          /\ PageOf(found, walk.limit) = [data |-> data, more |-> more, next |-> next]
          /\ ~more => data = found
          /\ more => \E l \in data : /\ next = <<at[l], l>>
                                     /\ \A i \in data : l = i \/ Newer(i, l)
                                     /\ \A i \in found \ data : Newer(l, i)
    BY <1>6, <2>1, <2>2, PageIs
  <2>3. PICK next :
          /\ PageOf(found, walk.limit) = [data |-> data, more |-> more, next |-> next]
          /\ ~more => data = found
          /\ more => \E l \in data : /\ next = <<at[l], l>>
                                     /\ \A i \in data : l = i \/ Newer(i, l)
                                     /\ \A i \in found \ data : Newer(l, i)
    BY <2>21
  <2>4. walk.seen \cap data = {}
    <3>1. SUFFICES ASSUME NEW i \in walk.seen, i \in data PROVE FALSE
      OBVIOUS
    <3>2. Matches(walk.query, i) /\ Past(walk.cursor, i) /\ i \in Ids
      BY <2>1, <3>1
    <3>3. state[i] # "DELETED"
      BY <3>2, MatchIsThere
    <3> QED
      BY <1>5, <3>2, <3>3, Zenon DEF Behind
  <2>5. ASSUME more
        PROVE  /\ next \in Nat \X Nat
               /\ \A i \in walk.seen \cup data : Behind(i, next)
               /\ \A i \in found \ data : Past(next, i)
    <3>1. PICK l \in data : /\ next = <<at[l], l>>
                            /\ \A i \in data : l = i \/ Newer(i, l)
                            /\ \A i \in found \ data : Newer(l, i)
      BY <2>3, <2>5
    <3>2. l \in Ids /\ Past(walk.cursor, l)
      BY <2>1
    <3>3. next \in Nat \X Nat
      BY <2>2, <3>1, <3>2, ApiAssumption DEF RowTypes
    <3>4. \A i \in found \ data : Past(next, i)
      BY <2>1, <2>2, <3>1, <3>2, NewerIsOrder
    <3>5. ASSUME NEW i \in data PROVE Behind(i, next)
      <4>1. i \in Ids /\ Matches(walk.query, i)
        BY <2>1
      <4>2. ~Newer(l, i)
        BY <2>2, <3>1, <3>2, <4>1, NewerIsOrder
      <4>3. ~Past(next, i)
        BY <2>2, <3>1, <3>2, <4>1, <4>2, NewerIsOrder
      <4> QED
        BY <4>1, <4>3, MatchIsThere DEF Behind
    <3>6. ASSUME NEW i \in walk.seen PROVE Behind(i, next)
      <4>1. i \in Ids /\ Behind(i, walk.cursor)
        BY <1>5, <1>6
      <4>2. Newer(l, i) => Past(walk.cursor, i)
        <5>1. /\ at[l] \in Nat /\ at[i] \in Nat /\ l \in Nat /\ i \in Nat
          BY <2>2, <3>2, <4>1, ApiAssumption DEF RowTypes
        <5>2. CASE walk.cursor = <<>>
          BY <5>2 DEF Past
        <5>3. CASE walk.cursor \in Nat \X Nat
          <6>1. PICK t \in Nat, m \in Nat : walk.cursor = <<t, m>>
            BY <5>3
          <6>2. walk.cursor[1] = t /\ walk.cursor[2] = m /\ walk.cursor # <<>>
            BY <6>1
          <6>3. at[l] < t \/ (at[l] = t /\ l < m)
            BY <3>2, <6>2 DEF Past
          <6> QED
            BY <5>1, <6>2, <6>3 DEF Newer, Past
        <5> QED
          BY <1>6, <5>2, <5>3 DEF Cursors
      <4>3. Past(next, i) => Newer(l, i)
        BY <2>2, <3>1, <3>2, <4>1, NewerIsOrder
      <4> QED
        BY <4>1, <4>2, <4>3, Zenon DEF Behind
    <3> QED
      BY <3>3, <3>4, <3>5, <3>6
  <2>6. \A i \in due : i \in walk.seen \cup data \/ (more /\ Past(next, i))
    <3>1. SUFFICES ASSUME NEW i \in due, i \notin walk.seen, i \notin data
                   PROVE  more /\ Past(next, i)
      BY Zenon
    <3>2. i \in found
      BY <1>5, <2>1, <3>1
    <3>3. more
      BY <2>3, <3>1, <3>2, Zenon
    <3> QED
      BY <2>5, <3>1, <3>2, <3>3
  <2>7. next \in Cursors
    <3>1. ~(Cardinality(found) > walk.limit) => PageOf(found, walk.limit).next = <<>>
      BY DEF PageOf
    <3>2. PageOf(found, walk.limit).more = (Cardinality(found) > walk.limit)
      BY Zenon DEF PageOf
    <3>3. PageOf(found, walk.limit).more = more /\ PageOf(found, walk.limit).next = next
      BY <2>3
    <3>4. ~more => next = <<>>
      BY <3>1, <3>2, <3>3, Zenon
    <3> QED
      BY <2>5, <3>4 DEF Cursors
  <2>8. data \in SUBSET Ids
    BY <2>1
  <2>9. reply'[2] = [data |-> data, more |-> more, next |-> next]
    BY <1>1, <2>3
  <2>10. /\ \A i \in due' : i \in walk'.seen \cup data \/ (more /\ Past(next, i)')
         /\ more => \A i \in walk'.seen \cup data : Behind(i, next)'
         /\ walk'.seen \cap data = {}
    <3>1. walk'.seen = walk.seen
      BY <1>2
    <3>2. \A i \in due' : i \in walk'.seen \cup data \/ (more /\ Past(next, i))
      BY <1>7, <2>6, <3>1, Zenon
    <3>3. more => \A i \in walk'.seen \cup data : Behind(i, next)
      BY <2>5, <3>1, Zenon
    <3>4. /\ \A i \in due' : Past(next, i) => Past(next, i)'
          /\ \A i : Behind(i, next) => Behind(i, next)'
      BY <1>4 DEF Past, Behind
    <3> QED
      BY <2>4, <3>1, <3>2, <3>3, <3>4, Zenon
  <2> QED
    BY <2>5, <2>7, <2>8, <2>9, <2>10, Zenon DEF PageHeld
<1>13. AnswerHeld'
  BY <1>1 DEF AnswerHeld
<1> QED
  BY <1>3, <1>9, <1>10, <1>11, <1>12, <1>13, Zenon DEF ClientInv, RowsHeld

-----------------------------------------------------------------------------
\* The steps of the programs.

\* Requests in flight do not notice that a caller goes on.
LEMMA NetGoesOn ==
  ASSUME ClientInv, UNCHANGED <<rows, late>>, confirmed \subseteq confirmed',
         Fits(req', state, mode, confirmed')
  PROVE  RowsHeld' /\ RowsAge /\ NetHeld'
<1>1. RowsHeld' /\ RowsAge
  BY RowsStay DEF ClientInv, RowsHeld
<1>2. state' = state /\ mode' = mode /\ late' = late
  BY DEF rows
<1>3. ASSUME NEW q \in late PROVE Fits(q, state', mode', confirmed')
  <2>1. Fits(q, state, mode, confirmed)
    BY DEF ClientInv, NetHeld
  <2> QED
    BY <1>1, <2>1, FitsStay
<1>4. Fits(req', state', mode', confirmed')
  BY <1>2, Zenon
<1>5. NetHeld'
  BY <1>2, <1>3, <1>4 DEF NetHeld
<1> QED
  BY <1>1, <1>5

LEMMA CallHolds ==
  ASSUME ClientInv, NEW name \in {"one", "send_envelope"}, NEW q, Call(name, q),
         confirmed \subseteq confirmed', q.op # "list",
         Fits(q, state, mode, confirmed'),
         name = "send_envelope" =>
           q.op \in {"create", "from_template"} /\ q.idem = Fresh
  PROVE  ClientInv'
<1>1. /\ tool = "idle" /\ tool' = name /\ req' = q
      /\ UNCHANGED <<rows, reply, late, walk>>
  BY DEF Call
<1>2. reply = NoReply /\ req = NoReq
  BY <1>1, Zenon DEF ClientInv, IdleHeld
<1>3. walk = NoWalk
  <2>1. req.op # "list"
    BY <1>2 DEF NoReq, About, Creation
  <2> QED
    BY <2>1, Zenon DEF ClientInv, IdleHeld
<1>4. RowsHeld' /\ NetHeld'
  BY <1>1, NetGoesOn
<1>5. reply'[1] = "none" /\ walk' = NoWalk
  BY <1>1, <1>2, <1>3 DEF NoReply
<1>6. SendHeld'
  BY <1>1, <1>5 DEF SendHeld
<1>7. AnswerHeld' /\ IdleHeld' /\ WalkHeld' /\ PageHeld'
  BY <1>1, <1>5 DEF AnswerHeld, IdleHeld, WalkHeld, PageHeld
<1> QED
  BY <1>4, <1>6, <1>7, Zenon DEF ClientInv, RowsHeld

\* Every call of a tool or an SDK but a list's.
LEMMA CallsHold ==
  ASSUME ClientInv, McpTool \/ JsMethod \/ PyMethod
  PROVE  ClientInv'
<1>1. ASSUME NEW op \in {"create", "from_template", "create_template"},
             NEW secret, NEW i, NEW key, NEW name \in {"one", "send_envelope"},
             Call(name, Creation(op, secret, i, key, key)), UNCHANGED confirmed,
             name = "send_envelope" => op # "create_template" /\ key = Fresh
      PROVE  ClientInv'
  <2> DEFINE q == Creation(op, secret, i, key, key)
  <2>1. /\ Fits(q, state, mode, confirmed') /\ q.op # "list"
        /\ name = "send_envelope" =>
             q.op \in {"create", "from_template"} /\ q.idem = Fresh
    BY <1>1 DEF Creation, Fits, OfRow
  <2> HIDE DEF q
  <2>2. Call(name, q)
    BY <1>1 DEF q
  <2>3. confirmed \subseteq confirmed'
    BY <1>1
  <2> QED
    BY <2>1, <2>2, <2>3, CallHolds
<1>2. ASSUME NEW op \in (OfRow \ {"send"}) \cup {"signup", "upgrade"}, NEW i,
             op \in OfRow => i \in Ids, Call("one", About(op, i)), UNCHANGED confirmed
      PROVE  ClientInv'
  <2> DEFINE q == About(op, i)
  <2>1. Fits(q, state, mode, confirmed') /\ q.op # "list"
    BY <1>2, ApiAssumption DEF About, Creation, Fits, OfRow
  <2> HIDE DEF q
  <2>2. Call("one", q)
    BY <1>2 DEF q
  <2>3. confirmed \subseteq confirmed'
    BY <1>2
  <2> QED
    BY <2>1, <2>2, <2>3, CallHolds
<1>3. ASSUME NEW i \in EnvelopeIds, AskToSend(About("send", i)) PROVE ClientInv'
  <2> DEFINE q == About("send", i)
  <2>1. q.op = "send" /\ q.id = i /\ q.meant = q.idem /\ i \in Ids /\ state[i] # "none"
        /\ q.idem \notin IdemKeys
    BY ApiAssumption DEF About, Creation, EnvelopeIds, Envelope, Statuses
  <2> HIDE DEF q
  <2>2. /\ Call("one", q)
        /\ confirmed' = confirmed \cup {j \in {q.id} : state[j] = "DRAFT"}
    BY <1>3 DEF AskToSend, q
  <2>3. state[i] = "DRAFT" => i \in confirmed'
    BY <2>1, <2>2
  <2>4. Fits(q, state, mode, confirmed') /\ q.op # "list"
    BY <2>1, <2>3 DEF Fits
  <2>5. confirmed \subseteq confirmed'
    BY <2>2
  <2> QED
    BY <2>2, <2>4, <2>5, CallHolds
<1>4. EnvelopeIds \subseteq Ids /\ TemplateIds \subseteq Ids
  BY DEF EnvelopeIds, TemplateIds
<1>5. ASSUME McpTool PROVE ClientInv'
  <2>1. ASSUME NEW secret, NEW c, McpSendEnvelope(secret, c) PROVE ClientInv'
    BY <1>1, <2>1 DEF McpSendEnvelope
  <2>2. ASSUME NEW secret, NEW c, NEW i, McpSendFromTemplate(secret, c, i)
        PROVE  ClientInv'
    BY <1>1, <2>2 DEF McpSendFromTemplate
  <2>3. ASSUME NEW i \in EnvelopeIds,
               \/ McpConfirmSend(i) \/ McpCheckStatus(i) \/ McpVoidEnvelope(i)
               \/ McpDownloadSignedPdf(i) \/ McpCreateEmbeddedUrl(i)
        PROVE  ClientInv'
    BY <1>2, <1>3, <1>4, <2>3 DEF McpConfirmSend, McpCheckStatus, McpVoidEnvelope,
       McpDownloadSignedPdf, McpCreateEmbeddedUrl, McpApiCall, McpApiDownload, OfRow
  <2>4. ASSUME McpSignup \/ McpUpgrade PROVE ClientInv'
    BY <1>2, <2>4 DEF McpSignup, McpUpgrade, McpApiCall, OfRow
  <2> QED
    BY <1>5, <2>1, <2>2, <2>3, <2>4 DEF McpTool
<1>6. ASSUME JsMethod PROVE ClientInv'
  <2>1. ASSUME NEW secret, JsCreate(secret) \/ JsCreateTemplate(secret) PROVE ClientInv'
    BY <1>1, <2>1 DEF JsCreate, JsCreateTemplate, JsRequest
  <2>2. ASSUME NEW secret, NEW i, JsCreateFromTemplate(secret, i) PROVE ClientInv'
    BY <1>1, <2>2 DEF JsCreateFromTemplate, JsRequest
  <2>3. ASSUME NEW i \in EnvelopeIds,
               JsSend(i) \/ JsVoid(i) \/ JsGet(i) \/ JsCreateEmbeddedUrl(i)
        PROVE  ClientInv'
    BY <1>2, <1>3, <1>4, <2>3
       DEF JsSend, JsVoid, JsGet, JsCreateEmbeddedUrl, JsRequest, OfRow
  <2>4. ASSUME NEW i \in TemplateIds,
               JsGetTemplate(i) \/ JsUpdateTemplate(i) \/ JsDeleteTemplate(i)
        PROVE  ClientInv'
    BY <1>2, <1>4, <2>4
       DEF JsGetTemplate, JsUpdateTemplate, JsDeleteTemplate, JsRequest, OfRow
  <2>5. ASSUME JsSignup \/ JsUpgradeUrl PROVE ClientInv'
    BY <1>2, <2>5 DEF JsSignup, JsUpgradeUrl, JsRequest, OfRow
  <2> QED
    BY <1>6, <2>1, <2>2, <2>3, <2>4, <2>5 DEF JsMethod
<1>7. ASSUME PyMethod PROVE ClientInv'
  <2>1. ASSUME NEW secret, NEW key, PyCreate(secret, key) PROVE ClientInv'
    BY <1>1, <2>1 DEF PyCreate, PyRequest, IdempotencyKey
  <2>2. ASSUME NEW secret, NEW key, NEW i, PyCreateFromTemplate(secret, key, i)
        PROVE  ClientInv'
    BY <1>1, <2>2 DEF PyCreateFromTemplate, PyRequest, IdempotencyKey
  <2>3. ASSUME NEW secret, PyCreateTemplate(secret) PROVE ClientInv'
    BY <1>1, <2>3 DEF PyCreateTemplate, PyRequest
  <2>4. ASSUME NEW i \in EnvelopeIds,
               PySend(i) \/ PyVoid(i) \/ PyGet(i) \/ PyCreateEmbeddedUrl(i)
        PROVE  ClientInv'
    BY <1>2, <1>3, <1>4, <2>4
       DEF PySend, PyVoid, PyGet, PyCreateEmbeddedUrl, PyRequest, OfRow
  <2>5. ASSUME NEW i \in TemplateIds,
               PyGetTemplate(i) \/ PyUpdateTemplate(i) \/ PyDeleteTemplate(i)
        PROVE  ClientInv'
    BY <1>2, <1>4, <2>5
       DEF PyGetTemplate, PyUpdateTemplate, PyDeleteTemplate, PyRequest, OfRow
  <2>6. ASSUME PySignup \/ PyUpgradeUrl PROVE ClientInv'
    BY <1>2, <2>6 DEF PySignup, PyUpgradeUrl, PyRequest, OfRow
  <2> QED
    BY <1>7, <2>1, <2>2, <2>3, <2>4, <2>5, <2>6 DEF PyMethod
<1> QED
  BY <1>5, <1>6, <1>7

LEMMA ListHolds ==
  ASSUME ClientInv, Owed, NEW name \in {"first_page", "pages"}, NEW query \in Queries,
         NEW raw \in Limits, List(name, query, raw)
  PROVE  ClientInv'
<1>1. /\ tool = "idle" /\ tool' = name /\ req' = About("list", 0)
      /\ walk' = [NoWalk EXCEPT !.query = query, !.limit = ParseLimit(raw)]
      /\ UNCHANGED <<rows, reply, late>> /\ UNCHANGED confirmed
  BY DEF List
<1>2. reply = NoReply /\ req = NoReq
  BY <1>1, Zenon DEF ClientInv, IdleHeld
<1>3. walk = NoWalk
  <2>1. req.op # "list"
    BY <1>2 DEF NoReq, About, Creation
  <2> QED
    BY <2>1, Zenon DEF ClientInv, IdleHeld
<1>4. Fits(req', state, mode, confirmed')
  BY <1>1, ApiAssumption DEF About, Creation, Fits, OfRow
<1>5. RowsHeld' /\ NetHeld'
  BY <1>1, <1>4, NetGoesOn
<1>6. reply'[1] = "none" /\ req'.op = "list"
  BY <1>1, <1>2 DEF NoReply, About, Creation
<1>7. AnswerHeld' /\ SendHeld' /\ IdleHeld'
  BY <1>1, <1>6 DEF AnswerHeld, SendHeld, IdleHeld
<1>8. PageHeld'
  BY <1>6 DEF PageHeld
<1>9. walk' = [query |-> query, limit |-> ParseLimit(raw), cursor |-> <<>>, seen |-> {}]
  BY <1>1 DEF NoWalk
<1>10. ParseLimit(raw) \in 1..MaxLimit
  BY ApiAssumption DEF ParseLimit, Limits
<1>11. walk' \in Lists
  BY <1>9, <1>10 DEF Lists, Cursors
<1>12. walk' # NoWalk
  BY <1>9, <1>10 DEF NoWalk
<1>13. due' = {i \in Ids : Matches(walk.query, i)'}
  BY <1>3, <1>12, Zenon DEF Owed
<1>14. /\ due' \subseteq Ids /\ \A i \in due' : Matches(walk.query, i)'
  BY <1>13, Zenon
<1>15. \A i \in due' : Past(walk.cursor, i)'
  BY <1>9 DEF Past
<1>16. walk'.seen = {}
  BY <1>9
<1>17. WalkHeld'
  BY <1>11, <1>14, <1>15, <1>16, Zenon DEF WalkHeld
<1> QED
  BY <1>5, <1>7, <1>8, <1>17, Zenon DEF ClientInv, RowsHeld

LEMMA ListsHold ==
  ASSUME ClientInv, Owed,
         \/ McpListTemplates \/ \E secret \in Secrets : McpListEnvelopes(secret)
         \/ JsList \/ PyList
  PROVE  ClientInv'
<1>1. 0 \in Limits /\ [of |-> "templates"] \in Queries
  BY DEF Limits, Queries
<1>2. ASSUME NEW secret, McpListEnvelopes(secret) PROVE ClientInv'
  <2>1. ModeOf(secret) \in {"TEST", "LIVE"}
    BY DEF ModeOf
  <2>2. [of |-> "envelopes", mode |-> ModeOf(secret), status |-> "any"] \in Queries
    BY <2>1 DEF Queries
  <2> QED
    BY <1>1, <1>2, <2>2, ListHolds DEF McpListEnvelopes
<1>3. ASSUME McpListTemplates PROVE ClientInv'
  BY <1>1, <1>3, ListHolds DEF McpListTemplates
<1>4. ASSUME JsList \/ PyList PROVE ClientInv'
  BY <1>4, ListHolds DEF JsList, PyList
<1> QED
  BY <1>2, <1>3, <1>4

\* The call is over.
LEMMA ReturnHolds ==
  ASSUME ClientInv, UNCHANGED <<rows, late>>, UNCHANGED confirmed,
         tool' = "idle", req' = NoReq, reply' = NoReply, walk' = NoWalk
  PROVE  ClientInv'
<1>1. /\ req'.op = "none" /\ req'.meant = req'.idem /\ reply'[1] = "none"
      /\ req'.idem \notin IdemKeys
  BY ApiAssumption DEF NoReq, About, Creation, NoReply
<1>2. Fits(req', state, mode, confirmed')
  BY <1>1 DEF Fits, OfRow
<1>3. RowsHeld' /\ NetHeld'
  BY <1>2, NetGoesOn
<1>4. AnswerHeld' /\ SendHeld' /\ IdleHeld' /\ WalkHeld' /\ PageHeld'
  BY <1>1 DEF AnswerHeld, SendHeld, IdleHeld, WalkHeld, PageHeld
<1> QED
  BY <1>3, <1>4, Zenon DEF ClientInv, RowsHeld

LEMMA TakePageHolds ==
  ASSUME ClientInv, Owed, TakePage
  PROVE  ClientInv'
<1> DEFINE page == reply[2]
           last == ~page.more \/ tool = "first_page"
<1>1. /\ reply[1] = "page" /\ reply' = NoReply
      /\ UNCHANGED <<rows, late>> /\ UNCHANGED confirmed
      /\ walk' = IF last THEN NoWalk ELSE [walk EXCEPT !.cursor = page.next,
                                                       !.seen = walk.seen \cup page.data]
      /\ tool' = IF last THEN "idle" ELSE tool
      /\ req' = IF last THEN NoReq ELSE req
  BY DEF TakePage
<1>2. CASE last
  BY <1>1, <1>2, ReturnHolds
<1>3. CASE ~last
  <2>1. /\ walk' = [walk EXCEPT !.cursor = page.next, !.seen = walk.seen \cup page.data]
        /\ tool' = tool /\ req' = req
    BY <1>1, <1>3
  <2>2. page.more
    BY <1>3, Zenon
  <2>3. PICK data \in SUBSET Ids, more \in BOOLEAN, next \in Cursors :
          /\ reply[2] = [data |-> data, more |-> more, next |-> next]
          /\ \A i \in due : i \in walk.seen \cup data \/ (more /\ Past(next, i))
          /\ more => /\ next \in Nat \X Nat
                     /\ \A i \in walk.seen \cup data : Behind(i, next)
    BY <1>1, Zenon DEF ClientInv, PageHeld
  <2>4. page.data = data /\ page.next = next /\ page.more = more
    BY <2>3
  <2>5. more
    BY <2>2, <2>4, Zenon
  <2>6. req.op = "list"
    BY <1>1, Zenon DEF ClientInv, IdleHeld
  <2>7. walk \in Lists /\ due \subseteq Ids
    BY <2>6, Zenon DEF ClientInv, WalkHeld
  <2>8. walk' \in Lists /\ walk'.cursor = next /\ walk'.seen = walk.seen \cup data
        /\ walk'.query = walk.query
    <3>1. walk' = [walk EXCEPT !.cursor = next, !.seen = walk.seen \cup data]
      BY <2>1, <2>4
    <3> QED
      BY <2>3, <2>7, <3>1 DEF Lists
  <2>9. walk # NoWalk
    BY <2>7, ListIs
  <2>10. walk' # NoWalk
    <3>1. walk'.limit = walk.limit
      BY <2>1, <2>7 DEF Lists
    <3>2. walk.limit # 0 /\ NoWalk.limit = 0
      BY <2>7, ListIs DEF NoWalk
    <3> QED
      BY <3>1, <3>2
  <2>11. due' = {i \in due : Matches(walk.query, i)'}
    BY <2>9, <2>10, Zenon DEF Owed
  <2>12. due' \subseteq due /\ \A i \in due' : Matches(walk.query, i)'
    BY <2>11, Zenon
  <2>13. state' = state /\ at' = at
    BY <1>1 DEF rows
  <2>14. /\ \A i \in due' : i \in walk'.seen \/ Past(next, i)
         /\ \A i \in walk'.seen : Behind(i, next)
    BY <2>3, <2>5, <2>8, <2>12, Zenon
  <2>15. /\ \A i : Past(next, i) => Past(walk.cursor, i)'
         /\ \A i : Behind(i, next) => Behind(i, walk.cursor)'
    BY <2>8, <2>13 DEF Past, Behind
  <2>16. WalkHeld'
    BY <2>7, <2>8, <2>12, <2>14, <2>15, Zenon DEF WalkHeld
  <2>17. Fits(req', state, mode, confirmed')
    BY <1>1, <2>1, Zenon DEF ClientInv, NetHeld
  <2>18. RowsHeld' /\ NetHeld'
    BY <1>1, <2>17, NetGoesOn
  <2>19. reply'[1] = "none"
    BY <1>1 DEF NoReply
  <2>20. AnswerHeld' /\ SendHeld' /\ IdleHeld' /\ PageHeld'
    BY <1>1, <2>1, <2>6, <2>19 DEF ClientInv, AnswerHeld, SendHeld, IdleHeld, PageHeld
  <2> QED
    BY <2>16, <2>18, <2>20, Zenon DEF ClientInv, RowsHeld
<1> QED
  BY <1>2, <1>3

LEMMA RetryPageHolds ==
  ASSUME ClientInv, Owed, RetryPage
  PROVE  ClientInv'
<1>1. /\ tool = "pages" /\ reply = Failed /\ reply' = NoReply /\ req' = req
      /\ walk' = walk /\ UNCHANGED <<rows, late>> /\ UNCHANGED <<tool, confirmed>>
  BY DEF RetryPage, caller
<1>2. Fits(req', state, mode, confirmed')
  BY <1>1, Zenon DEF ClientInv, NetHeld
<1>3. RowsHeld' /\ RowsAge /\ NetHeld'
  BY <1>1, <1>2, NetGoesOn
<1>4. reply'[1] = "none"
  BY <1>1 DEF NoReply
<1>5. AnswerHeld' /\ SendHeld' /\ IdleHeld' /\ PageHeld'
  BY <1>1, <1>4 DEF ClientInv, AnswerHeld, SendHeld, IdleHeld, PageHeld
<1>6. WalkHeld'
  <2>1. CASE req.op # "list"
    BY <1>1, <2>1, Zenon DEF WalkHeld
  <2>2. CASE req.op = "list"
    <3>1. /\ walk \in Lists /\ due \subseteq Ids
          /\ \A i \in due : Matches(walk.query, i)
          /\ \A i \in due : i \in walk.seen \/ Past(walk.cursor, i)
          /\ \A i \in walk.seen : Behind(i, walk.cursor)
      BY <2>2, Zenon DEF ClientInv, WalkHeld
    <3>2. state' = state /\ at' = at
      BY <1>1 DEF rows
    <3>3. walk # NoWalk
      BY <3>1, ListIs
    <3>4. due' \subseteq due /\ \A i \in due' : Matches(walk.query, i)'
      BY <1>1, <3>3, Zenon DEF Owed
    <3>5. /\ \A i \in due' : i \in walk'.seen \/ Past(walk.cursor, i)'
          /\ \A i \in walk'.seen : Behind(i, walk.cursor)'
      BY <1>1, <3>1, <3>2, <3>4 DEF Past, Behind
    <3> QED
      BY <1>1, <3>1, <3>4, <3>5, Zenon DEF WalkHeld
  <2> QED
    BY <2>1, <2>2
<1> QED
  BY <1>3, <1>5, <1>6, Zenon DEF ClientInv, RowsHeld

\* Past the gate the draft is a test, or someone has confirmed it.
LEMMA GoOnHolds ==
  ASSUME ClientInv, Owed, GoOnToSend
  PROVE  ClientInv'
<1>1. /\ tool = "send_envelope" /\ reply[1] = "ok" /\ ~Gated
      /\ tool' = "one" /\ req' = About("send", reply[2]) /\ reply' = NoReply
      /\ confirmed' = IF confirm THEN confirmed \cup {reply[2]} ELSE confirmed
      /\ UNCHANGED <<rows, late, walk>>
  BY DEF GoOnToSend
<1>2. /\ req.op # "list" /\ reply[2] \in Ids /\ state[reply[2]] # "none"
      /\ mode[reply[2]] = ModeOf(req.secret)
  BY <1>1 DEF ClientInv, SendHeld
<1>3. walk = NoWalk
  BY <1>2, Zenon DEF ClientInv, IdleHeld
<1>4. reply[2] \in confirmed' \/ mode[reply[2]] = "TEST"
  <2>1. CASE confirm
    BY <1>1, <2>1
  <2>2. CASE ~confirm
    <3>1. req.secret = "sk_test_"
      BY <1>1, <2>2, Zenon DEF Gated, IsLiveKey
    <3> QED
      BY <1>2, <3>1 DEF ModeOf
  <2> QED
    BY <2>1, <2>2
<1>5. req'.op = "send" /\ req'.id = reply[2] /\ req'.meant = req'.idem
      /\ req'.idem \notin IdemKeys
  BY <1>1, ApiAssumption DEF About, Creation
<1>6. Fits(req', state, mode, confirmed')
  BY <1>2, <1>4, <1>5 DEF Fits
<1>7. confirmed \subseteq confirmed'
  BY <1>1
<1>8. RowsHeld' /\ NetHeld'
  BY <1>1, <1>6, <1>7, NetGoesOn
<1>9. reply'[1] = "none"
  BY <1>1 DEF NoReply
<1>10. AnswerHeld' /\ SendHeld' /\ IdleHeld' /\ WalkHeld' /\ PageHeld'
  BY <1>1, <1>3, <1>5, <1>9 DEF AnswerHeld, SendHeld, IdleHeld, WalkHeld, PageHeld
<1> QED
  BY <1>8, <1>10, Zenon DEF ClientInv, RowsHeld

-----------------------------------------------------------------------------
LEMMA ClientStart ==
  ASSUME Init
  PROVE  ClientInv
<1>1. /\ mode \in [Ids -> {"TEST", "LIVE"}] /\ at \in [Ids -> Times \cup {0}]
      /\ under = [k \in IdemKeys |-> {}] /\ bound = [k \in IdemKeys |-> <<>>]
      /\ req = NoReq /\ reply = NoReply /\ late = {} /\ walk = NoWalk
      /\ tool = "idle" /\ confirmed = {i \in Ids : state[i] = "SENT"}
  BY DEF Init
<1>2. state \in [Ids -> {"none", "DRAFT", "SENT", "TEMPLATE"}]
  BY Zenon DEF Init
<1>3. at \in [Ids -> Nat]
  <2>1. Times \cup {0} \subseteq Nat
    BY ApiAssumption
  <2> QED
    BY <1>1, <2>1
<1>4. RowTypes
  BY <1>1, <1>2, <1>3 DEF RowTypes, Statuses
<1>5. LiveNeedsConfirmation /\ KeysHeld
  BY <1>1, <1>2 DEF LiveNeedsConfirmation, KeysHeld
<1>6. req.op = "none" /\ req.meant = req.idem /\ reply[1] = "none"
      /\ req.idem \notin IdemKeys
  BY <1>1, ApiAssumption DEF NoReq, About, Creation, NoReply
<1>7. NetHeld
  BY <1>1, <1>6 DEF NetHeld, Fits, OfRow
<1>8. AnswerHeld /\ SendHeld /\ IdleHeld /\ WalkHeld /\ PageHeld
  BY <1>1, <1>6 DEF AnswerHeld, SendHeld, IdleHeld, WalkHeld, PageHeld
<1> QED
  BY <1>4, <1>5, <1>7, <1>8 DEF ClientInv

LEMMA ClientNext ==
  ASSUME ClientInv, [Next]_vars
  PROVE  ClientInv'
<1>1. CASE UNCHANGED vars
  <2>1. UNCHANGED <<state, mode, at, bound, under>> /\ UNCHANGED <<req, reply, late>>
        /\ UNCHANGED <<walk, due, tool, confirmed>>
    BY <1>1 DEF vars, rows, net, caller
  <2>2. RowTypes' /\ LiveNeedsConfirmation' /\ KeysHeld'
    BY <2>1, Zenon DEF ClientInv, RowTypes, LiveNeedsConfirmation, KeysHeld
  <2>3. NetHeld' /\ SendHeld' /\ AnswerHeld' /\ IdleHeld'
    BY <2>1, Zenon DEF ClientInv, NetHeld, SendHeld, AnswerHeld, IdleHeld
  <2>4. /\ \A i : Matches(walk.query, i)' <=> Matches(walk.query, i)
        /\ \A i : Past(walk.cursor, i)' <=> Past(walk.cursor, i)
        /\ \A i : Behind(i, walk.cursor)' <=> Behind(i, walk.cursor)
        /\ \A i, c : Past(c, i)' <=> Past(c, i)
        /\ \A i, c : Behind(i, c)' <=> Behind(i, c)
    BY <2>1 DEF Matches, MatchesTemplate, MatchesEnvelope, Envelope, Past, Behind
  <2>5. WalkHeld' /\ PageHeld'
    BY <2>1, <2>4, Zenon DEF ClientInv, WalkHeld, PageHeld
  <2> QED
    BY <2>2, <2>3, <2>5, Zenon DEF ClientInv
<1>2. CASE Client /\ Owed
  <2>1. Throw \/ Done \/ HoldDraft =>
          /\ UNCHANGED <<rows, late>> /\ UNCHANGED confirmed
          /\ tool' = "idle" /\ req' = NoReq /\ reply' = NoReply /\ walk' = NoWalk
    BY DEF Throw, Done, HoldDraft, Return
  <2> QED
    BY <1>2, <2>1, CallsHold, ListsHold, TakePageHolds, RetryPageHolds, ReturnHolds,
       GoOnHolds DEF Client
<1>3. CASE World /\ Owed
  BY <1>3, ServeHolds, ServeListHolds, GiveUpHolds, ServeLateHolds, EndsHolds,
     ForgetKeyHolds, ElsewhereHolds DEF World
<1> QED
  BY <1>1, <1>2, <1>3 DEF Next

\* The invariant behind the three theorems below.
THEOREM ClientHolds == Spec => []ClientInv
<1>1. Init => ClientInv
  BY ClientStart
<1>2. ClientInv /\ [Next]_vars => ClientInv'
  BY ClientNext
<1> QED
  BY <1>1, <1>2, PTL DEF Spec

\* Nothing that was made for a live account is emailed before someone has asked
\* for that very envelope to be sent, whichever key a tool of the MCP server runs
\* with and whichever of its requests are lost, late or answered twice: the gate of
\* swiftsign_send_envelope and of swiftsign_send_from_template lets only tests and
\* confirmed drafts through, and any other send names its envelope.
THEOREM SendIsConfirmed == Spec => []LiveNeedsConfirmation
<1>1. ClientInv => LiveNeedsConfirmation
  BY DEF ClientInv
<1> QED
  BY <1>1, ClientHolds, PTL

\* As long as the API remembers an Idempotency-Key of a caller's, creates with it
\* make one envelope, and each that is answered names it, for any number of
\* retries and of requests that arrive late: the Python SDK hands the key on, and
\* the first row is bound to it together with its insertion.  After a day the
\* sweep prunes the key, and a repeat makes another envelope.
THEOREM RetryIsOne == Spec => []RetryMakesOne
<1>1. ClientInv => RetryMakesOne
  <2>1. SUFFICES ASSUME ClientInv PROVE RetryMakesOne
    OBVIOUS
  <2>2. ASSUME NEW k \in IdemKeys PROVE Cardinality(under[k]) <= 1
    <3>1. under[k] = {} \/ under[k] = {bound[k][1]}
      BY <2>1 DEF ClientInv, KeysHeld
    <3>2. Cardinality(under[k]) = 0 \/ Cardinality(under[k]) = 1
      BY <3>1, FS_EmptySet, FS_Singleton, Zenon
    <3> QED
      BY <3>2
  <2>3. req.meant = req.idem
    BY <2>1 DEF ClientInv, NetHeld, Fits
  <2>4. req.meant \in IdemKeys /\ reply[1] = "ok" => under[req.meant] = {reply[2]}
    BY <2>1, <2>3 DEF ClientInv, AnswerHeld
  <2> QED
    BY <2>2, <2>4, Zenon DEF RetryMakesOne
<1> QED
  BY <1>1, ClientHolds, PTL

\* A list that is read page by page skips no row that matched throughout and shows
\* none twice, for any page size and any number of rows, although rows of the same
\* millisecond appear, change and vanish between the pages: the cursor orders by
\* createdAt and id, and a page is cut off behind its last row.
THEOREM WalkMissesNone == Spec => []WalkIsComplete
<1>1. ClientInv => WalkIsComplete
  <2>1. SUFFICES ASSUME ClientInv, reply[1] = "page"
                 PROVE  /\ walk.seen \cap reply[2].data = {}
                        /\ ~reply[2].more => due \subseteq walk.seen \cup reply[2].data
    BY Zenon DEF WalkIsComplete
  <2>2. PICK data \in SUBSET Ids, more \in BOOLEAN, next \in Cursors :
          /\ reply[2] = [data |-> data, more |-> more, next |-> next]
          /\ walk.seen \cap data = {}
          /\ \A i \in due : i \in walk.seen \cup data \/ (more /\ Past(next, i))
    BY <2>1, Zenon DEF ClientInv, PageHeld
  <2>3. reply[2].data = data /\ reply[2].more = more
    BY <2>2
  <2>4. ~more => due \subseteq walk.seen \cup data
    BY <2>2, Zenon
  <2> QED
    BY <2>2, <2>3, <2>4, Zenon
<1> QED
  BY <1>1, ClientHolds, PTL

-----------------------------------------------------------------------------
\* The importer.  Placements are rounded, and sequences are cut and joined.

\* p is a of b in hundredths of a per cent, to the nearest.
IsRounded(p, a, b) ==
  /\ p \in 0..10000
  /\ 2 * (p * b - 10000 * a) <= b /\ -2 * (p * b - 10000 * a) <= b

\* A place on the page is not clamped.
LEMMA Rounded ==
  ASSUME NEW a \in Int, NEW b \in Int, b > 0, a >= 0, a <= b
  PROVE  IsRounded(Pct(a, b), a, b)
  <1> DEFINE q == (2 * 10000 * a + b) \div (2 * b)
  <1>1. q \in Int /\ 2 * (q * b - 10000 * a) <= b /\ -2 * (q * b - 10000 * a) <= b
    OBVIOUS
  <1>2. q \in 0..10000
    OBVIOUS
  <1>3. Percent(a, b) = q
    BY DEF Percent, Full
  <1> HIDE DEF q
  <1>4. Pct(a, b) = q
    BY <1>2, <1>3 DEF Pct, Clamp, Full
  <1> QED
    BY <1>1, <1>2, <1>4 DEF IsRounded

\* The foot of a box from the bottom of its page, and that of the tab: as far from
\* each other as their tops.
LEMMA Upright ==
  ASSUME NEW y \in Int, NEW h \in Int, NEW s \in Int, NEW t \in Int
  PROVE  (10000 - y - h) * s - (10000 * (s - t) - h * s) = 10000 * t - y * s
  OBVIOUS

\* A product of numbers is one.
LEMMA Product ==
  ASSUME NEW a \in Nat, NEW b \in Nat
  PROVE  a * b \in Nat
  OBVIOUS

\* A signature hangs 3 points at most, and nothing else hangs.
HangsAtMost(f, over) ==
  over \in Nat /\ over <= (IF f.type = "SIGNATURE" THEN 30000 ELSE 0)

LEMMA OverhangIs ==
  ASSUME NEW f, NEW height \in Nat, NEW share \in Nat
  PROVE  HangsAtMost(f, Overhang(f, height, share))
  <1>1. CASE f.type # "SIGNATURE"
    BY <1>1 DEF HangsAtMost, Overhang
  <1>2. CASE f.type = "SIGNATURE"
    <2> DEFINE p == share * height
               a == (12 * height) \div 100
               b == (18 * (p \div 100)) \div 100
    <2>1. p \in Nat
      BY Product
    <2>2. Overhang(f, height, share) = Smaller(30000, Smaller(a, b))
      BY <1>2 DEF Overhang, Full
    <2>3. a \in Nat
      OBVIOUS
    <2> HIDE DEF p
    <2>4. b \in Nat
      BY <2>1
    <2> HIDE DEF a, b
    <2>5. Smaller(30000, Smaller(a, b)) \in 0..30000
      BY <2>3, <2>4 DEF Smaller
    <2> DEFINE over == Overhang(f, height, share)
    <2>6. over \in 0..30000
      BY <2>2, <2>5
    <2> HIDE DEF over
    <2>7. HangsAtMost(f, over)
      BY <1>2, <2>6 DEF HangsAtMost
    <2> QED
      BY <2>7 DEF over
  <1> QED
    BY <1>1, <1>2

\* What hangs from a box near the tab, and is raised to the edge of the page where
\* it would leave it.
LEMMA Hanging ==
  ASSUME NEW foot \in Int, NEW box \in Int, NEW over \in Nat, NEW hang \in Nat,
         over <= hang, NEW s \in Int, Between(foot, box, foot, s)
  PROVE  Between(Larger(0, foot - hang), Larger(0, box - over), Larger(0, foot), s)
  BY DEF Between, Larger

\* r is a and then b.
IsJoined(r, a, b, S) ==
  /\ r \in Seq(S) /\ Len(r) = Len(a) + Len(b)
  /\ \A n \in 1..Len(a) : r[n] = a[n]
  /\ \A n \in 1..Len(b) : r[Len(a) + n] = b[n]

LEMMA Joined ==
  ASSUME NEW S, NEW a \in Seq(S), NEW b \in Seq(S)
  PROVE  IsJoined(a \o b, a, b, S)
  BY DEF IsJoined

\* A template less, or one more, and none is listed twice.
LEMMA Removed ==
  ASSUME NEW S, NEW s \in Seq(S), IsInjective(s), NEW i \in DOMAIN s
  PROVE  RemoveAt(s, i) \in Seq(S) /\ IsInjective(RemoveAt(s, i))
  <1> DEFINE r == RemoveAt(s, i)
             a == SubSeq(s, 1, i - 1)
             b == SubSeq(s, i + 1, Len(s))
             N == Len(s)
  <1>1. /\ i \in 1..N /\ N \in Nat /\ a \in Seq(S) /\ b \in Seq(S)
        /\ Len(a) = i - 1 /\ \A k \in 1..(i - 1) : a[k] = s[k]
    OBVIOUS
  <1>2. Len(b) = N - i /\ \A k \in 1..(N - i) : b[k] = s[i + k]
    OBVIOUS
  <1>3. r = a \o b
    BY DEF RemoveAt
  <1>4. DOMAIN s = 1..N /\ \A k, l \in 1..N : s[k] = s[l] => k = l
    BY DEF IsInjective
  <1> HIDE DEF a, b, N
  <1>i. IsJoined(r, a, b, S)
    BY <1>1, <1>3, Joined
  <1>j. /\ r \in Seq(S) /\ Len(r) = Len(a) + Len(b)
        /\ \A n \in 1..Len(a) : r[n] = a[n]
        /\ \A n \in 1..Len(b) : r[Len(a) + n] = b[n]
    BY <1>i DEF IsJoined
  <1> HIDE DEF r
  <1>5. r \in Seq(S) /\ Len(r) = N - 1
    BY <1>1, <1>2, <1>j
  <1>6. \A k \in 1..(N - 1) : r[k] = IF k < i THEN s[k] ELSE s[k + 1]
    <2>1. SUFFICES ASSUME NEW k \in 1..(N - 1)
                   PROVE  r[k] = IF k < i THEN s[k] ELSE s[k + 1]
      OBVIOUS
    <2>2. CASE k < i
      BY <2>2, <1>1, <1>2, <1>j
    <2>3. CASE ~(k < i)
      <3>1. k - (i - 1) \in 1..(N - i) /\ i + (k - (i - 1)) = k + 1
        BY <2>3, <1>1
      <3>2. (i - 1) + (k - (i - 1)) = k
        BY <1>1
      <3>3. r[k] = b[k - (i - 1)]
        <4> DEFINE n == k - (i - 1)
        <4>1. n \in 1..Len(b) /\ Len(a) + n = k
          BY <3>1, <3>2, <1>1, <1>2
        <4> HIDE DEF n
        <4>2. r[Len(a) + n] = b[n]
          BY <4>1, <1>j
        <4> QED
          BY <4>1, <4>2 DEF n
      <3> QED
        BY <2>3, <3>1, <3>3, <1>2
    <2> QED
      BY <2>2, <2>3
  <1>7. DOMAIN r = 1..(N - 1)
    BY <1>5
  <1>8. ASSUME NEW k \in 1..(N - 1), NEW l \in 1..(N - 1), r[k] = r[l] PROVE k = l
    BY <1>1, <1>4, <1>6, <1>8
  <1> QED
    BY <1>5, <1>7, <1>8 DEF r, IsInjective

LEMMA Inserted ==
  ASSUME NEW S, NEW s \in Seq(S), IsInjective(s), NEW i \in 1..(Len(s) + 1),
         NEW e \in S \ Range(s)
  PROVE  InsertAt(s, i, e) \in Seq(S) /\ IsInjective(InsertAt(s, i, e))
  <1> DEFINE r == InsertAt(s, i, e)
             a == SubSeq(s, 1, i - 1)
             b == SubSeq(s, i, Len(s))
             c == <<e>>
             N == Len(s)
  <1>1. /\ i \in 1..(N + 1) /\ N \in Nat /\ a \in Seq(S) /\ b \in Seq(S)
        /\ Len(a) = i - 1 /\ \A k \in 1..(i - 1) : a[k] = s[k]
    OBVIOUS
  <1>2. Len(b) = (N - i) + 1 /\ \A k \in 1..((N - i) + 1) : b[k] = s[(i + k) - 1]
    OBVIOUS
  <1>3. r = a \o c \o b /\ c \in Seq(S) /\ Len(c) = 1 /\ c[1] = e
    BY DEF InsertAt
  <1>4. /\ DOMAIN s = 1..N /\ \A k, l \in 1..N : s[k] = s[l] => k = l
        /\ \A k \in 1..N : s[k] # e
    BY DEF IsInjective, Range
  <1> DEFINE p == a \o c
  <1> HIDE DEF a, b, c, N
  <1>h. IsJoined(p, a, c, S)
    BY <1>1, <1>3, Joined
  <1>j. /\ p \in Seq(S) /\ Len(p) = Len(a) + Len(c)
        /\ \A n \in 1..Len(a) : p[n] = a[n]
        /\ \A n \in 1..Len(c) : p[Len(a) + n] = c[n]
    BY <1>h DEF IsJoined
  <1>6. r = p \o b
    BY <1>3
  <1> HIDE DEF p
  <1>5. /\ p \in Seq(S) /\ Len(p) = i /\ p[i] = e
        /\ \A k \in 1..(i - 1) : p[k] = s[k]
    <2>1. (i - 1) + 1 = i /\ i - 1 \in Nat /\ 1 \in 1..1
      BY <1>1
    <2> QED
      BY <2>1, <1>1, <1>3, <1>j
  <1>i. IsJoined(r, p, b, S)
    BY <1>1, <1>5, <1>6, Joined
  <1>k. /\ r \in Seq(S) /\ Len(r) = Len(p) + Len(b)
        /\ \A n \in 1..Len(p) : r[n] = p[n]
        /\ \A n \in 1..Len(b) : r[Len(p) + n] = b[n]
    BY <1>i DEF IsJoined
  <1> HIDE DEF r
  <1>7. r \in Seq(S) /\ Len(r) = N + 1
    BY <1>1, <1>2, <1>5, <1>k
  <1>8. \A k \in 1..(N + 1) : r[k] = IF k < i THEN s[k] ELSE IF k = i THEN e ELSE s[k - 1]
    <2>1. SUFFICES ASSUME NEW k \in 1..(N + 1)
                   PROVE  r[k] = IF k < i THEN s[k] ELSE IF k = i THEN e ELSE s[k - 1]
      OBVIOUS
    <2>2. CASE k <= i
      BY <2>2, <1>1, <1>3, <1>5, <1>k
    <2>3. CASE ~(k <= i)
      <3>1. k - i \in 1..((N - i) + 1) /\ (i + (k - i)) - 1 = k - 1
        BY <2>3, <1>1
      <3>2. i + (k - i) = k
        BY <1>1
      <3>3. r[k] = b[k - i]
        BY <3>1, <3>2, <1>1, <1>2, <1>5, <1>k
      <3> QED
        BY <2>3, <3>1, <3>3, <1>1, <1>2
    <2> QED
      BY <2>2, <2>3
  <1>9. DOMAIN r = 1..(N + 1)
    BY <1>7
  <1>10. ASSUME NEW k \in 1..(N + 1), NEW l \in 1..(N + 1), r[k] = r[l] PROVE k = l
    <2> DEFINE was(n) == IF n < i THEN n ELSE n - 1
    <2>1. ASSUME NEW n \in 1..(N + 1)
          PROVE  \/ n = i /\ r[n] = e
                 \/ n # i /\ was(n) \in 1..N /\ r[n] = s[was(n)]
      BY <1>1, <1>8
    <2>2. k = i <=> l = i
      BY <2>1, <1>4, <1>10
    <2>3. k # i => was(k) = was(l)
      BY <2>1, <2>2, <1>4, <1>10
    <2> QED
      BY <1>1, <2>2, <2>3
  <1> QED
    BY <1>7, <1>9, <1>10 DEF r, IsInjective

\* What a page of the listing takes from a sequence.
LEMMA Taken ==
  ASSUME NEW S, NEW s \in Seq(S), NEW a \in Nat, NEW b \in Nat, b <= Len(s)
  PROVE  /\ SubSeq(s, a + 1, b) \in Seq(S)
         /\ Len(SubSeq(s, a + 1, b)) = IF a <= b THEN b - a ELSE 0
         /\ \A k \in 1..(b - a) : SubSeq(s, a + 1, b)[k] = s[a + k]
  OBVIOUS

\* A page prolongs what the pages before it have shown.
LEMMA Prolonged ==
  ASSUME NEW S, NEW s \in Seq(S), NEW a \in 0..Len(s), NEW b \in a..Len(s)
  PROVE  SubSeq(s, 1, a) \o SubSeq(s, a + 1, b) = SubSeq(s, 1, b)
  <1> DEFINE p == SubSeq(s, 1, a)
             q == SubSeq(s, a + 1, b)
             r == SubSeq(s, 1, b)
  <1>1. /\ p \in Seq(S) /\ Len(p) = a /\ \A k \in 1..a : p[k] = s[k]
        /\ r \in Seq(S) /\ Len(r) = b /\ \A k \in 1..b : r[k] = s[k]
        /\ a \in Nat /\ b \in Nat /\ a <= b
    OBVIOUS
  <1>2. q \in Seq(S) /\ Len(q) = b - a /\ \A k \in 1..(b - a) : q[k] = s[a + k]
    OBVIOUS
  <1> HIDE DEF p, q, r
  <1>i. IsJoined(p \o q, p, q, S)
    BY <1>1, <1>2, Joined
  <1>j. /\ p \o q \in Seq(S) /\ Len(p \o q) = Len(p) + Len(q)
        /\ \A n \in 1..Len(p) : (p \o q)[n] = p[n]
        /\ \A n \in 1..Len(q) : (p \o q)[Len(p) + n] = q[n]
    BY <1>i DEF IsJoined
  <1>3. p \o q \in Seq(S) /\ Len(p \o q) = b
    BY <1>1, <1>2, <1>j
  <1>4. ASSUME NEW k \in 1..b PROVE (p \o q)[k] = r[k]
    <2>1. CASE k <= a
      BY <2>1, <1>1, <1>2, <1>j
    <2>2. CASE ~(k <= a)
      <3>1. k - a \in 1..(b - a) /\ a + (k - a) = k
        BY <2>2, <1>1
      <3>2. (p \o q)[k] = q[k - a]
        BY <3>1, <1>1, <1>2, <1>j
      <3> QED
        BY <3>1, <3>2, <1>1, <1>2
    <2> QED
      BY <2>1, <2>2
  <1> DEFINE t == p \o q
  <1> HIDE DEF t
  <1>5. t \in Seq(S) /\ Len(t) = b /\ \A k \in 1..b : t[k] = r[k]
    BY <1>3, <1>4 DEF t
  <1>6. t = r
    BY <1>1, <1>5
  <1> QED
    BY <1>6 DEF p, q, r, t

-----------------------------------------------------------------------------
\* Induction over the places of a sequence.
LEMMA Upward ==
  ASSUME NEW N \in Nat, NEW S, 0 \in S, \A n \in 1..N : n - 1 \in S => n \in S
  PROVE  0..N \subseteq S
  <1>1. SUFFICES ASSUME (0..N) \ S # {} PROVE FALSE
    OBVIOUS
  <1>2. (0..N) \ S \subseteq Nat
    OBVIOUS
  <1>3. PICK k \in (0..N) \ S : \A j \in (0..N) \ S : k <= j
    BY <1>1, <1>2, LeastOf
  <1>4. k \in 1..N /\ k - 1 \in 0..N
    BY <1>3
  <1> QED
    BY <1>3, <1>4

-----------------------------------------------------------------------------
\* What is selected of a list: nothing else, in no other number.

\* k is what is selected of the first n of s.
Keeps(k, s, n) ==
  /\ k \in Seq(Source)
  /\ \A t : (\E i \in DOMAIN k : k[i] = t) <=> \E i \in 1..n : s[i] = t /\ Wanted(t)
  /\ IsInjective(s) => IsInjective(k)

LEMMA KeepsOne ==
  ASSUME NEW s \in Seq(Source), NEW n \in 1..Len(s), NEW k, Keeps(k, s, n - 1)
  PROVE  Keeps(IF Wanted(s[n]) THEN Append(k, s[n]) ELSE k, s, n)
  <1>1. /\ k \in Seq(Source) /\ Len(s) \in Nat /\ DOMAIN s = 1..Len(s)
        /\ \A t : (\E i \in DOMAIN k : k[i] = t) <=>
                    \E i \in 1..(n - 1) : s[i] = t /\ Wanted(t)
    BY DEF Keeps
  <1>2. CASE ~Wanted(s[n])
    <2>1. \A t : (\E i \in 1..(n - 1) : s[i] = t /\ Wanted(t)) <=>
                   \E i \in 1..n : s[i] = t /\ Wanted(t)
      BY <1>1, <1>2
    <2> QED
      BY <1>1, <1>2, <2>1 DEF Keeps
  <1>3. CASE Wanted(s[n])
    <2> DEFINE l == Append(k, s[n])
               N == Len(k)
    <2>1. /\ l \in Seq(Source) /\ Len(l) = N + 1 /\ N \in Nat /\ l[N + 1] = s[n]
          /\ \A i \in 1..N : l[i] = k[i]
          /\ DOMAIN l = 1..(N + 1) /\ DOMAIN k = 1..N
      BY <1>1
    <2> HIDE DEF l, N
    <2>2. ASSUME NEW t
          PROVE  (\E i \in DOMAIN l : l[i] = t) <=> \E i \in 1..n : s[i] = t /\ Wanted(t)
      <3>1. (\E i \in DOMAIN l : l[i] = t) <=>
              (\E i \in DOMAIN k : k[i] = t) \/ t = s[n]
        BY <2>1
      <3>2. (\E i \in 1..n : s[i] = t /\ Wanted(t)) <=>
              (\E i \in 1..(n - 1) : s[i] = t /\ Wanted(t)) \/ t = s[n]
        BY <1>1, <1>3
      <3> QED
        BY <1>1, <3>1, <3>2
    <2>3. ASSUME IsInjective(s) PROVE IsInjective(l)
      <3>1. \A i \in DOMAIN k : k[i] # s[n]
        <4>1. \A i \in 1..(n - 1) : s[i] # s[n]
          BY <1>1, <2>3 DEF IsInjective
        <4> QED
          BY <1>1, <4>1
      <3>2. IsInjective(k)
        BY <2>3 DEF Keeps
      <3> QED
        BY <2>1, <3>1, <3>2 DEF IsInjective
    <2> QED
      BY <1>3, <2>1, <2>2, <2>3 DEF Keeps, l
  <1> QED
    BY <1>2, <1>3

\* matchesOnly keeps the templates that are wanted, and no other.
LEMMA SelectedIs ==
  ASSUME NEW s \in Seq(Source)
  PROVE  Keeps(Selected(s), s, Len(s))
  <1> DEFINE N == Len(s)
             Is(h) == h = [n \in 0..N |->
                             IF n = 0 THEN <<>>
                             ELSE IF Wanted(s[n]) THEN Append(h[n - 1], s[n])
                             ELSE h[n - 1]]
             c == CHOOSE h : Is(h)
  <1>1. N \in Nat /\ \A n \in 1..N : s[n] \in Source
    OBVIOUS
  <1>2. \E h : Is(h)
    <2> DEFINE Part(h, m) == h = [n \in 0..m |->
                                    IF n = 0 THEN <<>>
                                    ELSE IF Wanted(s[n]) THEN Append(h[n - 1], s[n])
                                    ELSE h[n - 1]]
               S == {m \in 0..N : \E h : Part(h, m)}
    <2>1. 0 \in S
      <3>1. Part([n \in 0..0 |-> <<>>], 0)
        OBVIOUS
      <3> HIDE DEF Part
      <3> QED
        BY <1>1, <3>1
    <2>2. ASSUME NEW m \in 1..N, m - 1 \in S PROVE m \in S
      <3>1. PICK h : Part(h, m - 1)
        BY <2>2
      <3> DEFINE g == [n \in 0..m |->
                         IF n = m
                         THEN IF Wanted(s[m]) THEN Append(h[m - 1], s[m]) ELSE h[m - 1]
                         ELSE h[n]]
      <3>2. Part(g, m)
        <4>0. m \in Nat \ {0}
          BY <1>1
        <4>1. ASSUME NEW n \in 0..m
              PROVE  g[n] = IF n = 0 THEN <<>>
                            ELSE IF Wanted(s[n]) THEN Append(g[n - 1], s[n])
                            ELSE g[n - 1]
          <5>1. CASE n = m
            <6>1. g[n] = IF Wanted(s[m]) THEN Append(h[m - 1], s[m]) ELSE h[m - 1]
              BY <5>1, <4>0
            <6>2. g[n - 1] = h[m - 1] /\ n # 0
              BY <5>1, <4>0
            <6> QED
              BY <5>1, <6>1, <6>2
          <5>2. CASE n # m
            <6>1. g[n] = h[n] /\ n \in 0..(m - 1)
              BY <5>2, <4>0
            <6>2. n # 0 => g[n - 1] = h[n - 1]
              BY <5>2, <4>0
            <6>3. h[n] = IF n = 0 THEN <<>>
                         ELSE IF Wanted(s[n]) THEN Append(h[n - 1], s[n])
                         ELSE h[n - 1]
              BY <3>1, <6>1
            <6> QED
              BY <6>1, <6>2, <6>3
          <5> QED
            BY <5>1, <5>2
        <4> DEFINE f == [n \in 0..m |->
                           IF n = 0 THEN <<>>
                           ELSE IF Wanted(s[n]) THEN Append(g[n - 1], s[n])
                           ELSE g[n - 1]]
        <4>2. \A n \in 0..m : g[n] = f[n]
          BY <4>1, Zenon
        <4>3. g = [n \in 0..m |-> g[n]] /\ f = [n \in 0..m |-> f[n]]
          OBVIOUS
        <4>4. g = f
          <5> HIDE DEF g, f
          <5> QED
            BY <4>2, <4>3
        <4> QED
          BY <4>4, Zenon
      <3> HIDE DEF Part
      <3> QED
        BY <1>1, <3>2
    <2>3. N \in S
      <3> HIDE DEF S
      <3>1. 0..N \subseteq S
        BY <1>1, <2>1, <2>2, Upward
      <3> QED
        BY <3>1, <1>1
    <2> QED
      BY <2>3, Zenon
  <1>3. Is(c)
    BY <1>2, Zenon
  <1>4. Selected(s) = c[N]
    BY DEF Selected
  <1> HIDE DEF c
  <1>5. c[0] = <<>>
    BY <1>1, <1>3
  <1>6. \A n \in 1..N : c[n] = IF Wanted(s[n]) THEN Append(c[n - 1], s[n]) ELSE c[n - 1]
    <2>1. SUFFICES ASSUME NEW n \in 1..N
                   PROVE  c[n] = IF Wanted(s[n]) THEN Append(c[n - 1], s[n])
                                 ELSE c[n - 1]
      BY Zenon
    <2>2. n \in 0..N /\ n # 0
      BY <1>1
    <2>3. c[n] = IF n = 0 THEN <<>>
                 ELSE IF Wanted(s[n]) THEN Append(c[n - 1], s[n])
                 ELSE c[n - 1]
      BY <1>3, <2>2, Zenon
    <2> QED
      BY <2>2, <2>3
  <1> DEFINE T == {n \in 0..N : Keeps(c[n], s, n)}
  <1>7. 0 \in T
    <2>1. <<>> \in Seq(Source) /\ DOMAIN <<>> = {} /\ 1..0 = {}
      OBVIOUS
    <2>2. Keeps(<<>>, s, 0)
      BY <2>1 DEF Keeps, IsInjective
    <2> QED
      BY <1>1, <1>5, <2>2
  <1>8. ASSUME NEW n \in 1..N, n - 1 \in T PROVE n \in T
    <2>1. Keeps(c[n - 1], s, n - 1)
      BY <1>8
    <2>2. Keeps(c[n], s, n)
      BY <1>6, <2>1, KeepsOne
    <2> QED
      BY <1>1, <2>2
  <1>9. N \in T
    <2> HIDE DEF T
    <2>1. 0..N \subseteq T
      BY <1>1, <1>7, <1>8, Upward
    <2> QED
      BY <2>1, <1>1
  <1> QED
    BY <1>4, <1>9

-----------------------------------------------------------------------------
\* Rows that are numbered are found in the order of their numbers.

LEMMA FirstCount ==
  ASSUME NEW R, NEW N \in Nat, \A i \in 1..N : R[i].order = i, NEW m \in 0..N
  PROVE  Cardinality({R[i] : i \in 1..m}) = m
  <1> DEFINE S == {R[i] : i \in 1..m}
             f == [i \in 1..m |-> R[i]]
  <1>1. m \in Nat /\ \A i \in 1..m : i \in 1..N
    OBVIOUS
  <1>2. f \in [1..m -> S] /\ \A i \in 1..m : f[i] = R[i]
    OBVIOUS
  <1>3. \A i, j \in 1..m : f[i] = f[j] => i = j
    BY <1>1, <1>2
  <1>4. \A t \in S : \E i \in 1..m : f[i] = t
    BY <1>2
  <1>5. DOMAIN f = 1..m
    OBVIOUS
  <1> HIDE DEF S, f
  <1>6. f \in Bijection(1..m, S)
    BY <1>2, <1>3, <1>4, <1>5 DEF Bijection, Injection, Surjection, IsInjective
  <1>7. ExistsBijection(1..m, S)
    BY <1>6 DEF ExistsBijection
  <1>8. Cardinality(S) = m
    BY <1>1, <1>7, FS_CountingElements
  <1> QED
    BY <1>8 DEF S

LEMMA InOrderIs ==
  ASSUME NEW R, NEW N \in Nat, \A i \in 1..N : R[i].order = i
  PROVE  InOrder({R[i] : i \in 1..N}) = [i \in 1..N |-> R[i]]
  <1> DEFINE rs == {R[i] : i \in 1..N}
             upTo(r) == Cardinality({q \in rs : q.order <= r.order})
  <1>1. N \in 0..N /\ Cardinality(rs) = N
    <2>1. N \in 0..N
      OBVIOUS
    <2> QED
      BY <2>1, FirstCount
  <1>2. ASSUME NEW k \in 1..N PROVE upTo(R[k]) = k
    <2>1. {q \in rs : q.order <= R[k].order} = {R[i] : i \in 1..k}
      OBVIOUS
    <2>2. k \in 0..N
      OBVIOUS
    <2>3. Cardinality({R[i] : i \in 1..k}) = k
      BY <2>2, FirstCount
    <2> QED
      BY <2>1, <2>3
  <1>3. ASSUME NEW k \in 1..N PROVE (CHOOSE r \in rs : upTo(r) = k) = R[k]
    <2>1. R[k] \in rs /\ upTo(R[k]) = k
      BY <1>2
    <2>2. \A r \in rs : upTo(r) = k => r = R[k]
      <3>1. ASSUME NEW i \in 1..N, upTo(R[i]) = k PROVE i = k
        <4>1. upTo(R[i]) = i
          BY <1>2
        <4> HIDE DEF upTo
        <4> QED
          BY <3>1, <4>1
      <3> HIDE DEF upTo
      <3> QED
        BY <3>1
    <2> HIDE DEF rs, upTo
    <2> QED
      BY <2>1, <2>2
  <1>4. InOrder(rs) = [k \in 1..Cardinality(rs) |-> CHOOSE r \in rs : upTo(r) = k]
    BY DEF InOrder
  <1> HIDE DEF rs, upTo
  <1>5. InOrder(rs) = [k \in 1..N |-> R[k]]
    BY <1>1, <1>3, <1>4
  <1> QED
    BY <1>5 DEF rs

-----------------------------------------------------------------------------
\* The fields of an imported template, and what becomes of them.

\* A field is that of a tab, with its document and the place of the tab.
FieldHeld(f, s) ==
  LET d     == Detail[s]
      tab   == TabAt(f.no, d)
      place == FixedPlace(tab, Pdf[d.docs[f.document].file])
  IN  /\ f.no \in TabNumbers(d) /\ f.role = f.no[1] /\ f.document \in DOMAIN d.docs
      /\ f.anchor = tab.anchor
      /\ tab.anchor = NoAnchor =>
           f.page = place.page /\ f.x = place.x /\ f.y = place.y /\ f.h \in Nat

\* An envelope has the documents and the people of a template, and each piece of
\* ink is that of a field, put where the field is by the person of its role.
InkHeld(i, v) ==
  LET pdf == Pdf[v.docs[i.field.document]]
  IN  /\ i.field \in v.fields /\ OnPage(i.field, pdf)
      /\ \E share : /\ i.field.type \in Pictures => share \in Shares
                    /\ i.box = Drawn(i.field, pdf, share)
      /\ i.who = v.people[i.field.role].who

Carries(v, s) ==
  LET d == Detail[s]
  IN  /\ v.source = s /\ v.docs = Convert(d).docs
      /\ \A k \in DOMAIN d.signers : v.people[k].who = d.signers[k].role
      /\ \A f \in v.fields : FieldHeld(f, s)

EnvelopeHeld(v) ==
  /\ v = [stage |-> v.stage, by |-> v.by, source |-> v.source, docs |-> v.docs,
          people |-> v.people, fields |-> v.fields, ink |-> v.ink]
  /\ IF v.stage = "none" THEN v.ink = {}
     ELSE (\E s \in Source : Carries(v, s)) /\ \A i \in v.ink : InkHeld(i, v)

TemplateHeld(r) ==
  r.stage = "kept" => \E s \in Source : r = NewTemplate(Convert(Detail[s]), s)

TemplatesHeld ==
  /\ DOMAIN template = TemplateSlots /\ DOMAIN envelope = EnvelopeSlots
  /\ \A t \in TemplateSlots : TemplateHeld(template[t])
  /\ \A e \in EnvelopeSlots : EnvelopeHeld(envelope[e])

\* Documents and recipients in their order, tabs with numbers.
LEMMA DetailIs ==
  ASSUME NEW s \in Source
  PROVE  LET d == Detail[s]
         IN  /\ Len(d.docs) \in Nat /\ DOMAIN d.docs = 1..Len(d.docs)
             /\ Len(d.signers) \in Nat /\ DOMAIN d.signers = 1..Len(d.signers)
             /\ Len(d.ccs) \in Nat
             /\ \A k \in DOMAIN d.docs : d.docs[k].file \in DOMAIN Pdf
             /\ \A n \in TabNumbers(d) :
                  /\ n[1] \in DOMAIN d.signers
                  /\ {TabAt(n, d).page, TabAt(n, d).x, TabAt(n, d).y, TabAt(n, d).w,
                      TabAt(n, d).h} \subseteq Int
  <1> DEFINE d == Detail[s]
  <1>1. WellFormed(d)
    BY ImportAssumption
  <1> HIDE DEF d
  <1>2. /\ Len(d.docs) \in Nat /\ DOMAIN d.docs = 1..Len(d.docs)
        /\ Len(d.signers) \in Nat /\ DOMAIN d.signers = 1..Len(d.signers)
        /\ Len(d.ccs) \in Nat
        /\ \A k \in DOMAIN d.docs : d.docs[k].file \in DOMAIN Pdf
    <2>1. /\ d.docs \in Seq(Range(d.docs)) /\ d.signers \in Seq(Range(d.signers))
          /\ d.ccs \in Seq(Range(d.ccs))
          /\ \A k \in DOMAIN d.docs : d.docs[k].file \in DOMAIN Pdf
      BY <1>1 DEF WellFormed
    <2> QED
      BY <2>1
  <1>3. ASSUME NEW n \in TabNumbers(d)
        PROVE  /\ n[1] \in DOMAIN d.signers
               /\ {TabAt(n, d).page, TabAt(n, d).x, TabAt(n, d).y, TabAt(n, d).w,
                   TabAt(n, d).h} \subseteq Int
    <2> DEFINE of(i) == {<<i, j>> : j \in DOMAIN d.signers[i].tabs}
    <2>0. n \in UNION {of(i) : i \in DOMAIN d.signers}
      BY DEF TabNumbers
    <2>3. PICK i \in DOMAIN d.signers : n \in of(i)
      <3> HIDE DEF of
      <3> QED
        BY <2>0
    <2>1. PICK j \in DOMAIN d.signers[i].tabs : n = <<i, j>>
      BY <2>3
    <2>2. n[1] = i /\ TabAt(n, d) = d.signers[i].tabs[j]
      BY <2>1 DEF TabAt
    <2>4. LET tab == d.signers[i].tabs[j]
          IN  {tab.page, tab.x, tab.y, tab.w, tab.h} \subseteq Int
      BY <1>1 DEF WellFormed
    <2> QED
      BY <2>2, <2>4
  <1> QED
    BY <1>2, <1>3 DEF d

\* The sizes that files hold, or are taken to hold.
LEMMA PagesAre ==
  ASSUME NEW f \in DOMAIN Pdf, NEW k \in DOMAIN Pdf[f].pages
  PROVE  Pdf[f].pages[k] \in [w : Nat \ {0}, h : Nat \ {0}, rotation : Int]
  <1> DEFINE P == [w : Nat \ {0}, h : Nat \ {0}, rotation : Int]
  <1>1. Pdf[f].pages \in Seq(P)
    BY PdfAssumption
  <1> HIDE DEF P
  <1>2. Pdf[f].pages[k] \in P
    BY <1>1
  <1> QED
    BY <1>2 DEF P

LEMMA PercentIs ==
  ASSUME NEW a \in Int, NEW b \in Nat \ {0}
  PROVE  Pct(a, b) \in Nat
  <1>1. Percent(a, b) \in Int
    BY DEF Percent, Full
  <1> QED
    BY <1>1 DEF Pct, Clamp, Full

\* A page, as it is shown, has an extent.
LEMMA ShownSize ==
  ASSUME NEW f \in DOMAIN Pdf, NEW page
  PROVE  /\ PageSize(Pdf[f], page).w \in Nat \ {0}
         /\ PageSize(Pdf[f], page).h \in Nat \ {0}
  <1> DEFINE size == IF Pdf[f].readable /\ page \in DOMAIN Pdf[f].pages
                     THEN Pdf[f].pages[page] ELSE Letter
  <1>1. size \in [w : Nat \ {0}, h : Nat \ {0}, rotation : Int]
    BY PagesAre DEF Letter
  <1>2. PageSize(Pdf[f], page) = Turned(size)
    BY DEF PageSize
  <1> HIDE DEF size
  <1> QED
    BY <1>1, <1>2 DEF Turned

\* The height of a tab is a number.
LEMMA PlaceIs ==
  ASSUME NEW s \in Source, NEW n \in TabNumbers(Detail[s]), NEW f \in DOMAIN Pdf
  PROVE  Place(TabAt(n, Detail[s]), Pdf[f]).h \in Nat
  <1> DEFINE tab  == TabAt(n, Detail[s])
             page == IF tab.page >= 1 THEN tab.page ELSE 1
             size == PageSize(Pdf[f], page)
  <1>1. tab.h \in Int
    BY DetailIs
  <1>2. size.h \in Nat \ {0}
    BY ShownSize
  <1>3. FixedPlace(tab, Pdf[f]).h = IF tab.h > 0 THEN Pct(tab.h, size.h) ELSE 0
    BY DEF FixedPlace
  <1> HIDE DEF tab, size
  <1>4. Pct(tab.h, size.h) \in Nat
    BY <1>1, <1>2, PercentIs
  <1>5. Place(tab, Pdf[f]).h \in Nat
    BY <1>3, <1>4 DEF Place
  <1> QED
    BY <1>5 DEF tab

\* A field of the payload, its size given or not, is that of a tab.
LEMMA FieldIs ==
  ASSUME NEW s \in Source, NEW f \in Convert(Detail[s]).fields
  PROVE  FieldHeld(f, s) /\ FieldHeld(Default(f), s)
         /\ Default(f) = [Default(f) EXCEPT !.document = f.document, !.role = f.role]
  <1> DEFINE d == Detail[s]
  <1>1. PICK n \in TabNumbers(d) : Importable(TabAt(n, d), d) /\ f = Field(n, d)
    BY DEF Convert
  <1> DEFINE tab   == TabAt(n, d)
             k     == CHOOSE k \in DocumentsOf(tab, d) : TRUE
             pdf   == Pdf[d.docs[k].file]
             place == Place(tab, pdf)
             type  == IF tab.type \in Coerced THEN "TEXT" ELSE tab.type
             rec   == [no |-> n, role |-> n[1], document |-> k, type |-> type,
                       required |-> tab.required, anchor |-> tab.anchor,
                       page |-> place.page, x |-> place.x, y |-> place.y,
                       w |-> place.w, h |-> place.h]
  <1>2. f = rec
    BY <1>1 DEF Field
  <1>3. k \in DOMAIN d.docs
    <2>1. DocumentsOf(tab, d) # {}
      BY <1>1 DEF Importable
    <2>2. DocumentsOf(tab, d) \subseteq DOMAIN d.docs
      BY DEF DocumentsOf
    <2> QED
      BY <2>1, <2>2
  <1>4. d.docs[k].file \in DOMAIN Pdf
    BY <1>3, DetailIs
  <1>5. place.h \in Nat
    BY <1>4, PlaceIs
  <1>6. tab.anchor = NoAnchor => place = FixedPlace(tab, pdf)
    BY DEF Place
  <1> DEFINE dw == IF place.w = 0 THEN 3000 ELSE place.w
             dh == IF place.h = 0 THEN 500 ELSE place.h
  <1> HIDE DEF tab, k, place, type, d
  <1>7. /\ f.no = n /\ f.role = n[1] /\ f.document = k /\ f.anchor = tab.anchor
        /\ f.page = place.page /\ f.x = place.x /\ f.y = place.y /\ f.h = place.h
        /\ f.w = place.w
    BY <1>2
  <1>8. Default(f) = [rec EXCEPT !.w = dw, !.h = dh]
    BY <1>2 DEF Default
  <1>9. dh \in Nat
    BY <1>5
  <1> HIDE DEF dw, dh
  <1>14. Default(f) = [Default(f) EXCEPT !.document = f.document, !.role = f.role]
    <2>1. Default(f) = [no |-> n, role |-> n[1], document |-> k, type |-> type,
                        required |-> tab.required, anchor |-> tab.anchor,
                        page |-> place.page, x |-> place.x, y |-> place.y,
                        w |-> dw, h |-> dh]
      BY <1>8
    <2> DEFINE rl == n[1]
               rq == tab.required
               an == tab.anchor
               pg == place.page
               px == place.x
               py == place.y
               whole == [no |-> n, role |-> rl, document |-> k, type |-> type,
                        required |-> rq, anchor |-> an, page |-> pg, x |-> px, y |-> py,
                        w |-> dw, h |-> dh]
    <2> HIDE DEF rl, rq, an, pg, px, py
    <2>2. Default(f) = whole
      BY <2>1 DEF rl, rq, an, pg, px, py
    <2>3. whole = [whole EXCEPT !.document = k, !.role = rl]
      <3>1. whole = [whole EXCEPT !.document = whole.document, !.role = whole.role]
        BY DEF whole
      <3>2. whole.document = k /\ whole.role = rl
        BY DEF whole
      <3> QED
        BY <3>1, <3>2
    <2>4. k = f.document /\ rl = f.role
      BY <1>7 DEF rl
    <2> HIDE DEF whole
    <2> QED
      BY <2>2, <2>3, <2>4
  <1>10. /\ Default(f).no = n /\ Default(f).role = n[1] /\ Default(f).document = k
         /\ Default(f).anchor = tab.anchor /\ Default(f).page = place.page
         /\ Default(f).x = place.x /\ Default(f).y = place.y /\ Default(f).h = dh
    BY <1>8
  <1>11. ASSUME NEW g, g.no = n, g.role = n[1], g.document = k, g.anchor = tab.anchor,
                g.page = place.page, g.x = place.x, g.y = place.y, g.h \in Nat
         PROVE  FieldHeld(g, s)
    BY <1>1, <1>3, <1>6, <1>11 DEF FieldHeld, d, tab
  <1>12. FieldHeld(f, s)
    BY <1>5, <1>7, <1>11
  <1>13. FieldHeld(Default(f), s)
    BY <1>9, <1>10, <1>11
  <1> QED
    BY <1>12, <1>13, <1>14

\* Nor does the place of its anchor change what it is the field of.
LEMMA ResolvedIs ==
  ASSUME NEW s \in Source, NEW f \in Convert(Detail[s]).fields, NEW pdf
  PROVE  FieldHeld(Default(Resolved(f, pdf)), s)
  <1>1. CASE f.anchor = NoAnchor
    BY <1>1, FieldIs DEF Resolved
  <1>2. CASE f.anchor # NoAnchor
    <2> DEFINE d == Detail[s]
    <2>1. PICK n \in TabNumbers(d) : f = Field(n, d)
      BY DEF Convert
    <2> DEFINE tab  == TabAt(n, d)
               g    == AnchorPlace(f, pdf)
               h    == Default(g)
               spot == TextPosition(pdf.texts[LastOccurrence(f.anchor, pdf)], pdf)
               px   == IF f.x # 0 THEN f.x ELSE spot.x + 800
               py   == spot.y - 200
               pp   == spot.page
               dw   == IF f.w = 0 THEN 3000 ELSE f.w
               dh   == IF f.h = 0 THEN 500 ELSE f.h
    <2>2. f = [no |-> f.no, role |-> f.role, document |-> f.document, type |-> f.type,
               required |-> f.required, anchor |-> f.anchor, page |-> f.page,
               x |-> f.x, y |-> f.y, w |-> f.w, h |-> f.h]
      BY <2>1 DEF Field
    <2>3. g = [f EXCEPT !.page = pp, !.x = px, !.y = py]
      BY DEF AnchorPlace
    <2> HIDE DEF pp, px, py
    <2>4. g = [no |-> f.no, role |-> f.role, document |-> f.document, type |-> f.type,
               required |-> f.required, anchor |-> f.anchor, page |-> pp,
               x |-> px, y |-> py, w |-> f.w, h |-> f.h]
      BY <2>2, <2>3
    <2> HIDE DEF g
    <2>5. h = [g EXCEPT !.w = dw, !.h = dh]
      BY <2>4 DEF Default
    <2> HIDE DEF dw, dh
    <2>6. h.no = f.no /\ h.role = f.role /\ h.document = f.document /\ h.anchor = f.anchor
      BY <2>4, <2>5
    <2>7. Resolved(f, pdf) = g
      BY <1>2 DEF Resolved, g
    <2>8. FieldHeld(f, s)
      BY FieldIs
    <2> HIDE DEF h
    <2>9. FieldHeld(h, s)
      BY <1>2, <2>6, <2>8 DEF FieldHeld
    <2> QED
      BY <2>7, <2>9 DEF h
  <1> QED
    BY <1>1, <1>2

\* The roles of a template: the signers, and then who gets a copy.
LEMMA RolesAre ==
  ASSUME NEW s \in Source
  PROVE  LET d == Detail[s]
             p == Convert(d)
         IN  /\ p.docs = [k \in DOMAIN d.docs |-> d.docs[k].file]
             /\ p.roles = Roles(d)
             /\ DOMAIN p.docs = 1..Len(d.docs)
             /\ DOMAIN p.roles = 1..(Len(d.signers) + Len(d.ccs))
             /\ DOMAIN d.signers \subseteq DOMAIN p.roles
             /\ \A k \in DOMAIN d.signers : p.roles[k].name = d.signers[k].role
  <1> DEFINE d == Detail[s]
             p == Convert(d)
  <1>1. p.docs = [k \in DOMAIN d.docs |-> d.docs[k].file] /\ p.roles = Roles(d)
    BY DEF Convert
  <1>2. /\ Len(d.signers) \in Nat /\ DOMAIN d.signers = 1..Len(d.signers)
        /\ Len(d.ccs) \in Nat /\ DOMAIN d.docs = 1..Len(d.docs)
    BY DetailIs
  <1> HIDE DEF d, p
  <1>3. DOMAIN p.docs = 1..Len(d.docs)
    BY <1>1, <1>2
  <1>4. DOMAIN p.roles = 1..(Len(d.signers) + Len(d.ccs))
    BY <1>1 DEF Roles
  <1> DEFINE N == Len(d.signers)
             M == Len(d.ccs)
  <1>n. N \in Nat /\ M \in Nat /\ DOMAIN d.signers = 1..N /\ DOMAIN p.roles = 1..(N + M)
    BY <1>2, <1>4
  <1>m. p.roles = [i \in 1..(N + M) |->
                     IF i <= N
                     THEN [name |-> d.signers[i].role, routing |-> d.signers[i].routing,
                           type |-> "SIGNER"]
                     ELSE [name |-> d.ccs[i - N].role, routing |-> d.ccs[i - N].routing,
                           type |-> "CC"]]
    BY <1>1 DEF Roles
  <1> HIDE DEF N, M
  <1>p. 1..N \subseteq 1..(N + M)
    BY <1>n
  <1>5. DOMAIN d.signers \subseteq DOMAIN p.roles
    BY <1>n, <1>p
  <1>6. ASSUME NEW k \in DOMAIN d.signers PROVE p.roles[k].name = d.signers[k].role
    <2>1. k \in 1..(N + M) /\ k <= N
      BY <1>n, <1>p, <1>6
    <2>2. p.roles[k] = [name |-> d.signers[k].role, routing |-> d.signers[k].routing,
                        type |-> "SIGNER"]
      BY <1>m, <2>1
    <2> QED
      BY <2>2
  <1> QED
    BY <1>1, <1>3, <1>4, <1>5, <1>6 DEF d, p

\* The index of a row is its number.
LEMMA IndexIs ==
  ASSUME NEW rs, NEW k \in DOMAIN rs,
         \A i, j \in DOMAIN rs : rs[i].id = rs[j].id => i = j
  PROVE  IndexOf(rs[k].id, rs) = k
  BY DEF IndexOf

\* A template gives back the documents, the people and the fields it was made of.
LEMMA ResolveIs ==
  ASSUME NEW s \in Source
  PROVE  LET d     == Detail[s]
             input == Resolve(NewTemplate(Convert(d), s))
         IN  /\ input.docs = Convert(d).docs
             /\ \A k \in DOMAIN d.signers : input.people[k].who = d.signers[k].role
             /\ \A f \in input.fields : FieldHeld(f, s)
  <1> DEFINE d   == Detail[s]
             p   == Convert(d)
             row == NewTemplate(p, s)
             N   == Len(d.docs)
             M   == Len(d.signers) + Len(d.ccs)
             D   == [i \in 1..N |-> [id |-> <<"document", i>>, order |-> i,
                                     file |-> p.docs[i]]]
             R   == [i \in 1..M |-> [id |-> <<"role", i>>, order |-> i,
                                     name |-> p.roles[i].name,
                                     routing |-> p.roles[i].routing,
                                     type |-> p.roles[i].type]]
  <1>1. /\ DOMAIN p.docs = 1..N /\ DOMAIN p.roles = 1..M /\ N \in Nat /\ M \in Nat
        /\ DOMAIN d.signers \subseteq 1..M
        /\ \A k \in DOMAIN d.signers : p.roles[k].name = d.signers[k].role
        /\ DOMAIN d.docs = 1..N
    <2>1. /\ DOMAIN p.docs = 1..N /\ DOMAIN p.roles = 1..M
          /\ DOMAIN d.signers \subseteq DOMAIN p.roles
          /\ \A k \in DOMAIN d.signers : p.roles[k].name = d.signers[k].role
      BY RolesAre
    <2>2. Len(d.docs) \in Nat /\ Len(d.signers) \in Nat /\ Len(d.ccs) \in Nat
          /\ DOMAIN d.docs = 1..Len(d.docs)
      BY DetailIs
    <2>4. DOMAIN d.signers \subseteq 1..M
      BY <2>1
    <2> HIDE DEF d, p
    <2>3. N \in Nat /\ M \in Nat /\ DOMAIN d.docs = 1..N
      <3>1. N = Len(d.docs) /\ M = Len(d.signers) + Len(d.ccs)
        BY DEF N, M
      <3> HIDE DEF N, M
      <3>2. N \in Nat
        BY <2>2, <3>1
      <3>3. DOMAIN d.docs = 1..N
        BY <2>2, <3>1
      <3> DEFINE a == Len(d.signers)
                 b == Len(d.ccs)
      <3>4. a \in Nat /\ b \in Nat /\ M = a + b
        BY <2>2, <3>1
      <3> HIDE DEF a, b
      <3>5. M \in Nat
        BY <3>4
      <3> QED
        BY <3>2, <3>3, <3>5
    <2> HIDE DEF N, M
    <2> QED
      BY <2>1, <2>3, <2>4
  <1>2. /\ row.docs = {[id |-> <<"document", i>>, order |-> i, file |-> p.docs[i]] :
                         i \in DOMAIN p.docs}
        /\ row.roles = {[id |-> <<"role", i>>, order |-> i, name |-> p.roles[i].name,
                         routing |-> p.roles[i].routing, type |-> p.roles[i].type] :
                          i \in DOMAIN p.roles}
        /\ row.fields = {[row |-> Default(f), document |-> <<"document", f.document>>,
                          role |-> <<"role", f.role>>] : f \in p.fields}
    BY DEF NewTemplate
  <1>3. \A f \in p.fields : /\ f.document \in 1..N /\ f.role \in 1..M
                            /\ FieldHeld(Default(f), s)
                            /\ Default(f) = [Default(f) EXCEPT !.document = f.document, !.role = f.role]
    <2>1. SUFFICES ASSUME NEW f \in p.fields
                   PROVE  /\ f.document \in 1..N /\ f.role \in 1..M
                          /\ FieldHeld(Default(f), s)
                          /\ Default(f) = [Default(f) EXCEPT !.document = f.document, !.role = f.role]
      OBVIOUS
    <2>2. /\ FieldHeld(f, s) /\ FieldHeld(Default(f), s)
          /\ Default(f) = [Default(f) EXCEPT !.document = f.document, !.role = f.role]
      BY FieldIs
    <2>3. f.no \in TabNumbers(d) /\ f.role = f.no[1] /\ f.document \in DOMAIN d.docs
      BY <2>2 DEF FieldHeld
    <2>4. f.no[1] \in DOMAIN d.signers
      BY <2>3, DetailIs
    <2> QED
      BY <1>1, <2>2, <2>3, <2>4
  <1> DEFINE documents == InOrder(row.docs)
             sorted    == InOrder(row.roles)
  <1>4. /\ Resolve(row).docs = [i \in DOMAIN documents |-> documents[i].file]
        /\ Resolve(row).people = [i \in DOMAIN sorted |->
                                    [who |-> sorted[i].name, role |-> sorted[i].type,
                                     routing |-> sorted[i].routing]]
        /\ Resolve(row).fields =
             {[f.row EXCEPT !.document = IndexOf(f.document, documents),
                            !.role = IndexOf(f.role, sorted)] : f \in row.fields}
    BY DEF Resolve
  <1> HIDE DEF d, p, row, N, M
  <1>5. row.docs = {D[i] : i \in 1..N} /\ row.roles = {R[i] : i \in 1..M}
    BY <1>1, <1>2
  <1>6. /\ \A i \in 1..N : D[i].order = i /\ D[i].id = <<"document", i>>
                           /\ D[i].file = p.docs[i]
        /\ \A i \in 1..M : R[i].order = i /\ R[i].id = <<"role", i>>
                           /\ R[i].name = p.roles[i].name
        /\ D = [i \in 1..N |-> D[i]] /\ R = [i \in 1..M |-> R[i]]
        /\ DOMAIN D = 1..N /\ DOMAIN R = 1..M
    OBVIOUS
  <1> HIDE DEF D, R
  <1>7. documents = D /\ sorted = R
    <2>1. documents = [i \in 1..N |-> D[i]]
      BY <1>1, <1>5, <1>6, InOrderIs
    <2>2. sorted = [i \in 1..M |-> R[i]]
      BY <1>1, <1>5, <1>6, InOrderIs
    <2> QED
      BY <2>1, <2>2, <1>6
  <1> HIDE DEF documents, sorted
  <1>8. Resolve(row).docs = p.docs
    <2>1. p.docs = [i \in 1..N |-> p.docs[i]]
      <3>1. p.docs = [k \in DOMAIN d.docs |-> d.docs[k].file]
        BY DEF p, d, Convert
      <3> QED
        BY <1>1, <3>1, Zenon
    <2>2. Resolve(row).docs = [i \in 1..N |-> D[i].file]
      BY <1>4, <1>6, <1>7
    <2>3. [i \in 1..N |-> D[i].file] = [i \in 1..N |-> p.docs[i]]
      BY <1>6
    <2> QED
      BY <2>1, <2>2, <2>3
  <1>9. \A k \in DOMAIN d.signers : Resolve(row).people[k].who = d.signers[k].role
    <2>1. SUFFICES ASSUME NEW k \in DOMAIN d.signers
                   PROVE  Resolve(row).people[k].who = d.signers[k].role
      OBVIOUS
    <2>2. k \in 1..M /\ p.roles[k].name = d.signers[k].role
      BY <1>1
    <2>3. Resolve(row).people = [i \in 1..M |->
            [who |-> R[i].name, role |-> R[i].type, routing |-> R[i].routing]]
      BY <1>4, <1>6, <1>7
    <2>4. Resolve(row).people[k].who = R[k].name
      BY <2>2, <2>3
    <2> QED
      BY <1>6, <2>2, <2>4
  <1>10. ASSUME NEW g \in Resolve(row).fields PROVE FieldHeld(g, s)
    <2>1. PICK f \in row.fields :
            g = [f.row EXCEPT !.document = IndexOf(f.document, documents),
                              !.role = IndexOf(f.role, sorted)]
      BY <1>4
    <2>2. PICK q \in p.fields :
            f = [row |-> Default(q), document |-> <<"document", q.document>>,
                 role |-> <<"role", q.role>>]
      BY <1>2
    <2>3. q.document \in 1..N /\ q.role \in 1..M
      BY <1>3
    <2>4. IndexOf(<<"document", q.document>>, D) = q.document
      <3> DEFINE k == q.document
      <3>1. D[k].id = <<"document", k>> /\ k \in DOMAIN D
        BY <1>6, <2>3
      <3>2. \A i, j \in DOMAIN D : D[i].id = D[j].id => i = j
        BY <1>6
      <3> HIDE DEF k
      <3>3. IndexOf(D[k].id, D) = k
        BY <3>1, <3>2, IndexIs
      <3> QED
        BY <3>1, <3>3 DEF k
    <2>5. IndexOf(<<"role", q.role>>, R) = q.role
      <3> DEFINE k == q.role
      <3>1. R[k].id = <<"role", k>> /\ k \in DOMAIN R
        BY <1>6, <2>3
      <3>2. \A i, j \in DOMAIN R : R[i].id = R[j].id => i = j
        BY <1>6
      <3> HIDE DEF k
      <3>3. IndexOf(R[k].id, R) = k
        BY <3>1, <3>2, IndexIs
      <3> QED
        BY <3>1, <3>3 DEF k
    <2>6. g = [Default(q) EXCEPT !.document = q.document, !.role = q.role]
      BY <1>7, <2>1, <2>2, <2>4, <2>5
    <2>7. /\ FieldHeld(Default(q), s)
          /\ Default(q) = [Default(q) EXCEPT !.document = q.document, !.role = q.role]
      BY <1>3
    <2> QED
      BY <2>6, <2>7
  <1> QED
    BY <1>8, <1>9, <1>10 DEF d, p, row

\* Each step of the API keeps the rows and the envelopes as they are said to be.
LEMMA TemplatesAtFirst ==
  ASSUME TemplatesInit
  PROVE  TemplatesHeld
  <1>1. /\ DOMAIN template = TemplateSlots /\ DOMAIN envelope = EnvelopeSlots
        /\ \A t \in TemplateSlots : template[t] = NoTemplate
        /\ \A e \in EnvelopeSlots : envelope[e] = NoEnvelope
    BY DEF TemplatesInit
  <1>2. TemplateHeld(NoTemplate)
    BY DEF TemplateHeld, NoTemplate
  <1>3. EnvelopeHeld(NoEnvelope)
    BY DEF EnvelopeHeld, NoEnvelope
  <1> QED
    BY <1>1, <1>2, <1>3 DEF TemplatesHeld

\* A template that is created is that of its source.
LEMMA PostKeeps ==
  ASSUME TemplatesHeld, NEW t \in TemplateSlots, NEW s \in Source,
         PostTemplate(t, Convert(Detail[s]), s), UNCHANGED envelope
  PROVE  TemplatesHeld'
  <1> DEFINE new == NewTemplate(Convert(Detail[s]), s)
  <1>1. template' = [template EXCEPT ![t] = new]
    BY DEF PostTemplate
  <1>2. TemplateHeld(new)
    BY DEF TemplateHeld
  <1> HIDE DEF new
  <1>3. /\ DOMAIN template' = TemplateSlots
        /\ \A u \in TemplateSlots : TemplateHeld(template'[u])
    BY <1>1, <1>2 DEF TemplatesHeld
  <1> QED
    BY <1>3 DEF TemplatesHeld

LEMMA DeleteKeeps ==
  ASSUME TemplatesHeld, NEW t \in TemplateSlots, DeleteTemplate(t)
  PROVE  TemplatesHeld'
  <1> DEFINE new == [NoTemplate EXCEPT !.stage = "deleted"]
  <1>1. template' = [template EXCEPT ![t] = new] /\ UNCHANGED envelope
    BY DEF DeleteTemplate
  <1>2. TemplateHeld(new)
    BY DEF TemplateHeld, NoTemplate
  <1> HIDE DEF new
  <1>3. /\ DOMAIN template' = TemplateSlots
        /\ \A u \in TemplateSlots : TemplateHeld(template'[u])
    BY <1>1, <1>2 DEF TemplatesHeld
  <1> QED
    BY <1>1, <1>3 DEF TemplatesHeld

\* One envelope changes.
LEMMA EnvelopeKeeps ==
  ASSUME TemplatesHeld, NEW e \in EnvelopeSlots, NEW v, EnvelopeHeld(v),
         envelope' = [envelope EXCEPT ![e] = v], UNCHANGED template
  PROVE  TemplatesHeld'
  <1>1. /\ DOMAIN envelope' = EnvelopeSlots
        /\ \A u \in EnvelopeSlots : EnvelopeHeld(envelope'[u])
    BY DEF TemplatesHeld
  <1> QED
    BY <1>1 DEF TemplatesHeld

LEMMA LoadKeeps ==
  ASSUME TemplatesHeld, NEW e \in EnvelopeSlots, NEW t \in TemplateSlots, LoadTemplate(e, t)
  PROVE  TemplatesHeld'
  <1> DEFINE row   == template[t]
             input == Resolve(row)
             new   == [stage |-> "loaded", by |-> "template", source |-> row.source,
                       docs |-> input.docs, people |-> input.people,
                       fields |-> input.fields, ink |-> {}]
  <1>1. envelope' = [envelope EXCEPT ![e] = new] /\ UNCHANGED template
    BY DEF LoadTemplate
  <1>2. row.stage = "kept"
    BY DEF LoadTemplate, Rows
  <1>3. TemplateHeld(row)
    BY DEF TemplatesHeld
  <1>4. PICK s \in Source : row = NewTemplate(Convert(Detail[s]), s)
    BY <1>2, <1>3 DEF TemplateHeld
  <1>5. row.source = s
    BY <1>4 DEF NewTemplate
  <1>6. /\ input.docs = Convert(Detail[s]).docs
        /\ \A k \in DOMAIN Detail[s].signers :
             input.people[k].who = Detail[s].signers[k].role
        /\ \A f \in input.fields : FieldHeld(f, s)
    BY <1>4, ResolveIs
  <1> HIDE DEF row, input
  <1>7. Carries(new, s)
    BY <1>5, <1>6 DEF Carries
  <1>8. new.stage = "loaded" /\ new.ink = {}
    OBVIOUS
  <1>9. new = [stage |-> new.stage, by |-> new.by, source |-> new.source,
               docs |-> new.docs, people |-> new.people, fields |-> new.fields,
               ink |-> new.ink]
    OBVIOUS
  <1> HIDE DEF new
  <1>10. EnvelopeHeld(new)
    BY <1>7, <1>8, <1>9 DEF EnvelopeHeld
  <1> QED
    BY <1>1, <1>10, EnvelopeKeeps

LEMMA InlineKeeps ==
  ASSUME TemplatesHeld, NEW e \in EnvelopeSlots, NEW s \in Source,
         CreateInline(e, Convert(Detail[s]), s)
  PROVE  TemplatesHeld'
  <1> DEFINE d      == Detail[s]
             p      == Convert(d)
             place(f) == Pdf[p.docs[f.document]]
             fields == {Default(Resolved(f, place(f))) : f \in p.fields}
             people == [i \in DOMAIN p.roles |->
                          [who |-> p.roles[i].name, role |-> p.roles[i].type,
                           routing |-> p.roles[i].routing]]
             new    == [stage |-> "created", by |-> "inline", source |-> s,
                        docs |-> p.docs, people |-> people, fields |-> fields,
                        ink |-> {}]
  <1>1. envelope' = [envelope EXCEPT ![e] = new] /\ UNCHANGED template
    BY DEF CreateInline
  <1>2. \A f \in fields : FieldHeld(f, s)
    BY ResolvedIs
  <1>3. \A k \in DOMAIN d.signers : people[k].who = d.signers[k].role
    <2>1. /\ DOMAIN d.signers \subseteq DOMAIN p.roles
          /\ \A k \in DOMAIN d.signers : p.roles[k].name = d.signers[k].role
      BY RolesAre
    <2> HIDE DEF d, p
    <2> QED
      BY <2>1
  <1> HIDE DEF people, fields
  <1>4. Carries(new, s)
    BY <1>2, <1>3 DEF Carries
  <1>5. new.stage = "created" /\ new.ink = {}
    OBVIOUS
  <1>6. new = [stage |-> new.stage, by |-> new.by, source |-> new.source,
               docs |-> new.docs, people |-> new.people, fields |-> new.fields,
               ink |-> new.ink]
    OBVIOUS
  <1> HIDE DEF new
  <1>7. EnvelopeHeld(new)
    BY <1>4, <1>5, <1>6 DEF EnvelopeHeld
  <1> QED
    BY <1>1, <1>7, EnvelopeKeeps

\* Neither a step of an envelope nor its ink changes what it has.
LEMMA StageKeeps ==
  ASSUME NEW v, EnvelopeHeld(v), v.stage # "none", NEW stage, stage # "none", NEW ink,
         \A i \in ink : InkHeld(i, v), NEW w,
         w = [stage |-> stage, by |-> v.by, source |-> v.source, docs |-> v.docs,
              people |-> v.people, fields |-> v.fields, ink |-> ink]
  PROVE  EnvelopeHeld(w)
  <1>1. /\ w.stage = stage /\ w.by = v.by /\ w.source = v.source /\ w.docs = v.docs
        /\ w.people = v.people /\ w.fields = v.fields /\ w.ink = ink
    OBVIOUS
  <1>2. PICK s \in Source : Carries(v, s)
    BY DEF EnvelopeHeld
  <1>3. Carries(w, s)
    BY <1>1, <1>2 DEF Carries
  <1>4. \A i \in w.ink : InkHeld(i, w)
    BY <1>1 DEF InkHeld
  <1>5. w = [stage |-> w.stage, by |-> w.by, source |-> w.source, docs |-> w.docs,
             people |-> w.people, fields |-> w.fields, ink |-> w.ink]
    BY <1>1
  <1> QED
    BY <1>1, <1>3, <1>4, <1>5 DEF EnvelopeHeld

LEMMA CommitKeeps ==
  ASSUME TemplatesHeld, NEW e \in EnvelopeSlots, CommitEnvelope(e)
  PROVE  TemplatesHeld'
  <1> DEFINE v == envelope[e]
             w == [stage |-> "created", by |-> v.by, source |-> v.source,
                   docs |-> v.docs, people |-> v.people, fields |-> v.fields,
                   ink |-> v.ink]
  <1>1. EnvelopeHeld(v) /\ DOMAIN envelope = EnvelopeSlots
    BY DEF TemplatesHeld
  <1>2. v.stage = "loaded" /\ envelope' = [envelope EXCEPT ![e].stage = "created"]
        /\ UNCHANGED template
    BY DEF CommitEnvelope
  <1>3. envelope' = [envelope EXCEPT ![e] = [v EXCEPT !.stage = "created"]]
    BY <1>2
  <1>4. v = [stage |-> v.stage, by |-> v.by, source |-> v.source, docs |-> v.docs,
             people |-> v.people, fields |-> v.fields, ink |-> v.ink]
    BY <1>1 DEF EnvelopeHeld
  <1>5. \A i \in v.ink : InkHeld(i, v)
    BY <1>1, <1>2 DEF EnvelopeHeld
  <1> HIDE DEF v
  <1>6. [v EXCEPT !.stage = "created"] = w
    BY <1>4
  <1>7. EnvelopeHeld(w)
    BY <1>1, <1>2, <1>5, StageKeeps
  <1> HIDE DEF w
  <1> QED
    BY <1>2, <1>3, <1>6, <1>7, EnvelopeKeeps

LEMMA SealKeeps ==
  ASSUME TemplatesHeld, NEW e \in EnvelopeSlots, SealEnvelope(e)
  PROVE  TemplatesHeld'
  <1> DEFINE v       == envelope[e]
             pdf(f)  == Pdf[v.docs[f.document]]
             shown   == {f \in v.fields : OnPage(f, pdf(f))}
             signed(F) == {f \in F : f.type \in Pictures}
             of(f, share) == [field |-> f, box |-> Drawn(f, pdf(f), share[f]),
                              who |-> v.people[f.role].who]
  <1>1. EnvelopeHeld(v) /\ DOMAIN envelope = EnvelopeSlots
    BY DEF TemplatesHeld
  <1>2. v.stage = "created" /\ UNCHANGED template
    BY DEF SealEnvelope
  <1>3a. PICK filled \in SUBSET shown : \E share \in [signed(filled) -> Shares] :
           envelope' = [envelope EXCEPT ![e].stage = "sealed",
                                        ![e].ink = {of(f, share) : f \in filled}]
    BY DEF SealEnvelope
  <1>3. PICK share \in [signed(filled) -> Shares] :
          envelope' = [envelope EXCEPT ![e].stage = "sealed",
                                       ![e].ink = {of(f, share) : f \in filled}]
    BY <1>3a
  <1> DEFINE ink == {of(f, share) : f \in filled}
             w   == [stage |-> "sealed", by |-> v.by, source |-> v.source,
                     docs |-> v.docs, people |-> v.people, fields |-> v.fields,
                     ink |-> ink]
  <1>4. \A i \in ink : InkHeld(i, v)
    <2>1. SUFFICES ASSUME NEW f \in filled PROVE InkHeld(of(f, share), v)
      OBVIOUS
    <2>2. f \in v.fields /\ OnPage(f, pdf(f))
      OBVIOUS
    <2>3. /\ of(f, share).field = f /\ of(f, share).box = Drawn(f, pdf(f), share[f])
          /\ of(f, share).who = v.people[f.role].who
      OBVIOUS
    <2>4. f.type \in Pictures => share[f] \in Shares
      OBVIOUS
    <2> HIDE DEF of
    <2> QED
      BY <2>2, <2>3, <2>4 DEF InkHeld
  <1>5. v = [stage |-> v.stage, by |-> v.by, source |-> v.source, docs |-> v.docs,
             people |-> v.people, fields |-> v.fields, ink |-> v.ink]
    BY <1>1 DEF EnvelopeHeld
  <1> HIDE DEF ink
  <1>6. envelope' = [envelope EXCEPT ![e] = [[v EXCEPT !.stage = "sealed"] EXCEPT
                                               !.ink = ink]]
    BY <1>1, <1>3 DEF ink
  <1> HIDE DEF v
  <1>7. [[v EXCEPT !.stage = "sealed"] EXCEPT !.ink = ink] = w
    <2> DEFINE x == [v EXCEPT !.stage = "sealed"]
    <2>1. x = [stage |-> "sealed", by |-> v.by, source |-> v.source, docs |-> v.docs,
               people |-> v.people, fields |-> v.fields, ink |-> v.ink]
      BY <1>5
    <2> HIDE DEF x
    <2>2. [x EXCEPT !.ink = ink] = w
      BY <2>1
    <2> QED
      BY <2>2 DEF x
  <1>8. EnvelopeHeld(w)
    BY <1>1, <1>2, <1>4, StageKeeps
  <1> HIDE DEF w
  <1> QED
    BY <1>2, <1>6, <1>7, <1>8, EnvelopeKeeps

LEMMA ServerKeeps ==
  ASSUME TemplatesHeld, ServerStep
  PROVE  TemplatesHeld'
  BY DeleteKeeps, LoadKeeps, InlineKeeps, CommitKeeps, SealKeeps DEF ServerStep

\* The ink of a field is where its tab was.
InkOfTab(i, tab, size) ==
  LET foot == Full * (size.h - tab.y) - i.field.h * size.h
      hang == IF i.field.type = "SIGNATURE" THEN 3 * Full ELSE 0
  IN  /\ i.field.page = tab.page
      /\ Between(Full * tab.x, i.box.left, Full * tab.x, size.w)
      /\ IF i.field.type \in Pictures
         THEN Between(Larger(0, foot - hang), i.box.bottom, Larger(0, foot), size.h)
         ELSE Between(foot, i.box.bottom, foot, size.h)

InkAt(e, i) ==
  LET d    == Detail[envelope[e].source]
      tab  == TabAt(i.field.no, d)
      pdf  == Pdf[envelope[e].docs[i.field.document]]
      size == pdf.pages[i.field.page]
  IN  /\ i.who = d.signers[i.field.no[1]].role
      /\ (/\ tab.anchor = NoAnchor /\ pdf.readable /\ size.rotation = 0
          /\ tab.page >= 1 /\ tab.x \in 0..size.w /\ tab.y \in 0..size.h) =>
           InkOfTab(i, tab, size)

\* What is read from the fields of an envelope is what its tabs said.
LEMMA InkNow ==
  ASSUME TemplatesHeld
  PROVE  InkWhereTabsWere
  <1>1. SUFFICES ASSUME NEW e \in EnvelopeSlots, NEW i \in envelope[e].ink
                 PROVE  InkAt(e, i)
    BY Zenon DEF InkWhereTabsWere, InkAt, InkOfTab
  <1> DEFINE v    == envelope[e]
             f    == i.field
             d    == Detail[v.source]
             tab  == TabAt(f.no, d)
             pdf  == Pdf[v.docs[f.document]]
             size == pdf.pages[f.page]
  <1>2. EnvelopeHeld(v)
    BY DEF TemplatesHeld
  <1>3. v.stage # "none"
    BY <1>2 DEF EnvelopeHeld
  <1>4. PICK s \in Source : Carries(v, s)
    BY <1>2, <1>3 DEF EnvelopeHeld
  <1>5. InkHeld(i, v)
    BY <1>2, <1>3 DEF EnvelopeHeld
  <1>6. /\ f \in v.fields /\ f.page \in DOMAIN pdf.pages
        /\ i.who = v.people[f.role].who
    BY <1>5 DEF InkHeld, OnPage
  <1>6a. PICK share : /\ f.type \in Pictures => share \in Shares
                      /\ i.box = Drawn(f, pdf, share)
    BY <1>5 DEF InkHeld
  <1>7. v.source = s /\ d = Detail[s]
    BY <1>4 DEF Carries
  <1>8. FieldHeld(f, s) /\ v.docs = Convert(d).docs
        /\ \A k \in DOMAIN d.signers : v.people[k].who = d.signers[k].role
    BY <1>4, <1>6, <1>7 DEF Carries
  <1> DEFINE place == FixedPlace(tab, Pdf[d.docs[f.document].file])
  <1>9. /\ f.no \in TabNumbers(d) /\ f.role = f.no[1] /\ f.document \in DOMAIN d.docs
        /\ tab.anchor = NoAnchor =>
             f.page = place.page /\ f.x = place.x /\ f.y = place.y /\ f.h \in Nat
    BY <1>7, <1>8 DEF FieldHeld
  <1>10. /\ d.docs[f.document].file \in DOMAIN Pdf /\ f.no[1] \in DOMAIN d.signers
         /\ tab.page \in Int /\ tab.x \in Int /\ tab.y \in Int
    BY <1>7, <1>9, DetailIs
  <1>11. v.docs[f.document] = d.docs[f.document].file
    <2>1. Convert(d).docs = [k \in DOMAIN d.docs |-> d.docs[k].file]
      BY DEF Convert
    <2> HIDE DEF d, v, f
    <2> QED
      BY <1>8, <1>9, <2>1
  <1>12. i.who = d.signers[f.no[1]].role
    BY <1>6, <1>8, <1>9, <1>10
  <1>13. v.docs[f.document] \in DOMAIN Pdf
    BY <1>10, <1>11
  <1>14. size \in [w : Nat \ {0}, h : Nat \ {0}, rotation : Int]
    BY <1>6, <1>13, PagesAre
  <1>15. place = FixedPlace(tab, pdf)
    BY <1>11
  <1>16. ASSUME tab.anchor = NoAnchor, pdf.readable, size.rotation = 0, tab.page >= 1,
                tab.x \in 0..size.w, tab.y \in 0..size.h
         PROVE  InkOfTab(i, tab, size)
    <2> HIDE DEF d, tab, pdf, v, f, place
    <2>1. f.page = tab.page /\ place.page = tab.page
      BY <1>9, <1>15, <1>16 DEF FixedPlace
    <2>2. PageSize(pdf, tab.page) = size
      BY <1>6, <1>16, <2>1 DEF PageSize, Turned
    <2>3. place.x = Pct(tab.x, size.w) /\ place.y = Pct(tab.y, size.h)
      BY <1>15, <1>16, <2>2 DEF FixedPlace
    <2>4. f.x = Pct(tab.x, size.w) /\ f.y = Pct(tab.y, size.h) /\ f.h \in Nat
      BY <1>9, <1>16, <2>3
    <2> DEFINE sw == size.w
               sh == size.h
               fx == f.x
               fy == f.y
               fh == f.h
               tx == tab.x
               ty == tab.y
               box  == (10000 - fy - fh) * sh
               foot == 10000 * (sh - ty) - fh * sh
               tall == fh * sh
               over == Overhang(f, tall, share)
               hang == IF f.type = "SIGNATURE" THEN 30000 ELSE 0
    <2>5. /\ i.box.left = fx * sw
          /\ i.box.bottom = IF f.type \in Pictures THEN Larger(0, box - over) ELSE box
      BY <1>6a DEF Drawn, Full
    <2>6. /\ sw \in Int /\ sh \in Int /\ sw > 0 /\ sh > 0 /\ tx \in Int /\ ty \in Int
          /\ tx >= 0 /\ tx <= sw /\ ty >= 0 /\ ty <= sh
          /\ fx = Pct(tx, sw) /\ fy = Pct(ty, sh) /\ fh \in Nat
      BY <1>14, <1>16, <2>4
    <2> HIDE DEF sw, sh, fx, fy, fh, tx, ty, box, foot, tall, over, hang
    <2>7. /\ fx \in Int /\ 2 * (fx * sw - 10000 * tx) <= sw
          /\ -2 * (fx * sw - 10000 * tx) <= sw
      <3>1. IsRounded(Pct(tx, sw), tx, sw)
        BY <2>6, Rounded
      <3>2. IsRounded(fx, tx, sw)
        BY <2>6, <3>1
      <3>3. fx \in 0..10000
        BY <3>2 DEF IsRounded
      <3> QED
        BY <2>6, <3>2, <3>3 DEF IsRounded
    <2>8. /\ fy \in Int /\ 2 * (fy * sh - 10000 * ty) <= sh
          /\ -2 * (fy * sh - 10000 * ty) <= sh
      <3>1. IsRounded(Pct(ty, sh), ty, sh)
        BY <2>6, Rounded
      <3>2. IsRounded(fy, ty, sh)
        BY <2>6, <3>1
      <3>3. fy \in 0..10000
        BY <3>2 DEF IsRounded
      <3> QED
        BY <2>6, <3>2, <3>3 DEF IsRounded
    <2>9. Between(10000 * tx, i.box.left, 10000 * tx, sw)
      BY <2>5, <2>6, <2>7 DEF Between
    <2>10. box \in Int /\ foot \in Int /\ Between(foot, box, foot, sh)
      <3>1. box - foot = 10000 * ty - fy * sh
        BY <2>6, <2>8, Upright DEF box, foot
      <3>2. box \in Int /\ foot \in Int
        BY <2>6, <2>8 DEF box, foot
      <3>3. fy * sh \in Int
        BY <2>6, <2>8
      <3> QED
        BY <2>6, <2>8, <3>1, <3>2, <3>3 DEF Between
    <2>11. f.type \in Pictures =>
             Between(Larger(0, foot - hang), i.box.bottom, Larger(0, foot), sh)
      <3>1. SUFFICES ASSUME f.type \in Pictures
                     PROVE  Between(Larger(0, foot - hang), Larger(0, box - over),
                                    Larger(0, foot), sh)
        BY <2>5
      <3>2. share \in Nat
        <4>1. share \in Shares
          BY <1>6a, <3>1, Zenon
        <4> QED
          BY <4>1, SharesAssumption
      <3>3. tall \in Nat
        BY <2>6, Product DEF tall
      <3>4. HangsAtMost(f, over)
        BY <3>2, <3>3, OverhangIs DEF over
      <3>5. over \in Nat /\ hang \in Nat /\ over <= hang
        BY <3>4 DEF HangsAtMost, hang
      <3> QED
        BY <2>6, <2>10, <3>5, Hanging
    <2>12. f.type \notin Pictures => Between(foot, i.box.bottom, foot, sh)
      BY <2>5, <2>10
    <2>13. /\ foot = Full * (size.h - tab.y) - f.h * size.h
           /\ hang = IF f.type = "SIGNATURE" THEN 3 * Full ELSE 0
           /\ sw = size.w /\ sh = size.h /\ tx = tab.x
           /\ f.page = tab.page /\ f = i.field
      BY <2>1 DEF foot, hang, sw, sh, fh, tx, ty, f, Full
    <2>14. Between(Full * tab.x, i.box.left, Full * tab.x, size.w)
      BY <2>9, <2>13 DEF Full
    <2> HIDE DEF InkOfTab
    <2> QED
      BY <2>11, <2>12, <2>13, <2>14, Zenon DEF InkOfTab
  <1> QED
    BY <1>12, <1>16 DEF InkAt

-----------------------------------------------------------------------------
\* A run of the importer.

Outcomes == {"imported", "failed", "dry-run"}

\* One of the entries of its report.
Entry == [source : Source, status : Outcomes, id : TemplateSlots \cup {"none"}]

\* Until the account changes, the pages show it in its order.
Listed ==
  /\ start \in Nat /\ listed \in Seq(Source) /\ todo \in Seq(Source)
  /\ ~moved =>
       /\ IsInjective(listed)
       /\ step = "list" => start \in 0..Len(account) /\ listed = SubSeq(account, 1, start)

\* The templates before the present one are reported.
Reached ==
  /\ step \in {"list", "confirm", "fetch", "download", "create", "write", "ended"}
  /\ step = "list" => current = 1 /\ report = <<>>
  /\ step # "list" => Keeps(todo, listed, Len(listed))
  /\ step \in {"confirm", "fetch", "download", "create"} =>
       current \in 1..Len(todo) /\ Len(report) = current - 1
  /\ step \in {"write", "ended"} => Len(report) = Len(todo)

\* Each entry is of its template, and names one that was created for it if any;
\* whatever was created is in one entry, or its answer was lost.
Reported ==
  /\ report \in Seq(Entry)
  /\ \A i \in DOMAIN report :
       /\ report[i].source = todo[i]
       /\ report[i].status = "imported" => <<report[i].source, report[i].id>> \in made
       /\ report[i].status # "imported" => report[i].id = "none"
  /\ \A i, j \in DOMAIN report :
       report[i].id = report[j].id => i = j \/ report[i].id = "none"
  /\ \A m \in made :
       /\ m[2] \in TemplateSlots /\ template[m[2]].stage # "free"
       /\ m[2] \in unheard \/ \E i \in DOMAIN report : report[i].id = m[2]

RunHeld ==
  /\ TemplatesHeld
  /\ account \in Seq(Source) /\ IsInjective(account)
  /\ step # "idle" => Listed /\ Reached /\ Reported

\* No run is under way at first.
LEMMA RunAtFirst ==
  ASSUME ImportInit
  PROVE  RunHeld
  <1>1. TemplatesHeld
    BY TemplatesAtFirst DEF ImportInit
  <1>2. account \in Seq(Source) /\ IsInjective(account) /\ step = "idle"
    BY ImportAssumption DEF ImportInit
  <1> QED
    BY <1>1, <1>2 DEF RunHeld

\* What the next three parts of the invariant need of a step that is not theirs.
LEMMA ListedKeeps ==
  ASSUME Listed, UNCHANGED <<start, listed, todo>>,
         moved => moved',
         step' = "list" => step = "list" /\ (moved' \/ UNCHANGED account)
  PROVE  Listed'
  <1>1. ~moved' => ~moved
    OBVIOUS
  <1>2. IsInjective(listed)' <=> IsInjective(listed)
    BY DEF IsInjective
  <1> QED
    BY <1>1, <1>2 DEF Listed

LEMMA ReportedKeeps ==
  ASSUME Reported, UNCHANGED <<report, todo, made, unheard>>,
         \A t \in TemplateSlots : template[t].stage # "free" => template'[t].stage # "free"
  PROVE  Reported'
  BY DEF Reported

LEMMA ReachedKeeps ==
  ASSUME Reached, UNCHANGED <<step, only, listed, todo, current, report>>
  PROVE  Reached'
  <1>1. Keeps(todo, listed, Len(listed))' <=> Keeps(todo, listed, Len(listed))
    BY DEF Keeps, Wanted, IsInjective
  <1> QED
    BY <1>1 DEF Reached

\* A template that there was is free no more.
LEMMA StaysTaken ==
  ASSUME TemplatesHeld, ServerStep
  PROVE  \A t \in TemplateSlots : template[t].stage # "free" => template'[t].stage # "free"
  <1> DEFINE Ever == \A t \in TemplateSlots :
               template[t].stage # "free" => template'[t].stage # "free"
  <1>1. ASSUME NEW u \in TemplateSlots, DeleteTemplate(u) PROVE Ever
    <2>1. template' = [template EXCEPT ![u] = [NoTemplate EXCEPT !.stage = "deleted"]]
      BY <1>1 DEF DeleteTemplate
    <2>2. [NoTemplate EXCEPT !.stage = "deleted"].stage = "deleted"
      BY DEF NoTemplate
    <2>3. DOMAIN template = TemplateSlots
      BY DEF TemplatesHeld
    <2> QED
      BY <2>1, <2>2, <2>3
  <1>2. ASSUME UNCHANGED template PROVE Ever
    BY <1>2
  <1>3. ASSUME NEW e \in EnvelopeSlots, NEW u \in TemplateSlots, LoadTemplate(e, u)
        PROVE  UNCHANGED template
    BY <1>3 DEF LoadTemplate
  <1>4. ASSUME NEW e \in EnvelopeSlots, NEW s \in Source,
               CreateInline(e, Convert(Detail[s]), s)
        PROVE  UNCHANGED template
    BY <1>4 DEF CreateInline
  <1>5. ASSUME NEW e \in EnvelopeSlots, CommitEnvelope(e) \/ SealEnvelope(e)
        PROVE  UNCHANGED template
    BY <1>5 DEF CommitEnvelope, SealEnvelope
  <1> QED
    BY <1>1, <1>2, <1>3, <1>4, <1>5 DEF ServerStep

\* What is selected depends on the options and on what was listed.
LEMMA KeptAsWas ==
  ASSUME UNCHANGED <<only, listed, todo>>, Keeps(todo, listed, Len(listed))
  PROVE  Keeps(todo, listed, Len(listed))'
  BY DEF Keeps, Wanted, IsInjective

\* One entry more.
LEMMA ConcludeKeeps ==
  ASSUME Listed, Reached, Reported, step \in {"fetch", "download", "create"},
         NEW status \in Outcomes, NEW id \in TemplateSlots \cup {"none"},
         Conclude(Entered(status, id)),
         UNCHANGED <<account, only, start, listed, todo, moved>>,
         status = "imported" =>
           <<todo[current], id>> \in made' /\ \A m \in made : m[2] # id,
         status # "imported" => id = "none",
         made \subseteq made', unheard \subseteq unheard',
         \A m \in made' \ made : m[2] \in TemplateSlots /\ m[2] \in unheard' \cup {id},
         \A m \in made' : template'[m[2]].stage # "free"
  PROVE  Listed' /\ Reached' /\ Reported'
  <1> DEFINE entry == Entered(status, id)
             N     == Len(report)
  <1>1. /\ report' = Append(report, entry) /\ current' = current + 1
        /\ step' = IF current = Len(todo) THEN "write" ELSE "fetch"
    BY DEF Conclude
  <1>2. /\ report \in Seq(Entry) /\ todo \in Seq(Source) /\ current \in 1..Len(todo)
        /\ N = current - 1 /\ Len(todo) \in Nat /\ N \in Nat
    BY DEF Listed, Reached, Reported
  <1>3. /\ entry.source = todo[current] /\ entry.status = status /\ entry.id = id
    BY DEF Entered
  <1>4. entry \in Entry
    BY <1>2 DEF Entered, Entry
  <1>s. step' \in {"write", "fetch"}
    BY <1>1
  <1> HIDE DEF entry
  <1>5. /\ report' \in Seq(Entry) /\ Len(report') = N + 1
        /\ \A i \in 1..N : report'[i] = report[i]
        /\ report'[N + 1] = entry /\ DOMAIN report = 1..N /\ DOMAIN report' = 1..(N + 1)
    BY <1>1, <1>2, <1>4
  <1> HIDE DEF N
  <1>6. Listed'
    BY <1>s, ListedKeeps
  <1>7. Reached'
    <2>1. Keeps(todo, listed, Len(listed))'
      BY KeptAsWas DEF Reached
    <2>2. Len(report)' = current /\ Len(todo)' = Len(todo)
      BY <1>2, <1>5
    <2>3. step' = "write" => Len(report)' = Len(todo)'
      BY <1>1, <2>2
    <2>4. step' = "fetch" => current' \in 1..Len(todo)' /\ Len(report)' = current' - 1
      BY <1>1, <1>2, <2>2
    <2> QED
      BY <1>s, <2>1, <2>3, <2>4 DEF Reached
  <1>8. Reported'
    <2>1. \A i \in DOMAIN report' : i \in 1..N \/ i = N + 1
      BY <1>2, <1>5
    <2>2. ASSUME NEW i \in DOMAIN report'
          PROVE  /\ report'[i].source = todo'[i]
                 /\ report'[i].status = "imported" =>
                      <<report'[i].source, report'[i].id>> \in made'
                 /\ report'[i].status # "imported" => report'[i].id = "none"
      <3>1. CASE i \in 1..N
        <4>1. report'[i] = report[i] /\ i \in DOMAIN report
          BY <1>5, <3>1
        <4> QED
          BY <4>1 DEF Reported
      <3>2. CASE i = N + 1
        <4>1. report'[i] = entry /\ i = current
          BY <1>2, <1>5, <3>2
        <4> QED
          BY <1>3, <4>1
      <3> QED
        BY <2>1, <3>1, <3>2
    <2>3. ASSUME NEW i \in 1..N, status = "imported"
          PROVE  report[i].id # id \/ report[i].id = "none"
      <3>1. i \in DOMAIN report
        BY <1>5
      <3>2. CASE report[i].status = "imported"
        <4>1. <<report[i].source, report[i].id>> \in made
          BY <3>1, <3>2 DEF Reported
        <4> QED
          BY <2>3, <4>1
      <3>3. CASE report[i].status # "imported"
        BY <3>1, <3>3 DEF Reported
      <3> QED
        BY <3>2, <3>3
    <2>4. ASSUME NEW i \in DOMAIN report', NEW j \in DOMAIN report',
                 report'[i].id = report'[j].id
          PROVE  i = j \/ report'[i].id = "none"
      <3>1. CASE i \in 1..N /\ j \in 1..N
        BY <1>5, <2>4, <3>1 DEF Reported
      <3>2. CASE i = N + 1 /\ j = N + 1
        BY <3>2
      <3>3. CASE i \in 1..N /\ j = N + 1
        <4>1. report'[i] = report[i] /\ report'[j].id = id
          BY <1>3, <1>5, <3>3
        <4> QED
          BY <2>3, <2>4, <3>3, <4>1
      <3>4. CASE i = N + 1 /\ j \in 1..N
        <4>1. report'[j] = report[j] /\ report'[i].id = id
          BY <1>3, <1>5, <3>4
        <4> QED
          BY <2>3, <2>4, <3>4, <4>1
      <3> QED
        BY <2>1, <3>1, <3>2, <3>3, <3>4
    <2>5. ASSUME NEW m \in made'
          PROVE  /\ m[2] \in TemplateSlots /\ template'[m[2]].stage # "free"
                 /\ m[2] \in unheard' \/ \E i \in DOMAIN report' : report'[i].id = m[2]
      <3>1. CASE m \in made
        <4>1. /\ m[2] \in TemplateSlots
              /\ m[2] \in unheard \/ \E i \in DOMAIN report : report[i].id = m[2]
          BY <3>1 DEF Reported
        <4>2. \A i \in DOMAIN report : i \in DOMAIN report' /\ report'[i] = report[i]
          BY <1>2, <1>5
        <4> QED
          BY <4>1, <4>2
      <3>2. CASE m \notin made
        <4>1. m[2] \in TemplateSlots /\ m[2] \in unheard' \cup {id}
          BY <3>2
        <4>2. N + 1 \in DOMAIN report' /\ report'[N + 1].id = id
          BY <1>2, <1>3, <1>5
        <4> QED
          BY <4>1, <4>2
      <3> QED
        BY <3>1, <3>2
    <2> QED
      BY <1>5, <2>2, <2>4, <2>5 DEF Reported, Entry
  <1> QED
    BY <1>6, <1>7, <1>8

\* Nothing is created, and that is said.
LEMMA FailsKeeps ==
  ASSUME RunHeld, step \in {"fetch", "download", "create"},
         NEW status \in {"failed", "dry-run"}, Conclude(Entered(status, "none")),
         UNCHANGED <<server, account, options, start, listed, todo, runs, changes,
                     history>>
  PROVE  RunHeld'
  <1>1. Listed /\ Reached /\ Reported
    BY DEF RunHeld
  <1>2. UNCHANGED <<template, envelope, account, only, start, listed, todo, moved, made,
                    unheard>>
    BY DEF server, options, history
  <1>3. \A m \in made : template[m[2]].stage # "free"
    BY <1>1 DEF Reported
  <1>4. made' = made /\ unheard' = unheard /\ made' \ made = {}
        /\ \A m \in made' : template'[m[2]].stage # "free"
    BY <1>2, <1>3
  <1>s. status \in Outcomes /\ status # "imported"
    BY DEF Outcomes
  <1>5. Listed' /\ Reached' /\ Reported'
    BY <1>1, <1>2, <1>4, <1>s, ConcludeKeeps
  <1>6. TemplatesHeld'
    BY <1>2 DEF RunHeld, TemplatesHeld
  <1> QED
    BY <1>2, <1>5, <1>6 DEF RunHeld, IsInjective

\* A template is created on a row that was free, so no entry names it yet.
LEMMA CreateKeeps ==
  ASSUME RunHeld, NEW t \in TemplateSlots, Create(t)
  PROVE  RunHeld'
  <1> DEFINE s == todo[current]
  <1>1. Listed /\ Reached /\ Reported /\ TemplatesHeld
    BY DEF RunHeld, Create
  <1>2. /\ step = "create" /\ PostTemplate(t, Convert(Detail[s]), s)
        /\ made' = made \cup {<<s, t>>}
        /\ UNCHANGED <<envelope, account, only, start, listed, todo, moved>>
    BY DEF Create, Payload, options
  <1>3. s \in Source
    <2>1. todo \in Seq(Source) /\ current \in 1..Len(todo)
      BY <1>1, <1>2 DEF Listed, Reached
    <2> QED
      BY <2>1
  <1>c. \/ Conclude(Entered("imported", t)) /\ UNCHANGED unheard
        \/ Conclude(Entered("failed", "none")) /\ unheard' = unheard \cup {t}
    BY DEF Create
  <1>s. s = todo[current]
    OBVIOUS
  <1> HIDE DEF s
  <1>4. TemplatesHeld'
    BY <1>1, <1>2, <1>3, PostKeeps
  <1>5. \A m \in made : m[2] # t
    BY <1>1, <1>2 DEF Reported, PostTemplate
  <1>6. \A m \in made' : template'[m[2]].stage # "free"
    <2> DEFINE new == NewTemplate(Convert(Detail[s]), s)
    <2>1. template' = [template EXCEPT ![t] = new] /\ DOMAIN template = TemplateSlots
      BY <1>1, <1>2 DEF PostTemplate, TemplatesHeld
    <2>2. new.stage = "kept"
      BY DEF NewTemplate
    <2> HIDE DEF new
    <2>3. template'[t].stage # "free"
      BY <2>1, <2>2
    <2>4. \A m \in made : template'[m[2]].stage # "free"
      BY <1>1, <1>5, <2>1 DEF Reported
    <2> QED
      BY <1>2, <2>3, <2>4
  <1>7. made \subseteq made' /\ \A m \in made' \ made : m[2] = t
    BY <1>2
  <1>8. Listed' /\ Reached' /\ Reported'
    <2>1. CASE Conclude(Entered("imported", t)) /\ UNCHANGED unheard
      <3> DEFINE status == "imported"
                 id     == t
      <3>1. status \in Outcomes /\ id \in TemplateSlots \cup {"none"}
        BY DEF Outcomes
      <3>2. Conclude(Entered(status, id))
        BY <2>1
      <3>3. step \in {"fetch", "download", "create"}
        BY <1>2
      <3>4. UNCHANGED <<account, only, start, listed, todo, moved>>
        BY <1>2
      <3>5. status = "imported" =>
              <<todo[current], id>> \in made' /\ \A m \in made : m[2] # id
        BY <1>2, <1>5, <1>s
      <3>6. status # "imported" => id = "none"
        OBVIOUS
      <3>7. made \subseteq made' /\ unheard \subseteq unheard'
        BY <1>7, <2>1
      <3>8. \A m \in made' \ made : m[2] \in TemplateSlots /\ m[2] \in unheard' \cup {id}
        BY <1>7, <2>1
      <3> HIDE DEF status, id
      <3> QED
        BY <1>1, <1>6, <3>1, <3>2, <3>3, <3>4, <3>5, <3>6, <3>7, <3>8, ConcludeKeeps
    <2>2. CASE Conclude(Entered("failed", "none")) /\ unheard' = unheard \cup {t}
      <3> DEFINE status == "failed"
                 id     == "none"
      <3>1. status \in Outcomes /\ id \in TemplateSlots \cup {"none"}
        BY DEF Outcomes
      <3>2. Conclude(Entered(status, id))
        BY <2>2
      <3>3. step \in {"fetch", "download", "create"}
        BY <1>2
      <3>4. UNCHANGED <<account, only, start, listed, todo, moved>>
        BY <1>2
      <3>5. status = "imported" =>
              <<todo[current], id>> \in made' /\ \A m \in made : m[2] # id
        BY <1>2, <1>5, <1>s
      <3>6. status # "imported" => id = "none"
        OBVIOUS
      <3>7. made \subseteq made' /\ unheard \subseteq unheard'
        BY <1>7, <2>2
      <3>8. \A m \in made' \ made : m[2] \in TemplateSlots /\ m[2] \in unheard' \cup {id}
        BY <1>7, <2>2
      <3> HIDE DEF status, id
      <3> QED
        BY <1>1, <1>6, <3>1, <3>2, <3>3, <3>4, <3>5, <3>6, <3>7, <3>8, ConcludeKeeps
    <2> QED
      BY <1>c, <2>1, <2>2
  <1> QED
    BY <1>2, <1>4, <1>8 DEF RunHeld, IsInjective

\* A step of the importer that neither lists, nor reports.
LEMMA GoesOn ==
  ASSUME RunHeld, step # "idle", step' # "idle", step' = "list" => step = "list",
         UNCHANGED <<server, account, options, start, listed, todo, current, report,
                     history>>,
         Reached'
  PROVE  RunHeld'
  <1>1. Listed /\ Reported /\ TemplatesHeld
    BY DEF RunHeld
  <1>2. UNCHANGED <<template, envelope, account, start, listed, todo, report, moved,
                    made, unheard>>
    BY DEF server, history
  <1>3. Listed'
    BY <1>1, <1>2, ListedKeeps
  <1>4. Reported'
    BY <1>1, <1>2, ReportedKeeps
  <1>5. TemplatesHeld'
    BY <1>1, <1>2 DEF TemplatesHeld
  <1> QED
    BY <1>2, <1>3, <1>4, <1>5 DEF RunHeld, IsInjective

\* Whoever stops a run leaves only the rows.
LEMMA StopsKeeps ==
  ASSUME RunHeld, step' = "idle", UNCHANGED <<server, account>>
  PROVE  RunHeld'
  <1>1. UNCHANGED <<template, envelope>>
    BY DEF server
  <1>2. TemplatesHeld'
    BY <1>1 DEF RunHeld, TemplatesHeld
  <1> QED
    BY <1>2 DEF RunHeld, IsInjective

\* Each step of a run keeps the invariant.
LEMMA BeginKeeps ==
  ASSUME RunHeld, BeginRun
  PROVE  RunHeld'
  <1>1. /\ step' = "list" /\ start' = 0 /\ listed' = <<>> /\ todo' = <<>>
        /\ current' = 1 /\ report' = <<>> /\ made' = {}
        /\ UNCHANGED <<template, envelope, account>>
    BY DEF BeginRun, server
  <1>2. TemplatesHeld' /\ account' \in Seq(Source) /\ IsInjective(account)'
    BY <1>1 DEF RunHeld, TemplatesHeld, IsInjective
  <1>3. Listed'
    <2>1. start' \in Nat /\ listed' \in Seq(Source) /\ todo' \in Seq(Source)
      BY <1>1
    <2>2. IsInjective(listed)'
      BY <1>1 DEF IsInjective
    <2>3. start' \in 0..Len(account') /\ listed' = SubSeq(account', 1, start')
      <3>1. Len(account') \in Nat
        BY <1>2
      <3>2. SubSeq(account', 1, 0) = <<>>
        BY <1>2
      <3> QED
        BY <1>1, <3>1, <3>2
    <2> QED
      BY <2>1, <2>2, <2>3 DEF Listed
  <1>4. Reached'
    BY <1>1 DEF Reached
  <1>5. Reported'
    <2>1. report' \in Seq(Entry) /\ DOMAIN report' = {}
      BY <1>1
    <2> QED
      BY <1>1, <2>1 DEF Reported, Entry
  <1> QED
    BY <1>2, <1>3, <1>4, <1>5 DEF RunHeld

\* A page more.
LEMMA ListKeeps ==
  ASSUME RunHeld, ListPage
  PROVE  RunHeld'
  <1> DEFINE L     == Len(account)
             b     == Min({L, start + Listing})
             items == SubSeq(account, start + 1, b)
  <1>1. /\ Listed /\ Reached /\ Reported /\ TemplatesHeld /\ step = "list"
        /\ account \in Seq(Source) /\ IsInjective(account)
    BY DEF RunHeld, ListPage
  <1>2. /\ start \in Nat /\ listed \in Seq(Source) /\ todo \in Seq(Source) /\ L \in Nat
        /\ Listing \in Nat /\ Listing > 0 /\ report = <<>> /\ current = 1
    BY <1>1, ImportAssumption DEF Listed, Reached
  <1>3. /\ listed' = listed \o items /\ start' = start + Len(items)
        /\ \/ /\ todo' = Selected(listed')
              /\ step' = IF todo' = <<>> THEN "idle" ELSE "confirm"
           \/ UNCHANGED <<todo, step>>
        /\ UNCHANGED <<template, envelope, account, only, current, report, moved, made,
                       unheard>>
    BY DEF ListPage, NextStart, server, options, history
  <1>4. b \in Nat /\ b <= L /\ b <= start + Listing /\ (start <= L => start <= b)
    <2> DEFINE e == start + Listing
               m == IF L <= e THEN L ELSE e
    <2>1. m \in {L, e} /\ \A y \in {L, e} : m =< y
      BY <1>2
    <2>2. e \in Nat
      BY <1>2
    <2> HIDE DEF m, e, L
    <2>3. \E x \in {L, e} : \A y \in {L, e} : x =< y
      BY <2>1
    <2>4. Min({L, e}) \in {L, e} /\ \A y \in {L, e} : Min({L, e}) =< y
      BY <2>3 DEF Min
    <2> DEFINE c == Min({L, e})
    <2> HIDE DEF c
    <2>5. c \in {L, e} /\ c <= L /\ c <= e
      BY <2>4 DEF c
    <2>6. c = b
      BY DEF c, e
    <2>7. start <= e
      BY <1>2 DEF e
    <2>8. c \in Nat /\ (start <= L => start <= c)
      BY <1>2, <2>2, <2>5, <2>7
    <2> HIDE DEF b
    <2> QED
      BY <2>5, <2>6, <2>8 DEF e
  <1> HIDE DEF b
  <1>5. items \in Seq(Source) /\ Len(items) = IF start <= b THEN b - start ELSE 0
    BY <1>1, <1>2, <1>4, Taken DEF L
  <1>6. listed' \in Seq(Source) /\ start' \in Nat
    <2> HIDE DEF items
    <2>1. IsJoined(listed \o items, listed, items, Source)
      BY <1>2, <1>5, Joined
    <2>2. listed' \in Seq(Source)
      BY <1>3, <2>1 DEF IsJoined
    <2>3. start' \in Nat
      BY <1>2, <1>3, <1>4, <1>5
    <2> QED
      BY <2>2, <2>3
  <1>7. TemplatesHeld' /\ account' \in Seq(Source) /\ IsInjective(account)'
    BY <1>1, <1>3 DEF TemplatesHeld, IsInjective
  <1>8. Keeps(Selected(listed'), listed', Len(listed'))
    BY <1>6, SelectedIs
  <1>9. Reported'
    <2>1. report' \in Seq(Entry) /\ DOMAIN report' = {}
      BY <1>2, <1>3
    <2>2. \A m \in made : m[2] \in TemplateSlots /\ template[m[2]].stage # "free"
                          /\ m[2] \in unheard
      <3>1. DOMAIN report = {}
        BY <1>2
      <3> QED
        BY <1>1, <3>1 DEF Reported
    <2> QED
      BY <1>3, <2>1, <2>2 DEF Reported, Entry
  <1>10. ~moved =>
           /\ start' \in 0..L /\ listed' = SubSeq(account, 1, start')
           /\ IsInjective(listed')
    <2>1. SUFFICES ASSUME ~moved
                   PROVE  /\ start' \in 0..L /\ listed' = SubSeq(account, 1, start')
                          /\ IsInjective(listed')
      OBVIOUS
    <2>2. start \in 0..L /\ listed = SubSeq(account, 1, start)
      BY <1>1, <2>1 DEF Listed
    <2>3. start' = b /\ b \in start..L
      BY <1>2, <1>3, <1>4, <1>5, <2>2
    <2>4. listed' = SubSeq(account, 1, b)
      <3>1. SubSeq(account, 1, start) \o SubSeq(account, start + 1, b)
              = SubSeq(account, 1, b)
        BY <1>1, <2>2, <2>3, Prolonged
      <3> QED
        BY <1>3, <2>2, <3>1
    <2>5. IsInjective(SubSeq(account, 1, b))
      <3> DEFINE r == SubSeq(account, 1, b)
      <3>1. DOMAIN r = 1..b /\ \A k \in 1..b : r[k] = account[k] /\ k \in DOMAIN account
        BY <1>1, <1>4 DEF L
      <3> HIDE DEF r
      <3>2. IsInjective(r)
        BY <1>1, <3>1 DEF IsInjective
      <3> QED
        BY <3>2 DEF r
    <2>6. b \in 0..L
      BY <1>2, <1>4
    <2> HIDE DEF L
    <2> QED
      BY <2>3, <2>4, <2>5, <2>6
  <1> HIDE DEF items
  <1>11. CASE todo' = Selected(listed') /\ todo' = <<>> /\ step' = "idle"
    BY <1>7, <1>11 DEF RunHeld
  <1>12. CASE todo' = Selected(listed') /\ todo' # <<>> /\ step' = "confirm"
    <2>1. todo' \in Seq(Source)
      BY <1>8, <1>12 DEF Keeps
    <2>2. Listed'
      BY <1>3, <1>6, <1>10, <1>12, <2>1 DEF Listed
    <2>3. Keeps(todo, listed, Len(listed))'
      BY <1>3, <1>8, <1>12 DEF Keeps, Wanted, IsInjective
    <2>4. Len(todo') \in Nat \ {0}
      BY <1>12, <2>1
    <2>5. current' \in 1..Len(todo') /\ Len(report') = current' - 1
      BY <1>2, <1>3, <2>4
    <2>6. Reached'
      BY <1>12, <2>3, <2>5 DEF Reached
    <2> QED
      BY <1>7, <1>9, <2>2, <2>6 DEF RunHeld
  <1>13. CASE UNCHANGED <<todo, step>>
    <2>1. Listed'
      BY <1>1, <1>2, <1>3, <1>6, <1>10, <1>13 DEF Listed
    <2>2. Reached'
      BY <1>1, <1>2, <1>3, <1>13 DEF Reached
    <2> QED
      BY <1>7, <1>9, <2>1, <2>2 DEF RunHeld
  <1> QED
    BY <1>3, <1>11, <1>12, <1>13

LEMMA ChangeKeeps ==
  ASSUME RunHeld, ChangeAccount
  PROVE  RunHeld'
  <1>1. /\ account \in Seq(Source) /\ IsInjective(account) /\ TemplatesHeld
        /\ Listed /\ Reached /\ Reported
    BY DEF RunHeld, ChangeAccount
  <1>2. /\ step \in {"list", "fetch", "download"} /\ moved' = (moved \/ step = "list")
        /\ UNCHANGED <<template, envelope, step, only, start, listed, todo, current,
                       report, made, unheard>>
    BY DEF ChangeAccount, server, options, progress
  <1>3. account' \in Seq(Source) /\ IsInjective(account)'
    <2>1. ASSUME NEW i \in DOMAIN account, account' = RemoveAt(account, i)
          PROVE  account' \in Seq(Source) /\ IsInjective(account')
      BY <1>1, <2>1, Removed
    <2>2. ASSUME NEW s \in Source \ Range(account), NEW i \in 1..(Len(account) + 1),
                 account' = InsertAt(account, i, s)
          PROVE  account' \in Seq(Source) /\ IsInjective(account')
      BY <1>1, <2>2, Inserted
    <2> QED
      BY <2>1, <2>2 DEF ChangeAccount
  <1>4. Listed'
    BY <1>1, <1>2, ListedKeeps
  <1>5. Reached'
    BY <1>1, <1>2, ReachedKeeps
  <1>6. Reported'
    BY <1>1, <1>2, ReportedKeeps
  <1>7. TemplatesHeld'
    BY <1>1, <1>2 DEF TemplatesHeld
  <1> QED
    BY <1>3, <1>4, <1>5, <1>6, <1>7 DEF RunHeld

LEMMA ConfirmKeeps ==
  ASSUME RunHeld, Confirm
  PROVE  RunHeld'
  <1>1. /\ step = "confirm" /\ step' \in {"fetch", "idle"}
        /\ UNCHANGED <<server, account, options, start, listed, todo, current, report,
                       history>>
    BY DEF Confirm, progress
  <1>2. CASE step' = "idle"
    BY <1>1, <1>2, StopsKeeps
  <1>3. CASE step' = "fetch"
    <2>1. Reached
      BY <1>1 DEF RunHeld
    <2>2. UNCHANGED only
      BY <1>1 DEF options
    <2>3. Keeps(todo, listed, Len(listed))'
      BY <1>1, <2>1, <2>2, KeptAsWas DEF Reached
    <2>4. Reached'
      BY <1>1, <1>3, <2>1, <2>3 DEF Reached
    <2> QED
      BY <1>1, <1>3, <2>4, GoesOn
  <1> QED
    BY <1>1, <1>2, <1>3

\* The same request again, or the next of those for one template.
LEMMA RequestKeeps ==
  ASSUME RunHeld, Retry \/ Fetch \/ DownloadFile
  PROVE  RunHeld'
  <1>1. /\ UNCHANGED <<server, account, options, start, listed, todo, current, report,
                       history>>
        /\ \/ step = "list" /\ step' = "list"
           \/ /\ step \in {"fetch", "download"}
              /\ step' \in {"fetch", "download", "create"}
    BY DEF Retry, Fetch, DownloadFile
  <1>2. Reached
    BY <1>1 DEF RunHeld
  <1>3. UNCHANGED only
    BY <1>1 DEF options
  <1>4. Reached'
    <2>1. CASE step' = "list"
      BY <1>1, <1>2, <1>3, <2>1, ReachedKeeps
    <2>2. CASE step \in {"fetch", "download"} /\ step' \in {"fetch", "download", "create"}
      <3>1. Keeps(todo, listed, Len(listed))'
        BY <1>1, <1>2, <1>3, <2>2, KeptAsWas DEF Reached
      <3> QED
        BY <1>1, <1>2, <2>2, <3>1 DEF Reached
    <2> QED
      BY <1>1, <2>1, <2>2
  <1> QED
    BY <1>1, <1>4, GoesOn

LEMMA WriteKeeps ==
  ASSUME RunHeld, WriteReport
  PROVE  RunHeld'
  <1>1. /\ step = "write" /\ step' = "ended"
        /\ UNCHANGED <<server, account, options, start, listed, todo, current, report,
                       history>>
    BY DEF WriteReport, progress
  <1>2. Reached /\ UNCHANGED only
    BY <1>1 DEF RunHeld, options
  <1>3. Keeps(todo, listed, Len(listed))'
    BY <1>1, <1>2, KeptAsWas DEF Reached
  <1>4. Reached'
    BY <1>1, <1>2, <1>3 DEF Reached
  <1> QED
    BY <1>1, <1>4, GoesOn

LEMMA NothingKeeps ==
  ASSUME RunHeld, FetchFails \/ NothingToCreate \/ CreateFails
  PROVE  RunHeld'
  <1>1. /\ step \in {"fetch", "download", "create"}
        /\ UNCHANGED <<server, account, options, start, listed, todo, runs, changes,
                       history>>
        /\ \/ Conclude(Entered("failed", "none"))
           \/ Conclude(Entered("dry-run", "none"))
    BY DEF FetchFails, NothingToCreate, CreateFails
  <1>2. ASSUME Conclude(Entered("failed", "none")) PROVE RunHeld'
    <2> DEFINE status == "failed"
    <2>1. status \in {"failed", "dry-run"} /\ Conclude(Entered(status, "none"))
      BY <1>2
    <2> HIDE DEF status
    <2> QED
      BY <1>1, <2>1, FailsKeeps
  <1>3. ASSUME Conclude(Entered("dry-run", "none")) PROVE RunHeld'
    <2> DEFINE status == "dry-run"
    <2>1. status \in {"failed", "dry-run"} /\ Conclude(Entered(status, "none"))
      BY <1>3
    <2> HIDE DEF status
    <2> QED
      BY <1>1, <2>1, FailsKeeps
  <1> QED
    BY <1>1, <1>2, <1>3

LEMMA RunKeeps ==
  ASSUME RunHeld, [ImportNext]_importVars
  PROVE  RunHeld'
  <1>1. CASE ListFails \/ Interrupt
    BY <1>1, StopsKeeps DEF ListFails, Interrupt
  <1>2. CASE Importer
    BY <1>1, <1>2, BeginKeeps, ListKeeps, ConfirmKeeps, RequestKeeps, WriteKeeps,
       NothingKeeps, CreateKeeps DEF Importer
  <1>3. CASE ChangeAccount
    BY <1>3, ChangeKeeps
  <1>4. CASE ServerStep /\ UNCHANGED <<account, step, options, progress, report, runs,
                                       changes, history>>
    <2>1. TemplatesHeld'
      BY <1>4, ServerKeeps DEF RunHeld
    <2>2. \A t \in TemplateSlots :
            template[t].stage # "free" => template'[t].stage # "free"
      BY <1>4, StaysTaken DEF RunHeld
    <2>3. UNCHANGED <<account, step, only, start, listed, todo, current, report, moved,
                      made, unheard>>
      BY <1>4 DEF options, progress, history
    <2>4. ASSUME step # "idle" PROVE Listed' /\ Reached' /\ Reported'
      <3>1. Listed /\ Reached /\ Reported
        BY <2>4 DEF RunHeld
      <3>2. Listed'
        BY <2>3, <3>1, ListedKeeps
      <3>3. Reached'
        BY <2>3, <3>1, ReachedKeeps
      <3>4. Reported'
        BY <2>2, <2>3, <3>1, ReportedKeeps
      <3> QED
        BY <3>2, <3>3, <3>4
    <2> QED
      BY <2>1, <2>3, <2>4 DEF RunHeld, IsInjective
  <1>5. CASE UNCHANGED importVars
    <2>1. UNCHANGED <<template, envelope, account, step, only, start, listed, todo,
                      current, report, moved, made, unheard>>
      BY <1>5 DEF importVars, server, options, progress, history
    <2>2. TemplatesHeld'
      BY <2>1 DEF RunHeld, TemplatesHeld
    <2>3. ASSUME step # "idle" PROVE Listed' /\ Reached' /\ Reported'
      <3>1. Listed /\ Reached /\ Reported
        BY <2>3 DEF RunHeld
      <3>2. Listed'
        BY <2>1, <3>1, ListedKeeps
      <3>3. Reached'
        BY <2>1, <3>1, ReachedKeeps
      <3>4. Reported'
        BY <2>1, <3>1, ReportedKeeps
      <3> QED
        BY <3>2, <3>3, <3>4
    <2> QED
      BY <2>1, <2>2, <2>3 DEF RunHeld, IsInjective
  <1> QED
    BY <1>2, <1>3, <1>4, <1>5 DEF ImportNext

\* Each template that is selected is reported once, if the account did not change
\* while it was listed.
LEMMA OnceNow ==
  ASSUME RunHeld, step = "ended", ~moved, NEW s \in Source
  PROVE  Cardinality({i \in DOMAIN report : report[i].source = s}) =
           IF s \in Range(listed) /\ (only = {} \/ s \in only) THEN 1 ELSE 0
  <1>1. Listed /\ Reached /\ Reported
    BY DEF RunHeld
  <1>2. /\ listed \in Seq(Source) /\ IsInjective(listed)
        /\ Keeps(todo, listed, Len(listed)) /\ Len(report) = Len(todo)
        /\ report \in Seq(Entry) /\ \A i \in DOMAIN report : report[i].source = todo[i]
    BY <1>1 DEF Listed, Reached, Reported
  <1>3. /\ todo \in Seq(Source) /\ IsInjective(todo)
        /\ (\E i \in DOMAIN todo : todo[i] = s) <=>
             \E i \in 1..Len(listed) : listed[i] = s /\ Wanted(s)
    BY <1>2 DEF Keeps
  <1>4. DOMAIN report = DOMAIN todo /\ DOMAIN listed = 1..Len(listed)
    BY <1>2, <1>3
  <1>5. (\E i \in DOMAIN todo : todo[i] = s) <=>
          s \in Range(listed) /\ (only = {} \/ s \in only)
    BY <1>3, <1>4 DEF Range, Wanted
  <1>6. CASE \E i \in DOMAIN todo : todo[i] = s
    <2>1. PICK i \in DOMAIN todo : todo[i] = s
      BY <1>6
    <2>2. {j \in DOMAIN report : report[j].source = s} = {i}
      BY <1>2, <1>3, <1>4, <2>1 DEF IsInjective
    <2> QED
      BY <1>5, <1>6, <2>2, FS_Singleton
  <1>7. CASE ~\E i \in DOMAIN todo : todo[i] = s
    <2>1. {j \in DOMAIN report : report[j].source = s} = {}
      BY <1>2, <1>4, <1>7
    <2> QED
      BY <1>5, <1>7, <2>1, FS_EmptySet
  <1> QED
    BY <1>6, <1>7

\* What a report says was created was, once; and what was is in the report.
LEMMA ReportNow ==
  ASSUME RunHeld
  PROVE  ReportIsTrue
  <1>1. SUFFICES ASSUME step = "ended"
                 PROVE  /\ \A i \in DOMAIN report : report[i].status = "imported" =>
                             <<report[i].source, report[i].id>> \in made
                        /\ \A m \in made : m[2] \notin unheard =>
                             Cardinality({i \in DOMAIN report : report[i].id = m[2]}) = 1
    BY OnceNow DEF ReportIsTrue
  <1>2. Reported
    BY <1>1 DEF RunHeld
  <1>3. ASSUME NEW m \in made, m[2] \notin unheard
        PROVE  Cardinality({i \in DOMAIN report : report[i].id = m[2]}) = 1
    <2>1. m[2] # "none"
      BY <1>2, ImportAssumption DEF Reported
    <2>2. PICK i \in DOMAIN report : report[i].id = m[2]
      BY <1>2, <1>3 DEF Reported
    <2>3. {j \in DOMAIN report : report[j].id = m[2]} = {i}
      BY <1>2, <2>1, <2>2 DEF Reported
    <2> QED
      BY <2>3, FS_Singleton
  <1> QED
    BY <1>2, <1>3 DEF Reported

\* The invariant of a run of the importer and of what is imported.
THEOREM ImportHolds == ImportSpec => []RunHeld
  <1>1. ImportInit => RunHeld
    BY RunAtFirst
  <1>2. RunHeld /\ [ImportNext]_importVars => RunHeld'
    BY RunKeeps
  <1> QED
    BY <1>1, <1>2, PTL DEF ImportSpec

\* import-report.json: what it calls imported was created by this run, one template
\* for each, and what was created is called so unless its answer was lost, however
\* pages, retries, failures and the deletion of templates fall.  And it names each
\* selected template of the account once, page by page, if the account did not change
\* while it was listed.
THEOREM ReportHolds == ImportSpec => []ReportIsTrue
  <1>1. RunHeld => ReportIsTrue
    BY ReportNow
  <1> QED
    BY <1>1, ImportHolds, PTL

\* The ink on a sealed file is where the tab was in DocuSign, within the rounding,
\* the 3 points a signature may hang and the lower edge of the page, and is that of the person who has its role: through mapTemplate, the rows of a
\* template, the sorts that read them back, the indices and the drawing.
THEOREM TabInkHolds == ImportSpec => []InkWhereTabsWere
  <1>1. RunHeld => InkWhereTabsWere
    BY InkNow DEF RunHeld
  <1> QED
    BY <1>1, ImportHolds, PTL

===============================================================================
