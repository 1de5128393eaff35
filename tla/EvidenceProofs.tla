---------------------------- MODULE EvidenceProofs ----------------------------
(***************************************************************************)
(* The audit chain stays intact and append-only, for any number of         *)
(* concurrent appends, any batch sizes and any failures; and what is told  *)
(* of a completed envelope, by its certificate, its trail and the page     *)
(* that verifies its files, is true.                                       *)
(***************************************************************************)
EXTENDS Evidence, WellFoundedInduction, TLAPS

-----------------------------------------------------------------------------
\* The audit chain.

\* Rows have no gap below them, uncommitted ones included.
DownClosed == \A n \in DOMAIN rows : 1..n \subseteq DOMAIN rows

\* Whatever lies above an uncommitted row belongs to the same transaction: the
\* unique index lets only one write at a time, whatever was locked.
OneWriter ==
  \A n, m \in DOMAIN rows :
    (rows[n].by # Nobody /\ n < m) => rows[m].by = rows[n].by

\* Committed or not, each row is linked to the one before it.
Linked(n) ==
  /\ rows[n].prevHash = Link(n)
  /\ \E e \in Entries :
       /\ Stored[e] = rows[n].entry
       /\ rows[n].rowHash = RowHash(Canonical(n, e), Link(n))

\* A transaction that is about to insert has read a row that cannot vanish
\* under it, and that row's hash.
ReadHeld(t) ==
  /\ pc[t] \in {"read", "lock", "insert"} => todo[t] > 0
  /\ pc[t] = "lock" => seen[t] \in Visible(t)
  /\ pc[t] = "insert" =>
       \/ seen[t] = 0 /\ head[t] = Genesis
       \/ seen[t] \in Visible(t) /\ head[t] = rows[seen[t]].rowHash

ChainInv ==
  /\ TypeOK
  /\ DownClosed
  /\ OneWriter
  /\ \A n \in DOMAIN rows : Linked(n)
  /\ \A t \in Slots : ReadHeld(t)

-----------------------------------------------------------------------------
LEMMA InitChain == Init => ChainInv
  <1> USE ChainAssumption
  <1> SUFFICES ASSUME Init PROVE ChainInv
    OBVIOUS
  <1>1. DOMAIN rows = {}
    BY DEF Init
  <1>2. TypeOK
    BY <1>1 DEF Init, TypeOK, Row, Hashes, Genesis
  <1>3. QED
    BY <1>1, <1>2 DEF Init, ChainInv, DownClosed, OneWriter, ReadHeld

\* Appending to a hash gives a hash.
LEMMA RowTyped ==
  ASSUME TypeOK, NEW t \in Slots, NEW n \in Nat, NEW e \in Entries
  PROVE  NewRow(t, n, e) \in Row
  <1>1. head[t] \in Hashes /\ Canonical(n, e) \in [seq : Nat, entry : Entries]
    BY DEF TypeOK, Canonical
  <1>2. RowHash(Canonical(n, e), head[t]) \in Hashes
    BY <1>1 DEF RowHash, Hashes
  <1>3. QED
    BY <1>1, <1>2, ChainAssumption DEF NewRow, Row

\* The row a transaction is about to insert goes behind the last one.
LEMMA InsertLast ==
  ASSUME ChainInv, NEW t \in Slots, pc[t] = "insert", Vacant(seen[t] + 1)
  PROVE  /\ seen[t] \in Nat
         /\ \A m \in DOMAIN rows : m <= seen[t]
         /\ 1..seen[t] \subseteq DOMAIN rows
         /\ seen[t] # 0 => seen[t] \in Visible(t)
         /\ head[t] = IF seen[t] = 0 THEN Genesis ELSE rows[seen[t]].rowHash
  <1>1. seen[t] \in Nat /\ DOMAIN rows \subseteq Nat \ {0}
    BY DEF ChainInv, TypeOK
  <1>2. ASSUME NEW m \in DOMAIN rows, m > seen[t] PROVE FALSE
    <2>1. seen[t] + 1 \in 1..m
      BY <1>1, <1>2
    <2>2. QED
      BY <2>1 DEF ChainInv, DownClosed, Vacant
  <1>3. ReadHeld(t)
    BY DEF ChainInv
  <1>4. seen[t] # 0 => seen[t] \in Visible(t)
    BY <1>3 DEF ReadHeld
  <1>5. 1..seen[t] \subseteq DOMAIN rows
    BY <1>1, <1>4 DEF ChainInv, DownClosed, Visible
  <1>6. 0 \notin Visible(t)
    BY <1>1 DEF Visible
  <1>7. QED
    BY <1>1, <1>2, <1>3, <1>4, <1>5, <1>6 DEF ReadHeld

LEMMA InsertKeeps ==
  ASSUME ChainInv, NEW t \in Slots, Insert(t)
  PROVE  ChainInv'
  <1> USE ChainAssumption
  <1>0. PICK k \in Nat : k = seen[t] + 1
    BY DEF ChainInv, TypeOK
  <1>1. PICK e \in Entries :
          rows' = [n \in DOMAIN rows \cup {k} |->
                     IF n = k THEN NewRow(t, n, e) ELSE rows[n]]
    BY <1>0 DEF Insert
  <1>2. /\ k \in Nat \ {0} /\ k \notin DOMAIN rows
        /\ seen[t] \in Nat
        /\ \A m \in DOMAIN rows : m < k
        /\ 1..(k - 1) \subseteq DOMAIN rows
        /\ k # 1 => k - 1 \in Visible(t)
        /\ head[t] = IF k = 1 THEN Genesis ELSE rows[k - 1].rowHash
        /\ DOMAIN rows \subseteq Nat \ {0}
    BY <1>0, InsertLast DEF Insert, Vacant, ChainInv, TypeOK
  <1>3. /\ DOMAIN rows' = DOMAIN rows \cup {k}
        /\ rows'[k] = NewRow(t, k, e)
        /\ \A n \in DOMAIN rows : rows'[n] = rows[n]
    BY <1>1, <1>2
  <1>4. TypeOK'
    <2>1. NewRow(t, k, e) \in Row
      BY <1>2, RowTyped DEF ChainInv
    <2>2. rows' \in [DOMAIN rows' -> Row] /\ DOMAIN rows' \subseteq Nat \ {0}
      BY <2>1, <1>1, <1>2, <1>3 DEF ChainInv, TypeOK
    <2>3. todo' \in [Slots -> Nat]
      <3>1. todo[t] \in Nat /\ todo[t] > 0
        BY DEF Insert, ReadHeld, ChainInv, TypeOK
      <3>2. QED
        BY <3>1 DEF Insert, ChainInv, TypeOK
    <2>4. QED
      BY <2>2, <2>3 DEF Insert, ChainInv, TypeOK
  <1>5. DownClosed'
    BY <1>2, <1>3 DEF ChainInv, DownClosed
  <1>6. OneWriter'
    <2>1. ASSUME NEW n \in DOMAIN rows, rows[n].by # Nobody
          PROVE  rows[n].by = t
      BY <2>1, <1>2 DEF ChainInv, OneWriter, Visible
    <2>2. rows'[k].by = t
      BY <1>3 DEF NewRow
    <2>3. QED
      BY <2>1, <2>2, <1>2, <1>3 DEF ChainInv, OneWriter
  <1>7. \A n \in DOMAIN rows' : Linked(n)'
    <2>1. ASSUME NEW n \in DOMAIN rows PROVE Linked(n)'
      <3>1. n # 1 => n - 1 \in DOMAIN rows
        BY <1>2 DEF ChainInv, DownClosed
      <3>2. Link(n)' = Link(n)
        BY <3>1, <1>3 DEF Link
      <3>3. Linked(n)
        BY DEF ChainInv
      <3>4. QED
        BY <3>2, <3>3, <1>3 DEF Linked
    <2>2. Linked(k)'
      <3>1. Link(k)' = head[t]
        BY <1>2, <1>3 DEF Link, Visible
      <3>2. QED
        BY <3>1, <1>3 DEF Linked, NewRow
    <2>3. QED
      BY <2>1, <2>2, <1>3
  <1>8. ASSUME NEW u \in Slots PROVE ReadHeld(u)'
    <2>1. ReadHeld(u)
      BY DEF ChainInv
    <2>2. CASE u = t
      BY <2>2 DEF Insert, ReadHeld, ChainInv, TypeOK
    <2>3. CASE u # t
      <3>1. /\ pc'[u] = pc[u] /\ todo'[u] = todo[u]
            /\ seen'[u] = seen[u] /\ head'[u] = head[u]
        BY <2>3 DEF Insert, ChainInv, TypeOK
      <3>2. seen[u] \in Visible(u) =>
              seen[u] \in Visible(u)' /\ rows'[seen[u]] = rows[seen[u]]
        BY <1>3 DEF Visible
      <3>3. QED
        BY <2>1, <3>1, <3>2 DEF ReadHeld
    <2>4. QED
      BY <2>2, <2>3
  <1>9. QED
    BY <1>4, <1>5, <1>6, <1>7, <1>8 DEF ChainInv

\* What committing or undoing a transaction leaves of a slot's own state.
LEMMA EndedSlot ==
  ASSUME TypeOK, NEW t \in Slots, End(t)
  PROVE  /\ pc' \in [Slots -> {"idle", "read", "lock", "insert", "commit"}]
         /\ locked' \in [Slots -> SUBSET Nat] /\ todo' \in [Slots -> Nat]
         /\ seen' \in [Slots -> Nat] /\ head' \in [Slots -> Hashes]
         /\ pc'[t] = "idle"
         /\ \A u \in Slots \ {t} :
              /\ pc'[u] = pc[u] /\ todo'[u] = todo[u]
              /\ seen'[u] = seen[u] /\ head'[u] = head[u]
  <1>1. Genesis \in Hashes
    BY DEF Genesis, Hashes
  <1>2. QED
    BY <1>1 DEF End, Released, TypeOK

LEMMA CommitKeeps ==
  ASSUME ChainInv, NEW t \in Slots, Commit(t)
  PROVE  ChainInv'
  <1> USE ChainAssumption
  <1>1. /\ DOMAIN rows' = DOMAIN rows
        /\ \A n \in DOMAIN rows :
             /\ rows'[n] \in Row
             /\ rows'[n].entry = rows[n].entry
             /\ rows'[n].prevHash = rows[n].prevHash
             /\ rows'[n].rowHash = rows[n].rowHash
             /\ rows'[n].by = IF rows[n].by = t THEN Nobody ELSE rows[n].by
    BY DEF Commit, ChainInv, TypeOK, Row
  <1>2. TypeOK'
    BY <1>1, EndedSlot DEF Commit, ChainInv, TypeOK
  <1>3. DownClosed' /\ OneWriter'
    BY <1>1 DEF ChainInv, DownClosed, OneWriter
  <1>4. ASSUME NEW n \in DOMAIN rows' PROVE Linked(n)'
    <2>1. n # 1 => n - 1 \in DOMAIN rows
      BY <1>1, SMTT(30) DEF ChainInv, DownClosed, TypeOK
    <2>2. Link(n)' = Link(n)
      BY <2>1, <1>1 DEF Link
    <2>3. QED
      BY <2>2, <1>1 DEF ChainInv, Linked
  <1>5. ASSUME NEW u \in Slots PROVE ReadHeld(u)'
    <2>1. CASE u = t
      BY <2>1, EndedSlot DEF Commit, ReadHeld, ChainInv
    <2>2. CASE u # t
      BY <2>2, <1>1, EndedSlot DEF Commit, ReadHeld, Visible, ChainInv
    <2>3. QED
      BY <2>1, <2>2
  <1>6. QED
    BY <1>2, <1>3, <1>4, <1>5 DEF ChainInv

LEMMA RollbackKeeps ==
  ASSUME ChainInv, NEW t \in Slots, Rollback(t)
  PROVE  ChainInv'
  <1> USE ChainAssumption
  <1>1. /\ DOMAIN rows' = {n \in DOMAIN rows : rows[n].by # t}
        /\ \A n \in DOMAIN rows' : rows'[n] = rows[n]
    BY DEF Rollback
  <1>2. TypeOK'
    <2>1. rows' \in [DOMAIN rows' -> Row]
      BY <1>1 DEF Rollback, ChainInv, TypeOK
    <2>2. QED
      BY <2>1, <1>1, EndedSlot DEF Rollback, ChainInv, TypeOK
  <1>3. DownClosed'
    <2>1. ASSUME NEW n \in DOMAIN rows', NEW m \in 1..n
          PROVE  m \in DOMAIN rows'
      <3>1. n \in DOMAIN rows /\ n \in Nat /\ m \in DOMAIN rows
        BY <2>1, <1>1 DEF ChainInv, DownClosed, TypeOK
      <3>2. rows[m].by # t
        BY <2>1, <3>1, <1>1 DEF ChainInv, OneWriter
      <3>3. QED
        BY <3>1, <3>2, <1>1
    <2>2. QED
      BY <2>1 DEF DownClosed
  <1>4. OneWriter'
    BY <1>1 DEF ChainInv, OneWriter
  <1>5. ASSUME NEW n \in DOMAIN rows' PROVE Linked(n)'
    <2>1. n # 1 => n - 1 \in DOMAIN rows'
      <3>1. n \in Nat \ {0}
        BY <1>1 DEF ChainInv, TypeOK
      <3>2. n # 1 => n - 1 \in 1..n
        BY <3>1
      <3>3. QED
        BY <3>2, <1>3 DEF DownClosed
    <2>2. Link(n)' = Link(n)
      BY <2>1, <1>1 DEF Link
    <2>3. QED
      BY <2>2, <1>1 DEF ChainInv, Linked
  <1>6. ASSUME NEW u \in Slots PROVE ReadHeld(u)'
    <2>1. CASE u = t
      BY <2>1, EndedSlot DEF Rollback, ReadHeld, ChainInv
    <2>2. CASE u # t
      BY <2>2, <1>1, EndedSlot DEF Rollback, ReadHeld, Visible, ChainInv
    <2>3. QED
      BY <2>1, <2>2
  <1>7. QED
    BY <1>2, <1>3, <1>4, <1>5, <1>6 DEF ChainInv

\* Steps that only read or wait.
LEMMA ReadingKeeps ==
  ASSUME ChainInv, NEW t \in Slots, Start(t) \/ Read(t) \/ Lock(t)
  PROVE  ChainInv'
  <1> USE ChainAssumption
  <1>1. rows' = rows
    BY DEF Start, Read, Lock
  <1>2. Genesis \in Hashes
    BY DEF Genesis, Hashes
  <1>3. ASSUME NEW u \in Slots PROVE ReadHeld(u)
    BY DEF ChainInv
  <1>4. Visible(t) \subseteq Nat
    BY DEF Visible, ChainInv, TypeOK
  <1>5. CASE Start(t)
    <2>1. MaxBatch \in Nat \/ \A k \in 1..MaxBatch : k \in Nat
      OBVIOUS
    <2>2. TypeOK'
      BY <1>5, <2>1 DEF Start, ChainInv, TypeOK
    <2>3. \A u \in Slots : ReadHeld(u)'
      BY <1>5, <1>3 DEF Start, ReadHeld, Visible, ChainInv, TypeOK
    <2>4. QED
      BY <2>2, <2>3, <1>1
      DEF ChainInv, DownClosed, OneWriter, Linked, Link
  <1>6. CASE Read(t)
    <2>1. TypeOK'
      BY <1>6, <1>2, <1>4 DEF Read, ChainInv, TypeOK
    <2>2. ASSUME NEW u \in Slots PROVE ReadHeld(u)'
      <3>1. CASE u = t
        BY <1>6, <3>1 DEF Read, ReadHeld, Visible, ChainInv, TypeOK
      <3>2. CASE u # t
        BY <1>6, <3>2, <1>3 DEF Read, ReadHeld, Visible, ChainInv, TypeOK
      <3>3. QED
        BY <3>1, <3>2
    <2>3. QED
      BY <2>1, <2>2, <1>1
      DEF ChainInv, DownClosed, OneWriter, Linked, Link
  <1>7. CASE Lock(t)
    <2>1. seen[t] \in DOMAIN rows /\ seen[t] \in Visible(t)
      BY <1>7, <1>3 DEF Lock, ReadHeld, Visible
    <2>2. rows[seen[t]].rowHash \in Hashes /\ seen[t] \in Nat
      BY <2>1 DEF ChainInv, TypeOK, Row
    <2>3. TypeOK'
      BY <1>7, <2>2 DEF Lock, ChainInv, TypeOK
    <2>4. ASSUME NEW u \in Slots PROVE ReadHeld(u)'
      <3>1. CASE u = t
        BY <1>7, <3>1, <2>1 DEF Lock, ReadHeld, Visible, ChainInv, TypeOK
      <3>2. CASE u # t
        BY <1>7, <3>2, <1>3 DEF Lock, ReadHeld, Visible, ChainInv, TypeOK
      <3>3. QED
        BY <3>1, <3>2
    <2>5. QED
      BY <2>3, <2>4, <1>1
      DEF ChainInv, DownClosed, OneWriter, Linked, Link
  <1>8. QED
    BY <1>5, <1>6, <1>7

LEMMA ChainNext ==
  ASSUME ChainInv, [Next]_vars
  PROVE  ChainInv'
  <1>1. CASE UNCHANGED vars
    BY <1>1 DEF vars, ChainInv, TypeOK, DownClosed, OneWriter, Linked, Link,
                ReadHeld, Visible
  <1>2. CASE Next
    <2>1. PICK t \in Slots : Start(t) \/ Step(t) \/ Abort(t)
      BY <1>2 DEF Next
    <2>2. QED
      BY <2>1, InsertKeeps, CommitKeeps, RollbackKeeps, ReadingKeeps
      DEF Step, Refuse, Abort
  <1>3. QED
    BY <1>1, <1>2

LEMMA ChainHolds == Spec => []ChainInv
  <1>1. ChainInv /\ [Next]_vars => ChainInv'
    BY ChainNext
  <1>2. QED
    BY <1>1, InitChain, PTL DEF Spec

\* Rows, locks and transactions have their types.
THEOREM TypeCorrect == Spec => []TypeOK
  <1>1. ChainInv => TypeOK
    BY DEF ChainInv
  <1>2. QED
    BY <1>1, ChainHolds, PTL

-----------------------------------------------------------------------------
NoGap == \A n \in Committed : n = 1 \/ n - 1 \in Committed

LEMMA CommittedGapless == ChainInv => NoGap
  <1> SUFFICES ASSUME ChainInv, NEW n \in Committed, n # 1
               PROVE  n - 1 \in Committed
    BY DEF NoGap
  <1>1. n \in DOMAIN rows /\ n \in Nat \ {0} /\ rows[n].by = Nobody
    BY DEF Committed, ChainInv, TypeOK
  <1>2. n - 1 \in DOMAIN rows /\ n - 1 < n
    BY <1>1 DEF ChainInv, DownClosed
  <1>3. rows[n - 1].by = Nobody
    BY <1>1, <1>2 DEF ChainInv, OneWriter
  <1>4. QED
    BY <1>2, <1>3 DEF Committed

LEMMA IntactNow == ChainInv => ChainIntact
  <1> SUFFICES ASSUME ChainInv PROVE ChainIntact
    OBVIOUS
  <1>1. ASSUME NEW n \in Committed PROVE Linked(n)
    BY DEF ChainInv, Committed
  <1>2. QED
    BY <1>1, CommittedGapless DEF ChainIntact, Linked, NoGap

\* The rows of the audit log form one unbroken chain at any time, however many
\* requests append to it at once and whichever of them fail.
THEOREM ChainStaysIntact == Spec => []ChainIntact
  BY IntactNow, ChainHolds, PTL

LEMMA VerifiesNow ==
  ASSUME ChainInv, \A e \in Entries : Stored[e] = e
  PROVE  Verifies
  BY IntactNow DEF ChainIntact, Verifies, RowVerifies

\* If what callers log survives the JSON column unchanged, verification of the
\* committed rows always succeeds.
THEOREM ChainVerifies ==
  ASSUME \A e \in Entries : Stored[e] = e
  PROVE  Spec => []Verifies
  <1>1. ChainInv => Verifies
    BY VerifiesNow
  <1>2. QED
    BY <1>1, ChainHolds, PTL

\* A committed row stays as it is.
LEMMA CommittedStays ==
  ASSUME ChainInv, [Next]_vars
  PROVE  \A n \in Committed : /\ n \in Committed'
                              /\ rows'[n].entry = rows[n].entry
                              /\ rows'[n].rowHash = rows[n].rowHash
  <1>1. CASE UNCHANGED vars
    BY <1>1 DEF vars, Committed
  <1>2. CASE Next
    <2>1. PICK t \in Slots : Start(t) \/ Step(t) \/ Abort(t)
      BY <1>2 DEF Next
    <2>2. SUFFICES ASSUME NEW n \in Committed
                   PROVE  /\ n \in Committed'
                          /\ rows'[n].entry = rows[n].entry
                          /\ rows'[n].rowHash = rows[n].rowHash
      OBVIOUS
    <2>3. CASE Start(t) \/ Read(t) \/ Lock(t)
      BY <2>3 DEF Start, Read, Lock, Committed
    <2>4. CASE Insert(t)
      BY <2>4 DEF Insert, Vacant, Committed
    <2>5. CASE Commit(t)
      BY <2>5 DEF Commit, Committed, ChainInv, TypeOK, Row
    <2>6. CASE Rollback(t)
      BY <2>6, ChainAssumption DEF Rollback, Committed
    <2>7. QED
      BY <2>1, <2>3, <2>4, <2>5, <2>6 DEF Step, Refuse, Abort
  <1>3. QED
    BY <1>1, <1>2

\* The committed rows implement an append-only log: no step renumbers, changes
\* or drops an entry once it is committed.
THEOREM ChainIsAppendOnly == Spec => KeepsLog
  <1> DEFINE log == [n \in Committed |-> <<rows[n].entry, rows[n].rowHash>>]
  <1>1. Init => Trail!Init
    BY DEF Init, Trail!Init, Committed
  <1>2. ChainInv' => Trail!Gapless(Committed')
    <2>1. ChainInv' => NoGap'
      BY CommittedGapless, PTL
    <2>2. QED
      BY <2>1 DEF NoGap, Trail!Gapless
  <1>3. ChainInv /\ ChainInv' /\ [Next]_vars => [Trail!Extend]_log
    BY <1>2, CommittedStays DEF Trail!Extend
  <1>4. QED
    BY <1>1, <1>3, ChainHolds, PTL DEF Spec, KeepsLog, Trail!Spec

-----------------------------------------------------------------------------
\* The hashes as an index of the rows: a hash has all those before it inside.

LEMMA LeastOf ==
  ASSUME NEW T, T \subseteq Nat, T # {}
  PROVE  \E n \in T : \A m \in T : n <= m
  <1>1. IsWellFoundedOn(OpToRel(<, Nat), Nat)
    BY NatLessThanWellFounded
  <1>2. PICK n \in T : \A m \in T : ~(<<m, n>> \in OpToRel(<, Nat))
    BY <1>1, WFMin
  <1>3. \A m \in T : ~(m < n)
    BY <1>2 DEF OpToRel
  <1>4. QED
    BY <1>3

LEMMA AppendIs ==
  ASSUME NEW S, NEW s \in Seq(S), NEW x \in S
  PROVE  /\ Append(s, x) \in Seq(S)
         /\ Len(Append(s, x)) = Len(s) + 1
         /\ \A n \in 0..Len(s) : SubSeq(Append(s, x), 1, n) = SubSeq(s, 1, n)
  OBVIOUS

LEMMA WholeIs ==
  ASSUME NEW S, NEW s \in Seq(S)
  PROVE  SubSeq(s, 1, Len(s)) = s
  OBVIOUS

\* What the hash of row m is.
Within(m) ==
  /\ Len(rows[m].rowHash) = m
  /\ \A n \in 1..m : SubSeq(rows[m].rowHash, 1, n) = rows[n].rowHash

LEMMA HashesNest ==
  ASSUME ChainInv
  PROVE  \A m \in DOMAIN rows : Within(m)
  <1> DEFINE Odd == {m \in DOMAIN rows : ~Within(m)}
  <1>1. SUFFICES ASSUME Odd # {} PROVE FALSE
    OBVIOUS
  <1>2. DOMAIN rows \subseteq Nat \ {0}
    BY DEF ChainInv, TypeOK
  <1>3. PICK m \in Odd : \A k \in Odd : m <= k
    BY <1>1, <1>2, LeastOf
  <1>4. m \in DOMAIN rows /\ m \in Nat \ {0} /\ ~Within(m)
    BY <1>2, <1>3
  <1>5. PICK e \in Entries : rows[m].rowHash = RowHash(Canonical(m, e), Link(m))
    BY <1>4 DEF ChainInv, Linked
  <1> DEFINE Marks == [seq : Nat, entry : Entries]
             link  == Link(m)
             here  == Canonical(m, e)
  <1>6. here \in Marks
    BY <1>4 DEF Canonical
  <1>7. link \in Seq(Marks) /\ Len(link) = m - 1
        /\ \A n \in 1..(m - 1) : SubSeq(link, 1, n) = rows[n].rowHash
    <2>1. CASE m = 1
      BY <2>1 DEF Link, Genesis
    <2>2. CASE m # 1
      <3>1. m - 1 \in DOMAIN rows /\ m - 1 \in Nat /\ m - 1 < m
        BY <1>4, <2>2 DEF ChainInv, DownClosed
      <3>2. m - 1 \notin Odd
        BY <3>1, <1>3, <1>4
      <3>3. Within(m - 1)
        BY <3>1, <3>2
      <3>4. rows[m - 1].rowHash \in Seq(Marks)
        BY <3>1 DEF ChainInv, TypeOK, Row, Hashes
      <3>5. link = rows[m - 1].rowHash
        BY <2>2 DEF Link
      <3>6. QED
        BY <3>3, <3>4, <3>5 DEF Within
    <2>3. QED
      BY <2>1, <2>2
  <1>8. rows[m].rowHash = Append(link, here)
    BY <1>5 DEF RowHash
  <1> HIDE DEF link, here, Marks
  <1>9. /\ rows[m].rowHash \in Seq(Marks) /\ Len(rows[m].rowHash) = m
        /\ \A n \in 0..(m - 1) :
             SubSeq(rows[m].rowHash, 1, n) = SubSeq(link, 1, n)
    BY <1>4, <1>6, <1>7, <1>8, AppendIs
  <1>10. SubSeq(rows[m].rowHash, 1, m) = rows[m].rowHash
    BY <1>9, WholeIs
  <1>11. ASSUME NEW n \in 1..m
         PROVE  SubSeq(rows[m].rowHash, 1, n) = rows[n].rowHash
    <2>1. CASE n = m
      BY <2>1, <1>10
    <2>2. CASE n # m
      <3>1. n \in 1..(m - 1) /\ n \in 0..(m - 1)
        BY <2>2, <1>4
      <3>2. QED
        BY <3>1, <1>7, <1>9
    <2>3. QED
      BY <2>1, <2>2
  <1>12. QED
    BY <1>4, <1>9, <1>11 DEF Within

\* There is always a last row, if there is any.
RowsEnd == \E b \in Nat : \A n \in DOMAIN rows : n <= b

LEMMA GreatestOf ==
  ASSUME NEW T, T \subseteq Nat \ {0}, T # {},
         NEW b \in Nat, \A n \in T : n <= b
  PROVE  \E m \in T : \A n \in T : n <= m
  <1> DEFINE Caps == {k \in Nat : \A n \in T : n <= k}
  <1>1. PICK k \in Caps : \A l \in Caps : k <= l
    <2>1. b \in Caps
      OBVIOUS
    <2>2. Caps \subseteq Nat /\ Caps # {}
      BY <2>1
    <2>3. QED
      BY <2>2, LeastOf
  <1>2. k \in Nat /\ \A n \in T : n <= k
    OBVIOUS
  <1>3. SUFFICES ASSUME k \notin T PROVE FALSE
    BY <1>2
  <1>4. \A n \in T : n < k
    BY <1>2, <1>3
  <1>5. k > 0
    <2>1. PICK n \in T : n \in Nat \ {0}
      OBVIOUS
    <2>2. QED
      BY <2>1, <1>2, <1>4
  <1>6. k - 1 \in Nat /\ \A n \in T : n <= k - 1
    BY <1>2, <1>4, <1>5
  <1>7. k - 1 \in Caps
    BY <1>6
  <1>8. k <= k - 1
    BY <1>1, <1>7
  <1>9. QED
    BY <1>2, <1>8

LEMMA EndsNext ==
  ASSUME ChainInv, RowsEnd, [Next]_vars
  PROVE  RowsEnd'
  <1>1. PICK b \in Nat : \A n \in DOMAIN rows : n <= b
    BY DEF RowsEnd
  <1>2. CASE UNCHANGED vars
    BY <1>1, <1>2 DEF vars, RowsEnd
  <1>3. CASE Next
    <2>1. PICK t \in Slots : Start(t) \/ Step(t) \/ Abort(t)
      BY <1>3 DEF Next
    <2>2. CASE Insert(t)
      <3>1. PICK k \in Nat : k = seen[t] + 1
        BY DEF ChainInv, TypeOK
      <3>2. DOMAIN rows' = DOMAIN rows \cup {k}
        BY <3>1, <2>2 DEF Insert
      <3>3. b + k \in Nat
        OBVIOUS
      <3>4. DOMAIN rows \subseteq Nat
        BY DEF ChainInv, TypeOK
      <3>5. \A n \in DOMAIN rows' : n <= b + k
        BY <3>2, <3>4, <1>1
      <3>6. QED
        BY <3>3, <3>5 DEF RowsEnd
    <2>3. CASE Start(t) \/ Read(t) \/ Lock(t) \/ Commit(t) \/ Rollback(t)
      <3>1. DOMAIN rows' \subseteq DOMAIN rows
        BY <2>3 DEF Start, Read, Lock, Commit, Rollback
      <3>2. QED
        BY <3>1, <1>1 DEF RowsEnd
    <2>4. QED
      BY <2>1, <2>2, <2>3 DEF Step, Refuse, Abort
  <1>4. QED
    BY <1>2, <1>3

-----------------------------------------------------------------------------
\* What is held of a completed envelope's evidence, step by step.

Signed  == [doc : Docs, sig : Profiles]
Sealing == {"sign", "upload", "record"}
Sealed  == {"trail", "head", "certify", "complete", "log", "logging", "load",
            "mail"}

\* Documents are sealed in their order, and each that is has its file.
FilesHeld ==
  /\ at \in Sealing \cup Sealed \cup {"failed"}
  /\ name \in [Docs -> FileNames] /\ doc \in Docs /\ signedKey \subseteq Docs
  /\ objects \in [FileNames -> Signed \cup {Nothing}]
  /\ recorded \in [Docs -> Signed \cup {Nothing}]
  /\ at \in Sealing => signedKey = 1..(doc - 1)
  /\ at \in Sealed => signedKey = Docs
  /\ at \in {"upload", "record"} => final \in Signed /\ final.doc = doc
  /\ at = "record" => objects[name[doc]] = final
  /\ \A d \in signedKey : recorded[d] \in Signed /\ objects[name[d]] \in Signed
  /\ completed => signedKey = Docs /\ at \notin Sealing

\* What is handed out is what was hashed, of this document or of one that has
\* the same name.
ObjectsHeld ==
  at # "failed" \/ completed =>
    \A d \in signedKey :
      \/ \E d2 \in signedKey : recorded[d2] = objects[name[d]]
      \/ at = "record" /\ objects[name[d]] = final

\* The best signature so far, and where it was got.
OnFile(sig)  == \E d \in signedKey : recorded[d].sig = sig
InHand(sig)  == at \in {"upload", "record"} /\ final.sig = sig
Got(sig)     == OnFile(sig) \/ InHand(sig)

RolledHeld ==
  /\ rolled \in [profile : Profiles, stamp : 0..DocCount]
  /\ at # "failed" =>
       /\ rolled.profile = "CAdES-T" =>
            \/ rolled.stamp \in signedKey /\ recorded[rolled.stamp].sig = "CAdES-T"
            \/ InHand("CAdES-T") /\ rolled.stamp = doc
       /\ rolled.profile = "CAdES-BES" => Got("CAdES-BES") /\ ~Got("CAdES-T")
       /\ rolled.profile = "unsigned" => ~Got("CAdES-BES") /\ ~Got("CAdES-T")

\* A head that covers some rows is the hash of a committed row, none of them
\* above it.
Covers(hash, S) ==
  \/ hash = Genesis /\ S = {}
  \/ \E m \in Committed : hash = rows[m].rowHash /\ \A n \in S : n <= m

ReportHeld ==
  /\ at \in {"head", "certify"} => trail \subseteq Committed
  /\ at = "certify" => Covers(chainHead, trail)

\* The certificate, once it is made.
CertificateHeld ==
  certificate # Nothing =>
    /\ at \notin Sealing /\ signedKey = Docs
    /\ certificate.rows \subseteq Committed
    /\ Covers(certificate.head, certificate.rows)
    /\ certificate.profile \in Profiles
    /\ certificate.profile = "CAdES-T" =>
         certificate.stamp \in Docs /\ recorded[certificate.stamp].sig = "CAdES-T"
    /\ certificate.profile = "CAdES-BES" => OnFile("CAdES-BES") /\ ~OnFile("CAdES-T")
    /\ certificate.profile = "unsigned" => ~OnFile("CAdES-BES") /\ ~OnFile("CAdES-T")

\* Emails whose call has returned.
Handed == left \cup refused

\* Only emails under way have a transaction open.  The stage of an email goes with
\* what its call did: it is to be reported as bounced after it was handed to the
\* service only if EMAIL_SENT has thrown.
StageHeld(j) ==
  /\ mail[j] # "due" => at = "mail"
  /\ mail[j] = "due" => j \notin Handed
  /\ mail[j] \in {"sent", "sending"} => j \in Handed
  /\ mail[j] \in {"failed", "bouncing"} => (j \in Handed => j \in unlogged)
  /\ pc[j] # "idle" => \/ at = "logging" /\ j = Own
                       \/ mail[j] \in {"sending", "bouncing"}

MailHeld ==
  /\ mail \in [Jobs -> {"due", "sent", "failed", "sending", "bouncing", "ended"}]
  /\ left \subseteq Jobs /\ refused \subseteq Jobs /\ unlogged \subseteq Jobs
  /\ \A j \in Jobs : StageHeld(j)
  /\ at = "mail" => letter.attached # {} \/ letter.links = Docs

\* An open transaction writes what its slot is at; a committed row about an email
\* is true of it.
OpenHeld(n) ==
  \A t \in Slots : rows[n].by = t => pc[t] # "idle" /\ rows[n].entry = Wanted(t)

TrueOf(entry) ==
  entry[1] \in {"EMAIL_SENT", "EMAIL_BOUNCED"} =>
    \E j \in Jobs :
      /\ entry[2] = j /\ mail[j] # "due"
      /\ entry[1] = "EMAIL_SENT" => j \in Handed
      /\ entry[1] = "EMAIL_BOUNCED" => (j \in Handed => j \in unlogged)

ToldHeld(n) == rows[n].by = Nobody => TrueOf(rows[n].entry)

RowsHeld == \A n \in DOMAIN rows : OpenHeld(n) /\ ToldHeld(n)

\* What is known of an email whose call has ended stays so.
Firm ==
  /\ \A j \in Jobs : mail[j] # "due" =>
       mail'[j] # "due" /\ (j \in Handed' <=> j \in Handed)
  /\ unlogged \subseteq unlogged'

\* The page waits for verdicts on files of which nothing changes any more.
Verdict == [matched : BOOLEAN, intact : BOOLEAN]

PageTyped ==
  page \in [named : Files \cup {Nothing}, asked : SUBSET Files,
            shown : Verdict \cup {Nothing}, drops : Nat, overlapped : BOOLEAN]

PageHeld ==
  /\ PageTyped
  /\ page.asked # {} \/ page.shown # Nothing => at \in {"failed", "mail"}
  /\ ~page.overlapped => page.asked \subseteq {page.named}
  /\ VerdictIsOfFile

EvidenceInv ==
  /\ ChainInv /\ RowsEnd
  /\ FilesHeld /\ ObjectsHeld /\ RolledHeld
  /\ ReportHeld /\ CertificateHeld
  /\ MailHeld /\ RowsHeld /\ PageHeld

LEMMA EvidenceStart == EvidenceInit => EvidenceInv
  <1> SUFFICES ASSUME EvidenceInit PROVE EvidenceInv
    OBVIOUS
  <1> USE EvidenceAssumption
  <1>1. ChainInv /\ DOMAIN rows = {} /\ \A t \in Slots : pc[t] = "idle"
    BY InitChain DEF EvidenceInit, Init
  <1>2. RowsEnd
    <2>1. 0 \in Nat /\ \A n \in DOMAIN rows : n <= 0
      BY <1>1
    <2>2. QED
      BY <2>1 DEF RowsEnd
  <1>3. at = "sign" /\ doc = 1 /\ doc \in Docs /\ signedKey = {} /\ completed = FALSE
    BY DEF EvidenceInit, Docs
  <1>4. 1..(doc - 1) = {}
    BY <1>3
  <1>5. FilesHeld
    <2>1. /\ name \in [Docs -> FileNames]
          /\ objects \in [FileNames -> Signed \cup {Nothing}]
          /\ recorded \in [Docs -> Signed \cup {Nothing}]
      BY DEF EvidenceInit
    <2>2. QED
      BY <2>1, <1>3, <1>4 DEF FilesHeld, Sealing, Sealed
  <1>6. ObjectsHeld
    BY <1>3 DEF ObjectsHeld
  <1>7. RolledHeld
    BY <1>3 DEF EvidenceInit, RolledHeld, Got, OnFile, InHand, Profiles
  <1>8. ReportHeld /\ CertificateHeld
    BY <1>3 DEF EvidenceInit, ReportHeld, CertificateHeld
  <1>9. MailHeld
    <2>1. mail = [j \in Jobs |-> "due"] /\ left = {} /\ refused = {} /\ unlogged = {}
      BY DEF EvidenceInit
    <2>2. QED
      BY <2>1, <1>1, <1>3 DEF MailHeld, StageHeld, Handed
  <1>10. RowsHeld
    BY <1>1 DEF RowsHeld
  <1>11. PageHeld
    <2>1. page = [named |-> Nothing, asked |-> {}, shown |-> Nothing, drops |-> 0,
                  overlapped |-> FALSE]
      BY DEF EvidenceInit
    <2>2. PageTyped
      BY <2>1 DEF PageTyped
    <2>3. QED
      BY <2>1, <2>2 DEF PageHeld, VerdictIsOfFile
  <1>12. QED
    BY <1>1, <1>2, <1>5, <1>6, <1>7, <1>8, <1>9, <1>10, <1>11 DEF EvidenceInv

-----------------------------------------------------------------------------
\* Every step is one of the chain's, or leaves it alone.

LEMMA StepOfChain ==
  ASSUME [EvidenceNext]_evidenceVars
  PROVE  [Next]_vars
  <1>1. CASE UNCHANGED evidenceVars
    BY <1>1 DEF evidenceVars
  <1>2. CASE \/ Sign \/ Upload \/ Record \/ ReadTrail \/ ReadHead \/ Certify
             \/ Complete \/ Fail \/ LoadAttachments
    BY <1>2, Zenon DEF Sign, Upload, Record, ReadTrail, ReadHead, Certify, Complete,
                Fail, LoadAttachments
  <1>3. ASSUME NEW t \in Slots,
               Begin(t) \/ Append1(t) \/ Commit(t) \/ NotAdded(t)
        PROVE  Next
    BY <1>3, Zenon DEF Begin, Append1, NotAdded, Next, Step
  <1>4. CASE LogCompleted
    BY <1>3, <1>4, EvidenceAssumption, Zenon DEF LogCompleted
  <1>5. CASE \E t \in Slots : Visit(t)
    BY <1>3, <1>5, Zenon DEF Visit
  <1>6. CASE \E j \in Jobs : Email(j)
    <2>1. PICK j \in Jobs : Email(j)
      BY <1>6
    <2>2. j \in Slots
      BY <2>1, EvidenceAssumption
    <2>3. QED
      BY <2>1, <2>2, <1>3, Zenon DEF Email, LogEmail, LogGoesOn, Logged, LogFails
  <1>7. CASE Check
    BY <1>7, Zenon DEF Check, DropFile, ShowVerdict
  <1>8. QED
    BY <1>1, <1>2, <1>4, <1>5, <1>6, <1>7 DEF EvidenceNext

\* A step of a run that leaves its files and its report alone.
Rests ==
  /\ name' = name /\ doc' = doc /\ final' = final /\ rolled' = rolled
  /\ objects' = objects /\ signedKey' = signedKey /\ recorded' = recorded
  /\ trail' = trail /\ chainHead' = chainHead /\ certificate' = certificate
  /\ completed' = completed
  /\ \/ at' = at
     \/ at \notin {"failed", "mail"} /\ at' = "failed"
     \/ at = "log" /\ at' = "logging"
     \/ at = "logging" /\ at' = "load"
     \/ at = "load" /\ at' = "mail"

Reports == Sign \/ Upload \/ Record \/ ReadTrail \/ ReadHead \/ Certify \/ Complete

LEMMA Moves ==
  ASSUME [EvidenceNext]_evidenceVars
  PROVE  Reports \/ Rests
  <1>1. CASE UNCHANGED evidenceVars
    BY <1>1 DEF evidenceVars, setup, sealing, files, report, Rests
  <1>2. CASE Fail \/ LoadAttachments \/ LogCompleted
    BY <1>2 DEF Fail, LoadAttachments, LogCompleted, setup, sealing, files, report,
                After, Rests
  <1>3. CASE \E t \in Slots : Visit(t)
    BY <1>3 DEF Visit, setup, sealing, files, report, Rests
  <1>4. CASE \E j \in Jobs : Email(j)
    BY <1>4 DEF Email, setup, sealing, files, report, Rests
  <1>5. CASE Check
    BY <1>5 DEF Check, DropFile, ShowVerdict, setup, sealing, files, report, Rests
  <1>6. QED
    BY <1>1, <1>2, <1>3, <1>4, <1>5 DEF EvidenceNext, Reports

-----------------------------------------------------------------------------
\* The files, document by document.

LEMMA FilesSign ==
  ASSUME FilesHeld, ObjectsHeld, RolledHeld, Sign
  PROVE  FilesHeld' /\ ObjectsHeld' /\ RolledHeld'
  <1>1. PICK sig \in Profiles :
          /\ final' = File(doc, sig)
          /\ rolled' = IF sig = "unsigned" THEN rolled ELSE RollUp(rolled, final')
    <2>1. SignPdfBuffer \subseteq Profiles
      BY DEF SignPdfBuffer, Signature, Profiles, Found, Answered, Embedded
    <2>2. QED
      BY <2>1 DEF Sign, Profiles
  <1>2. /\ at = "sign" /\ at' = "upload" /\ name' = name /\ doc' = doc
        /\ objects' = objects /\ signedKey' = signedKey /\ recorded' = recorded
        /\ completed' = completed
    BY DEF Sign, setup, files
  <1>3. doc \in Docs /\ final' \in Signed /\ final'.doc = doc /\ final'.sig = sig
    BY <1>1 DEF FilesHeld, File, Signed
  <1>4. FilesHeld'
    BY <1>2, <1>3 DEF FilesHeld, Sealing, Sealed
  <1>5. ObjectsHeld'
    BY <1>2 DEF FilesHeld, ObjectsHeld, Sealing
  <1>6. rolled' = IF sig = "unsigned" \/ rolled.profile = "CAdES-T" THEN rolled
                  ELSE [profile |-> sig, stamp |-> IF sig = "CAdES-T" THEN doc ELSE 0]
    BY <1>1, <1>3 DEF RollUp
  <1>7. RolledHeld'
    <2>1. rolled' \in [profile : Profiles, stamp : 0..DocCount]
      <3>1. doc \in 0..DocCount /\ 0 \in 0..DocCount
        BY <1>3, EvidenceAssumption DEF Docs
      <3>2. QED
        BY <3>1, <1>1, <1>6 DEF RolledHeld
    <2>2. \A s : InHand(s)' <=> s = sig
      BY <1>2, <1>3 DEF InHand
    <2>3. \A s : ~InHand(s)
      BY <1>2 DEF InHand
    <2>4. \A s : OnFile(s)' <=> OnFile(s)
      BY <1>2 DEF OnFile
    <2>5. CASE sig = "unsigned" \/ rolled.profile = "CAdES-T"
      BY <2>1, <2>2, <2>3, <2>4, <2>5, <1>1, <1>2, <1>6 DEF RolledHeld, Got
    <2>6. CASE ~(sig = "unsigned" \/ rolled.profile = "CAdES-T")
      <3>1. rolled'.profile = sig /\ rolled'.stamp = IF sig = "CAdES-T" THEN doc ELSE 0
        BY <2>6, <1>6
      <3>2. sig \in {"CAdES-T", "CAdES-BES"}
        BY <2>6, <1>1 DEF Profiles
      <3>3. ~OnFile("CAdES-T")
        BY <2>6, <1>2, <2>3 DEF RolledHeld, Got, Profiles
      <3>4. QED
        BY <2>1, <2>2, <2>4, <3>1, <3>2, <3>3, <1>2 DEF RolledHeld, Got
    <2>7. QED
      BY <2>5, <2>6
  <1>8. QED
    BY <1>4, <1>5, <1>7

LEMMA FilesUpload ==
  ASSUME FilesHeld, ObjectsHeld, RolledHeld, Upload
  PROVE  FilesHeld' /\ ObjectsHeld' /\ RolledHeld'
  <1>1. /\ at = "upload" /\ at' = "record" /\ name' = name /\ doc' = doc
        /\ objects' = [objects EXCEPT ![name[doc]] = final]
        /\ signedKey' = signedKey /\ recorded' = recorded /\ final' = final
        /\ rolled' = rolled /\ completed' = completed
    BY DEF Upload, setup
  <1>2. /\ name[doc] \in FileNames /\ final \in Signed
        /\ \A d \in signedKey : name[d] \in FileNames
    BY <1>1 DEF FilesHeld
  <1>3. /\ objects'[name[doc]] = final
        /\ \A d \in signedKey : objects'[name[d]] = IF name[d] = name[doc] THEN final
                                                    ELSE objects[name[d]]
    BY <1>1, <1>2 DEF FilesHeld
  <1>4. objects' \in [FileNames -> Signed \cup {Nothing}]
    BY <1>1, <1>2 DEF FilesHeld
  <1>5. FilesHeld'
    BY <1>1, <1>2, <1>3, <1>4 DEF FilesHeld, Sealing, Sealed
  <1>6. ObjectsHeld'
    BY <1>1, <1>3 DEF ObjectsHeld
  <1>7. RolledHeld'
    <2>1. \A s : (InHand(s)' <=> InHand(s)) /\ (OnFile(s)' <=> OnFile(s))
      BY <1>1 DEF InHand, OnFile
    <2>2. QED
      BY <1>1, <2>1 DEF RolledHeld, Got
  <1>8. QED
    BY <1>5, <1>6, <1>7

LEMMA FilesRecord ==
  ASSUME FilesHeld, ObjectsHeld, RolledHeld, Record
  PROVE  FilesHeld' /\ ObjectsHeld' /\ RolledHeld'
  <1>1. /\ at = "record" /\ name' = name /\ objects' = objects /\ final' = final
        /\ rolled' = rolled /\ completed' = completed
        /\ signedKey' = signedKey \cup {doc}
        /\ recorded' = [recorded EXCEPT ![doc] = final]
        /\ at' = IF doc < DocCount THEN "sign" ELSE "trail"
        /\ doc' = IF doc < DocCount THEN doc + 1 ELSE doc
    BY DEF Record, setup, After
  <1>2. /\ doc \in Docs /\ final \in Signed /\ signedKey = 1..(doc - 1)
        /\ objects[name[doc]] = final /\ ~completed
    BY <1>1 DEF FilesHeld, Sealing
  <1>3. doc \notin signedKey /\ signedKey \subseteq Docs /\ doc \in Nat
        /\ signedKey' = 1..doc
    BY <1>1, <1>2, EvidenceAssumption DEF FilesHeld, Docs
  <1>4. /\ recorded'[doc] = final
        /\ \A d \in signedKey : recorded'[d] = recorded[d]
        /\ recorded' \in [Docs -> Signed \cup {Nothing}]
    BY <1>1, <1>2, <1>3 DEF FilesHeld
  <1>5. FilesHeld'
    <2>1. \A d \in signedKey' : recorded'[d] \in Signed /\ objects'[name'[d]] \in Signed
      BY <1>1, <1>2, <1>4 DEF FilesHeld
    <2>2. CASE doc < DocCount
      <3>1. doc + 1 \in Docs /\ (doc + 1) - 1 = doc
        BY <2>2, <1>3, EvidenceAssumption DEF Docs
      <3>2. at' = "sign" /\ doc' \in Docs /\ signedKey' = 1..(doc' - 1)
        BY <3>1, <2>2, <1>1, <1>3
      <3>3. QED
        BY <2>1, <3>2, <1>1, <1>2, <1>3, <1>4 DEF FilesHeld, Sealing, Sealed
    <2>3. CASE ~(doc < DocCount)
      <3>1. doc = DocCount
        BY <2>3, <1>2, EvidenceAssumption DEF Docs
      <3>2. at' = "trail" /\ doc' = doc /\ signedKey' = Docs
        BY <3>1, <2>3, <1>1, <1>3 DEF Docs
      <3>3. QED
        BY <2>1, <3>2, <1>1, <1>2, <1>3, <1>4 DEF FilesHeld, Sealing, Sealed
    <2>4. QED
      BY <2>2, <2>3
  <1>6. ObjectsHeld'
    <2>1. ASSUME NEW d \in signedKey'
          PROVE  \E d2 \in signedKey' : recorded'[d2] = objects[name[d]]
      <3>1. CASE objects[name[d]] = final
        BY <3>1, <1>1, <1>4
      <3>2. CASE objects[name[d]] # final
        <4>1. d \in signedKey
          BY <3>2, <1>1, <1>2
        <4>2. PICK d2 \in signedKey : recorded[d2] = objects[name[d]]
          BY <3>2, <4>1, <1>1 DEF ObjectsHeld
        <4>3. recorded'[d2] = objects[name[d]] /\ d2 \in signedKey'
          BY <4>2, <1>1, <1>4
        <4>4. QED
          BY <4>3
      <3>3. QED
        BY <3>1, <3>2
    <2>2. QED
      BY <2>1, <1>1 DEF ObjectsHeld
  <1>7. RolledHeld'
    <2>1. \A s : ~InHand(s)' /\ (InHand(s) <=> final.sig = s)
      BY <1>1 DEF InHand
    <2>2. \A s : OnFile(s)' <=> OnFile(s) \/ final.sig = s
      BY <1>1, <1>4 DEF OnFile
    <2>3. \A s : Got(s)' <=> Got(s)
      BY <2>1, <2>2 DEF Got
    <2>4. QED
      BY <2>1, <2>3, <1>1, <1>4 DEF RolledHeld
  <1>8. QED
    BY <1>5, <1>6, <1>7

LEMMA FilesNext ==
  ASSUME FilesHeld, ObjectsHeld, RolledHeld, [EvidenceNext]_evidenceVars
  PROVE  FilesHeld' /\ ObjectsHeld' /\ RolledHeld'
  <1>1. CASE Rests
    <2>1. FilesHeld' /\ ObjectsHeld'
      BY <1>1 DEF Rests, FilesHeld, ObjectsHeld, Sealing, Sealed
    <2>2. \A s : OnFile(s)' <=> OnFile(s)
      BY <1>1 DEF Rests, OnFile
    <2>3. at' # "failed" => \A s : InHand(s)' <=> InHand(s)
      BY <1>1 DEF Rests, InHand
    <2>4. QED
      BY <1>1, <2>1, <2>2, <2>3 DEF Rests, RolledHeld, Got
  <1>2. CASE ReadTrail \/ ReadHead \/ Certify \/ Complete
    <2>1. /\ name' = name /\ doc' = doc /\ final' = final /\ rolled' = rolled
          /\ objects' = objects /\ signedKey' = signedKey /\ recorded' = recorded
          /\ at \in {"trail", "head", "certify", "complete"}
          /\ at' \in {"head", "certify", "complete", "log"}
          /\ completed' => completed \/ at' = "log"
      BY <1>2 DEF ReadTrail, ReadHead, Certify, Complete, setup, files, After
    <2>2. FilesHeld' /\ ObjectsHeld'
      BY <2>1 DEF FilesHeld, ObjectsHeld, Sealing, Sealed
    <2>3. \A s : (OnFile(s)' <=> OnFile(s)) /\ ~InHand(s)' /\ ~InHand(s)
      BY <2>1 DEF OnFile, InHand
    <2>4. QED
      BY <2>1, <2>2, <2>3 DEF RolledHeld, Got
  <1>3. QED
    BY <1>1, <1>2, Moves, FilesSign, FilesUpload, FilesRecord DEF Reports

-----------------------------------------------------------------------------
\* The certificate and the head it names.

\* What the steps of the chain leave of it for a report.
LEMMA CoversStays ==
  ASSUME ChainInv, [Next]_vars, NEW hash, NEW S, Covers(hash, S)
  PROVE  Covers(hash, S)'
  <1>1. CASE hash = Genesis /\ S = {}
    BY <1>1 DEF Covers
  <1>2. CASE ~(hash = Genesis /\ S = {})
    <2>1. PICK m \in Committed : hash = rows[m].rowHash /\ \A n \in S : n <= m
      BY <1>2 DEF Covers
    <2>2. m \in Committed' /\ rows'[m].rowHash = hash
      BY <2>1, CommittedStays
    <2>3. QED
      BY <2>1, <2>2 DEF Covers
  <1>3. QED
    BY <1>1, <1>2

\* A head that the verifier has given covers every row there is.
LEMMA HeadCovers ==
  ASSUME ChainInv, RowsEnd, \A e \in Entries : Stored[e] = e,
         NEW S, S \subseteq Committed, ReadHead
  PROVE  Covers(chainHead', S)
  <1> DEFINE last == CHOOSE n \in Committed : \A m \in Committed : m <= n
  <1>1. ChainOk
    BY VerifiesNow DEF Verifies, ChainOk
  <1>2. CASE Committed = {}
    BY <1>2 DEF ReadHead, Covers
  <1>3. CASE Committed # {}
    <2>1. chainHead' = rows[last].rowHash
      BY <1>1, <1>3 DEF ReadHead
    <2>2. PICK b \in Nat : \A n \in DOMAIN rows : n <= b
      BY DEF RowsEnd
    <2>3. Committed \subseteq Nat \ {0} /\ \A n \in Committed : n <= b
      BY <2>2 DEF Committed, ChainInv, TypeOK
    <2>4. \E n \in Committed : \A m \in Committed : m <= n
      BY <1>3, <2>3, GreatestOf
    <2>5. last \in Committed /\ \A m \in Committed : m <= last
      BY <2>4
    <2> HIDE DEF last
    <2>6. QED
      BY <2>1, <2>5 DEF Covers
  <1>4. QED
    BY <1>2, <1>3

LEMMA ReportNext ==
  ASSUME ChainInv, RowsEnd, \A e \in Entries : Stored[e] = e,
         FilesHeld, RolledHeld, ReportHeld, CertificateHeld,
         [EvidenceNext]_evidenceVars
  PROVE  ReportHeld' /\ CertificateHeld'
  <1>1. [Next]_vars
    BY StepOfChain
  <1>2. \A n \in Committed : n \in Committed'
    BY <1>1, CommittedStays
  <1>3. ASSUME UNCHANGED <<certificate, signedKey, recorded>>,
               certificate # Nothing => at' \notin Sealing
        PROVE  CertificateHeld'
    <2>1. SUFFICES ASSUME certificate # Nothing PROVE CertificateHeld'
      BY <1>3 DEF CertificateHeld
    <2>2. Covers(certificate.head, certificate.rows)'
      <3>1. Covers(certificate.head, certificate.rows)
        BY <2>1 DEF CertificateHeld
      <3>2. \A h, S : Covers(h, S) => Covers(h, S)'
        BY <1>1, CoversStays
      <3>3. QED
        BY <3>1, <3>2, <1>3 DEF Covers
    <2>3. \A s : OnFile(s)' <=> OnFile(s)
      BY <1>3 DEF OnFile
    <2>4. QED
      BY <2>1, <2>2, <2>3, <1>2, <1>3 DEF CertificateHeld
  <1>4. CASE Rests
    <2>1. certificate # Nothing => at' \notin Sealing
      BY <1>4 DEF Rests, CertificateHeld, Sealing
    <2>2. CertificateHeld'
      BY <1>3, <1>4, <2>1 DEF Rests
    <2>3. ReportHeld'
      <3>1. at' \in {"head", "certify"} => at' = at
        BY <1>4 DEF Rests
      <3>2. \A h, S : Covers(h, S) => Covers(h, S)'
        BY <1>1, CoversStays
      <3>3. at' = "certify" => Covers(chainHead, trail)'
        BY <3>1, <3>2, <1>4 DEF Rests, ReportHeld, Covers
      <3>4. QED
        BY <3>1, <3>3, <1>2, <1>4 DEF Rests, ReportHeld
    <2>4. QED
      BY <2>2, <2>3
  <1>5. CASE Sign \/ Upload \/ Record \/ ReadTrail \/ Complete
    <2>1. /\ at' \notin {"certify"}
          /\ at' = "head" => trail' = Committed
          /\ certificate' = certificate
          /\ at \in Sealing => certificate = Nothing
      BY <1>5 DEF Sign, Upload, Record, ReadTrail, Complete, report, After,
                  CertificateHeld, Sealing
    <2>2. CertificateHeld'
      <3>1. CASE at \in Sealing
        BY <3>1, <2>1 DEF CertificateHeld
      <3>2. CASE at \notin Sealing
        <4>1. UNCHANGED <<signedKey, recorded>> /\ at' \notin Sealing
          BY <3>2, <1>5 DEF Sign, Upload, Record, ReadTrail, Complete, files, After,
                            Sealing
        <4>2. QED
          BY <4>1, <2>1, <1>3
      <3>3. QED
        BY <3>1, <3>2
    <2>3. QED
      BY <2>1, <2>2, <1>2 DEF ReportHeld
  <1>6. CASE ReadHead
    <2>1. at = "head" /\ at' = "certify" /\ trail' = trail
          /\ UNCHANGED <<certificate, signedKey, recorded>>
      BY <1>6 DEF ReadHead, After, files
    <2>2. CertificateHeld'
      BY <2>1, <1>3 DEF Sealing
    <2>3. trail \subseteq Committed
      BY <2>1 DEF ReportHeld
    <2>4. Covers(chainHead', trail)
      BY <1>6, <2>3, HeadCovers
    <2>5. vars' = vars
      BY <1>6 DEF ReadHead
    <2>6. Covers(chainHead, trail)'
      BY <2>1, <2>4, <2>5 DEF Covers, Committed, vars
    <2>7. QED
      BY <2>1, <2>2, <2>3, <2>6, <1>2 DEF ReportHeld
  <1>7. CASE Certify
    <2>1. PICK p \in Prints :
            certificate' = [fits |-> p.fits, torn |-> p.torn,
                            profile |-> rolled.profile, stamp |-> rolled.stamp,
                            rows |-> trail, head |-> chainHead]
      BY <1>7 DEF Certify
    <2>2. /\ certificate'.profile = rolled.profile
          /\ certificate'.stamp = rolled.stamp
          /\ certificate'.rows = trail /\ certificate'.head = chainHead
      BY <2>1
    <2>3. /\ at = "certify" /\ at' = "complete" /\ vars' = vars
          /\ UNCHANGED <<rolled, signedKey, recorded>>
      BY <1>7 DEF Certify, After, files
    <2>4. trail \subseteq Committed /\ Covers(chainHead, trail) /\ signedKey = Docs
      BY <2>3 DEF ReportHeld, FilesHeld, Sealed
    <2>5. Covers(certificate.head, certificate.rows)' /\ Committed' = Committed
      BY <2>2, <2>3, <2>4 DEF Covers, Committed, vars
    <2>6. \A s : (Got(s) <=> OnFile(s)) /\ (OnFile(s)' <=> OnFile(s)) /\ ~InHand(s)
      BY <2>3 DEF Got, OnFile, InHand
    <2>7. CertificateHeld'
      BY <2>2, <2>3, <2>4, <2>5, <2>6 DEF CertificateHeld, RolledHeld, Sealing
    <2>8. QED
      BY <2>3, <2>7 DEF ReportHeld
  <1>8. QED
    BY <1>4, <1>5, <1>6, <1>7, Moves DEF Reports

LEMMA CertificateNow ==
  ASSUME ChainInv, FilesHeld, CertificateHeld
  PROVE  CertificateIsTrue
  <1>1. SUFFICES ASSUME certificate # Nothing PROVE CertificateIsTrue
    BY DEF CertificateIsTrue
  <1>2. \A s : s \in Sigs <=> OnFile(s)
    BY DEF Sigs, OnFile
  <1>3. certificate.profile =
          IF "CAdES-T" \in Sigs THEN "CAdES-T"
          ELSE IF "CAdES-BES" \in Sigs THEN "CAdES-BES" ELSE "unsigned"
    BY <1>1, <1>2 DEF CertificateHeld, Profiles, OnFile
  <1>4. certificate.profile = "CAdES-T" => recorded[certificate.stamp].sig = "CAdES-T"
    BY <1>1 DEF CertificateHeld
  <1>5. /\ \A n \in certificate.rows :
             /\ n <= Len(certificate.head)
             /\ SubSeq(certificate.head, 1, n) = rows[n].rowHash
        /\ certificate.head # Genesis =>
             rows[Len(certificate.head)].rowHash = certificate.head
    <2>1. CASE certificate.head = Genesis /\ certificate.rows = {}
      BY <2>1
    <2>2. CASE ~(certificate.head = Genesis /\ certificate.rows = {})
      <3>1. PICK m \in Committed :
              /\ certificate.head = rows[m].rowHash
              /\ \A n \in certificate.rows : n <= m
        BY <1>1, <2>2 DEF CertificateHeld, Covers
      <3>2. m \in DOMAIN rows /\ Within(m)
        BY <3>1, HashesNest DEF Committed
      <3>3. certificate.rows \subseteq Nat \ {0} /\ m \in Nat
        BY <1>1, <3>1 DEF CertificateHeld, Committed, ChainInv, TypeOK
      <3>4. \A n \in certificate.rows : n \in 1..m
        BY <3>1, <3>3
      <3>5. QED
        BY <3>1, <3>2, <3>4 DEF Within
    <2>3. QED
      BY <2>1, <2>2
  <1>6. QED
    BY <1>3, <1>4, <1>5 DEF CertificateIsTrue

-----------------------------------------------------------------------------
\* The emails and their rows.

\* What a statement of a slot's transaction does to the rows and to the slots.
LEMMA BeginIs ==
  ASSUME TypeOK, NEW t \in Slots, Begin(t)
  PROVE  /\ pc[t] = "idle" /\ rows' = rows
         /\ \A u \in Slots \ {t} : pc'[u] = pc[u]
  BY DEF Begin, Start, TypeOK

LEMMA AppendIsOpen ==
  ASSUME TypeOK, NEW t \in Slots, Append1(t)
  PROVE  /\ pc[t] # "idle" /\ pc'[t] # "idle"
         /\ \A u \in Slots \ {t} : pc'[u] = pc[u]
         /\ \A n \in DOMAIN rows' :
              \/ n \in DOMAIN rows /\ rows'[n] = rows[n]
              \/ rows'[n].by = t /\ rows'[n].entry = Wanted(t)
         /\ Committed' \subseteq Committed
  <1>1. CASE Read(t) \/ Lock(t)
    BY <1>1 DEF Read, Lock, TypeOK, Committed
  <1>2. CASE Insert(t) /\ rows'[seen[t] + 1].entry = Wanted(t)
    <2>1. PICK k : k = seen[t] + 1
      OBVIOUS
    <2>2. PICK e \in Entries :
            rows' = [n \in DOMAIN rows \cup {k} |->
                       IF n = k THEN NewRow(t, n, e) ELSE rows[n]]
      BY <1>2, <2>1 DEF Insert
    <2>3. /\ rows'[k].by = t /\ rows'[k].entry = Wanted(t)
          /\ DOMAIN rows' = DOMAIN rows \cup {k} /\ k \notin DOMAIN rows
          /\ \A n \in DOMAIN rows : rows'[n] = rows[n]
      BY <1>2, <2>1, <2>2 DEF Insert, Vacant, NewRow
    <2>4. Committed' \subseteq Committed
      BY <2>3, ChainAssumption DEF Committed
    <2>5. pc[t] # "idle" /\ pc'[t] # "idle" /\ \A u \in Slots \ {t} : pc'[u] = pc[u]
      BY <1>2 DEF Insert, TypeOK
    <2>6. QED
      BY <2>3, <2>4, <2>5
  <1>3. QED
    BY <1>1, <1>2 DEF Append1

LEMMA CommitIs ==
  ASSUME TypeOK, NEW t \in Slots, Commit(t)
  PROVE  /\ pc[t] # "idle" /\ pc'[t] = "idle"
         /\ \A u \in Slots \ {t} : pc'[u] = pc[u]
         /\ DOMAIN rows' = DOMAIN rows
         /\ \A n \in DOMAIN rows :
              /\ rows'[n].entry = rows[n].entry
              /\ rows'[n].by = IF rows[n].by = t THEN Nobody ELSE rows[n].by
  BY EndedSlot DEF Commit, TypeOK, Row

LEMMA NotAddedIs ==
  ASSUME TypeOK, NEW t \in Slots, NotAdded(t)
  PROVE  /\ pc[t] # "idle" /\ pc'[t] = "idle"
         /\ \A u \in Slots \ {t} : pc'[u] = pc[u]
         /\ \A n \in DOMAIN rows' : /\ n \in DOMAIN rows /\ rows'[n] = rows[n]
                                    /\ rows[n].by # t
  <1>1. Rollback(t) /\ pc[t] # "idle"
    BY DEF NotAdded, Refuse, Abort
  <1>2. QED
    BY <1>1, EndedSlot DEF Rollback

LEMMA TrueStays ==
  ASSUME NEW entry, TrueOf(entry), Firm
  PROVE  TrueOf(entry)'
  <1>1. SUFFICES ASSUME entry[1] \in {"EMAIL_SENT", "EMAIL_BOUNCED"}
                 PROVE  TrueOf(entry)'
    BY Zenon DEF TrueOf
  <1>2. PICK j \in Jobs :
          /\ entry[2] = j /\ mail[j] # "due"
          /\ entry[1] = "EMAIL_SENT" => j \in Handed
          /\ entry[1] = "EMAIL_BOUNCED" => (j \in Handed => j \in unlogged)
    BY <1>1, Zenon DEF TrueOf
  <1>3. /\ mail'[j] # "due" /\ (j \in Handed' <=> j \in Handed)
        /\ j \in unlogged => j \in unlogged'
    BY <1>2 DEF Firm
  <1>4. QED
    BY <1>1, <1>2, <1>3, Zenon DEF TrueOf

\* A step that commits nothing, and writes what its slot is at.
LEMMA RowsStay ==
  ASSUME RowsHeld, Firm,
         \A n \in DOMAIN rows' :
           \/ (n \in DOMAIN rows /\ rows'[n] = rows[n])
           \/ (OpenHeld(n)' /\ rows'[n].by # Nobody),
         \A n \in DOMAIN rows' : OpenHeld(n) => OpenHeld(n)'
  PROVE  RowsHeld'
  <1>1. SUFFICES ASSUME NEW n \in DOMAIN rows' PROVE OpenHeld(n)' /\ ToldHeld(n)'
    BY DEF RowsHeld
  <1>2. OpenHeld(n)'
    BY DEF RowsHeld
  <1>3. ToldHeld(n)'
    <2>1. CASE rows'[n].by # Nobody
      BY <2>1 DEF ToldHeld
    <2>2. CASE rows'[n].by = Nobody
      <3>1. n \in DOMAIN rows /\ rows'[n] = rows[n]
        BY <2>2
      <3>2. TrueOf(rows[n].entry)
        BY <2>2, <3>1 DEF RowsHeld, ToldHeld
      <3>3. PICK e : e = rows[n].entry
        OBVIOUS
      <3>4. TrueOf(e)'
        BY <3>2, <3>3, TrueStays
      <3>5. rows'[n].entry = e
        BY <3>1, <3>3
      <3>6. QED
        BY <3>4, <3>5, Zenon DEF ToldHeld, TrueOf
    <2>3. QED
      BY <2>1, <2>2
  <1>4. QED
    BY <1>2, <1>3

\* A commit of rows that are true of what they report.
LEMMA RowsCommit ==
  ASSUME TypeOK, RowsHeld, NEW t \in Slots, Commit(t), Firm, TrueOf(Wanted(t)),
         \A u \in Slots \ {t} : pc[u] # "idle" => Wanted(u)' = Wanted(u)
  PROVE  RowsHeld'
  <1>1. /\ DOMAIN rows' = DOMAIN rows
        /\ \A n \in DOMAIN rows :
             /\ rows'[n].entry = rows[n].entry
             /\ rows'[n].by = IF rows[n].by = t THEN Nobody ELSE rows[n].by
        /\ \A u \in Slots \ {t} : pc'[u] = pc[u]
    BY CommitIs
  <1>2. SUFFICES ASSUME NEW n \in DOMAIN rows PROVE OpenHeld(n)' /\ ToldHeld(n)'
    BY <1>1 DEF RowsHeld
  <1>3. OpenHeld(n) /\ ToldHeld(n)
    BY DEF RowsHeld
  <1>4. OpenHeld(n)'
    <2>1. SUFFICES ASSUME NEW u \in Slots, rows'[n].by = u
                   PROVE  pc'[u] # "idle" /\ rows'[n].entry = Wanted(u)'
      BY DEF OpenHeld
    <2>2. u # t /\ rows[n].by = u
      BY <1>1, <2>1, ChainAssumption
    <2>3. QED
      BY <1>1, <1>3, <2>2 DEF OpenHeld
  <1>5. ToldHeld(n)'
    <2>1. PICK e : e = rows[n].entry
      OBVIOUS
    <2>2. rows'[n].entry = e
      BY <1>1, <2>1
    <2>3. CASE rows'[n].by # Nobody
      BY <2>3, Zenon DEF ToldHeld
    <2>4. CASE rows'[n].by = Nobody
      <3>1. TrueOf(e)
        <4>1. CASE rows[n].by = t
          BY <1>3, <2>1, <4>1 DEF OpenHeld
        <4>2. CASE rows[n].by # t
          BY <1>1, <1>3, <2>1, <2>4, <4>2 DEF ToldHeld
        <4>3. QED
          BY <4>1, <4>2
      <3>2. TrueOf(e)'
        BY <3>1, TrueStays
      <3>3. QED
        BY <2>2, <3>2, Zenon DEF ToldHeld, TrueOf
    <2>5. QED
      BY <2>3, <2>4
  <1>6. QED
    BY <1>4, <1>5

\* A slot begins, appends, or is refused.
LEMMA RowsAppend ==
  ASSUME TypeOK, RowsHeld, Firm, NEW t \in Slots,
         Begin(t) \/ Append1(t) \/ NotAdded(t),
         \A u \in Slots : pc[u] # "idle" /\ (u # t \/ Append1(t)) =>
           Wanted(u)' = Wanted(u)
  PROVE  RowsHeld'
  <1>0. \A u \in Slots \ {t} : pc[u] # "idle" => Wanted(u)' = Wanted(u)
    OBVIOUS
  <1>1. CASE Begin(t)
    <2>1. rows' = rows /\ pc[t] = "idle" /\ \A u \in Slots \ {t} : pc'[u] = pc[u]
      BY <1>1, BeginIs
    <2>2. \A n \in DOMAIN rows' : n \in DOMAIN rows /\ rows'[n] = rows[n]
      BY <2>1
    <2>3. \A n \in DOMAIN rows' : OpenHeld(n) => OpenHeld(n)'
      BY <2>1, <1>0 DEF OpenHeld
    <2>4. QED
      BY <2>2, <2>3, RowsStay, Zenon
  <1>2. CASE Append1(t)
    <2>1. /\ pc[t] # "idle" /\ pc'[t] # "idle"
          /\ \A u \in Slots \ {t} : pc'[u] = pc[u]
          /\ \A n \in DOMAIN rows' :
               \/ n \in DOMAIN rows /\ rows'[n] = rows[n]
               \/ rows'[n].by = t /\ rows'[n].entry = Wanted(t)
      BY <1>2, AppendIsOpen
    <2>2. Wanted(t)' = Wanted(t)
      BY <1>2, <2>1
    <2>3. ASSUME NEW n \in DOMAIN rows', rows'[n].by = t, rows'[n].entry = Wanted(t)
          PROVE  OpenHeld(n)' /\ rows'[n].by # Nobody
      BY <2>1, <2>2, <2>3, ChainAssumption DEF OpenHeld
    <2>4. ASSUME NEW n \in DOMAIN rows', OpenHeld(n) PROVE OpenHeld(n)'
      <3>1. CASE n \in DOMAIN rows /\ rows'[n] = rows[n]
        BY <1>0, <2>1, <2>2, <2>4, <3>1 DEF OpenHeld
      <3>2. QED
        BY <3>1, <2>1, <2>3
    <2>5. \A n \in DOMAIN rows' : OpenHeld(n) => OpenHeld(n)'
      BY <2>4
    <2>6. \A n \in DOMAIN rows' : \/ (n \in DOMAIN rows /\ rows'[n] = rows[n])
                                 \/ (OpenHeld(n)' /\ rows'[n].by # Nobody)
      BY <2>1, <2>3
    <2>7. QED
      BY <2>5, <2>6, RowsStay, Zenon
  <1>3. CASE NotAdded(t)
    <2>1. /\ \A u \in Slots \ {t} : pc'[u] = pc[u]
          /\ \A n \in DOMAIN rows' : /\ n \in DOMAIN rows /\ rows'[n] = rows[n]
                                     /\ rows[n].by # t
      BY <1>3, NotAddedIs
    <2>2. \A n \in DOMAIN rows' : n \in DOMAIN rows /\ rows'[n] = rows[n]
      BY <2>1
    <2>3. \A n \in DOMAIN rows' : OpenHeld(n) => OpenHeld(n)'
      BY <2>1, <1>0 DEF OpenHeld
    <2>4. QED
      BY <2>2, <2>3, RowsStay, Zenon
  <1>4. QED
    BY <1>1, <1>2, <1>3

\* A step that concerns no email.
NoMail == mail' = mail /\ left' = left /\ refused' = refused /\ unlogged' = unlogged

LEMMA NoMailIsFirm ==
  ASSUME NoMail
  PROVE  Firm /\ Handed' = Handed
  BY DEF NoMail, Firm, Handed

\* A step that no slot takes, and that only moves a run that sends nothing.
LEMMA QuietKeeps ==
  ASSUME MailHeld, RowsHeld, vars' = vars, NoMail,
         at' = at \/ at \notin {"logging", "mail"},
         at' # at => at' # "logging",
         at' = "mail" => letter'.attached # {} \/ letter'.links = Docs
  PROVE  MailHeld' /\ RowsHeld'
  <1>1. rows' = rows /\ pc' = pc
    BY DEF vars
  <1>2. MailHeld'
    BY <1>1, NoMailIsFirm DEF MailHeld, StageHeld, NoMail
  <1>3. ASSUME NEW u \in Slots, pc[u] # "idle" PROVE Wanted(u)' = Wanted(u)
    <2>1. CASE u \notin Jobs
      BY <2>1 DEF Wanted
    <2>2. CASE u \in Jobs
      <3>1. at' = at
        BY <1>3, <2>2 DEF MailHeld, StageHeld
      <3>2. QED
        BY <3>1 DEF Wanted, NoMail
    <2>3. QED
      BY <2>1, <2>2
  <1>4. \A n \in DOMAIN rows' : OpenHeld(n) => OpenHeld(n)'
    BY <1>1, <1>3 DEF OpenHeld
  <1>5. RowsHeld'
    <2>1. \A n \in DOMAIN rows' : n \in DOMAIN rows /\ rows'[n] = rows[n]
      BY <1>1
    <2>2. QED
      BY <2>1, <1>4, NoMailIsFirm, RowsStay, Zenon
  <1>6. QED
    BY <1>2, <1>5

LEMMA VisitKeeps ==
  ASSUME TypeOK, MailHeld, RowsHeld, NEW t \in Slots, Visit(t)
  PROVE  MailHeld' /\ RowsHeld'
  <1>1. /\ t \notin Jobs /\ NoMail /\ letter' = letter /\ at' = at
        /\ Begin(t) \/ Append1(t) \/ Commit(t) \/ NotAdded(t)
    BY DEF Visit, post, sealing, NoMail
  <1>2. \A u \in Slots : Wanted(u)' = Wanted(u)
    BY <1>1 DEF Wanted, NoMail
  <1>3. Wanted(t) = <<"DOCUMENT_VIEWED", t>>
    BY <1>1 DEF Wanted
  <1>4. \A u \in Slots \ {t} : pc'[u] = pc[u]
    BY <1>1, BeginIs, AppendIsOpen, CommitIs, NotAddedIs
  <1>5. MailHeld'
    <2>1. \A j \in Jobs : pc'[j] = pc[j]
      BY <1>1, <1>4, EvidenceAssumption
    <2>2. QED
      BY <2>1, <1>1, NoMailIsFirm DEF MailHeld, StageHeld, NoMail
  <1>6. CASE Begin(t) \/ Append1(t) \/ NotAdded(t)
    BY <1>1, <1>2, <1>5, <1>6, NoMailIsFirm, RowsAppend
  <1>7. CASE Commit(t)
    <2>1. TrueOf(Wanted(t))
      BY <1>3 DEF TrueOf
    <2>2. QED
      BY <2>1, <1>1, <1>2, <1>5, <1>7, NoMailIsFirm, RowsCommit
  <1>8. QED
    BY <1>1, <1>6, <1>7

LEMMA LogKeeps ==
  ASSUME TypeOK, MailHeld, RowsHeld, LogCompleted
  PROVE  MailHeld' /\ RowsHeld'
  <1>1. /\ NoMail /\ letter' = letter
        /\ \/ at = "log" /\ Begin(Own) /\ at' = "logging"
           \/ at = "logging" /\ Append1(Own) /\ at' = at
           \/ at = "logging" /\ Commit(Own) /\ at' \in {"load", "failed"}
           \/ at = "logging" /\ NotAdded(Own) /\ at' = "failed"
    BY DEF LogCompleted, post, After, NoMail
  <1>2. Own \in Jobs /\ Own \in Slots /\ Jobs \subseteq Slots
    BY EvidenceAssumption
  <1>3. \A j \in Jobs : mail[j] = "due" /\ j \notin Handed /\ (j # Own => pc[j] = "idle")
    BY <1>1 DEF MailHeld, StageHeld
  <1>4. ASSUME NEW u \in Slots, pc[u] # "idle", u # Own PROVE Wanted(u)' = Wanted(u)
    <2>1. u \notin Jobs
      BY <1>3, <1>4
    <2>2. QED
      BY <2>1 DEF Wanted
  <1>5. \A u \in Slots \ {Own} : pc'[u] = pc[u]
    BY <1>1, <1>2, BeginIs, AppendIsOpen, CommitIs, NotAddedIs
  <1>6. MailHeld'
    <2>1. at' \in {"load", "failed"} => pc'[Own] = "idle"
      BY <1>1, <1>2, CommitIs, NotAddedIs
    <2>2. \A j \in Jobs : pc'[j] # "idle" => at' = "logging" /\ j = Own
      BY <2>1, <1>1, <1>2, <1>3, <1>5
    <2>3. at' # "mail"
      BY <1>1
    <2>4. \A j \in Jobs : mail'[j] = "due" /\ j \notin Handed'
      BY <1>1, <1>3, NoMailIsFirm DEF NoMail
    <2>5. \A j \in Jobs : StageHeld(j)'
      BY <2>2, <2>4 DEF StageHeld
    <2>6. QED
      BY <2>3, <2>5, <1>1 DEF MailHeld, NoMail
  <1>7. CASE Begin(Own) \/ NotAdded(Own)
    <2>1. ~Append1(Own)
      BY <1>2, <1>7, BeginIs, NotAddedIs, AppendIsOpen
    <2>2. QED
      BY <2>1, <1>1, <1>2, <1>4, <1>6, <1>7, NoMailIsFirm, RowsAppend
  <1>8. CASE at = "logging" /\ Append1(Own) /\ at' = at
    <2>1. Wanted(Own)' = Wanted(Own)
      BY <1>1, <1>8 DEF Wanted, NoMail
    <2>2. QED
      BY <2>1, <1>1, <1>2, <1>4, <1>6, <1>8, NoMailIsFirm, RowsAppend
  <1>9. CASE at = "logging" /\ Commit(Own)
    <2>1. Wanted(Own) = <<"ENVELOPE_COMPLETED", Own>>
      BY <1>2, <1>9 DEF Wanted
    <2>2. TrueOf(Wanted(Own))
      BY <2>1 DEF TrueOf
    <2>3. QED
      BY <2>2, <1>1, <1>2, <1>4, <1>6, <1>9, NoMailIsFirm, RowsCommit
  <1>10. QED
    BY <1>1, <1>7, <1>8, <1>9

\* A step that takes an email to a new stage, true to what its call did.
LEMMA StageKeeps ==
  ASSUME MailHeld, NEW j \in Jobs, at = "mail", at' = "mail", letter' = letter,
         NEW new \in {"sent", "failed", "sending", "bouncing", "ended"},
         mail' = [mail EXCEPT ![j] = new],
         left' \subseteq Jobs, refused' \subseteq Jobs, unlogged' \subseteq Jobs,
         \A i \in Jobs \ {j} : (i \in Handed' <=> i \in Handed),
         mail[j] # "due" => (j \in Handed' <=> j \in Handed),
         unlogged \subseteq unlogged',
         new \in {"sent", "sending"} => j \in Handed',
         new \in {"failed", "bouncing"} => (j \in Handed' => j \in unlogged'),
         pc'[j] # "idle" => new \in {"sending", "bouncing"},
         \A i \in Jobs \ {j} : pc'[i] = pc[i]
  PROVE  MailHeld' /\ Firm
  <1>1. mail'[j] = new /\ \A i \in Jobs \ {j} : mail'[i] = mail[i]
    BY DEF MailHeld
  <1>2. ASSUME NEW i \in Jobs PROVE StageHeld(i)'
    <2>1. CASE i = j
      BY <2>1, <1>1 DEF StageHeld
    <2>2. CASE i # j
      <3>1. StageHeld(i)
        BY DEF MailHeld
      <3>2. mail'[i] = mail[i] /\ pc'[i] = pc[i] /\ (i \in Handed' <=> i \in Handed)
        BY <2>2, <1>1
      <3>3. i \in unlogged => i \in unlogged'
        OBVIOUS
      <3>4. QED
        BY <3>1, <3>2, <3>3 DEF StageHeld
    <2>3. QED
      BY <2>1, <2>2
  <1>3. mail' \in [Jobs -> {"due", "sent", "failed", "sending", "bouncing", "ended"}]
    BY DEF MailHeld
  <1>4. MailHeld'
    BY <1>2, <1>3 DEF MailHeld
  <1>5. ASSUME NEW i \in Jobs, mail[i] # "due"
        PROVE  mail'[i] # "due" /\ (i \in Handed' <=> i \in Handed)
    BY <1>1, <1>5
  <1>6. QED
    BY <1>4, <1>5 DEF Firm

LEMMA EmailKeeps ==
  ASSUME TypeOK, MailHeld, RowsHeld, NEW j \in Jobs, Email(j)
  PROVE  MailHeld' /\ RowsHeld'
  <1>1. at = "mail" /\ at' = "mail" /\ letter' = letter /\ j \in Slots
        /\ Jobs \subseteq Slots
    BY EvidenceAssumption DEF Email, sealing
  <1>2. ASSUME NEW new, mail' = [mail EXCEPT ![j] = new], NEW u \in Slots \ {j}
        PROVE  Wanted(u)' = Wanted(u)
    <2>1. CASE u \notin Jobs
      BY <2>1 DEF Wanted
    <2>2. CASE u \in Jobs
      BY <1>2, <2>2, <1>1 DEF Wanted, MailHeld
    <2>3. QED
      BY <2>1, <2>2
  <1>3. StageHeld(j)
    BY DEF MailHeld
  <1>4. CASE mail[j] = "due" /\ Send(j) /\ UNCHANGED <<unlogged, vars>>
    <2>1. rows' = rows /\ pc' = pc /\ unlogged' = unlogged
      BY <1>4 DEF vars
    <2>2. PICK new \in {"sent", "failed"} :
            /\ mail' = [mail EXCEPT ![j] = new]
            /\ left' = left \/ left' = left \cup {j}
            /\ refused' = refused \/ refused' = refused \cup {j}
            /\ new = "sent" => j \in left' \cup refused'
            /\ new = "failed" => left' = left /\ refused' = refused
      BY <1>4 DEF Send
    <2>3. pc[j] = "idle" /\ j \notin Handed
      BY <1>1, <1>3, <1>4 DEF StageHeld
    <2>4. /\ \A i \in Jobs \ {j} : (i \in Handed' <=> i \in Handed)
          /\ new = "sent" => j \in Handed'
          /\ new = "failed" => j \notin Handed'
          /\ left' \subseteq Jobs /\ refused' \subseteq Jobs /\ unlogged' \subseteq Jobs
      BY <2>1, <2>2, <2>3 DEF Handed, MailHeld
    <2>5. MailHeld' /\ Firm
      BY <2>1, <2>2, <2>3, <2>4, <1>1, <1>4, StageKeeps
    <2>6. \A n \in DOMAIN rows' : n \in DOMAIN rows /\ rows'[n] = rows[n]
      BY <2>1
    <2>7. \A u \in Slots \ {j} : Wanted(u)' = Wanted(u)
      BY <2>2, <1>2
    <2>8. \A n \in DOMAIN rows' : OpenHeld(n) => OpenHeld(n)'
      BY <2>1, <2>3, <2>7 DEF OpenHeld
    <2>9. QED
      BY <2>5, <2>6, <2>8, RowsStay, Zenon
  <1>5. CASE LogEmail(j) /\ UNCHANGED <<left, refused>>
    <2>1. PICK new \in {"sending", "bouncing"} :
            /\ mail' = [mail EXCEPT ![j] = new]
            /\ new = "sending" => mail[j] = "sent"
            /\ new = "bouncing" => mail[j] = "failed"
      BY <1>5 DEF LogEmail
    <2>2. pc[j] = "idle" /\ \A i \in Slots \ {j} : pc'[i] = pc[i]
      BY <1>1, <1>5, BeginIs DEF LogEmail
    <2>3. Handed' = Handed /\ unlogged' = unlogged
      BY <1>5 DEF Handed, LogEmail
    <2>4. /\ new = "sending" => j \in Handed'
          /\ new = "bouncing" => (j \in Handed' => j \in unlogged')
      BY <2>1, <2>3, <1>3 DEF StageHeld
    <2>5. left' \subseteq Jobs /\ refused' \subseteq Jobs /\ unlogged' \subseteq Jobs
      BY <2>3, <1>5 DEF MailHeld
    <2>6. MailHeld' /\ Firm
      BY <2>1, <2>2, <2>3, <2>4, <2>5, <1>1, StageKeeps
    <2>7. \A u \in Slots \ {j} : Wanted(u)' = Wanted(u)
      BY <2>1, <1>2
    <2>8. ~Append1(j)
      BY <2>2, <1>1, AppendIsOpen
    <2>9. Begin(j)
      BY <1>5 DEF LogEmail
    <2>10. QED
      BY <2>6, <2>7, <2>8, <2>9, <1>1, RowsAppend
  <1>6. CASE LogGoesOn(j) /\ UNCHANGED <<left, refused>>
    <2>1. /\ mail[j] \in {"sending", "bouncing"} /\ Append1(j) /\ NoMail
      BY <1>6 DEF LogGoesOn, NoMail
    <2>2. \A i \in Slots \ {j} : pc'[i] = pc[i]
      BY <1>1, <2>1, AppendIsOpen
    <2>3. ASSUME NEW i \in Jobs PROVE StageHeld(i)'
      <3>1. StageHeld(i)
        BY DEF MailHeld
      <3>2. /\ mail'[i] = mail[i] /\ unlogged' = unlogged /\ Handed' = Handed
        BY <2>1, NoMailIsFirm DEF NoMail
      <3>3. CASE i = j
        BY <3>1, <3>2, <3>3, <2>1, <1>1 DEF StageHeld
      <3>4. CASE i # j
        <4>1. pc'[i] = pc[i]
          BY <3>4, <2>2, <1>1
        <4>2. QED
          BY <3>1, <3>2, <4>1, <1>1 DEF StageHeld
      <3>5. QED
        BY <3>3, <3>4
    <2>4. MailHeld'
      BY <2>1, <2>3, <1>1 DEF MailHeld, NoMail
    <2>5. \A u \in Slots : Wanted(u)' = Wanted(u)
      BY <1>1, <2>1 DEF Wanted, NoMail
    <2>6. QED
      BY <2>1, <2>4, <2>5, <1>1, NoMailIsFirm, RowsAppend
  <1>7. ASSUME mail[j] \in {"sending", "bouncing"}, Commit(j) \/ NotAdded(j),
               NEW new \in {"failed", "ended"}, mail' = [mail EXCEPT ![j] = new],
               UNCHANGED <<left, refused>>,
               unlogged' = unlogged \/ unlogged' = unlogged \cup {j},
               new = "failed" => j \in unlogged'
        PROVE  MailHeld' /\ RowsHeld'
    <2>1. pc'[j] = "idle" /\ \A i \in Slots \ {j} : pc'[i] = pc[i]
      BY <1>1, <1>7, CommitIs, NotAddedIs
    <2>2. Handed' = Handed /\ unlogged \subseteq unlogged'
      BY <1>7 DEF Handed
    <2>3. left' \subseteq Jobs /\ refused' \subseteq Jobs /\ unlogged' \subseteq Jobs
      BY <1>7 DEF MailHeld
    <2>4. MailHeld' /\ Firm
      BY <2>1, <2>2, <2>3, <1>1, <1>7, StageKeeps
    <2>5. \A u \in Slots \ {j} : Wanted(u)' = Wanted(u)
      BY <1>7, <1>2
    <2>6. CASE NotAdded(j)
      <3>1. ~Append1(j)
        BY <2>1, <1>1, AppendIsOpen
      <3>2. QED
        BY <2>4, <2>5, <2>6, <3>1, <1>1, RowsAppend
    <2>7. CASE Commit(j)
      <3>1. Wanted(j) = IF mail[j] = "sending" THEN <<"EMAIL_SENT", j>>
                        ELSE <<"EMAIL_BOUNCED", j>>
        BY <1>1, <1>7 DEF Wanted
      <3>2. TrueOf(Wanted(j))
        <4>1. CASE mail[j] = "sending"
          BY <3>1, <4>1, <1>3 DEF TrueOf, StageHeld
        <4>2. CASE mail[j] = "bouncing"
          BY <3>1, <4>2, <1>3 DEF TrueOf, StageHeld
        <4>3. QED
          BY <4>1, <4>2, <1>7
      <3>3. QED
        BY <2>4, <2>5, <2>7, <3>2, <1>1, RowsCommit
    <2>8. QED
      BY <2>6, <2>7, <1>7
  <1>8. CASE Logged(j) /\ UNCHANGED <<left, refused>>
    <2>1. /\ mail[j] \in {"sending", "bouncing"} /\ Commit(j)
          /\ mail' = [mail EXCEPT ![j] = "ended"] /\ unlogged' = unlogged
      BY <1>8 DEF Logged
    <2>2. QED
      BY <2>1, <1>7, <1>8
  <1>9. CASE LogFails(j) /\ UNCHANGED <<left, refused>>
    <2>1. /\ mail[j] \in {"sending", "bouncing"}
          /\ Commit(j) \/ NotAdded(j)
          /\ mail' = [mail EXCEPT ![j] = IF mail[j] = "sending" THEN "failed" ELSE "ended"]
          /\ unlogged' = IF mail[j] = "sending" THEN unlogged \cup {j} ELSE unlogged
      BY <1>9 DEF LogFails
    <2>2. CASE mail[j] = "sending"
      BY <2>1, <2>2, <1>7, <1>9
    <2>3. CASE mail[j] = "bouncing"
      BY <2>1, <2>3, <1>7, <1>9
    <2>4. QED
      BY <2>1, <2>2, <2>3
  <1>10. QED
    BY <1>4, <1>5, <1>6, <1>8, <1>9 DEF Email

LEMMA MailNext ==
  ASSUME TypeOK, FilesHeld, MailHeld, RowsHeld, [EvidenceNext]_evidenceVars
  PROVE  MailHeld' /\ RowsHeld'
  <1>1. CASE UNCHANGED evidenceVars
    <2>1. vars' = vars /\ NoMail /\ letter' = letter /\ at' = at
      BY <1>1 DEF evidenceVars, post, sealing, NoMail
    <2>2. at = "mail" => letter'.attached # {} \/ letter'.links = Docs
      BY <2>1 DEF MailHeld
    <2>3. QED
      BY <2>1, <2>2, QuietKeeps
  <1>2. CASE Reports \/ Fail
    <2>1. /\ vars' = vars /\ NoMail
          /\ at \notin {"logging", "mail"} /\ at' \notin {"logging", "mail"}
      BY <1>2 DEF Reports, Sign, Upload, Record, ReadTrail, ReadHead, Certify,
                  Complete, Fail, post, After, NoMail
    <2>2. QED
      BY <2>1, QuietKeeps
  <1>3. CASE LoadAttachments
    <2>1. vars' = vars /\ NoMail /\ at = "load" /\ at' = "mail"
      BY <1>3 DEF LoadAttachments, NoMail
    <2>2. signedKey = Docs
      BY <2>1 DEF FilesHeld, Sealed
    <2>3. letter'.attached # {} \/ letter'.links = Docs
      BY <1>3, <2>2 DEF LoadAttachments, Carried
    <2>4. QED
      BY <2>1, <2>3, QuietKeeps
  <1>4. CASE Check
    <2>1. vars' = vars /\ NoMail /\ letter' = letter /\ at' = at
      BY <1>4 DEF Check, DropFile, ShowVerdict, post, sealing, NoMail
    <2>2. at = "mail" => letter'.attached # {} \/ letter'.links = Docs
      BY <2>1 DEF MailHeld
    <2>3. QED
      BY <2>1, <2>2, QuietKeeps
  <1>5. QED
    BY <1>1, <1>2, <1>3, <1>4, LogKeeps, VisitKeeps, EmailKeeps
    DEF EvidenceNext, Reports

LEMMA MailNow ==
  ASSUME TypeOK, MailHeld, RowsHeld
  PROVE  MailIsOnRecord
  <1>1. SUFFICES ASSUME NEW n \in Committed,
                        rows[n].entry[1] \in {"EMAIL_SENT", "EMAIL_BOUNCED"}
                 PROVE  /\ rows[n].entry[1] = "EMAIL_SENT" =>
                             /\ rows[n].entry[2] \in left \cup refused
                             /\ letter.attached # {} \/ letter.links = Docs
                        /\ (rows[n].entry[1] = "EMAIL_BOUNCED"
                              /\ rows[n].entry[2] \in left \cup refused) =>
                             rows[n].entry[2] \in unlogged
    BY DEF MailIsOnRecord
  <1>2. TrueOf(rows[n].entry)
    BY DEF Committed, RowsHeld, ToldHeld
  <1>3. PICK j \in Jobs :
          /\ rows[n].entry[2] = j /\ mail[j] # "due"
          /\ rows[n].entry[1] = "EMAIL_SENT" => j \in Handed
          /\ rows[n].entry[1] = "EMAIL_BOUNCED" => (j \in Handed => j \in unlogged)
    BY <1>1, <1>2, Zenon DEF TrueOf
  <1>4. letter.attached # {} \/ letter.links = Docs
    BY <1>3 DEF MailHeld, StageHeld
  <1>5. QED
    BY <1>3, <1>4 DEF Handed

-----------------------------------------------------------------------------
\* The page that verifies a file.

LEMMA HandedOutIsFile ==
  ASSUME FilesHeld
  PROVE  HandedOut \cup {Original(1)} \subseteq Files /\ Signed \subseteq Files
  <1>1. Signed \subseteq Files
    BY DEF Signed, Files
  <1>2. HandedOut \subseteq Signed
    BY DEF HandedOut, FilesHeld
  <1>3. Original(1) \in Files
    BY EvidenceAssumption DEF Original, File, Files, Docs
  <1>4. QED
    BY <1>1, <1>2, <1>3

LEMMA VerdictIs ==
  ASSUME ChainInv, \A e \in Entries : Stored[e] = e,
         FilesHeld, ObjectsHeld, NEW f \in Files, at \in {"failed", "mail"}
  PROVE  /\ VerifyFile(f).matched => f.sig # "original"
         /\ completed /\ f \in HandedOut => VerifyFile(f).matched /\ VerifyFile(f).intact
  <1>1. /\ VerifyFile(f).matched <=> \E d \in Docs : recorded[d] = f
        /\ VerifyFile(f).intact <=> ChainOk
    BY Zenon DEF VerifyFile
  <1>2. ChainOk
    BY VerifiesNow DEF Verifies, ChainOk
  <1>3. ASSUME NEW d \in Docs, recorded[d] = f PROVE f.sig # "original"
    <2>1. recorded[d] \in Signed \cup {Nothing} /\ f # Nothing
      BY EvidenceAssumption DEF FilesHeld
    <2>2. f \in Signed
      BY <1>3, <2>1
    <2>3. QED
      BY <2>2 DEF Signed, Profiles
  <1>4. ASSUME completed, f \in HandedOut PROVE \E d \in Docs : recorded[d] = f
    <2>1. PICK d \in signedKey : f = objects[name[d]]
      BY <1>4 DEF HandedOut
    <2>2. \E d2 \in signedKey : recorded[d2] = f
      BY <1>4, <2>1 DEF ObjectsHeld
    <2>3. QED
      BY <2>2 DEF FilesHeld
  <1>5. QED
    BY <1>1, <1>2, <1>3, <1>4, Zenon

LEMMA PageNext ==
  ASSUME ChainInv, \A e \in Entries : Stored[e] = e,
         FilesHeld, ObjectsHeld, MailHeld, PageHeld, [EvidenceNext]_evidenceVars
  PROVE  PageHeld'
  <1>1. ASSUME page' = page PROVE PageHeld'
    <2>1. CASE at \in {"failed", "mail"}
      <3>1. ~Reports
        BY <2>1 DEF Reports, Sign, Upload, Record, ReadTrail, ReadHead, Certify,
                    Complete
      <3>2. /\ at' = at /\ name' = name /\ objects' = objects
            /\ signedKey' = signedKey /\ completed' = completed
        BY <2>1, <3>1, Moves DEF Rests
      <3>3. HandedOut' = HandedOut
        BY <3>2 DEF HandedOut
      <3>4. VerdictIsOfFile'
        BY <3>2, <3>3, <1>1 DEF PageHeld, VerdictIsOfFile
      <3>5. PageTyped'
        BY <1>1 DEF PageHeld, PageTyped
      <3>6. QED
        BY <3>2, <3>4, <3>5, <1>1 DEF PageHeld
    <2>2. CASE at \notin {"failed", "mail"}
      <3>1. page.asked = {} /\ page.shown = Nothing
        BY <2>2 DEF PageHeld
      <3>2. VerdictIsOfFile'
        BY <3>1, <1>1 DEF VerdictIsOfFile
      <3>3. PageTyped'
        BY <1>1 DEF PageHeld, PageTyped
      <3>4. QED
        BY <3>1, <3>2, <3>3, <1>1 DEF PageHeld
    <2>3. QED
      BY <2>1, <2>2
  <1>2. CASE Check
    <2>1. PICK f \in {Original(1)} \cup HandedOut : DropFile(f) \/ ShowVerdict(f)
      BY <1>2 DEF Check
    <2>2. f \in Files
      BY <2>1, HandedOutIsFile
    <2>3. at \in {"failed", "mail"}
      BY <1>2, EvidenceAssumption DEF Check, MailHeld, StageHeld
    <2>4. /\ at' = at /\ name' = name /\ objects' = objects
          /\ signedKey' = signedKey /\ completed' = completed
      BY <2>1 DEF DropFile, ShowVerdict, setup, sealing, files
    <2>5. HandedOut' = HandedOut
      BY <2>4 DEF HandedOut
    <2>6. CASE DropFile(f)
      <3>1. /\ page'.named = f /\ page'.asked = page.asked \cup {f}
            /\ page'.shown = Nothing
            /\ page'.overlapped = (page.overlapped \/ page.asked # {})
        BY <2>6 DEF DropFile, Cleared, PageHeld, PageTyped
      <3>2. ~page'.overlapped => page'.asked \subseteq {page'.named}
        BY <3>1
      <3>3. VerdictIsOfFile'
        BY <3>1 DEF VerdictIsOfFile
      <3>4. PageTyped'
        <4>1. PICK o \in BOOLEAN : o = (page.overlapped \/ page.asked # {})
          <5>1. (page.overlapped \/ page.asked # {}) \in BOOLEAN
            BY Zenon
          <5>2. QED
            BY <5>1, Zenon
        <4>2. page' = [page EXCEPT !.named = f, !.asked = @ \cup {f}, !.shown = Nothing,
                                   !.drops = @ + 1, !.overlapped = o]
          BY <2>6, <4>1, Zenon DEF DropFile, Cleared
        <4>3. PageTyped
          BY DEF PageHeld
        <4>4. page' = [named |-> f, asked |-> page.asked \cup {f}, shown |-> Nothing,
                       drops |-> page.drops + 1, overlapped |-> o]
          BY <4>2, <4>3 DEF PageTyped
        <4>5. page.asked \cup {f} \in SUBSET Files /\ page.drops + 1 \in Nat
          BY <2>2, <4>3 DEF PageTyped
        <4>6. QED
          BY <2>2, <4>4, <4>5 DEF PageTyped
      <3>5. QED
        BY <2>2, <2>3, <2>4, <3>1, <3>2, <3>3, <3>4 DEF PageHeld
    <2>7. CASE ShowVerdict(f)
      <3>1. PICK shown \in {VerifyFile(f), Nothing} :
              page' = [page EXCEPT !.asked = @ \ {f}, !.shown = shown]
        BY <2>7 DEF ShowVerdict
      <3>2. /\ page'.named = page.named /\ page'.asked = page.asked \ {f}
            /\ page'.shown = shown /\ page'.overlapped = page.overlapped
        BY <3>1 DEF PageHeld, PageTyped
      <3>3. ~page.overlapped => f = page.named
        BY <2>7 DEF ShowVerdict, PageHeld
      <3>4. VerdictIsOfFile'
        BY <2>2, <2>3, <2>4, <2>5, <3>2, <3>3, VerdictIs, Zenon DEF VerdictIsOfFile
      <3>5. PageTyped'
        <4>1. VerifyFile(f) \in Verdict
          <5>1. (\E d \in Docs : recorded[d] = f) \in BOOLEAN /\ ChainOk \in BOOLEAN
            BY Zenon DEF ChainOk
          <5>2. QED
            BY <5>1, Zenon DEF VerifyFile, Verdict
        <4>2. PageTyped
          BY DEF PageHeld
        <4>3. QED
          BY <3>1, <4>1, <4>2 DEF PageTyped
      <3>6. QED
        BY <2>3, <2>4, <3>2, <3>4, <3>5 DEF PageHeld
    <2>8. QED
      BY <2>1, <2>6, <2>7
  <1>3. CASE ~Check
    <2>1. page' = page
      BY <1>3 DEF EvidenceNext, evidenceVars, Sign, Upload, Record, ReadTrail, ReadHead,
                  Certify, Complete, Fail, LogCompleted, LoadAttachments, Visit, Email
    <2>2. QED
      BY <2>1, <1>1
  <1>4. QED
    BY <1>2, <1>3

-----------------------------------------------------------------------------
\* Induction along a course, for the set of the numbers that have a property.
LEMMA Upward ==
  ASSUME NEW N \in Nat, NEW S, 0 \in S, \A n \in 1..N : n - 1 \in S => n \in S
  PROVE  0..N \subseteq S
  <1>1. SUFFICES ASSUME (0..N) \ S # {} PROVE FALSE
    OBVIOUS
  <1>2. (0..N) \ S \subseteq Nat
    OBVIOUS
  <1>3. PICK k \in (0..N) \ S : \A j \in (0..N) \ S : k <= j
    BY <1>1, <1>2, LeastOf
  <1>4. k \in 1..N /\ k - 1 \in 0..N
    BY <1>3
  <1> QED
    BY <1>3, <1>4

-----------------------------------------------------------------------------
\* The pages of a certificate.

Marks == [kind : {"text", "head", "gap", "rule", "need"}, by : Int]

\* The pages between the marks of a block, and between the blocks.
Marked(g, s, block) ==
  /\ g \in [0..Len(block) -> PageState] /\ g[0] = s
  /\ \A n \in 1..Len(block) : g[n] = Put(block[n])[g[n - 1]]

Laid(g, s, blocks) ==
  /\ g \in [0..Len(blocks) -> PageState] /\ g[0] = s
  /\ \A n \in 1..Len(blocks) : g[n] = PutBlock(blocks[n])[g[n - 1]]

LEMMA PutType ==
  ASSUME NEW s \in PageState, NEW m \in Marks
  PROVE  Put(m)[s] \in PageState
  <1>0. /\ s.y \in Int /\ s.page \in Nat /\ s.low \in Int /\ s.opened \in Nat
        /\ s.torn \in BOOLEAN /\ m.by \in Int
    BY DEF PageState, Marks
  <1>1. EnsureSpace(s, m.by) \in PageState
    <2>0. PageTop \in Int /\ s.page + 1 \in Nat
      BY <1>0 DEF PageTop
    <2>1. [s EXCEPT !.y = PageTop, !.page = s.page + 1] \in PageState
      BY <2>0 DEF PageState
    <2> QED
      BY <2>1 DEF EnsureSpace
  <1>2. [s EXCEPT !.y = @ - m.by] \in PageState
    BY DEF PageState, Marks
  <1>3. Draw(s, m) \in PageState
    <2> DEFINE low    == IF s.y < s.low THEN s.y ELSE s.low
               opened == IF m.kind = "head" THEN s.page
                         ELSE IF m.kind = "text" THEN 0 ELSE s.opened
               torn   == s.torn \/ (m.kind = "text" /\ s.opened \notin {0, s.page})
    <2>1. low \in Int /\ opened \in Nat /\ torn \in BOOLEAN /\ s.y - m.by \in Int
      BY <1>0
    <2>2. Draw(s, m) = [s EXCEPT !.y = s.y - m.by, !.low = low, !.opened = opened,
                                 !.torn = torn]
      BY DEF Draw
    <2> HIDE DEF low, opened, torn
    <2> QED
      BY <2>1, <2>2 DEF PageState
  <1> QED
    BY <1>1, <1>2, <1>3 DEF Put

\* Whatever has steps that are total has a course.
Course(g, s, N, F, X) ==
  /\ g \in [0..N -> X] /\ g[0] = s
  /\ \A n \in 1..N : g[n] = F[n][g[n - 1]]

LEMMA CourseIs ==
  ASSUME NEW X, NEW s \in X, NEW N \in Nat, NEW F \in [1..N -> [X -> X]]
  PROVE  \E g : Course(g, s, N, F, X)
  <1> DEFINE Is(g, k) == Course(g, s, k, F, X)
             S == {k \in 0..N : \E g : Is(g, k)}
  <1>1. 0 \in S
    <2>1. Is([n \in 0..0 |-> s], 0)
      BY DEF Course
    <2> HIDE DEF Is
    <2> QED
      BY <2>1
  <1>2. ASSUME NEW k \in 1..N, k - 1 \in S PROVE k \in S
    <2>1. PICK g : Is(g, k - 1)
      BY <1>2
    <2> DEFINE h == [n \in 0..k |-> IF n = k THEN F[k][g[k - 1]] ELSE g[n]]
    <2>2. g[k - 1] \in X
      BY <2>1 DEF Course
    <2>3. F[k][g[k - 1]] \in X
      BY <2>2
    <2>4. h \in [0..k -> X] /\ h[0] = s
      BY <2>1, <2>3 DEF Course
    <2>5. ASSUME NEW n \in 1..k PROVE h[n] = F[n][h[n - 1]]
      <3>1. CASE n = k
        BY <3>1
      <3>2. CASE n # k
        BY <3>2, <2>1 DEF Course
      <3> QED
        BY <3>1, <3>2
    <2>6. Is(h, k)
      BY <2>4, <2>5 DEF Course
    <2> HIDE DEF Is
    <2> QED
      BY <2>6
  <1>3. N \in S
    <2> HIDE DEF S
    <2>1. 0..N \subseteq S
      BY <1>1, <1>2, Upward
    <2> QED
      BY <2>1
  <1> QED
    BY <1>3

LEMMA PutBlockIs ==
  ASSUME NEW s \in PageState, NEW block \in Seq(Marks)
  PROVE  \E g : Marked(g, s, block) /\ PutBlock(block)[s] = g[Len(block)]
  <1> DEFINE N == Len(block)
             Is(h) == h = [n \in 0..N |->
                             IF n = 0 THEN s ELSE Put(block[n])[h[n - 1]]]
             c == CHOOSE h : Is(h)
  <1>1. N \in Nat /\ \A n \in 1..N : block[n] \in Marks
    OBVIOUS
  <1>2. \A n \in 1..N : Put(block[n]) \in [PageState -> PageState]
    <2>1. \A m \in Marks : Put(m) = [t \in PageState |-> Put(m)[t]]
      BY DEF Put
    <2> QED
      BY <2>1, <1>1, PutType
  <1>4. PICK g \in [0..N -> PageState] :
           g[0] = s /\ \A n \in 1..N : g[n] = Put(block[n])[g[n - 1]]
    <2> DEFINE F == [n \in 1..N |-> Put(block[n])]
    <2>1. \A n \in 1..N : F[n] = Put(block[n])
      OBVIOUS
    <2>3. F \in [1..N -> [PageState -> PageState]]
      BY <1>2
    <2> HIDE DEF F, N
    <2>2. \E g : Course(g, s, N, F, PageState)
      BY <2>3, <1>1, CourseIs
    <2> QED
      BY <2>1, <2>2 DEF Course
  <1>5. Is(g)
    BY <1>4
  <1>6. Is(c)
    BY <1>5, Zenon
  <1>7. PutBlock(block)[s] = c[N]
    BY DEF PutBlock
  <1> HIDE DEF c
  <1>8. c[0] = s /\ \A n \in 1..N : c[n] = Put(block[n])[c[n - 1]]
    <2> HIDE DEF N
    <2> QED
      BY <1>6, <1>1
  <1>9. c \in [0..N -> PageState]
    <2> DEFINE S == {n \in 0..N : c[n] \in PageState}
    <2>1. 0 \in S
      BY <1>1, <1>8
    <2>2. ASSUME NEW n \in 1..N, n - 1 \in S PROVE n \in S
      BY <2>2, <1>1, <1>2, <1>8
    <2>3. 0..N \subseteq S
      <3> HIDE DEF S
      <3> QED
        BY <1>1, <2>1, <2>2, Upward
    <2>4. c = [n \in 0..N |-> c[n]]
      BY <1>6
    <2> QED
      BY <2>3, <2>4
  <1> QED
    BY <1>7, <1>8, <1>9 DEF Marked

LEMMA PutBlockType ==
  ASSUME NEW block \in Seq(Marks)
  PROVE  PutBlock(block) \in [PageState -> PageState]
  <1>1. ASSUME NEW s \in PageState PROVE PutBlock(block)[s] \in PageState
    BY PutBlockIs DEF Marked
  <1>2. PutBlock(block) = [s \in PageState |-> PutBlock(block)[s]]
    BY DEF PutBlock
  <1> QED
    BY <1>1, <1>2

LEMMA PutBlocksIs ==
  ASSUME NEW blocks \in Seq(Seq(Marks))
  PROVE  \E g : Laid(g, FirstPage, blocks) /\ PutBlocks(blocks) = g[Len(blocks)]
  <1> DEFINE N == Len(blocks)
             Is(h) == h = [n \in 0..N |->
                             IF n = 0 THEN FirstPage ELSE PutBlock(blocks[n])[h[n - 1]]]
             c == CHOOSE h : Is(h)
  <1>1. N \in Nat /\ \A n \in 1..N : blocks[n] \in Seq(Marks)
    OBVIOUS
  <1>2. \A n \in 1..N : PutBlock(blocks[n]) \in [PageState -> PageState]
    BY <1>1, PutBlockType
  <1>0. FirstPage \in PageState
    BY DEF FirstPage, PageState, PageTop
  <1>4. PICK g \in [0..N -> PageState] :
           g[0] = FirstPage /\ \A n \in 1..N : g[n] = PutBlock(blocks[n])[g[n - 1]]
    <2> DEFINE F == [n \in 1..N |-> PutBlock(blocks[n])]
    <2>1. \A n \in 1..N : F[n] = PutBlock(blocks[n])
      OBVIOUS
    <2>3. F \in [1..N -> [PageState -> PageState]]
      BY <1>2
    <2> HIDE DEF F, N
    <2>2. \E g : Course(g, FirstPage, N, F, PageState)
      BY <2>3, <1>0, <1>1, CourseIs
    <2> QED
      BY <2>1, <2>2 DEF Course
  <1>5. Is(g)
    BY <1>4
  <1>6. Is(c)
    BY <1>5, Zenon
  <1>7. PutBlocks(blocks) = c[N]
    BY DEF PutBlocks
  <1> HIDE DEF c
  <1>8. c[0] = FirstPage /\ \A n \in 1..N : c[n] = PutBlock(blocks[n])[c[n - 1]]
    BY <1>6, <1>1
  <1>9. c \in [0..N -> PageState]
    <2> DEFINE S == {n \in 0..N : c[n] \in PageState}
    <2>1. 0 \in S
      BY <1>1, <1>8, <1>0
    <2>2. ASSUME NEW n \in 1..N, n - 1 \in S PROVE n \in S
      BY <2>2, <1>1, <1>2, <1>8
    <2>3. 0..N \subseteq S
      <3> HIDE DEF S
      <3> QED
        BY <1>1, <2>1, <2>2, Upward
    <2>4. c = [n \in 0..N |-> c[n]]
      BY <1>6
    <2> QED
      BY <2>3, <2>4
  <1> QED
    BY <1>7, <1>8, <1>9 DEF Laid

-----------------------------------------------------------------------------
\* Where a block, or a sequence of blocks, leads from the pages in S.
Leads(S, block, T) ==
  \A s \in S : \A g : Marked(g, s, block) => g[Len(block)] \in T

Lays(S, blocks, T) ==
  \A s \in S : \A g : Laid(g, s, blocks) => g[Len(blocks)] \in T

LEMMA LeadsConcat ==
  ASSUME NEW S, NEW T, NEW U, NEW a \in Seq(Marks), NEW b \in Seq(Marks),
         Leads(S, a, T), Leads(T, b, U)
  PROVE  a \o b \in Seq(Marks) /\ Leads(S, a \o b, U)
  <1> DEFINE M == Len(a)
             N == Len(b)
  <1>1. /\ M \in Nat /\ N \in Nat /\ Len(a \o b) = M + N
        /\ \A n \in 1..M : (a \o b)[n] = a[n]
        /\ \A n \in 1..N : (a \o b)[M + n] = b[n]
    OBVIOUS
  <1>2. ASSUME NEW s \in S, NEW g, Marked(g, s, a \o b) PROVE g[M + N] \in U
    <2> DEFINE g1 == [n \in 0..M |-> g[n]]
               g2 == [n \in 0..N |-> g[M + n]]
    <2> HIDE DEF M, N
    <2>1. /\ g \in [0..(M + N) -> PageState] /\ g[0] = s
          /\ \A n \in 1..(M + N) : g[n] = Put((a \o b)[n])[g[n - 1]]
      BY <1>1, <1>2 DEF Marked
    <2>2. g1 \in [0..M -> PageState] /\ g1[0] = s
      BY <1>1, <2>1
    <2>3. ASSUME NEW n \in 1..M PROVE g1[n] = Put(a[n])[g1[n - 1]]
      <3>1. n \in 1..(M + N) /\ (a \o b)[n] = a[n]
        BY <1>1
      <3>2. g1[n] = g[n] /\ g1[n - 1] = g[n - 1]
        BY <1>1
      <3> QED
        BY <3>1, <3>2, <2>1
    <2>4. g2 \in [0..N -> PageState] /\ g2[0] = g1[M] /\ g1[M] = g[M]
      BY <1>1, <2>1
    <2>5. ASSUME NEW n \in 1..N PROVE g2[n] = Put(b[n])[g2[n - 1]]
      <3>1. M + n \in 1..(M + N) /\ (M + n) - 1 = M + (n - 1) /\ n - 1 \in 0..N
        BY <1>1
      <3>2. g2[n] = g[M + n] /\ g2[n - 1] = g[M + (n - 1)]
        BY <3>1
      <3>5. (a \o b)[M + n] = b[n]
        BY <1>1
      <3> HIDE DEF g2
      <3>3. \A k \in 1..(M + N) : g[k] = Put((a \o b)[k])[g[k - 1]]
        BY <2>1
      <3>4. g[M + n] = Put((a \o b)[M + n])[g[M + (n - 1)]]
        BY <3>1, <3>3, Zenon
      <3> QED
        BY <3>2, <3>4, <3>5
    <2> HIDE DEF g1, g2
    <2>6. Marked(g1, s, a)
      BY <2>2, <2>3 DEF Marked, M
    <2>7. Marked(g2, g1[M], b)
      BY <2>4, <2>5 DEF Marked, N
    <2>8. g1[M] \in T
      BY <2>6 DEF Leads, M
    <2>9. g2[N] \in U
      BY <2>7, <2>8 DEF Leads, N
    <2> QED
      BY <2>9, <1>1 DEF g2
  <1> QED
    BY <1>1, <1>2 DEF Leads

LEMMA LaysConcat ==
  ASSUME NEW S, NEW T, NEW U, NEW a \in Seq(Seq(Marks)), NEW b \in Seq(Seq(Marks)),
         Lays(S, a, T), Lays(T, b, U)
  PROVE  a \o b \in Seq(Seq(Marks)) /\ Lays(S, a \o b, U)
  <1> DEFINE M == Len(a)
             N == Len(b)
  <1>1. /\ M \in Nat /\ N \in Nat /\ Len(a \o b) = M + N
        /\ \A n \in 1..M : (a \o b)[n] = a[n]
        /\ \A n \in 1..N : (a \o b)[M + n] = b[n]
    OBVIOUS
  <1>2. ASSUME NEW s \in S, NEW g, Laid(g, s, a \o b) PROVE g[M + N] \in U
    <2> DEFINE g1 == [n \in 0..M |-> g[n]]
               g2 == [n \in 0..N |-> g[M + n]]
    <2> HIDE DEF M, N
    <2>1. /\ g \in [0..(M + N) -> PageState] /\ g[0] = s
          /\ \A n \in 1..(M + N) : g[n] = PutBlock((a \o b)[n])[g[n - 1]]
      BY <1>1, <1>2 DEF Laid
    <2>2. g1 \in [0..M -> PageState] /\ g1[0] = s
      BY <1>1, <2>1
    <2>3. ASSUME NEW n \in 1..M PROVE g1[n] = PutBlock(a[n])[g1[n - 1]]
      <3>1. n \in 1..(M + N) /\ (a \o b)[n] = a[n]
        BY <1>1
      <3>2. g1[n] = g[n] /\ g1[n - 1] = g[n - 1]
        BY <1>1
      <3> QED
        BY <3>1, <3>2, <2>1
    <2>4. g2 \in [0..N -> PageState] /\ g2[0] = g1[M] /\ g1[M] = g[M]
      BY <1>1, <2>1
    <2>5. ASSUME NEW n \in 1..N PROVE g2[n] = PutBlock(b[n])[g2[n - 1]]
      <3>1. M + n \in 1..(M + N) /\ (M + n) - 1 = M + (n - 1) /\ n - 1 \in 0..N
        BY <1>1
      <3>2. g2[n] = g[M + n] /\ g2[n - 1] = g[M + (n - 1)]
        BY <3>1
      <3>5. (a \o b)[M + n] = b[n]
        BY <1>1
      <3> HIDE DEF g2
      <3>3. \A k \in 1..(M + N) : g[k] = PutBlock((a \o b)[k])[g[k - 1]]
        BY <2>1
      <3>4. g[M + n] = PutBlock((a \o b)[M + n])[g[M + (n - 1)]]
        BY <3>1, <3>3, Zenon
      <3> QED
        BY <3>2, <3>4, <3>5
    <2> HIDE DEF g1, g2
    <2>6. Laid(g1, s, a)
      BY <2>2, <2>3 DEF Laid, M
    <2>7. Laid(g2, g1[M], b)
      BY <2>4, <2>5 DEF Laid, N
    <2>8. g1[M] \in T
      BY <2>6 DEF Lays, M
    <2>9. g2[N] \in U
      BY <2>7, <2>8 DEF Lays, N
    <2> QED
      BY <2>9, <1>1 DEF g2
  <1> QED
    BY <1>1, <1>2 DEF Lays

\* A block leads where it leads; blocks go from station to station.
LEMMA LaysBy ==
  ASSUME NEW blocks \in Seq(Seq(Marks)), NEW X,
         X[0] \subseteq PageState,
         \A n \in 1..Len(blocks) : Leads(X[n - 1], blocks[n], X[n])
  PROVE  Lays(X[0], blocks, X[Len(blocks)])
  <1> DEFINE N == Len(blocks)
  <1>0. N \in Nat /\ \A n \in 1..N : blocks[n] \in Seq(Marks)
    OBVIOUS
  <1>1. ASSUME NEW s \in X[0], NEW g, Laid(g, s, blocks) PROVE g[N] \in X[N]
    <2> DEFINE S == {n \in 0..N : g[n] \in X[n]}
    <2>1. /\ g \in [0..N -> PageState] /\ g[0] = s
          /\ \A n \in 1..N : g[n] = PutBlock(blocks[n])[g[n - 1]]
      BY <1>1 DEF Laid
    <2>2. 0 \in S
      BY <1>0, <2>1
    <2>3. ASSUME NEW n \in 1..N, n - 1 \in S PROVE n \in S
      <3>1. g[n - 1] \in PageState /\ g[n - 1] \in X[n - 1] /\ blocks[n] \in Seq(Marks)
        BY <1>0, <2>1, <2>3
      <3>2. PICK h : Marked(h, g[n - 1], blocks[n]) /\
                     PutBlock(blocks[n])[g[n - 1]] = h[Len(blocks[n])]
        BY <3>1, PutBlockIs
      <3>3. h[Len(blocks[n])] \in X[n]
        BY <3>1, <3>2 DEF Leads
      <3> QED
        BY <2>1, <3>2, <3>3
    <2> HIDE DEF S, N
    <2>4. 0..N \subseteq S
      BY <1>0, <2>2, <2>3, Upward
    <2> QED
      BY <2>4, <1>0 DEF S
  <1> QED
    BY <1>1 DEF Lays

LEMMA LaysOne ==
  ASSUME NEW S, S \subseteq PageState, NEW T, NEW b \in Seq(Marks), Leads(S, b, T)
  PROVE  <<b>> \in Seq(Seq(Marks)) /\ Lays(S, <<b>>, T)
  <1> DEFINE X == [n \in 0..1 |-> IF n = 0 THEN S ELSE T]
             bs == <<b>>
  <1>1. bs \in Seq(Seq(Marks)) /\ Len(bs) = 1 /\ bs[1] = b
    OBVIOUS
  <1>2. X[0] = S /\ X[1] = T
    OBVIOUS
  <1> HIDE DEF X, bs
  <1>3. \A n \in 1..Len(bs) : Leads(X[n - 1], bs[n], X[n])
    BY <1>1, <1>2
  <1>4. Lays(X[0], bs, X[Len(bs)])
    BY <1>1, <1>2, <1>3, LaysBy
  <1> QED
    BY <1>1, <1>2, <1>4 DEF bs

\* A block that comes n times leads to T, from S or from T.
LEMMA LaysRepeat ==
  ASSUME NEW S, S \subseteq PageState, NEW T, T \subseteq S, NEW b \in Seq(Marks),
         Leads(S, b, T), NEW n \in Nat
  PROVE  /\ Repeat(n, b) \in Seq(Seq(Marks))
         /\ Lays(S, Repeat(n, b), IF n = 0 THEN S ELSE T)
  <1> DEFINE X == [k \in 0..n |-> IF k = 0 THEN S ELSE T]
             bs == Repeat(n, b)
  <1>1. bs \in Seq(Seq(Marks)) /\ Len(bs) = n /\ \A k \in 1..n : bs[k] = b
    BY DEF Repeat
  <1>2. X[0] = S /\ \A k \in 1..n : X[k] = T
    OBVIOUS
  <1>3. \A k \in 1..n : X[k - 1] \subseteq S
    BY <1>2
  <1> HIDE DEF X, bs
  <1>4. \A k \in 1..Len(bs) : Leads(X[k - 1], bs[k], X[k])
    BY <1>1, <1>2, <1>3 DEF Leads
  <1>5. Lays(X[0], bs, X[Len(bs)])
    BY <1>1, <1>2, <1>4, LaysBy
  <1>6. X[Len(bs)] = IF n = 0 THEN S ELSE T
    BY <1>1, <1>2
  <1> QED
    BY <1>1, <1>2, <1>5, <1>6 DEF bs

-----------------------------------------------------------------------------
\* Pages on which everything stands above the footer and no heading is torn from
\* its first line: none is open, or one is, on this page.
Sound  == {s \in PageState : s.low > FooterTop /\ ~s.torn}
Free(lo)   == {s \in Sound : s.y >= lo /\ s.opened = 0}
Headed(lo) == {s \in Sound : s.y >= lo /\ s.opened \in {0, s.page}}

\* Room for one more row is left below an open heading.
Clear == Free(32) \cup Headed(78)

LEMMA PutOne ==
  ASSUME NEW S, NEW T, NEW m \in Marks,
         \A s \in S : Put(m)[s] \in T
  PROVE  <<m>> \in Seq(Marks) /\ Leads(S, <<m>>, T)
  <1>1. <<m>> \in Seq(Marks) /\ Len(<<m>>) = 1 /\ <<m>>[1] = m
    OBVIOUS
  <1>2. ASSUME NEW s \in S, NEW g, Marked(g, s, <<m>>) PROVE g[1] \in T
    <2>1. g[0] = s /\ g[1] = Put(m)[g[0]]
      BY <1>1, <1>2 DEF Marked
    <2> QED
      BY <2>1
  <1> QED
    BY <1>1, <1>2 DEF Leads

LEMMA PutTwo ==
  ASSUME NEW S, NEW T, NEW U, NEW a \in Marks, NEW b \in Marks,
         \A s \in S : Put(a)[s] \in T, \A s \in T : Put(b)[s] \in U
  PROVE  <<a, b>> \in Seq(Marks) /\ Leads(S, <<a, b>>, U)
  <1>1. /\ <<a, b>> \in Seq(Marks) /\ Len(<<a, b>>) = 2
        /\ <<a, b>>[1] = a /\ <<a, b>>[2] = b
    OBVIOUS
  <1>2. ASSUME NEW s \in S, NEW g, Marked(g, s, <<a, b>>) PROVE g[2] \in U
    <2>1. g[0] = s /\ g[1] = Put(a)[g[0]] /\ g[2] = Put(b)[g[1]]
      BY <1>1, <1>2 DEF Marked
    <2> QED
      BY <2>1
  <1> QED
    BY <1>1, <1>2 DEF Leads

LEMMA PutFour ==
  ASSUME NEW S, NEW T, NEW U, NEW V, NEW W,
         NEW a \in Marks, NEW b \in Marks, NEW c \in Marks, NEW d \in Marks,
         \A s \in S : Put(a)[s] \in T, \A s \in T : Put(b)[s] \in U,
         \A s \in U : Put(c)[s] \in V, \A s \in V : Put(d)[s] \in W
  PROVE  <<a, b, c, d>> \in Seq(Marks) /\ Leads(S, <<a, b, c, d>>, W)
  <1> DEFINE block == <<a, b, c, d>>
  <1>1. /\ block \in Seq(Marks) /\ Len(block) = 4
        /\ block[1] = a /\ block[2] = b /\ block[3] = c /\ block[4] = d
    OBVIOUS
  <1> HIDE DEF block
  <1>2. ASSUME NEW s \in S, NEW g, Marked(g, s, block) PROVE g[4] \in W
    <2>1. g[0] = s /\ g[1] = Put(a)[g[0]] /\ g[2] = Put(b)[g[1]]
      BY <1>1, <1>2 DEF Marked
    <2>2. g[3] = Put(c)[g[2]] /\ g[4] = Put(d)[g[3]]
      BY <1>1, <1>2 DEF Marked
    <2> QED
      BY <2>1, <2>2
  <1>3. Leads(S, block, W)
    BY <1>1, <1>2 DEF Leads
  <1> QED
    BY <1>1, <1>3 DEF block

\* What each mark does to such pages.
LEMMA PutText ==
  ASSUME NEW lo \in Int, lo > FooterTop, NEW d \in Int
  PROVE  Text(d) \in Marks /\ \A s \in Headed(lo) : Put(Text(d))[s] \in Free(lo - d)
  <1>1. Text(d) \in Marks /\ Text(d).kind = "text" /\ Text(d).by = d
    BY DEF Text, Marks
  <1>2. ASSUME NEW s \in Headed(lo) PROVE Put(Text(d))[s] \in Free(lo - d)
    <2>1. /\ s \in PageState /\ s.low > FooterTop /\ ~s.torn
          /\ s.y >= lo /\ s.opened \in {0, s.page}
      BY DEF Headed, Sound
    <2>2. Put(Text(d))[s] = Draw(s, Text(d))
      BY <1>1, <2>1 DEF Put
    <2>3. Put(Text(d))[s] \in PageState
      BY <1>1, <2>1, PutType
    <2>4. /\ Draw(s, Text(d)).y = s.y - d
          /\ Draw(s, Text(d)).low = IF s.y < s.low THEN s.y ELSE s.low
          /\ Draw(s, Text(d)).opened = 0
          /\ Draw(s, Text(d)).torn = FALSE
      BY <1>1, <2>1 DEF Draw, PageState
    <2>5. s.y \in Int /\ s.low \in Int /\ FooterTop \in Int
      BY <2>1 DEF PageState, FooterTop
    <2> QED
      BY <2>1, <2>2, <2>3, <2>4, <2>5 DEF Free, Sound
  <1> QED
    BY <1>1, <1>2

LEMMA PutHeading ==
  ASSUME NEW lo \in Int, lo > FooterTop, NEW d \in Int
  PROVE  Heading(d) \in Marks /\
         \A s \in Free(lo) : Put(Heading(d))[s] \in Headed(lo - d)
  <1>1. Heading(d) \in Marks /\ Heading(d).kind = "head" /\ Heading(d).by = d
    BY DEF Heading, Marks
  <1>2. ASSUME NEW s \in Free(lo) PROVE Put(Heading(d))[s] \in Headed(lo - d)
    <2>1. s \in PageState /\ s.low > FooterTop /\ ~s.torn /\ s.y >= lo
      BY DEF Free, Sound
    <2>2. Put(Heading(d))[s] = Draw(s, Heading(d))
      BY <1>1, <2>1 DEF Put
    <2>3. Put(Heading(d))[s] \in PageState
      BY <1>1, <2>1, PutType
    <2>4. /\ Draw(s, Heading(d)).y = s.y - d
          /\ Draw(s, Heading(d)).low = IF s.y < s.low THEN s.y ELSE s.low
          /\ Draw(s, Heading(d)).opened = s.page
          /\ Draw(s, Heading(d)).page = s.page
          /\ Draw(s, Heading(d)).torn = FALSE
      BY <1>1, <2>1 DEF Draw, PageState
    <2>5. s.y \in Int /\ s.low \in Int /\ FooterTop \in Int
      BY <2>1 DEF PageState, FooterTop
    <2> QED
      BY <2>1, <2>2, <2>3, <2>4, <2>5 DEF Headed, Sound
  <1> QED
    BY <1>1, <1>2

LEMMA PutRule ==
  ASSUME NEW lo \in Int, lo > FooterTop, NEW m \in Marks, m.kind = "rule"
  PROVE  \A s \in Free(lo) : Put(m)[s] \in Free(lo - m.by)
  <1>2. ASSUME NEW s \in Free(lo) PROVE Put(m)[s] \in Free(lo - m.by)
    <2>1. /\ s \in PageState /\ s.low > FooterTop /\ ~s.torn /\ s.y >= lo
          /\ s.opened = 0
      BY DEF Free, Sound
    <2>2. Put(m)[s] = Draw(s, m)
      BY <2>1 DEF Put
    <2>3. Put(m)[s] \in PageState
      BY <2>1, PutType
    <2>4. /\ Draw(s, m).y = s.y - m.by
          /\ Draw(s, m).low = IF s.y < s.low THEN s.y ELSE s.low
          /\ Draw(s, m).opened = 0
          /\ Draw(s, m).torn = FALSE
      BY <2>1 DEF Draw, PageState
    <2>5. s.y \in Int /\ s.low \in Int /\ FooterTop \in Int /\ m.by \in Int
      BY <2>1 DEF PageState, FooterTop, Marks
    <2> QED
      BY <2>1, <2>2, <2>3, <2>4, <2>5 DEF Free, Sound
  <1> QED
    BY <1>2

LEMMA PutGap ==
  ASSUME NEW lo \in Int, NEW d \in Int
  PROVE  Gap(d) \in Marks /\ \A s \in Free(lo) : Put(Gap(d))[s] \in Free(lo - d)
  <1>1. Gap(d) \in Marks /\ Gap(d).kind = "gap" /\ Gap(d).by = d
    BY DEF Gap, Marks
  <1>2. ASSUME NEW s \in Free(lo) PROVE Put(Gap(d))[s] \in Free(lo - d)
    <2>1. /\ s \in PageState /\ s.low > FooterTop /\ ~s.torn /\ s.y >= lo
          /\ s.opened = 0
      BY DEF Free, Sound
    <2>2. Put(Gap(d))[s] = [s EXCEPT !.y = s.y - d]
      BY <1>1, <2>1 DEF Put
    <2>3. Put(Gap(d))[s] \in PageState
      BY <1>1, <2>1, PutType
    <2>4. /\ Put(Gap(d))[s].y = s.y - d
          /\ Put(Gap(d))[s].low = s.low
          /\ Put(Gap(d))[s].opened = 0
          /\ Put(Gap(d))[s].torn = s.torn
      BY <2>1, <2>2 DEF PageState
    <2>5. s.y \in Int /\ s.low \in Int
      BY <2>1 DEF PageState
    <2> QED
      BY <2>1, <2>3, <2>4, <2>5 DEF Free, Sound
  <1> QED
    BY <1>1, <1>2

\* No more room is ever asked for than an empty page has.
LEMMA PutNeed ==
  ASSUME NEW lo \in Int, NEW room \in 0..120
  PROVE  /\ Need(room) \in Marks
         /\ \A s \in Free(lo) : Put(Need(room))[s] \in Free(60 + room)
  <1>1. Need(room) \in Marks /\ Need(room).kind = "need" /\ Need(room).by = room
    BY DEF Need, Marks
  <1>2. ASSUME NEW s \in Free(lo) PROVE Put(Need(room))[s] \in Free(60 + room)
    <2>1. /\ s \in PageState /\ s.low > FooterTop /\ ~s.torn /\ s.opened = 0
      BY DEF Free, Sound
    <2>2. Put(Need(room))[s] = EnsureSpace(s, room)
      BY <1>1, <2>1 DEF Put
    <2>3. Put(Need(room))[s] \in PageState
      BY <1>1, <2>1, PutType
    <2>4. s.y \in Int
      BY <2>1 DEF PageState
    <2>5. CASE LeavesRoom(s.y, room)
      <3>1. s.y >= 60 + room /\ EnsureSpace(s, room) = s
        BY <2>4, <2>5 DEF LeavesRoom, Bottom, EnsureSpace
      <3> QED
        BY <3>1, <2>1, <2>2 DEF Free, Sound
    <2>6. CASE ~LeavesRoom(s.y, room)
      <3>1. /\ EnsureSpace(s, room).y = 732 /\ EnsureSpace(s, room).low = s.low
            /\ EnsureSpace(s, room).opened = 0 /\ EnsureSpace(s, room).torn = s.torn
        BY <2>1, <2>6 DEF EnsureSpace, PageTop, PageState
      <3> QED
        BY <3>1, <2>1, <2>2, <2>3 DEF Free, Sound
    <2> QED
      BY <2>5, <2>6
  <1> QED
    BY <1>1, <1>2

\* A row stays on the page of the heading above it.
LEMMA PutNeedRow ==
  ASSUME NEW room \in 0..18
  PROVE  \A s \in Clear : Put(Need(room))[s] \in Headed(60 + room)
  <1>1. /\ Need(room) \in Marks /\ Need(room).kind = "need" /\ Need(room).by = room
        /\ room \in Int /\ room <= 18
    BY DEF Need, Marks
  <1>2. ASSUME NEW s \in Free(32) PROVE Put(Need(room))[s] \in Headed(60 + room)
    <2>1. 32 \in Int /\ room \in 0..120
      OBVIOUS
    <2>2. Put(Need(room))[s] \in Free(60 + room)
      BY <2>1, <1>2, PutNeed
    <2> QED
      BY <2>2 DEF Free, Headed
  <1>3. ASSUME NEW s \in Headed(78) PROVE Put(Need(room))[s] \in Headed(60 + room)
    <2>1. /\ s \in PageState /\ s.y >= 78 /\ s \in Sound /\ s.opened \in {0, s.page}
      BY DEF Headed, Sound
    <2>2. Put(Need(room))[s] = EnsureSpace(s, room)
      BY <1>1, <2>1 DEF Put
    <2>3. s.y \in Int
      BY <2>1 DEF PageState
    <2>4. LeavesRoom(s.y, room) /\ s.y >= 60 + room
      BY <1>1, <2>1, <2>3 DEF LeavesRoom, Bottom
    <2>5. EnsureSpace(s, room) = s
      BY <2>4 DEF EnsureSpace
    <2> QED
      BY <2>1, <2>2, <2>4, <2>5 DEF Headed
  <1> QED
    BY <1>2, <1>3 DEF Clear

\* What is asked of a page may be lowered.
LEMMA Lower ==
  ASSUME NEW a \in Int, NEW b \in Int, b <= a
  PROVE  /\ Free(a) \subseteq Free(b) /\ Headed(a) \subseteq Headed(b)
         /\ Free(a) \subseteq Headed(b)
  <1>1. \A s \in PageState : s.y \in Int
    BY DEF PageState
  <1> QED
    BY <1>1 DEF Free, Headed, Sound

LEMMA LeadsWithin ==
  ASSUME NEW S, NEW T, NEW b, Leads(S, b, T), NEW S1, S1 \subseteq S,
         NEW T1, T \subseteq T1
  PROVE  Leads(S1, b, T1)
  BY DEF Leads

LEMMA LaysWithin ==
  ASSUME NEW S, NEW T, NEW b, Lays(S, b, T), NEW S1, S1 \subseteq S,
         NEW T1, T \subseteq T1
  PROVE  Lays(S1, b, T1)
  BY DEF Lays

LEMMA ClearIs ==
  /\ Clear \subseteq PageState
  /\ \A a \in Int : a >= 32 => Free(a) \subseteq Clear
  /\ \A a \in Int : a >= 78 => Headed(a) \subseteq Clear
  <1>1. Clear \subseteq PageState
    BY DEF Clear, Free, Headed, Sound
  <1>2. 32 \in Int /\ 78 \in Int
    OBVIOUS
  <1>3. ASSUME NEW a \in Int, a >= 32 PROVE Free(a) \subseteq Clear
    <2>1. Free(a) \subseteq Free(32)
      BY <1>2, <1>3, Lower
    <2> QED
      BY <2>1 DEF Clear
  <1>4. ASSUME NEW a \in Int, a >= 78 PROVE Headed(a) \subseteq Clear
    <2>1. Headed(a) \subseteq Headed(78)
      BY <1>2, <1>4, Lower
    <2> QED
      BY <2>1 DEF Clear
  <1> QED
    BY <1>1, <1>3, <1>4

\* The blocks that the certificate is made of.
LEMMA LineFits ==
  ASSUME NEW d \in 0..18
  PROVE  /\ <<Need(d), Text(d)>> \in Seq(Marks)
         /\ Leads(Clear, <<Need(d), Text(d)>>, Free(60))
  <1>1. Need(d) \in Marks /\ \A s \in Clear : Put(Need(d))[s] \in Headed(60 + d)
    BY PutNeedRow DEF Need, Marks
  <1>2. 60 + d \in Int /\ 60 + d > FooterTop /\ d \in Int /\ (60 + d) - d = 60
    BY DEF FooterTop
  <1>3. Text(d) \in Marks /\ \A s \in Headed(60 + d) : Put(Text(d))[s] \in Free(60)
    <2> DEFINE lo == 60 + d
    <2>1. lo \in Int /\ lo > FooterTop /\ d \in Int /\ lo - d = 60
      BY <1>2
    <2> HIDE DEF lo
    <2>2. Text(d) \in Marks /\ \A s \in Headed(lo) : Put(Text(d))[s] \in Free(lo - d)
      BY <2>1, PutText
    <2> QED
      BY <2>1, <2>2 DEF lo
  <1> QED
    BY <1>1, <1>3, PutTwo

LEMMA RowFits ==
  DrawRow \in Seq(Marks) /\ Leads(Clear, DrawRow, Free(60))
  <1>1. 18 \in 0..18 /\ DrawRow = <<Need(18), Text(18)>>
    BY DEF DrawRow, LineHeight
  <1> QED
    BY <1>1, LineFits

LEMMA BlankFits ==
  /\ <<Need(LineHeight), Gap(6)>> \in Seq(Marks)
  /\ Leads(Free(54), <<Need(LineHeight), Gap(6)>>, Free(54))
  <1>1. 14 \in 0..120 /\ 54 \in Int /\ 74 \in Int /\ 6 \in Int /\ 68 \in Int
        /\ 60 + 14 = 74 /\ 74 - 6 = 68 /\ LineHeight = 14
    BY DEF LineHeight
  <1>2. Need(14) \in Marks /\ \A s \in Free(54) : Put(Need(14))[s] \in Free(60 + 14)
    BY <1>1, PutNeed
  <1>3. Gap(6) \in Marks /\ \A s \in Free(74) : Put(Gap(6))[s] \in Free(74 - 6)
    BY <1>1, PutGap
  <1>4. Free(68) \subseteq Free(54)
    BY <1>1, Lower
  <1>5. /\ \A s \in Free(54) : Put(Need(14))[s] \in Free(74)
        /\ \A s \in Free(74) : Put(Gap(6))[s] \in Free(54)
    BY <1>1, <1>2, <1>3, <1>4
  <1> QED
    BY <1>1, <1>2, <1>3, <1>5, PutTwo

LEMMA SectionFits ==
  ASSUME NEW room \in 60..120
  PROVE  Section(room) \in Seq(Marks) /\ Leads(Free(32), Section(room), Clear)
  <1> DEFINE lo == 60 + room
  <1>1. /\ lo \in Int /\ lo > FooterTop /\ lo - 20 \in Int /\ lo - 20 >= 78
        /\ room \in 0..120 /\ 32 \in Int /\ 20 \in Int
    BY DEF FooterTop
  <1>2. Need(room) \in Marks /\ \A s \in Free(32) : Put(Need(room))[s] \in Free(lo)
    BY <1>1, PutNeed
  <1> HIDE DEF lo
  <1>3. /\ Heading(20) \in Marks
        /\ \A s \in Free(lo) : Put(Heading(20))[s] \in Headed(lo - 20)
    BY <1>1, PutHeading
  <1>4. Headed(lo - 20) \subseteq Clear
    BY <1>1, ClearIs
  <1>5. \A s \in Free(lo) : Put(Heading(20))[s] \in Clear
    BY <1>3, <1>4
  <1> QED
    BY <1>2, <1>3, <1>5, PutTwo DEF Section

LEMMA EndFits ==
  EndOfSection \in Seq(Marks) /\ Leads(Free(52), EndOfSection, Free(32))
  <1>1. 52 \in Int /\ 44 \in Int /\ 8 \in Int /\ 44 > FooterTop /\ 52 - 8 = 44
        /\ 44 - 12 = 32 /\ DrawRule \in Marks /\ DrawRule.kind = "rule"
        /\ DrawRule.by = 12
    BY DEF FooterTop, DrawRule, Marks
  <1>2. Gap(8) \in Marks /\ \A s \in Free(52) : Put(Gap(8))[s] \in Free(52 - 8)
    BY <1>1, PutGap
  <1>3. \A s \in Free(44) : Put(DrawRule)[s] \in Free(44 - 12)
    <2>1. \A s \in Free(44) : Put(DrawRule)[s] \in Free(44 - DrawRule.by)
      BY <1>1, PutRule
    <2> QED
      BY <1>1, <2>1
  <1>4. /\ \A s \in Free(52) : Put(Gap(8))[s] \in Free(44)
        /\ \A s \in Free(44) : Put(DrawRule)[s] \in Free(32)
    BY <1>1, <1>2, <1>3
  <1> QED
    BY <1>1, <1>2, <1>4, PutTwo DEF EndOfSection

LEMMA GapFits ==
  ASSUME NEW d \in 0..8
  PROVE  <<Gap(d)>> \in Seq(Marks) /\ Leads(Free(60), <<Gap(d)>>, Free(52))
  <1>1. 60 \in Int /\ d \in Int /\ 60 - d \in Int /\ 52 \in Int /\ 52 <= 60 - d
    OBVIOUS
  <1>2. Gap(d) \in Marks /\ \A s \in Free(60) : Put(Gap(d))[s] \in Free(60 - d)
    BY <1>1, PutGap
  <1>3. Free(60 - d) \subseteq Free(52)
    <2> DEFINE a == 60 - d
    <2>1. a \in Int /\ 52 \in Int /\ 52 <= a
      BY <1>1
    <2> HIDE DEF a
    <2>2. Free(a) \subseteq Free(52)
      BY <2>1, Lower
    <2> QED
      BY <2>2 DEF a
  <1>4. \A s \in Free(60) : Put(Gap(d))[s] \in Free(52)
    BY <1>2, <1>3
  <1> QED
    BY <1>2, <1>4, PutOne

LEMMA EntryFits ==
  Entry \in Seq(Marks) /\ Leads(Clear, Entry, Free(60))
  <1>1. /\ 16 \in 0..18 /\ 14 \in 0..120 /\ 64 \in Int /\ 74 \in Int /\ 76 \in Int
        /\ 12 \in Int /\ 14 \in Int /\ 60 + 16 = 76 /\ 76 - 12 = 64 /\ 60 + 14 = 74
        /\ 74 - 14 = 60 /\ 76 > FooterTop /\ 74 > FooterTop
        /\ Entry = <<Need(16), Text(12), Need(14), Text(14)>>
    BY DEF FooterTop, Entry, LineHeight
  <1>2. Need(16) \in Marks /\ \A s \in Clear : Put(Need(16))[s] \in Headed(60 + 16)
    BY <1>1, PutNeedRow DEF Need, Marks
  <1>3. Text(12) \in Marks /\ \A s \in Headed(76) : Put(Text(12))[s] \in Free(76 - 12)
    BY <1>1, PutText
  <1>4. Need(14) \in Marks /\ \A s \in Free(64) : Put(Need(14))[s] \in Free(60 + 14)
    BY <1>1, PutNeed
  <1>5. Text(14) \in Marks /\ \A s \in Headed(74) : Put(Text(14))[s] \in Free(74 - 14)
    BY <1>1, PutText
  <1>6. Free(74) \subseteq Headed(74)
    BY <1>1, Lower
  <1>7. /\ \A s \in Clear : Put(Need(16))[s] \in Headed(76)
        /\ \A s \in Headed(76) : Put(Text(12))[s] \in Free(64)
        /\ \A s \in Free(64) : Put(Need(14))[s] \in Free(74)
        /\ \A s \in Free(74) : Put(Text(14))[s] \in Free(60)
    BY <1>1, <1>2, <1>3, <1>4, <1>5, <1>6
  <1> DEFINE a == Need(16)
             b == Text(12)
             c == Need(14)
             d == Text(14)
             T == Headed(76)
             U == Free(64)
             V == Free(74)
             W == Free(60)
  <1>8. /\ a \in Marks /\ b \in Marks /\ c \in Marks /\ d \in Marks
        /\ \A s \in Clear : Put(a)[s] \in T
        /\ \A s \in T : Put(b)[s] \in U
        /\ \A s \in U : Put(c)[s] \in V
        /\ \A s \in V : Put(d)[s] \in W
    BY <1>2, <1>3, <1>4, <1>5, <1>7
  <1>9. Entry = <<a, b, c, d>>
    BY <1>1
  <1> HIDE DEF a, b, c, d, T, U, V, W
  <1>10. <<a, b, c, d>> \in Seq(Marks) /\ Leads(Clear, <<a, b, c, d>>, W)
    BY <1>8, PutFour
  <1> QED
    BY <1>9, <1>10 DEF W

LEMMA SignerFits ==
  SignerBlock \in Seq(Marks) /\ Leads(Free(32), SignerBlock, Free(52))
  <1> DEFINE a  == <<Need(100), Heading(22)>>
             r  == DrawRow
             e  == <<Gap(8)>>
             F32 == Free(32)
             F52 == Free(52)
             F60 == Free(60)
  <1>1. /\ 100 \in 0..120 /\ 160 \in Int /\ 138 \in Int /\ 22 \in Int /\ 32 \in Int
        /\ 160 > FooterTop /\ 160 - 22 = 138 /\ 60 + 100 = 160 /\ 8 \in 0..8
        /\ 60 \in Int /\ 138 >= 78 /\ 60 >= 32
    BY DEF FooterTop
  <1>2. Need(100) \in Marks /\ \A s \in Free(32) : Put(Need(100))[s] \in Free(60 + 100)
    BY <1>1, PutNeed
  <1>3. /\ Heading(22) \in Marks
        /\ \A s \in Free(160) : Put(Heading(22))[s] \in Headed(160 - 22)
    BY <1>1, PutHeading
  <1>4. Headed(138) \subseteq Clear /\ F60 \subseteq Clear
    BY <1>1, ClearIs
  <1>5. /\ \A s \in Free(32) : Put(Need(100))[s] \in Free(160)
        /\ \A s \in Free(160) : Put(Heading(22))[s] \in Clear
    BY <1>1, <1>2, <1>3, <1>4
  <1>6. a \in Seq(Marks) /\ Leads(F32, a, Clear)
    BY <1>2, <1>3, <1>5, PutTwo
  <1>7. r \in Seq(Marks) /\ Leads(Clear, r, F60)
    BY RowFits
  <1>8. e \in Seq(Marks) /\ Leads(F60, e, F52)
    BY <1>1, GapFits
  <1>9. SignerBlock = a \o r \o r \o r \o r \o r \o e
    BY DEF SignerBlock
  <1> HIDE DEF a, r, e, F32, F52, F60
  <1>10. Leads(Clear, r, Clear)
    BY <1>4, <1>7, LeadsWithin
  <1>11. a \o r \in Seq(Marks) /\ Leads(F32, a \o r, Clear)
    BY <1>6, <1>7, <1>10, LeadsConcat
  <1>12. a \o r \o r \in Seq(Marks) /\ Leads(F32, a \o r \o r, Clear)
    BY <1>7, <1>10, <1>11, LeadsConcat
  <1>13. a \o r \o r \o r \in Seq(Marks) /\ Leads(F32, a \o r \o r \o r, Clear)
    BY <1>7, <1>10, <1>12, LeadsConcat
  <1>14. /\ a \o r \o r \o r \o r \in Seq(Marks)
         /\ Leads(F32, a \o r \o r \o r \o r, Clear)
    BY <1>7, <1>10, <1>13, LeadsConcat
  <1>15. /\ a \o r \o r \o r \o r \o r \in Seq(Marks)
         /\ Leads(F32, a \o r \o r \o r \o r \o r, F60)
    BY <1>7, <1>14, LeadsConcat
  <1>16. /\ a \o r \o r \o r \o r \o r \o e \in Seq(Marks)
         /\ Leads(F32, a \o r \o r \o r \o r \o r \o e, F52)
    BY <1>8, <1>15, LeadsConcat
  <1> QED
    BY <1>9, <1>16 DEF F32, F52

LEMMA SeparatorFits ==
  Separator \in Seq(Marks) /\ Leads(Free(52), Separator, Free(32))
  <1> DEFINE rule == [DrawRule EXCEPT !.by = 8]
  <1>1. /\ 52 \in Int /\ 56 \in Int /\ -4 \in Int /\ 52 - (-4) = 56 /\ 56 - 8 = 48
        /\ 56 > FooterTop /\ 48 \in Int /\ 32 \in Int
        /\ rule \in Marks /\ rule.kind = "rule" /\ rule.by = 8
    BY DEF FooterTop, DrawRule, Marks
  <1>2. Gap(-4) \in Marks /\ \A s \in Free(52) : Put(Gap(-4))[s] \in Free(52 - (-4))
    BY <1>1, PutGap
  <1> HIDE DEF rule
  <1>3. \A s \in Free(56) : Put(rule)[s] \in Free(56 - 8)
    <2>1. \A s \in Free(56) : Put(rule)[s] \in Free(56 - rule.by)
      BY <1>1, PutRule
    <2> QED
      BY <1>1, <2>1
  <1>4. Free(48) \subseteq Free(32)
    BY <1>1, Lower
  <1>5. /\ \A s \in Free(52) : Put(Gap(-4))[s] \in Free(56)
        /\ \A s \in Free(56) : Put(rule)[s] \in Free(32)
    BY <1>1, <1>2, <1>3, <1>4
  <1>6. <<Gap(-4), rule>> \in Seq(Marks) /\ Leads(Free(52), <<Gap(-4), rule>>, Free(32))
    BY <1>1, <1>2, <1>5, PutTwo
  <1> QED
    BY <1>6 DEF Separator, rule

LEMMA OpeningFits ==
  /\ <<Need(40), Text(20)>> \in Seq(Marks)
  /\ Leads(Free(32), <<Need(40), Text(20)>>, Free(32))
  <1>1. /\ 40 \in 0..120 /\ 100 \in Int /\ 20 \in Int /\ 80 \in Int /\ 32 \in Int
        /\ 60 + 40 = 100 /\ 100 - 20 = 80 /\ 100 > FooterTop
    BY DEF FooterTop
  <1>2. Need(40) \in Marks /\ \A s \in Free(32) : Put(Need(40))[s] \in Free(60 + 40)
    BY <1>1, PutNeed
  <1>3. Text(20) \in Marks /\ \A s \in Headed(100) : Put(Text(20))[s] \in Free(100 - 20)
    BY <1>1, PutText
  <1>4. Free(100) \subseteq Headed(100) /\ Free(80) \subseteq Free(32)
    BY <1>1, Lower
  <1>5. /\ \A s \in Free(32) : Put(Need(40))[s] \in Free(100)
        /\ \A s \in Free(100) : Put(Text(20))[s] \in Free(32)
    BY <1>1, <1>2, <1>3, <1>4
  <1> QED
    BY <1>2, <1>3, <1>5, PutTwo

\* The first page, whose first block breaks none.
LEMMA TitleFits ==
  LET title == <<Text(24), Text(SectionGap), DrawRule, Heading(20)>>
  IN  /\ {FirstPage} \subseteq PageState
      /\ title \in Seq(Marks) /\ Leads({FirstPage}, title, Clear)
  <1> DEFINE a == Text(24)
             b == Text(SectionGap)
             c == DrawRule
             d == Heading(20)
             T == Free(708)
             U == Free(684)
             V == Free(672)
  <1>1. /\ 732 \in Int /\ 708 \in Int /\ 684 \in Int /\ 672 \in Int /\ 652 \in Int
        /\ 24 \in Int /\ 20 \in Int /\ 732 > FooterTop /\ 708 > FooterTop
        /\ 684 > FooterTop /\ 672 > FooterTop /\ 732 - 24 = 708 /\ 708 - 24 = 684
        /\ 684 - 12 = 672 /\ 672 - 20 = 652 /\ 652 >= 78 /\ SectionGap = 24
        /\ DrawRule \in Marks /\ DrawRule.kind = "rule" /\ DrawRule.by = 12
    BY DEF FooterTop, DrawRule, Marks, SectionGap
  <1>2. FirstPage \in PageState /\ FirstPage \in Headed(732)
    BY DEF FirstPage, PageState, PageTop, Headed, Sound, FooterTop
  <1>3. a \in Marks /\ \A s \in Headed(732) : Put(a)[s] \in Free(732 - 24)
    BY <1>1, PutText
  <1>4. Text(24) \in Marks /\ \A s \in Headed(708) : Put(Text(24))[s] \in Free(708 - 24)
    BY <1>1, PutText
  <1>5. \A s \in Free(684) : Put(c)[s] \in Free(684 - 12)
    <2>1. \A s \in Free(684) : Put(DrawRule)[s] \in Free(684 - DrawRule.by)
      BY <1>1, PutRule
    <2> QED
      BY <1>1, <2>1
  <1>6. d \in Marks /\ \A s \in Free(672) : Put(d)[s] \in Headed(672 - 20)
    BY <1>1, PutHeading
  <1>7. Free(708) \subseteq Headed(708) /\ Headed(652) \subseteq Clear
    BY <1>1, Lower, ClearIs
  <1>8. /\ a \in Marks /\ b \in Marks /\ c \in Marks /\ d \in Marks
        /\ \A s \in {FirstPage} : Put(a)[s] \in T
        /\ \A s \in T : Put(b)[s] \in U
        /\ \A s \in U : Put(c)[s] \in V
        /\ \A s \in V : Put(d)[s] \in Clear
    <2>1. a \in Marks /\ \A s \in {FirstPage} : Put(a)[s] \in T
      BY <1>1, <1>2, <1>3
    <2>2. b \in Marks /\ \A s \in T : Put(b)[s] \in U
      BY <1>1, <1>4, <1>7
    <2>3. c \in Marks /\ \A s \in U : Put(c)[s] \in V
      BY <1>1, <1>5
    <2>4. d \in Marks /\ \A s \in V : Put(d)[s] \in Clear
      BY <1>1, <1>6, <1>7
    <2> QED
      BY <2>1, <2>2, <2>3, <2>4
  <1> HIDE DEF a, b, c, d, T, U, V
  <1>9. <<a, b, c, d>> \in Seq(Marks) /\ Leads({FirstPage}, <<a, b, c, d>>, Clear)
    BY <1>8, PutFour
  <1> QED
    BY <1>2, <1>9 DEF a, b, c, d

LEMMA Spaces ==
  /\ Free(60) \subseteq Free(54) /\ Free(54) \subseteq Free(52)
  /\ Free(52) \subseteq Free(32) /\ Free(32) \subseteq Clear
  /\ Clear \subseteq PageState
  <1>1. 60 \in Int /\ 54 \in Int /\ 52 \in Int /\ 32 \in Int
    OBVIOUS
  <1> QED
    BY <1>1, Lower, ClearIs

-----------------------------------------------------------------------------
\* The sections, each from below the one before.
LEMMA HeaderFits ==
  Header \in Seq(Seq(Marks)) /\ Lays({FirstPage}, Header, Free(32))
  <1> DEFINE title == <<Text(24), Text(SectionGap), DrawRule, Heading(20)>>
             first == <<title>>
             given == Repeat(5, DrawRow)
             end   == <<EndOfSection>>
  <1>1. title \in Seq(Marks) /\ Leads({FirstPage}, title, Clear) /\ {FirstPage} \subseteq PageState
    BY TitleFits
  <1>2. first \in Seq(Seq(Marks)) /\ Lays({FirstPage}, first, Clear)
    <2> HIDE DEF title
    <2> QED
      BY <1>1, LaysOne
  <1>3. given \in Seq(Seq(Marks)) /\ Lays(Clear, given, Free(52))
    <2>1. /\ 5 \in Nat /\ 5 # 0 /\ Clear \subseteq PageState
          /\ Free(60) \subseteq Clear /\ Free(60) \subseteq Free(52)
      BY Spaces
    <2> DEFINE T == Free(60)
               r == DrawRow
               n == 5
    <2>2. r \in Seq(Marks) /\ Leads(Clear, r, T) /\ T \subseteq Clear /\ n \in Nat
      BY <2>1, RowFits
    <2> HIDE DEF T, r, n
    <2>3. /\ Repeat(n, r) \in Seq(Seq(Marks))
          /\ Lays(Clear, Repeat(n, r), IF n = 0 THEN Clear ELSE T)
      BY <2>1, <2>2, LaysRepeat
    <2>4. (IF n = 0 THEN Clear ELSE T) = T
      BY DEF n
    <2> QED
      BY <2>1, <2>3, <2>4, LaysWithin DEF T, r, n
  <1>4. end \in Seq(Seq(Marks)) /\ Lays(Free(52), end, Free(32))
    <2>1. Free(52) \subseteq PageState
      BY Spaces
    <2> QED
      BY <2>1, EndFits, LaysOne
  <1> DEFINE F32 == Free(32)
             F52 == Free(52)
  <1> HIDE DEF first, given, end, F32, F52
  <1>7. /\ given \in Seq(Seq(Marks)) /\ Lays(Clear, given, F52)
        /\ end \in Seq(Seq(Marks)) /\ Lays(F52, end, F32)
    BY <1>3, <1>4 DEF F32, F52
  <1>5. first \o given \in Seq(Seq(Marks)) /\ Lays({FirstPage}, first \o given, F52)
    BY <1>2, <1>7, LaysConcat
  <1>6. /\ first \o given \o end \in Seq(Seq(Marks))
        /\ Lays({FirstPage}, first \o given \o end, F32)
    BY <1>5, <1>7, LaysConcat
  <1> QED
    BY <1>6 DEF Header, first, given, end, F32

LEMMA SenderFits ==
  Sender \in Seq(Seq(Marks)) /\ Lays(Free(32), Sender, Free(32))
  <1> DEFINE a == Section(80)
             r == DrawRow
             e == EndOfSection
             bs == <<a, r, r, e>>
             X == [n \in 0..4 |-> CASE n = 0 -> Free(32) [] n = 1 -> Clear
                                    [] n = 2 -> Free(60) [] n = 3 -> Free(60)
                                    [] n = 4 -> Free(32)]
  <1>1. /\ X[0] = Free(32) /\ X[1] = Clear /\ X[2] = Free(60) /\ X[3] = Free(60)
        /\ X[4] = Free(32)
    OBVIOUS
  <1>2. a \in Seq(Marks) /\ Leads(Free(32), a, Clear)
    <2>1. 80 \in 60..120
      OBVIOUS
    <2> QED
      BY <2>1, SectionFits
  <1>3. r \in Seq(Marks) /\ Leads(Clear, r, Free(60)) /\ Leads(Free(60), r, Free(60))
    <2>1. Free(60) \subseteq Clear
      BY Spaces
    <2> QED
      BY <2>1, RowFits, LeadsWithin
  <1>4. e \in Seq(Marks) /\ Leads(Free(60), e, Free(32))
    <2>1. Free(60) \subseteq Free(52)
      BY Spaces
    <2> QED
      BY <2>1, EndFits, LeadsWithin
  <1> HIDE DEF a, r, e, X
  <1>5. bs \in Seq(Seq(Marks)) /\ Len(bs) = 4 /\ bs[1] = a /\ bs[2] = r /\ bs[3] = r /\ bs[4] = e
    BY <1>2, <1>3, <1>4
  <1> HIDE DEF bs
  <1>6. \A n \in 1..Len(bs) : Leads(X[n - 1], bs[n], X[n])
    <2>1. /\ Leads(X[1 - 1], bs[1], X[1]) /\ Leads(X[2 - 1], bs[2], X[2])
          /\ Leads(X[3 - 1], bs[3], X[3]) /\ Leads(X[4 - 1], bs[4], X[4])
      BY <1>1, <1>2, <1>3, <1>4, <1>5
    <2>2. \A n \in 1..Len(bs) : n = 1 \/ n = 2 \/ n = 3 \/ n = 4
      BY <1>5
    <2> QED
      BY <2>1, <2>2
  <1>7. X[0] \subseteq PageState
    BY <1>1, Spaces
  <1>8. Lays(X[0], bs, X[Len(bs)])
    BY <1>5, <1>6, <1>7, LaysBy
  <1> QED
    BY <1>1, <1>5, <1>8 DEF Sender, bs, a, r, e

LEMMA LaysTwo ==
  ASSUME NEW S, S \subseteq PageState, NEW T, NEW U, NEW a \in Seq(Marks),
         NEW b \in Seq(Marks), Leads(S, a, T), Leads(T, b, U)
  PROVE  <<a, b>> \in Seq(Seq(Marks)) /\ Lays(S, <<a, b>>, U)
  <1> DEFINE X == [n \in 0..2 |-> CASE n = 0 -> S [] n = 1 -> T [] n = 2 -> U]
             bs == <<a, b>>
  <1>1. bs \in Seq(Seq(Marks)) /\ Len(bs) = 2 /\ bs[1] = a /\ bs[2] = b
    OBVIOUS
  <1>2. X[0] = S /\ X[1] = T /\ X[2] = U
    OBVIOUS
  <1> HIDE DEF X, bs
  <1>3. \A n \in 1..Len(bs) : Leads(X[n - 1], bs[n], X[n])
    BY <1>1, <1>2
  <1>4. Lays(X[0], bs, X[Len(bs)])
    BY <1>1, <1>2, <1>3, LaysBy
  <1> QED
    BY <1>1, <1>2, <1>4 DEF bs

LEMMA SignersFit ==
  ASSUME NEW n \in Nat \ {0}
  PROVE  SignerDetails(n) \in Seq(Seq(Marks)) /\ Lays(Free(32), SignerDetails(n), Free(32))
  <1> DEFINE o == <<Need(40), Text(20)>>
             b == SignerBlock \o Separator
             first == <<o>>
             more == Repeat(n - 1, b)
             last == <<SignerBlock, EndOfSection>>
             S == Free(32)
             T == Free(52)
  <1>0. S \subseteq PageState
    BY Spaces
  <1>1. o \in Seq(Marks) /\ Leads(S, o, S)
    BY OpeningFits
  <1>2. b \in Seq(Marks) /\ Leads(S, b, S)
    <2>1. SignerBlock \in Seq(Marks) /\ Leads(S, SignerBlock, T)
      BY SignerFits
    <2>2. Separator \in Seq(Marks) /\ Leads(T, Separator, S)
      BY SeparatorFits
    <2> HIDE DEF S, T
    <2> QED
      BY <2>1, <2>2, LeadsConcat
  <1>3. first \in Seq(Seq(Marks)) /\ Lays(S, first, S)
    <2> HIDE DEF o, S
    <2> QED
      BY <1>0, <1>1, LaysOne
  <1>4. more \in Seq(Seq(Marks)) /\ Lays(S, more, S)
    <2> DEFINE k == n - 1
    <2>1. k \in Nat
      OBVIOUS
    <2> HIDE DEF b, S, k
    <2>2. /\ Repeat(k, b) \in Seq(Seq(Marks))
          /\ Lays(S, Repeat(k, b), IF k = 0 THEN S ELSE S)
      BY <1>0, <1>2, <2>1, LaysRepeat
    <2> QED
      BY <2>2 DEF k
  <1>5. last \in Seq(Seq(Marks)) /\ Lays(S, last, S)
    <2> DEFINE a == SignerBlock
               e == EndOfSection
    <2>1. a \in Seq(Marks) /\ Leads(S, a, T)
      BY SignerFits
    <2>2. e \in Seq(Marks) /\ Leads(T, e, S)
      BY EndFits
    <2> HIDE DEF a, e, S, T
    <2> QED
      BY <1>0, <2>1, <2>2, LaysTwo DEF a, e
  <1> HIDE DEF first, more, last, S
  <1>6. first \o more \in Seq(Seq(Marks)) /\ Lays(S, first \o more, S)
    BY <1>3, <1>4, LaysConcat
  <1>7. first \o more \o last \in Seq(Seq(Marks)) /\ Lays(S, first \o more \o last, S)
    BY <1>5, <1>6, LaysConcat
  <1> QED
    BY <1>7 DEF SignerDetails, first, more, last, S

LEMMA NoticeFits ==
  LegalNotice \in Seq(Seq(Marks)) /\ Lays(Free(32), LegalNotice, Free(54))
  <1> DEFINE a == Section(120)
             l == <<Need(LineHeight), Text(LineHeight)>>
             b == <<Need(LineHeight), Gap(6)>>
             bs == <<a, l, b, l, l, l, b, l, l, b, l, l, l>>
             F32 == Free(32)
             F54 == Free(54)
             X == [n \in 0..13 |-> IF n = 0 THEN F32 ELSE IF n = 1 THEN Clear ELSE F54]
  <1>1. X[0] = F32 /\ X[1] = Clear /\ \A n \in 2..13 : X[n] = F54
    OBVIOUS
  <1>2. a \in Seq(Marks) /\ Leads(F32, a, Clear)
    <2>1. 120 \in 60..120
      OBVIOUS
    <2> QED
      BY <2>1, SectionFits
  <1>3. l \in Seq(Marks) /\ Leads(Clear, l, F54) /\ Leads(F54, l, F54)
    <2>1. 14 \in 0..18 /\ LineHeight = 14
      BY DEF LineHeight
    <2>2. l \in Seq(Marks) /\ Leads(Clear, l, Free(60))
      BY <2>1, LineFits
    <2> QED
      BY <2>2, Spaces, LeadsWithin
  <1>4. b \in Seq(Marks) /\ Leads(F54, b, F54)
    BY BlankFits
  <1>5. F32 \subseteq PageState
    BY Spaces
  <1> HIDE DEF a, l, b, X, F32, F54
  <1>6. /\ bs \in Seq(Seq(Marks)) /\ Len(bs) = 13 /\ bs[1] = a /\ bs[2] = l
        /\ \A n \in 3..13 : bs[n] \in {l, b}
    <2>1. Len(bs) = 13 /\ bs[1] = a /\ bs[2] = l
      OBVIOUS
    <2>2. \A n \in 3..13 : bs[n] \in {l, b}
      OBVIOUS
    <2>3. bs \in Seq(Seq(Marks))
      BY <1>2, <1>3, <1>4
    <2> QED
      BY <2>1, <2>2, <2>3
  <1> HIDE DEF bs
  <1>7. ASSUME NEW n \in 1..Len(bs) PROVE Leads(X[n - 1], bs[n], X[n])
    <2>1. CASE n = 1
      BY <2>1, <1>1, <1>2, <1>6
    <2>2. CASE n = 2
      BY <2>2, <1>1, <1>3, <1>6
    <2>3. CASE n \notin {1, 2}
      <3>1. n \in 3..13 /\ n - 1 \in 2..13 /\ n \in 2..13
        BY <2>3, <1>6
      <3>2. X[n - 1] = F54 /\ X[n] = F54 /\ bs[n] \in {l, b}
        BY <3>1, <1>1, <1>6
      <3> QED
        BY <3>2, <1>3, <1>4
    <2> QED
      BY <2>1, <2>2, <2>3
  <1>8. Lays(X[0], bs, X[Len(bs)])
    BY <1>1, <1>5, <1>6, <1>7, LaysBy
  <1>9. X[Len(bs)] = F54
    BY <1>1, <1>6
  <1>10. LegalNotice = bs
    BY DEF LegalNotice, a, l, b, bs
  <1> QED
    BY <1>1, <1>6, <1>8, <1>9, <1>10 DEF F32, F54

LEMMA LaysNothing ==
  ASSUME NEW S, S \subseteq PageState
  PROVE  <<>> \in Seq(Seq(Marks)) /\ Lays(S, <<>>, S)
  <1>1. <<>> \in Seq(Seq(Marks)) /\ Len(<<>>) = 0
    OBVIOUS
  <1> QED
    BY <1>1 DEF Lays, Laid

\* The end of a section and the heading of the next.
LEMMA NextFits ==
  ASSUME NEW room \in 60..120
  PROVE  /\ <<EndOfSection, Section(room)>> \in Seq(Seq(Marks))
         /\ Lays(Free(54), <<EndOfSection, Section(room)>>, Clear)
  <1> DEFINE a == EndOfSection
             b == Section(room)
             S == Free(54)
             T == Free(32)
  <1>1. S \subseteq PageState /\ S \subseteq Free(52)
    BY Spaces
  <1>2. a \in Seq(Marks) /\ Leads(S, a, T)
    BY <1>1, EndFits, LeadsWithin
  <1>3. b \in Seq(Marks) /\ Leads(T, b, Clear)
    BY SectionFits
  <1> HIDE DEF a, b, S, T
  <1>4. <<a, b>> \in Seq(Seq(Marks)) /\ Lays(S, <<a, b>>, Clear)
    BY <1>1, <1>2, <1>3, LaysTwo
  <1> QED
    BY <1>4 DEF a, b, S

\* Rows or lines below an open heading, at least one.
LEMMA ManyFit ==
  ASSUME NEW b \in Seq(Marks), Leads(Clear, b, Free(60)), NEW n \in Nat \ {0}
  PROVE  Repeat(n, b) \in Seq(Seq(Marks)) /\ Lays(Clear, Repeat(n, b), Free(60))
  <1> DEFINE T == Free(60)
  <1>1. Clear \subseteq PageState /\ T \subseteq Clear
    BY Spaces
  <1>2. Leads(Clear, b, T) /\ n \in Nat
    OBVIOUS
  <1> HIDE DEF T
  <1>3. /\ Repeat(n, b) \in Seq(Seq(Marks))
        /\ Lays(Clear, Repeat(n, b), IF n = 0 THEN Clear ELSE T)
    BY <1>1, <1>2, LaysRepeat
  <1>4. (IF n = 0 THEN Clear ELSE T) = T
    OBVIOUS
  <1> QED
    BY <1>3, <1>4 DEF T

LEMMA GapsFit ==
  ASSUME NEW d \in 0..6
  PROVE  <<<<Gap(d)>>>> \in Seq(Seq(Marks)) /\ Lays(Free(60), <<<<Gap(d)>>>>, Clear)
  <1> DEFINE b == <<Gap(d)>>
             S == Free(60)
  <1>1. d \in 0..8 /\ S \subseteq PageState /\ Free(52) \subseteq Clear
    BY Spaces
  <1>2. b \in Seq(Marks) /\ Leads(S, b, Clear)
    BY <1>1, GapFits, LeadsWithin
  <1> HIDE DEF b, S
  <1>3. <<b>> \in Seq(Seq(Marks)) /\ Lays(S, <<b>>, Clear)
    BY <1>1, <1>2, LaysOne
  <1> QED
    BY <1>3 DEF b, S

LEMMA LinesFit ==
  ASSUME NEW n \in Nat \ {0}
  PROVE  LET lines == Repeat(n, <<Need(LineHeight), Text(LineHeight)>>)
         IN  lines \in Seq(Seq(Marks)) /\ Lays(Clear, lines, Free(60))
  <1>1. 14 \in 0..18 /\ LineHeight = 14
    BY DEF LineHeight
  <1> DEFINE l == <<Need(LineHeight), Text(LineHeight)>>
  <1>2. l \in Seq(Marks) /\ Leads(Clear, l, Free(60))
    BY <1>1, LineFits
  <1> HIDE DEF l
  <1>3. Repeat(n, l) \in Seq(Seq(Marks)) /\ Lays(Clear, Repeat(n, l), Free(60))
    BY <1>2, ManyFit
  <1> QED
    BY <1>3 DEF l

LEMMA SignatureFits ==
  ASSUME NEW profile
  PROVE  /\ DigitalSignature(profile) \in Seq(Seq(Marks))
         /\ Lays(Free(54), DigitalSignature(profile), Free(54))
  <1>1. CASE profile = "unsigned"
    <2> DEFINE S == Free(54)
    <2>1. S \subseteq PageState
      BY Spaces
    <2> HIDE DEF S
    <2>2. <<>> \in Seq(Seq(Marks)) /\ Lays(S, <<>>, S)
      BY <2>1, LaysNothing
    <2> QED
      BY <1>1, <2>2 DEF DigitalSignature, S
  <1>2. CASE profile # "unsigned"
    <2> DEFINE a == <<EndOfSection, Section(80)>>
               b == Repeat(2, <<Need(LineHeight), Text(LineHeight)>>)
               c == <<<<Gap(6)>>>>
               k == IF profile = "CAdES-T" THEN 2 ELSE 1
               d == Repeat(k, DrawRow)
               F54 == Free(54)
               F60 == Free(60)
    <2>0. 80 \in 60..120 /\ 6 \in 0..6 /\ 2 \in Nat \ {0} /\ k \in Nat \ {0}
      OBVIOUS
    <2>1. a \in Seq(Seq(Marks)) /\ Lays(F54, a, Clear)
      BY <2>0, NextFits
    <2>2. b \in Seq(Seq(Marks)) /\ Lays(Clear, b, F60)
      BY <2>0, LinesFit
    <2>3. c \in Seq(Seq(Marks)) /\ Lays(F60, c, Clear)
      BY <2>0, GapsFit
    <2>4. d \in Seq(Seq(Marks)) /\ Lays(Clear, d, F54)
      <3> HIDE DEF k
      <3>1. DrawRow \in Seq(Marks) /\ Leads(Clear, DrawRow, Free(60))
        BY RowFits
      <3>2. Repeat(k, DrawRow) \in Seq(Seq(Marks)) /\ Lays(Clear, Repeat(k, DrawRow), Free(60))
        BY <2>0, <3>1, ManyFit
      <3>3. Free(60) \subseteq Free(54)
        BY Spaces
      <3> QED
        BY <3>2, <3>3, LaysWithin
    <2>5. DigitalSignature(profile) = a \o b \o c \o d
      BY <1>2 DEF DigitalSignature
    <2> HIDE DEF a, b, c, d, F54, F60
    <2>6. a \o b \in Seq(Seq(Marks)) /\ Lays(F54, a \o b, F60)
      BY <2>1, <2>2, LaysConcat
    <2>7. a \o b \o c \in Seq(Seq(Marks)) /\ Lays(F54, a \o b \o c, Clear)
      BY <2>3, <2>6, LaysConcat
    <2>8. a \o b \o c \o d \in Seq(Seq(Marks)) /\ Lays(F54, a \o b \o c \o d, F54)
      BY <2>4, <2>7, LaysConcat
    <2> QED
      BY <2>5, <2>8 DEF F54
  <1> QED
    BY <1>1, <1>2

LEMMA TrailFits ==
  ASSUME NEW n \in Nat, NEW hasHead
  PROVE  /\ AuditTrail(n, hasHead) \in Seq(Seq(Marks))
         /\ Lays(Free(54), AuditTrail(n, hasHead), Sound)
  <1> DEFINE F54 == Free(54)
             F60 == Free(60)
             Ended == Sound
  <1>0. /\ F54 \subseteq PageState /\ F54 \subseteq Ended /\ F60 \subseteq Ended
        /\ F60 \subseteq PageState
    BY Spaces DEF Free, Sound
  <1>1. CASE n = 0
    <2> HIDE DEF F54, Ended
    <2>1. <<>> \in Seq(Seq(Marks)) /\ Lays(F54, <<>>, F54)
      BY <1>0, LaysNothing
    <2>2. Lays(F54, <<>>, Ended)
      BY <1>0, <2>1, LaysWithin
    <2> QED
      BY <1>1, <2>1, <2>2 DEF AuditTrail, F54, Ended
  <1>2. CASE n # 0
    <2> DEFINE a == <<EndOfSection, Section(60)>>
               b == Repeat(n, Entry)
               c == <<<<Gap(4)>>>>
               d == Repeat(2, <<Need(LineHeight), Text(LineHeight)>>)
               e == IF ~hasHead THEN <<>> ELSE c \o d
    <2>0. 60 \in 60..120 /\ 4 \in 0..6 /\ 2 \in Nat \ {0} /\ n \in Nat \ {0}
      BY <1>2
    <2>1. a \in Seq(Seq(Marks)) /\ Lays(F54, a, Clear)
      BY <2>0, NextFits
    <2>2. b \in Seq(Seq(Marks)) /\ Lays(Clear, b, F60)
      BY <2>0, EntryFits, ManyFit
    <2>3. c \in Seq(Seq(Marks)) /\ Lays(F60, c, Clear)
      BY <2>0, GapsFit
    <2>4. d \in Seq(Seq(Marks)) /\ Lays(Clear, d, F60)
      BY <2>0, LinesFit
    <2>5. AuditTrail(n, hasHead) = (a \o b) \o e
      BY <1>2 DEF AuditTrail
    <2> HIDE DEF a, b, c, d, F54, F60, Ended
    <2>6. e \in Seq(Seq(Marks)) /\ Lays(F60, e, F60)
      <3>1. CASE ~hasHead
        BY <3>1, <1>0, LaysNothing
      <3>2. CASE hasHead
        <4>1. c \o d \in Seq(Seq(Marks)) /\ Lays(F60, c \o d, F60)
          BY <2>3, <2>4, LaysConcat
        <4> QED
          BY <3>2, <4>1
      <3> QED
        BY <3>1, <3>2
    <2> HIDE DEF e
    <2>7. a \o b \in Seq(Seq(Marks)) /\ Lays(F54, a \o b, F60)
      BY <2>1, <2>2, LaysConcat
    <2>8. (a \o b) \o e \in Seq(Seq(Marks)) /\ Lays(F54, (a \o b) \o e, F60)
      BY <2>6, <2>7, LaysConcat
    <2>9. Lays(F54, (a \o b) \o e, Ended)
      BY <1>0, <2>8, LaysWithin
    <2> QED
      BY <2>5, <2>8, <2>9 DEF F54, Ended
  <1> QED
    BY <1>1, <1>2

\* However many signers, rows and signatures there are.
LEMMA LayoutFits ==
  ASSUME NEW signers \in Nat \ {0}, NEW lines \in Nat, NEW profile, NEW hasHead
  PROVE  /\ Layout(signers, lines, profile, hasHead).low > FooterTop
         /\ ~Layout(signers, lines, profile, hasHead).torn
  <1> DEFINE a == Header
             b == Sender
             c == SignerDetails(signers)
             d == LegalNotice
             e == DigitalSignature(profile)
             f == AuditTrail(lines, hasHead)
             F32 == Free(32)
             F54 == Free(54)
             Ended == Sound
             First == {FirstPage}
  <1>1. a \in Seq(Seq(Marks)) /\ Lays(First, a, F32)
    BY HeaderFits
  <1>2. b \in Seq(Seq(Marks)) /\ Lays(F32, b, F32)
    BY SenderFits
  <1>3. c \in Seq(Seq(Marks)) /\ Lays(F32, c, F32)
    BY SignersFit
  <1>4. d \in Seq(Seq(Marks)) /\ Lays(F32, d, F54)
    BY NoticeFits
  <1>5. e \in Seq(Seq(Marks)) /\ Lays(F54, e, F54)
    BY SignatureFits
  <1>6. f \in Seq(Seq(Marks)) /\ Lays(F54, f, Ended)
    BY TrailFits
  <1>7. Layout(signers, lines, profile, hasHead) = PutBlocks(a \o b \o c \o d \o e \o f)
    BY DEF Layout
  <1> HIDE DEF a, b, c, d, e, f, F32, F54, First
  <1>8. a \o b \in Seq(Seq(Marks)) /\ Lays(First, a \o b, F32)
    BY <1>1, <1>2, LaysConcat
  <1>9. a \o b \o c \in Seq(Seq(Marks)) /\ Lays(First, a \o b \o c, F32)
    BY <1>3, <1>8, LaysConcat
  <1>10. a \o b \o c \o d \in Seq(Seq(Marks)) /\ Lays(First, a \o b \o c \o d, F54)
    BY <1>4, <1>9, LaysConcat
  <1>11. /\ a \o b \o c \o d \o e \in Seq(Seq(Marks))
         /\ Lays(First, a \o b \o c \o d \o e, F54)
    BY <1>5, <1>10, LaysConcat
  <1> DEFINE all == a \o b \o c \o d \o e \o f
  <1>12. all \in Seq(Seq(Marks)) /\ Lays(First, all, Ended)
    <2> HIDE DEF Ended
    <2> QED
      BY <1>6, <1>11, LaysConcat
  <1> HIDE DEF all
  <1>13. PICK g : Laid(g, FirstPage, all) /\ PutBlocks(all) = g[Len(all)]
    BY <1>12, PutBlocksIs
  <1>14. PutBlocks(all) \in Ended
    BY <1>12, <1>13 DEF Lays, First
  <1> QED
    BY <1>7, <1>14 DEF all, Sound

-----------------------------------------------------------------------------
LEMMA EvidenceStep ==
  ASSUME \A e \in Entries : Stored[e] = e, EvidenceInv, [EvidenceNext]_evidenceVars
  PROVE  EvidenceInv'
  <1>1. ChainInv' /\ RowsEnd'
    BY StepOfChain, ChainNext, EndsNext DEF EvidenceInv
  <1>2. FilesHeld' /\ ObjectsHeld' /\ RolledHeld'
    BY FilesNext DEF EvidenceInv
  <1>3. ReportHeld' /\ CertificateHeld'
    BY ReportNext DEF EvidenceInv
  <1>4. MailHeld' /\ RowsHeld'
    BY MailNext DEF EvidenceInv, ChainInv
  <1>5. PageHeld'
    BY PageNext DEF EvidenceInv
  <1>6. QED
    BY <1>1, <1>2, <1>3, <1>4, <1>5 DEF EvidenceInv

\* While an envelope is completed its files, its certificate, its trail, its
\* emails and the page that checks it stay in agreement.
THEOREM EvidenceHolds ==
  ASSUME \A e \in Entries : Stored[e] = e
  PROVE  EvidenceSpec => []EvidenceInv
  <1>1. EvidenceInv /\ [EvidenceNext]_evidenceVars => EvidenceInv'
    BY EvidenceStep
  <1>2. QED
    BY <1>1, EvidenceStart, PTL DEF EvidenceSpec

\* The rest of the types, which nothing else needs.
RestTyped ==
  /\ signs \in BOOLEAN /\ completed \in BOOLEAN
  /\ trail \subseteq Nat /\ chainHead \in Hashes

LEMMA RestStep ==
  ASSUME \A e \in Entries : Stored[e] = e, EvidenceInv, RestTyped,
         [EvidenceNext]_evidenceVars
  PROVE  RestTyped'
  <1>0. ChainInv /\ TypeOK /\ RowsEnd
    BY DEF EvidenceInv, ChainInv
  <1>1. CASE ReadTrail
    <2>1. Committed \subseteq Nat
      BY <1>0 DEF Committed, TypeOK
    <2>2. QED
      BY <1>1, <2>1 DEF ReadTrail, setup, RestTyped
  <1>2. CASE ReadHead
    <2>1. Covers(chainHead', {})
      BY <1>0, <1>2, HeadCovers
    <2>2. Genesis \in Hashes
      BY DEF Genesis, Hashes
    <2>3. \A m \in Committed : rows[m].rowHash \in Hashes
      BY <1>0 DEF Committed, TypeOK, Row
    <2>4. chainHead' \in Hashes
      BY <2>1, <2>2, <2>3 DEF Covers
    <2>5. QED
      BY <1>2, <2>4 DEF ReadHead, setup, RestTyped
  <1>3. CASE Complete
    BY <1>3 DEF Complete, setup, report, RestTyped
  <1>4. CASE Sign \/ Upload \/ Record \/ Certify
    BY <1>4 DEF Sign, Upload, Record, Certify, setup, report, RestTyped
  <1>5. CASE Rests
    <2>1. signs' = signs
      BY <1>5 DEF EvidenceNext, evidenceVars, setup, Sign, Upload, Record, ReadTrail,
                  ReadHead, Certify, Complete, Fail, LogCompleted, LoadAttachments,
                  Visit, Email, Check, DropFile, ShowVerdict
    <2>2. QED
      BY <1>5, <2>1 DEF Rests, RestTyped
  <1>6. QED
    BY <1>1, <1>2, <1>3, <1>4, <1>5, Moves DEF Reports

\* Type correctness of a completion: its files, its report, its emails.
THEOREM EvidenceTypes ==
  ASSUME \A e \in Entries : Stored[e] = e
  PROVE  EvidenceSpec => []EvidenceTypeOK
  <1>1. EvidenceInit => RestTyped
    <2>1. Genesis \in Hashes
      BY DEF Genesis, Hashes
    <2>2. QED
      BY <2>1 DEF EvidenceInit, RestTyped
  <1>2. EvidenceInv /\ RestTyped /\ [EvidenceNext]_evidenceVars => RestTyped'
    BY RestStep
  <1>3. EvidenceInv /\ RestTyped => EvidenceTypeOK
    BY DEF EvidenceInv, ChainInv, FilesHeld, RolledHeld, MailHeld, RestTyped,
           EvidenceTypeOK
  <1>4. QED
    BY <1>1, <1>2, <1>3, EvidenceHolds, PTL DEF EvidenceSpec

\* The steps of a completion and of its emails are steps of the audit chain, so
\* that all that is proved of the chain holds while they go on.
THEOREM EvidenceKeepsChain == EvidenceSpec => Spec
  <1>1. EvidenceInit => Init
    BY DEF EvidenceInit
  <1>2. [EvidenceNext]_evidenceVars => [Next]_vars
    BY StepOfChain
  <1>3. QED
    BY <1>1, <1>2, PTL DEF EvidenceSpec, Spec

\* The certificate claims no better signature than a document got and no row that
\* the chain has not, although rows are added while it is made.
THEOREM CertificateHolds ==
  ASSUME \A e \in Entries : Stored[e] = e
  PROVE  EvidenceSpec => []CertificateIsTrue
  <1>1. EvidenceInv => CertificateIsTrue
    BY CertificateNow DEF EvidenceInv
  <1>2. QED
    BY <1>1, EvidenceHolds, PTL

\* A row says EMAIL_SENT only of an email that was handed to the mail service,
\* which may have refused it, with a file or a link to each in it; and it says
\* EMAIL_BOUNCED of one that was handed over only if its EMAIL_SENT had thrown.
THEOREM MailHolds ==
  ASSUME \A e \in Entries : Stored[e] = e
  PROVE  EvidenceSpec => []MailIsOnRecord
  <1>1. EvidenceInv => MailIsOnRecord
    BY MailNow DEF EvidenceInv, ChainInv
  <1>2. QED
    BY <1>1, EvidenceHolds, PTL

\* A verdict on the page is on the file that it names, and recognises what a
\* completed envelope hands out and nothing that was never sealed.
THEOREM VerdictHolds ==
  ASSUME \A e \in Entries : Stored[e] = e
  PROVE  EvidenceSpec => []VerdictIsOfFile
  <1>1. EvidenceInv => VerdictIsOfFile
    BY DEF EvidenceInv, PageHeld
  <1>2. QED
    BY <1>1, EvidenceHolds, PTL

\* However many signers and rows a certificate has and whatever it says of the
\* signatures, nothing on it runs into a footer and no heading is left on the page
\* before its first line.
THEOREM CertificateFitsPages == EvidenceSpec => []CertificateFits
  <1>1. EvidenceInit => CertificateFits
    BY DEF EvidenceInit, CertificateFits
  <1>2. ASSUME NEW p \in Prints PROVE p.fits /\ ~p.torn
    <2>1. PICK signers \in 1..MaxSigners, lines \in 0..(MaxRows + MaxLegacy),
               profile \in Profiles, hasHead \in BOOLEAN :
            p = Printed(signers, lines, profile, hasHead)
      BY DEF Prints
    <2>2. signers \in Nat \ {0} /\ lines \in Nat
      BY ChainAssumption, EvidenceAssumption
    <2>3. /\ Layout(signers, lines, profile, hasHead).low > FooterTop
          /\ ~Layout(signers, lines, profile, hasHead).torn
      BY <2>2, LayoutFits
    <2>4. QED
      BY <2>1, <2>3 DEF Printed
  <1>3. CertificateFits /\ [EvidenceNext]_evidenceVars => CertificateFits'
    <2>1. SUFFICES ASSUME CertificateFits, [EvidenceNext]_evidenceVars
                   PROVE  CertificateFits'
      OBVIOUS
    <2>2. CASE Certify
      <3>1. PICK p \in Prints :
              certificate' = [fits |-> p.fits, torn |-> p.torn,
                              profile |-> rolled.profile, stamp |-> rolled.stamp,
                              rows |-> trail, head |-> chainHead]
        BY <2>2 DEF Certify
      <3>2. certificate'.fits = p.fits /\ certificate'.torn = p.torn
        BY <3>1
      <3>3. QED
        BY <1>2, <3>2 DEF CertificateFits
    <2>3. CASE ~Certify
      <3>1. certificate' = certificate
        BY <2>1, <2>3 DEF EvidenceNext, evidenceVars, report, Sign, Upload, Record,
             ReadTrail, ReadHead, Complete, Fail, LogCompleted, LoadAttachments, Visit,
             Email, Check, DropFile, ShowVerdict
      <3>2. QED
        BY <2>1, <3>1 DEF CertificateFits
    <2>4. QED
      BY <2>2, <2>3
  <1>4. QED
    BY <1>1, <1>3, PTL DEF EvidenceSpec

===============================================================================
