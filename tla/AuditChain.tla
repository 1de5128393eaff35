------------------------------ MODULE AuditChain ------------------------------
(***************************************************************************)
(* The hash-chained audit log of one envelope, and the transactions that   *)
(* append to it concurrently (logAudit, alone or inside the signing        *)
(* transaction).  Postgres runs them at READ COMMITTED:                    *)
(*   - SELECT ... ORDER BY seq DESC LIMIT 1 FOR UPDATE picks the last row  *)
(*     of its own snapshot, waits for that row's lock, and keeps that row  *)
(*     even if later ones were committed meanwhile;                        *)
(*   - INSERT waits for an uncommitted row of the same seq, and is refused *)
(*     by the unique index on a committed one.                             *)
(***************************************************************************)
EXTENDS Naturals, Sequences

CONSTANTS
  Slots,     \* transactions that may append at once
  Entries,   \* what callers log: event, actor and metadata
  Stored,    \* each entry as the database gives it back: JSON drops members
             \* whose value is undefined
  MaxBatch,  \* most rows one transaction appends
  MaxRows,   \* bound: no transaction begins once there are that many rows
  Nobody     \* the writer of a committed row

ASSUME ChainAssumption ==
  /\ Stored \in [Entries -> Entries]
  /\ Nobody \notin Slots

VARIABLES
  rows,    \* the AuditLog rows by seq, uncommitted ones included
  locked,  \* the seqs each transaction holds FOR UPDATE
  pc,      \* a transaction's next statement
  todo,    \* rows it has still to append
  seen,    \* prevSeq: the last seq of its snapshot, 0 if there is none
  head     \* prevHash: the rowHash found there

vars == <<rows, locked, pc, todo, seen, head>>

-----------------------------------------------------------------------------
\* computeRowHash: a hash is what was hashed, so it has no collisions.
Canonical(n, e) == [seq |-> n, entry |-> e]
Hashes == Seq([seq : Nat, entry : Entries])
Genesis == <<>>
RowHash(canonical, prevHash) == Append(prevHash, canonical)

\* Mutation: the link to the previous row is not hashed.
NewRowUnlinked(t, n, e) ==
  [entry    |-> Stored[e],
   prevHash |-> head[t],
   rowHash  |-> RowHash(Canonical(n, e), Genesis),
   by       |-> t]

\* The row that t inserts: hashed over what the caller passed.
NewRow(t, n, e) ==
  [entry    |-> Stored[e],
   prevHash |-> head[t],
   rowHash  |-> RowHash(Canonical(n, e), head[t]),
   by       |-> t]

Row == [entry : Entries, prevHash : Hashes, rowHash : Hashes,
        by : Slots \cup {Nobody}]

Committed  == {n \in DOMAIN rows : rows[n].by = Nobody}
Visible(t) == {n \in DOMAIN rows : rows[n].by \in {Nobody, t}}

TypeOK ==
  /\ DOMAIN rows \subseteq Nat \ {0}
  /\ rows \in [DOMAIN rows -> Row]
  /\ locked \in [Slots -> SUBSET Nat]
  /\ pc \in [Slots -> {"idle", "read", "lock", "insert", "commit"}]
  /\ todo \in [Slots -> Nat]
  /\ seen \in [Slots -> Nat]
  /\ head \in [Slots -> Hashes]

-----------------------------------------------------------------------------
Init ==
  /\ rows = [n \in {} |-> Nobody]
  /\ locked = [t \in Slots |-> {}]
  /\ pc = [t \in Slots |-> "idle"]
  /\ todo = [t \in Slots |-> 0]
  /\ seen = [t \in Slots |-> 0]
  /\ head = [t \in Slots |-> Genesis]

\* The sign route appends one row per field and one for the signature; every
\* other caller appends one.
Start(t) ==
  /\ pc[t] = "idle"
  /\ MaxRows \notin DOMAIN rows
  /\ \E k \in 1..MaxBatch : todo' = [todo EXCEPT ![t] = k]
  /\ pc' = [pc EXCEPT ![t] = "read"]
  /\ UNCHANGED <<rows, locked, seen, head>>

\* The snapshot of the SELECT.  With no row yet there is nothing to lock.
Read(t) ==
  /\ pc[t] = "read"
  /\ \E n \in Visible(t) \cup {0} :
       /\ \A m \in Visible(t) : m <= n
       /\ seen' = [seen EXCEPT ![t] = n]
       /\ pc' = [pc EXCEPT ![t] = IF n = 0 THEN "insert" ELSE "lock"]
  /\ head' = [head EXCEPT ![t] = Genesis]
  /\ UNCHANGED <<rows, locked, todo>>

Lock(t) ==
  /\ pc[t] = "lock"
  /\ \A u \in Slots \ {t} : seen[t] \notin locked[u]
  /\ locked' = [locked EXCEPT ![t] = @ \cup {seen[t]}]
  /\ head' = [head EXCEPT ![t] = rows[seen[t]].rowHash]
  /\ pc' = [pc EXCEPT ![t] = "insert"]
  /\ UNCHANGED <<rows, todo, seen>>

\* Mutation: no unique index on (envelopeId, seq).
VacantAlways(n) == TRUE
Vacant(n) == n \notin DOMAIN rows

Insert(t) ==
  /\ pc[t] = "insert"
  /\ Vacant(seen[t] + 1)
  /\ \E e \in Entries :
       rows' = [n \in DOMAIN rows \cup {seen[t] + 1} |->
                  IF n = seen[t] + 1 THEN NewRow(t, n, e) ELSE rows[n]]
  /\ todo' = [todo EXCEPT ![t] = @ - 1]
  /\ pc' = [pc EXCEPT ![t] = IF todo[t] > 1 THEN "read" ELSE "commit"]
  /\ UNCHANGED <<locked, seen, head>>

\* Mutation: the connection keeps its locks.
ReleasedNot(t) == locked
Released(t) == [locked EXCEPT ![t] = {}]

End(t) ==
  /\ pc' = [pc EXCEPT ![t] = "idle"]
  /\ todo' = [todo EXCEPT ![t] = 0]
  /\ seen' = [seen EXCEPT ![t] = 0]
  /\ head' = [head EXCEPT ![t] = Genesis]
  /\ locked' = Released(t)

Commit(t) ==
  /\ pc[t] = "commit"
  /\ rows' = [n \in DOMAIN rows |->
                IF rows[n].by = t THEN [rows[n] EXCEPT !.by = Nobody]
                ELSE rows[n]]
  /\ End(t)

Rollback(t) ==
  /\ rows' = [n \in {m \in DOMAIN rows : rows[m].by # t} |-> rows[n]]
  /\ End(t)

\* The unique index refuses the row; the whole transaction is undone.
Refuse(t) ==
  /\ pc[t] = "insert"
  /\ seen[t] + 1 \in Committed
  /\ Rollback(t)

\* It times out, or its process dies.
Abort(t) ==
  /\ pc[t] # "idle"
  /\ Rollback(t)

Step(t) == Read(t) \/ Lock(t) \/ Insert(t) \/ Commit(t) \/ Refuse(t)

Next == \E t \in Slots : Start(t) \/ Step(t) \/ Abort(t)

Spec == Init /\ [][Next]_vars

\* Postgres answers every statement that need not wait.
FairSpec == Spec /\ \A t \in Slots : WF_vars(Step(t))

\* The rowHash of the row before n, null before the first.
Link(n) == IF n = 1 THEN Genesis ELSE rows[n - 1].rowHash

\* verifyChain, for one row of the committed ones in order of seq.
RowVerifies(n) ==
  /\ n = 1 \/ n - 1 \in Committed
  /\ rows[n].prevHash = Link(n)
  /\ rows[n].rowHash = RowHash(Canonical(n, rows[n].entry), Link(n))

-----------------------------------------------------------------------------
\* The chain of committed rows never forks or skips, whoever appends at once:
\* numbers are contiguous, each row carries the hash of the one before it, and
\* its own hash is that of an entry it stores, over that link.
ChainIntact ==
  \A n \in Committed :
    /\ n = 1 \/ n - 1 \in Committed
    /\ rows[n].prevHash = Link(n)
    /\ \E e \in Entries :
         /\ Stored[e] = rows[n].entry
         /\ rows[n].rowHash = RowHash(Canonical(n, e), Link(n))

\* The committed rows are an append-only log.
Trail == INSTANCE AppendOnlyLog WITH
  log <- [n \in Committed |-> <<rows[n].entry, rows[n].rowHash>>]

KeepsLog == Trail!Spec

\* Locks and uncommitted rows cannot deadlock the appends of one envelope:
\* unless transactions keep failing for ever, each append is recorded or
\* refused.
KeepFailing == []<><<\E t \in Slots : Abort(t)>>_vars

AppendEnds ==
  \A t \in Slots : KeepFailing \/ (pc[t] # "idle" ~> pc[t] = "idle")

\* The verifier accepts the chain that logAudit has written.  It does so if the
\* column keeps what was hashed, and not otherwise.
Verifies == \A n \in Committed : RowVerifies(n)
===============================================================================
