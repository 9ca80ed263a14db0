--------------------------- MODULE MailboxProofs ---------------------------
(***************************************************************************)
(* Theorems about Mailbox for every value of its constants.                *)
(***************************************************************************)
EXTENDS Mailbox, FiniteSetTheorems, WellFoundedInduction, TLAPS

----------------------------------------------------------------------------
(* Maxima.                                                                 *)

\* A bounded, inhabited set of numbers has a largest one, and Max is it.
LEMMA MaxOfBounded ==
  ASSUME NEW S \in SUBSET Nat, S # {}, NEW n \in Nat, \A s \in S : s <= n
  PROVE  Max(S) \in S /\ \A s \in S : s <= Max(S)
<1> DEFINE T == {n - s : s \in S}
<1>1. T \subseteq Nat /\ T # {}
  <2>1. \A s \in S : s \in Nat /\ n - s \in Nat
    OBVIOUS
  <2>2. PICK s \in S : TRUE
    OBVIOUS
  <2>3. n - s \in T
    BY <2>2
  <2> QED
    BY <2>1, <2>3
<1>2. PICK t \in T : \A u \in T : ~(<<u, t>> \in OpToRel(<, Nat))
  BY <1>1, NatLessThanWellFounded, WFMin
<1>3. PICK m \in S : t = n - m
  OBVIOUS
<1>4. \A s \in S : m >= s
  <2> SUFFICES ASSUME NEW s \in S, s > m PROVE FALSE
    OBVIOUS
  <2>1. n - s \in T /\ n - s < t /\ n - s \in Nat /\ t \in Nat
    BY <1>1, <1>3
  <2>2. <<n - s, t>> \in OpToRel(<, Nat)
    BY <2>1 DEF OpToRel
  <2> QED
    BY <1>2, <2>1, <2>2
<1>5. \E x \in S : \A y \in S : x >= y
  BY <1>4
<1>6. Max(S) \in S /\ \A y \in S : Max(S) >= y
  BY <1>5, Zenon DEF Max
<1> QED
  BY <1>6

\* Taking away what is there leaves a number, and the floor of zero that the
\* statements have never bites.
LEMMA MaxWithZero ==
  ASSUME NEW i \in Int
  PROVE  Max({i, 0}) = IF i >= 0 THEN i ELSE 0
<1>1. \E x \in {i, 0} : \A y \in {i, 0} : x >= y
  <2>1. CASE i >= 0
    BY <2>1
  <2>2. CASE ~(i >= 0)
    BY <2>2
  <2> QED
    BY <2>1, <2>2
<1>2. Max({i, 0}) \in {i, 0} /\ \A y \in {i, 0} : Max({i, 0}) >= y
  BY <1>1, Zenon DEF Max
<1> QED
  BY <1>2

----------------------------------------------------------------------------
(* Counting bytes.                                                         *)

Cells(rs, S) == {p \in S \X (1..MAX_BLOB_BYTES) : p[2] <= rs[p[1]].len}

\* The bytes of finitely many records are finitely many.
LEMMA CellsFinite ==
  ASSUME NEW rs, NEW S, IsFiniteSet(S)
  PROVE  IsFiniteSet(Cells(rs, S)) /\ Bytes(rs, S) = Cardinality(Cells(rs, S))
         /\ Bytes(rs, S) \in Nat
<1>1. IsFiniteSet(1..MAX_BLOB_BYTES)
  BY SizesAssumption, FS_Interval
<1>2. IsFiniteSet(S \X (1..MAX_BLOB_BYTES))
  BY <1>1, FS_Product
<1>3. IsFiniteSet(Cells(rs, S))
  BY <1>2, FS_Subset DEF Cells
<1> QED
  BY <1>3, FS_CardinalityType DEF Bytes, Cells

\* Bytes add up over disjoint sets of records.
LEMMA BytesDisjoint ==
  ASSUME NEW rs, NEW A, NEW B, IsFiniteSet(A), IsFiniteSet(B), A \cap B = {}
  PROVE  Bytes(rs, A \cup B) = Bytes(rs, A) + Bytes(rs, B)
<1>1. IsFiniteSet(A \cup B)
  BY FS_Union
<1>2. Cells(rs, A \cup B) = Cells(rs, A) \cup Cells(rs, B)
  BY DEF Cells
<1>3. Cells(rs, A) \cap Cells(rs, B) = {}
  BY DEF Cells
<1>4. Cardinality(Cells(rs, A) \cup Cells(rs, B))
        = Cardinality(Cells(rs, A)) + Cardinality(Cells(rs, B)) - Cardinality({})
  <2>1. IsFiniteSet(Cells(rs, A)) /\ IsFiniteSet(Cells(rs, B))
    BY CellsFinite
  <2>2. Cardinality(Cells(rs, A) \cup Cells(rs, B))
          = Cardinality(Cells(rs, A)) + Cardinality(Cells(rs, B))
            - Cardinality(Cells(rs, A) \cap Cells(rs, B))
    BY <2>1, FS_Union, Zenon
  <2> QED
    BY <1>3, <2>2
<1>5. Cardinality({}) = 0
  BY FS_EmptySet
<1>6. /\ Bytes(rs, A) = Cardinality(Cells(rs, A)) /\ Bytes(rs, A) \in Nat
      /\ Bytes(rs, B) = Cardinality(Cells(rs, B)) /\ Bytes(rs, B) \in Nat
      /\ Bytes(rs, A \cup B) = Cardinality(Cells(rs, A \cup B))
  BY <1>1, CellsFinite
<1>7. Bytes(rs, A \cup B) = Bytes(rs, A) + Bytes(rs, B) - 0
  BY <1>2, <1>4, <1>5, <1>6, Zenon
<1> QED
  BY <1>6, <1>7

\* The bytes of one record are the length of its blob.
LEMMA BytesOfOne ==
  ASSUME NEW rs, NEW id, rs[id].len \in 0..MAX_BLOB_BYTES
  PROVE  Bytes(rs, {id}) = rs[id].len
<1> DEFINE n == rs[id].len
           f == [k \in 1..n |-> <<id, k>>]
<1>0. n \in Nat /\ MAX_BLOB_BYTES \in Nat /\ n <= MAX_BLOB_BYTES
  BY SizesAssumption
<1>1. f \in Bijection(1..n, Cells(rs, {id}))
  <2>1. f \in [1..n -> Cells(rs, {id})]
    BY <1>0 DEF Cells
  <2>2. \A p \in Cells(rs, {id}) : \E k \in 1..n : f[k] = p
    BY <1>0 DEF Cells
  <2>3. \A j, k \in 1..n : f[j] = f[k] => j = k
    OBVIOUS
  <2> QED
    BY <2>1, <2>2, <2>3 DEF Bijection, Injection, Surjection, IsInjective
<1>2. IsFiniteSet(1..n) /\ Cardinality(1..n) = n
  <2>1. 1 \in Int /\ n \in Int
    BY <1>0
  <2> HIDE DEF n
  <2>2. IsFiniteSet(1..n) /\ Cardinality(1..n) = IF 1 > n THEN 0 ELSE n - 1 + 1
    BY <2>1, FS_Interval
  <2> QED
    BY <1>0, <2>2
<1>3. Cardinality(Cells(rs, {id})) = n
  BY <1>1, <1>2, FS_Bijection DEF ExistsBijection
<1> QED
  BY <1>3, CellsFinite, FS_Singleton

\* Every blob is at most as long as a blob may be, and no row has none.
RowsProper(rs) ==
  \A id \in Ids : /\ rs[id].len \in 0..MAX_BLOB_BYTES
                  /\ rs[id].seq = 0 => rs[id].len = 0

\* Writing one row changes the bytes held by the difference of the lengths, and
\* the records held by one if there was no row.
LEMMA WriteRow ==
  ASSUME NEW rs \in [Ids -> Row], RowsProper(rs), NEW id \in Ids,
         NEW row \in Row, row.seq # 0, row.len \in 0..MAX_BLOB_BYTES
  PROVE  LET ns == [rs EXCEPT ![id] = row]
         IN  /\ Bytes(ns, Held(ns)) = Bytes(rs, Held(rs)) + row.len - rs[id].len
             /\ Cardinality(Held(ns)) = Cardinality(Held(rs))
                                        + (IF rs[id].seq = 0 THEN 1 ELSE 0)
             /\ RowsProper(ns)
<1> DEFINE ns == [rs EXCEPT ![id] = row]
           Rest == Held(rs) \ {id}
<1>1. IsFiniteSet(Held(rs)) /\ IsFiniteSet(Rest) /\ IsFiniteSet({id})
  BY RecordsAssumption, FS_Subset, FS_Singleton DEF Held
<1>2. Held(ns) = Rest \cup {id} /\ Rest \cap {id} = {}
  BY DEF Held, Row
<1>3. Bytes(ns, Held(ns)) = Bytes(ns, Rest) + row.len
  <2>1. Bytes(ns, {id}) = row.len
    <3>1. ns[id].len = row.len
      OBVIOUS
    <3> HIDE DEF ns
    <3>2. Bytes(ns, {id}) = ns[id].len
      BY <3>1, BytesOfOne
    <3> QED
      BY <3>1, <3>2
  <2>2. Bytes(ns, Rest \cup {id}) = Bytes(ns, Rest) + Bytes(ns, {id})
    BY <1>1, <1>2, BytesDisjoint
  <2> QED
    BY <1>2, <2>1, <2>2
<1>4. Bytes(ns, Rest) = Bytes(rs, Rest)
  <2>1. Cells(ns, Rest) = Cells(rs, Rest)
    BY DEF Cells, Held
  <2> QED
    BY <1>1, <2>1, CellsFinite
<1>5. Bytes(rs, Held(rs)) = Bytes(rs, Rest) + rs[id].len
  <2>0. Bytes(rs, Rest) \in Nat
    BY <1>1, CellsFinite
  <2>1. CASE rs[id].seq = 0
    <3>1. Held(rs) = Rest /\ rs[id].len = 0
      BY <2>1 DEF Held, RowsProper
    <3> QED
      BY <2>0, <3>1
  <2>2. CASE rs[id].seq # 0
    <3>1. Held(rs) = Rest \cup {id}
      BY <2>2 DEF Held
    <3>2. Bytes(rs, {id}) = rs[id].len
      BY BytesOfOne DEF RowsProper
    <3>3. Bytes(rs, Rest \cup {id}) = Bytes(rs, Rest) + Bytes(rs, {id})
      BY <1>1, <1>2, BytesDisjoint
    <3> QED
      BY <3>1, <3>2, <3>3
  <2> QED
    BY <2>1, <2>2
<1>6. Bytes(ns, Held(ns)) = Bytes(rs, Held(rs)) + row.len - rs[id].len
  <2>1. Bytes(rs, Rest) \in Nat /\ row.len \in Nat /\ rs[id].len \in Nat
    BY <1>1, CellsFinite DEF Row
  <2> QED
    BY <1>3, <1>4, <1>5, <2>1
<1>7. Cardinality(Held(ns)) = Cardinality(Held(rs)) + (IF rs[id].seq = 0 THEN 1 ELSE 0)
  <2>1. CASE rs[id].seq = 0
    <3>1. Held(ns) = Held(rs) \cup {id} /\ id \notin Held(rs)
      BY <1>2, <2>1 DEF Held
    <3>2. Cardinality(Held(rs) \cup {id}) = Cardinality(Held(rs)) + 1
      BY <1>1, <3>1, FS_AddElement
    <3> QED
      BY <2>1, <3>1, <3>2
  <2>2. CASE rs[id].seq # 0
    <3>1. Held(ns) = Held(rs)
      BY <1>2, <2>2 DEF Held
    <3>2. Cardinality(Held(rs)) \in Nat
      BY <1>1, FS_CardinalityType
    <3> QED
      BY <2>2, <3>1, <3>2
  <2> QED
    BY <2>1, <2>2
<1>8. RowsProper(ns)
  BY DEF RowsProper
<1> QED
  BY <1>6, <1>7, <1>8

\* Removing rows takes away what they held.
LEMMA RemoveRows ==
  ASSUME NEW rs \in [Ids -> Row], RowsProper(rs), NEW gone \in SUBSET Held(rs)
  PROVE  LET ns == [id \in Ids |-> IF id \in gone THEN NoRow ELSE rs[id]]
         IN  /\ ns \in [Ids -> Row]
             /\ RowsProper(ns)
             /\ Bytes(rs, gone) \in Nat /\ Cardinality(gone) \in Nat
             /\ Bytes(ns, Held(ns)) \in Nat /\ Cardinality(Held(ns)) \in Nat
             /\ Bytes(rs, Held(rs)) = Bytes(ns, Held(ns)) + Bytes(rs, gone)
             /\ Cardinality(Held(rs)) = Cardinality(Held(ns)) + Cardinality(gone)
<1> DEFINE ns == [id \in Ids |-> IF id \in gone THEN NoRow ELSE rs[id]]
<1>1. IsFiniteSet(Held(rs)) /\ IsFiniteSet(Held(ns)) /\ IsFiniteSet(gone)
  BY RecordsAssumption, FS_Subset DEF Held
<1>2. Held(rs) = Held(ns) \cup gone /\ Held(ns) \cap gone = {}
  BY DEF Held, NoRow
<1>3. Bytes(rs, Held(ns) \cup gone) = Bytes(rs, Held(ns)) + Bytes(rs, gone)
  BY <1>1, <1>2, BytesDisjoint
<1>4. Bytes(ns, Held(ns)) = Bytes(rs, Held(ns))
  <2>1. Cells(ns, Held(ns)) = Cells(rs, Held(ns))
    BY DEF Cells, Held, NoRow
  <2> QED
    BY <1>1, <2>1, CellsFinite
<1>5. /\ Cardinality(Held(ns)) \in Nat /\ Cardinality(gone) \in Nat
      /\ Bytes(ns, Held(ns)) \in Nat /\ Bytes(rs, gone) \in Nat
  BY <1>1, FS_CardinalityType, CellsFinite
<1>6. Cardinality(Held(rs)) = Cardinality(Held(ns)) + Cardinality(gone)
  <2>1. Cardinality(Held(ns) \cup gone)
          = Cardinality(Held(ns)) + Cardinality(gone) - Cardinality(Held(ns) \cap gone)
    BY <1>1, FS_Union, Zenon
  <2>2. Cardinality(Held(ns) \cap gone) = 0
    BY <1>2, FS_EmptySet
  <2>3. Cardinality(Held(rs)) = Cardinality(Held(ns)) + Cardinality(gone) - 0
    BY <1>2, <2>1, <2>2, Zenon
  <2> QED
    BY <1>5, <2>3
<1>7. ns \in [Ids -> Row] /\ RowsProper(ns)
  BY SizesAssumption DEF RowsProper, NoRow, Row
<1>8. Bytes(rs, Held(rs)) = Bytes(ns, Held(ns)) + Bytes(rs, gone)
  BY <1>2, <1>3, <1>4
<1> QED
  BY <1>5, <1>6, <1>7, <1>8

----------------------------------------------------------------------------
(* Types and counts.  Neither is inductive alone: that the account's bytes *)
(* stay a natural number rests on their being exact, in the transaction as *)
(* well as in the table.                                                   *)

TxExact ==
  tx.by # Nobody =>
    /\ tx.records = Cardinality(Held(tx.rows))
    /\ tx.bytes = Bytes(tx.rows, Held(tx.rows))
    /\ RowsProper(tx.rows)
    /\ \A i \in DOMAIN tx.todo : Proper(tx.todo[i])

\* No row has a number the account has not come to, in the table or in the
\* transaction.
Numbered ==
  /\ \A id \in Ids : rows[id].seq <= account.seq
  /\ tx.by # Nobody => /\ tx.seq >= account.seq
                       /\ \A id \in Ids : tx.rows[id].seq <= tx.seq

CountsInv == TypeOK /\ CountsExact /\ RowsProper(rows) /\ TxExact /\ Numbered

\* What Init starts from, an idle request and no transaction, is well typed.
LEMMA InitialTypes ==
  /\ NoRow \in Row /\ Nothing \in Version /\ Silent \in [Ids -> Version]
  /\ Idle \in Request
  /\ NoTx \in [by : Devices \cup {Nobody}, todo : Seq(Envelope), seq : Nat,
               records : Nat, bytes : Int, rows : [Ids -> Row]]
  /\ NoTx.by = Nobody
BY DEF NoRow, Row, Nothing, Version, Silent, Idle, Request, NoTx

\* A row that has grown old is the same row.
LEMMA AgedRow ==
  ASSUME NEW r \in Row
  PROVE  /\ [r EXCEPT !.old = TRUE] \in Row
         /\ [r EXCEPT !.old = TRUE].seq = r.seq
         /\ [r EXCEPT !.old = TRUE].len = r.len
         /\ [r EXCEPT !.old = TRUE].device = r.device
         /\ VersionOf([r EXCEPT !.old = TRUE]) = VersionOf(r)
<1>1. [r EXCEPT !.old = TRUE] \in Row
  BY DEF Row
<1>2. /\ [r EXCEPT !.old = TRUE].seq = r.seq
      /\ [r EXCEPT !.old = TRUE].len = r.len
      /\ [r EXCEPT !.old = TRUE].device = r.device
      /\ [r EXCEPT !.old = TRUE].deleted = r.deleted
  BY Zenon DEF Row
<1> QED
  BY <1>1, <1>2 DEF VersionOf

\* An empty table holds no records and no bytes.
LEMMA EmptyCounts ==
  LET none == [id \in Ids |-> NoRow]
  IN  Cardinality(Held(none)) = 0 /\ Bytes(none, Held(none)) = 0 /\ RowsProper(none)
<1> DEFINE none == [id \in Ids |-> NoRow]
<1>1. Held(none) = {}
  BY DEF Held, NoRow
<1>2. Cells(none, {}) = {}
  BY DEF Cells
<1>3. Cardinality({}) = 0 /\ IsFiniteSet({})
  BY FS_EmptySet
<1>4. Bytes(none, {}) = Cardinality(Cells(none, {}))
  BY <1>3, CellsFinite
<1>5. RowsProper(none)
  BY SizesAssumption DEF RowsProper, NoRow
<1> QED
  BY <1>1, <1>2, <1>3, <1>4, <1>5

\* An answer tells of each record a version.
LEMMA AnswerType ==
  ASSUME NEW rs \in [Ids -> Row], NEW S
  PROVE  Answer(rs, S) \in [Ids -> Version]
BY DEF Answer, VersionOf, Version, Nothing, Row

\* A new account is charged for nothing and has nothing.
LEMMA CountsInit == Init => CountsInv
<1> SUFFICES ASSUME Init PROVE CountsInv
  OBVIOUS
<1>1. TypeOK
  <2>1. client \in [Devices -> [since : Nat, view : [Ids -> Version]]]
    BY InitialTypes DEF Init
  <2>2. req \in [Devices -> Request]
    BY InitialTypes DEF Init
  <2>3. tx \in [by : Devices \cup {Nobody}, todo : Seq(Envelope), seq : Nat,
               records : Nat, bytes : Int, rows : [Ids -> Row]]
    BY InitialTypes DEF Init
  <2> QED
    BY <2>1, <2>2, <2>3, InitialTypes, SizesAssumption DEF Init, TypeOK
<1>2. CountsExact /\ RowsProper(rows)
  BY EmptyCounts DEF Init, CountsExact
<1>3. TxExact
  BY InitialTypes DEF Init, TxExact
<1>4. Numbered
  BY InitialTypes DEF Init, Numbered, NoRow
<1> QED
  BY <1>1, <1>2, <1>3, <1>4 DEF CountsInv

\* Forgetting rows keeps the counts exact: both floors of zero are idle.
LEMMA ForgetExact ==
  ASSUME CountsInv, NEW gone \in SUBSET Held(rows), Forget(gone)
  PROVE  /\ account' \in [seq : Nat, record_count : Nat, record_bytes : Nat]
         /\ rows' \in [Ids -> Row]
         /\ CountsExact' /\ RowsProper(rows')
         /\ account'.seq = account.seq
         /\ \A id \in Ids : rows'[id].seq <= account'.seq
<1> DEFINE ns == [id \in Ids |-> IF id \in gone THEN NoRow ELSE rows[id]]
<1>1. rows' = ns /\ rows \in [Ids -> Row] /\ RowsProper(rows)
      /\ account \in [seq : Nat, record_count : Nat, record_bytes : Nat]
  BY DEF Forget, CountsInv, TypeOK
<1>2. /\ ns \in [Ids -> Row]
      /\ RowsProper(ns)
      /\ Bytes(rows, gone) \in Nat /\ Cardinality(gone) \in Nat
      /\ Bytes(ns, Held(ns)) \in Nat /\ Cardinality(Held(ns)) \in Nat
      /\ Bytes(rows, Held(rows)) = Bytes(ns, Held(ns)) + Bytes(rows, gone)
      /\ Cardinality(Held(rows)) = Cardinality(Held(ns)) + Cardinality(gone)
  BY <1>1, RemoveRows
<1>3. account.record_count - Cardinality(gone) = Cardinality(Held(ns))
      /\ account.record_bytes - Bytes(rows, gone) = Bytes(ns, Held(ns))
  BY <1>1, <1>2 DEF CountsInv, CountsExact
<1>4. Max({Cardinality(Held(ns)), 0}) = Cardinality(Held(ns))
      /\ Max({Bytes(ns, Held(ns)), 0}) = Bytes(ns, Held(ns))
  BY <1>2, MaxWithZero
<1>5. account' = [account EXCEPT !.record_count = Cardinality(Held(ns)),
                                !.record_bytes = Bytes(ns, Held(ns))]
  BY <1>3, <1>4 DEF Forget
<1>6. \A id \in Ids : rows'[id].seq <= account'.seq
  BY <1>1, <1>5 DEF CountsInv, Numbered, NoRow, Row
<1> QED
  BY <1>1, <1>2, <1>5, <1>6 DEF CountsExact

\* The cursor of a page is a number of the account, no less than the cursor
\* asked from, and past every record that comes before what had no room.
LEMMA PageCursorFacts ==
  ASSUME CountsInv, NEW since \in Nat, NEW S \in SUBSET Ids, NEW rest \in SUBSET Ids
  PROVE  LET passed == {id \in S : \A other \in rest : rows[id].seq < rows[other].seq}
             cursor == PageCursor(since, S, rest)
         IN  /\ cursor \in Nat /\ since <= cursor
             /\ \A id \in passed : rows[id].seq <= cursor
             /\ cursor = since \/ \E id \in passed : cursor = rows[id].seq
<1> DEFINE passed == {id \in S : \A other \in rest : rows[id].seq < rows[other].seq}
           numbers == {since} \cup {rows[id].seq : id \in passed}
<1>1. account.seq \in Nat /\ \A id \in Ids : rows[id].seq \in Nat /\ rows[id].seq <= account.seq
  BY DEF CountsInv, TypeOK, Numbered, Row
<1>2. numbers \in SUBSET Nat /\ numbers # {}
  BY <1>1
<1>3. \A n \in numbers : n <= since + account.seq
  BY <1>1
<1>4. since + account.seq \in Nat
  BY <1>1
<1>5. Max(numbers) \in numbers /\ \A n \in numbers : n <= Max(numbers)
  <2> HIDE DEF numbers
  <2> QED
    BY <1>2, <1>3, <1>4, MaxOfBounded
<1>6. PageCursor(since, S, rest) = Max(numbers)
  BY DEF PageCursor
<1> QED
  BY <1>2, <1>5, <1>6

\* An envelope taken keeps the transaction's counts exact.
LEMMA EnvelopeExact ==
  ASSUME CountsInv, PushEnvelope
  PROVE  CountsInv'
<1>1. /\ tx.by # Nobody /\ tx.todo # <<>> /\ tx.todo \in Seq(Envelope)
      /\ tx \in [by : Devices \cup {Nobody}, todo : Seq(Envelope), seq : Nat,
                 records : Nat, bytes : Int, rows : [Ids -> Row]]
      /\ tx.by \in Devices
  BY DEF PushEnvelope, Unlocked, CountsInv, TypeOK
<1> DEFINE envelope == Head(tx.todo)
           held == tx.rows[envelope.id]
           row == [seq |-> tx.seq + 1, deleted |-> envelope.deleted,
                   len |-> envelope.len, device |-> tx.by, old |-> FALSE]
           ns == [tx.rows EXCEPT ![envelope.id] = row]
<1>2. envelope \in Envelope /\ Proper(envelope) /\ Tail(tx.todo) \in Seq(Envelope)
  BY <1>1 DEF CountsInv, TxExact
<1>3. \A i \in DOMAIN Tail(tx.todo) : Proper(Tail(tx.todo)[i])
  BY <1>1 DEF CountsInv, TxExact
<1>4. UNCHANGED <<account, rows, device, dropping, quota, elsewhere, req, client>>
  BY DEF PushEnvelope
<1>5. CASE Conflicts(tx.rows, envelope)
  <2>1. tx' = [tx EXCEPT !.todo = Tail(tx.todo)]
    BY <1>5 DEF PushEnvelope
  <2>2. TypeOK'
    BY <1>1, <1>2, <1>4, <2>1 DEF CountsInv, TypeOK
  <2>3. TxExact'
    BY <1>1, <1>3, <2>1 DEF CountsInv, TxExact
  <2> QED
    BY <1>1, <1>4, <2>1, <2>2, <2>3 DEF CountsInv, CountsExact, Numbered, Held, Bytes, RowsProper
<1>6. CASE ~Conflicts(tx.rows, envelope)
  <2>1. row \in Row /\ row.seq # 0 /\ row.len \in 0..MAX_BLOB_BYTES
    BY <1>1, <1>2, SizesAssumption DEF Row, Envelope, Proper
  <2>2. tx.rows \in [Ids -> Row] /\ RowsProper(tx.rows) /\ envelope.id \in Ids
    BY <1>1, <1>2 DEF CountsInv, TxExact, Envelope
  <2>3. /\ Bytes(ns, Held(ns)) = tx.bytes + envelope.len - held.len
        /\ Cardinality(Held(ns)) = tx.records + (IF held.seq = 0 THEN 1 ELSE 0)
        /\ RowsProper(ns)
    <3> HIDE DEF row
    <3>1. LET new == [tx.rows EXCEPT ![envelope.id] = row]
          IN  /\ Bytes(new, Held(new)) = Bytes(tx.rows, Held(tx.rows)) + row.len - held.len
              /\ Cardinality(Held(new)) = Cardinality(Held(tx.rows))
                                          + (IF held.seq = 0 THEN 1 ELSE 0)
              /\ RowsProper(new)
      <4> HIDE DEF envelope
      <4> QED
        BY <2>1, <2>2, WriteRow
    <3>2. row.len = envelope.len
      BY DEF row
    <3> QED
      BY <1>1, <3>1, <3>2 DEF CountsInv, TxExact
  <2>4. tx' = [tx EXCEPT !.todo = Tail(tx.todo), !.seq = tx.seq + 1,
                         !.records = IF held.seq = 0 THEN tx.records + 1 ELSE tx.records,
                         !.bytes = tx.bytes + envelope.len - held.len,
                         !.rows[envelope.id] = row]
    BY <1>6 DEF PushEnvelope
  <2>5. /\ tx'.by = tx.by /\ tx'.todo = Tail(tx.todo) /\ tx'.seq = tx.seq + 1
        /\ tx'.records = (IF held.seq = 0 THEN tx.records + 1 ELSE tx.records)
        /\ tx'.bytes = tx.bytes + envelope.len - held.len
        /\ tx'.rows = ns
    BY <1>1, <2>4
  <2>6. ns \in [Ids -> Row]
    BY <2>1, <2>2
  <2>7. TypeOK'
    <3>1. tx' \in [by : Devices \cup {Nobody}, todo : Seq(Envelope), seq : Nat,
                   records : Nat, bytes : Int, rows : [Ids -> Row]]
      <4>1. envelope.len \in Nat /\ held.len \in Nat /\ envelope.id \in Ids
        BY <1>2, <2>2 DEF Envelope, Row
      <4>2. tx' = [by |-> tx.by, todo |-> Tail(tx.todo), seq |-> tx.seq + 1,
                   records |-> IF held.seq = 0 THEN tx.records + 1 ELSE tx.records,
                   bytes |-> tx.bytes + envelope.len - held.len, rows |-> ns]
        BY <1>1, <2>4
      <4> HIDE DEF envelope, held, row, ns
      <4> QED
        BY <1>1, <1>2, <2>6, <4>1, <4>2
    <3> QED
      BY <1>4, <3>1 DEF CountsInv, TypeOK
  <2>8. TxExact'
    BY <1>1, <1>3, <2>3, <2>5 DEF TxExact
  <2>9. Numbered'
    <3>1. \A id \in Ids : tx.rows[id].seq \in Nat /\ tx.rows[id].seq <= tx.seq
      BY <1>1, <2>2 DEF CountsInv, Numbered, Row
    <3>2. \A id \in Ids : ns[id].seq <= tx.seq + 1
      <4> SUFFICES ASSUME NEW id \in Ids PROVE ns[id].seq <= tx.seq + 1
        OBVIOUS
      <4>1. ns[id] = row \/ ns[id] = tx.rows[id]
        BY <2>2
      <4> QED
        BY <1>1, <3>1, <4>1
    <3>3. tx.seq >= account.seq /\ account.seq \in Nat
      BY <1>1 DEF CountsInv, Numbered, TypeOK
    <3> HIDE DEF ns
    <3> QED
      BY <1>1, <1>4, <2>5, <3>2, <3>3 DEF CountsInv, Numbered
  <2> QED
    BY <1>4, <2>7, <2>8, <2>9 DEF CountsInv, CountsExact, RowsProper, Held, Bytes
<1> QED
  BY <1>5, <1>6

\* An action that changes neither tables nor transaction leaves the counts be.
LEMMA CountsUnchanged ==
  ASSUME CountsInv, UNCHANGED <<account, rows, tx>>, TypeOK'
  PROVE  CountsInv'
BY DEF CountsInv, CountsExact, Numbered, TxExact, RowsProper, Held, Bytes

\* Every step keeps the counts exact: one step of the proof for each action.
LEMMA CountsStep == CountsInv /\ [Next]_vars => CountsInv'
<1> SUFFICES ASSUME CountsInv, [Next]_vars PROVE CountsInv'
  OBVIOUS
<1>0. TypeOK /\ CountsExact /\ RowsProper(rows) /\ TxExact /\ Numbered
  BY DEF CountsInv
<1>1. ASSUME NEW d \in Devices, PushArrives(d) PROVE CountsInv'
  <2>0. PICK n \in Lengths : \E batch \in [1..n -> Offers(d)] :
          req' = [req EXCEPT ![d] = [Idle EXCEPT !.at = "pushing", !.batch = batch]]
    BY <1>1 DEF PushArrives
  <2>1. PICK batch \in [1..n -> Offers(d)] :
          req' = [req EXCEPT ![d] = [Idle EXCEPT !.at = "pushing", !.batch = batch]]
    BY <2>0
  <2>2. n \in Nat
    BY <2>1, SizesAssumption
  <2>3. Offers(d) \subseteq Envelope
    BY <1>0, SizesAssumption DEF Offers, Envelope, TypeOK, Version
  <2>4. batch \in Seq(Envelope)
    BY <2>2, <2>3
  <2>5. [Idle EXCEPT !.at = "pushing", !.batch = batch] \in Request
    BY <2>4, InitialTypes DEF Request
  <2>6. TypeOK'
    BY <1>0, <1>1, <2>1, <2>5 DEF PushArrives, TypeOK
  <2> QED
    BY <1>1, <2>6, CountsUnchanged DEF PushArrives
<1>2. ASSUME NEW d \in Devices, PushTurnedAway(d) PROVE CountsInv'
  <2>1. TypeOK'
    BY <1>0, <1>2, InitialTypes DEF PushTurnedAway, TypeOK
  <2> QED
    BY <1>2, <2>1, CountsUnchanged DEF PushTurnedAway
<1>3. ASSUME NEW d \in Devices, PushBegin(d) PROVE CountsInv'
  <2>1. req[d] \in Request /\ req[d].batch \in Seq(Envelope)
    BY <1>0 DEF TypeOK, Request
  <2>2. TypeOK'
    BY <1>0, <1>3, <2>1 DEF PushBegin, TypeOK
  <2>3. \A i \in DOMAIN req[d].batch : Proper(req[d].batch[i])
    BY <1>3 DEF PushBegin, Acceptable
  <2>4. /\ tx'.by = d /\ tx'.todo = req[d].batch /\ tx'.seq = account.seq
        /\ tx'.records = account.record_count /\ tx'.bytes = account.record_bytes
        /\ tx'.rows = rows
    BY <1>3 DEF PushBegin
  <2>5. TxExact'
    BY <1>0, <2>3, <2>4 DEF TxExact, CountsExact
  <2>6. Numbered'
    BY <1>0, <1>3, <2>4 DEF PushBegin, Numbered, TypeOK
  <2> QED
    BY <1>0, <1>3, <2>2, <2>5, <2>6 DEF PushBegin, CountsInv, CountsExact, RowsProper, Held, Bytes
<1>4. ASSUME PushEnvelope PROVE CountsInv'
  BY <1>4, EnvelopeExact
<1>5. ASSUME PushRefused PROVE CountsInv'
  <2>1. TypeOK'
    BY <1>0, <1>5, InitialTypes DEF PushRefused, TypeOK
  <2>2. tx'.by = Nobody
    BY <1>5, InitialTypes DEF PushRefused
  <2> QED
    BY <1>0, <1>5, <2>1, <2>2
    DEF PushRefused, CountsInv, CountsExact, TxExact, Numbered, RowsProper, Held, Bytes
<1>6. ASSUME PushCommit PROVE CountsInv'
  <2>1. tx.by # Nobody /\ tx.by \in Devices /\ tx.rows \in [Ids -> Row] /\ tx.seq \in Nat
    BY <1>0, <1>6 DEF PushCommit, Unlocked, TypeOK
  <2>2. /\ tx.records = Cardinality(Held(tx.rows)) /\ tx.bytes = Bytes(tx.rows, Held(tx.rows))
        /\ RowsProper(tx.rows)
    BY <1>0, <2>1 DEF TxExact
  <2>3. tx.records \in Nat /\ tx.bytes \in Nat
    <3>1. IsFiniteSet(Held(tx.rows))
      BY RecordsAssumption, FS_Subset DEF Held
    <3> QED
      BY <2>2, <3>1, FS_CardinalityType, CellsFinite
  <2>4. PICK ids : req' = [req EXCEPT ![tx.by] =
                     [Idle EXCEPT !.at = "pushed", !.versions = Answer(tx.rows, ids)]]
    BY <1>6 DEF PushCommit
  <2>5. [Idle EXCEPT !.at = "pushed", !.versions = Answer(tx.rows, ids)] \in Request
    BY <2>1, AnswerType, InitialTypes DEF Request
  <2>6. req' \in [Devices -> Request]
    BY <1>0, <2>1, <2>4, <2>5 DEF TypeOK
  <2>7. TypeOK'
    BY <1>0, <1>6, <2>1, <2>3, <2>6, InitialTypes DEF PushCommit, TypeOK
  <2>8. CountsExact' /\ RowsProper(rows')
    BY <1>6, <2>2 DEF PushCommit, CountsExact
  <2>9. tx'.by = Nobody
    BY <1>6, InitialTypes DEF PushCommit
  <2>10. Numbered'
    BY <1>0, <1>6, <2>1, <2>9 DEF PushCommit, Numbered
  <2> QED
    BY <2>7, <2>8, <2>9, <2>10 DEF CountsInv, TxExact
<1>7. ASSUME NEW d \in Devices, PullArrives(d) PROVE CountsInv'
  <2>1. [Idle EXCEPT !.at = "pulling", !.seq = account.seq] \in Request
    BY <1>0, InitialTypes DEF Request, TypeOK
  <2>2. TypeOK'
    BY <1>0, <1>7, <2>1 DEF PullArrives, TypeOK
  <2> QED
    BY <1>7, <2>2, CountsUnchanged DEF PullArrives
<1>8. ASSUME NEW d \in Devices, PullAnswered(d) PROVE CountsInv'
  <2>1. PICK limit \in Limits :
          /\ req' = [req EXCEPT ![d] =
                       [Idle EXCEPT !.at = "pulled",
                                    !.versions = Answer(rows, PageFor(d, limit)),
                                    !.cursor = CursorFor(d, limit),
                                    !.has_more = LeftFor(d, limit) # {}]]
          /\ device' = [device EXCEPT ![d].cursor =
                          Seen(@, IF CursorFor(d, limit) < req[d].seq
                                  THEN CursorFor(d, limit) ELSE req[d].seq)]
    BY <1>8 DEF PullAnswered
  <2>2. CursorFor(d, limit) \in Nat
    <3>1. /\ client[d].since \in Nat
          /\ After(client[d].since) \in SUBSET Ids /\ LeftFor(d, limit) \in SUBSET Ids
      BY <1>0 DEF TypeOK, LeftFor, Unread, After, Held, Readable
    <3> QED
      BY <3>1, PageCursorFacts DEF CursorFor
  <2>3. req' \in [Devices -> Request]
    <3>1. Answer(rows, PageFor(d, limit)) \in [Ids -> Version]
      BY <1>0, AnswerType DEF TypeOK
    <3>2. (LeftFor(d, limit) # {}) \in BOOLEAN
      OBVIOUS
    <3>3. [Idle EXCEPT !.at = "pulled", !.versions = Answer(rows, PageFor(d, limit)),
                       !.cursor = CursorFor(d, limit),
                       !.has_more = LeftFor(d, limit) # {}] \in Request
      BY <2>2, <3>1, <3>2, InitialTypes DEF Request
    <3> QED
      BY <1>0, <2>1, <3>3 DEF TypeOK
  <2>4. device' \in [Devices -> [status : {"absent", "live", "revoked"}, cursor : Nat]]
    <3>1. Seen(device[d].cursor, IF CursorFor(d, limit) < req[d].seq
                                 THEN CursorFor(d, limit) ELSE req[d].seq) \in Nat
      BY <1>0, <2>2 DEF TypeOK, Request, Seen
    <3> QED
      BY <1>0, <2>1, <3>1 DEF TypeOK
  <2>5. TypeOK'
    BY <1>0, <1>8, <2>3, <2>4 DEF PullAnswered, TypeOK
  <2> QED
    BY <1>8, <2>5, CountsUnchanged DEF PullAnswered
<1>9. ASSUME NEW d \in Devices, Delivered(d) PROVE CountsInv'
  <2>1. Learn(client[d].view, req[d].versions) \in [Ids -> Version]
    BY <1>0 DEF TypeOK, Request, Learn
  <2>2. (IF req[d].at = "pulled" THEN req[d].cursor ELSE client[d].since) \in Nat
    BY <1>0 DEF TypeOK, Request
  <2>3. client' \in [Devices -> [since : Nat, view : [Ids -> Version]]]
    BY <1>0, <1>9, <2>1, <2>2 DEF Delivered, TypeOK
  <2>4. TypeOK'
    BY <1>0, <1>9, <2>3, InitialTypes DEF Delivered, TypeOK
  <2> QED
    BY <1>9, <2>4, CountsUnchanged DEF Delivered
<1>10. ASSUME NEW d \in Devices, Lost(d) PROVE CountsInv'
  <2>1. TypeOK'
    BY <1>0, <1>10, InitialTypes DEF Lost, TypeOK
  <2> QED
    BY <1>10, <2>1, CountsUnchanged DEF Lost
<1>11. ASSUME NEW d \in Devices, Enrolled(d) PROVE CountsInv'
  <2>0. PICK since \in {0} \cup ForeignCursors :
          client' = [client EXCEPT ![d].since = since]
    BY <1>11 DEF Enrolled
  <2>1. client' \in [Devices -> [since : Nat, view : [Ids -> Version]]]
    BY <1>0, <2>0, SizesAssumption DEF TypeOK
  <2>2. TypeOK'
    BY <1>0, <1>11, <2>1 DEF Enrolled, TypeOK
  <2> QED
    BY <1>11, <2>2, CountsUnchanged DEF Enrolled
<1>12. ASSUME NEW gone \in SUBSET Held(rows), Forget(gone), Unlocked,
              UNCHANGED <<tx, quota, elsewhere, req, client>>,
              device' \in [Devices -> [status : {"absent", "live", "revoked"}, cursor : Nat]],
              dropping' \subseteq Devices
       PROVE  CountsInv'
  <2>1. TypeOK'
    BY <1>0, <1>12, ForgetExact DEF TypeOK
  <2> QED
    BY <1>0, <1>12, <2>1, ForgetExact DEF CountsInv, TxExact, Numbered, Unlocked
<1>13. ASSUME NEW d \in Devices, Revoke(d) PROVE CountsInv'
  <2>1. ManifestsOf(d) \in SUBSET Held(rows)
    BY DEF ManifestsOf
  <2> QED
    BY <1>0, <1>12, <1>13, <2>1 DEF Revoke, TypeOK
<1>14. ASSUME NEW d \in Devices, RevokeByCommand(d) PROVE CountsInv'
  <2>1. TypeOK'
    BY <1>0, <1>14 DEF RevokeByCommand, TypeOK
  <2> QED
    BY <1>14, <2>1, CountsUnchanged DEF RevokeByCommand
<1>15. ASSUME NEW d \in Devices, DropManifests(d) PROVE CountsInv'
  <2>1. ManifestsOf(d) \in SUBSET Held(rows)
    BY DEF ManifestsOf
  <2> QED
    BY <1>0, <1>12, <1>15, <2>1 DEF DropManifests, TypeOK
<1>16. ASSUME Purge PROVE CountsInv'
  <2>1. Purgeable \in SUBSET Held(rows)
    BY DEF Purgeable
  <2> QED
    BY <1>0, <1>12, <1>16, <2>1 DEF Purge, TypeOK
<1>17. ASSUME Season PROVE CountsInv'
  <2>1. /\ rows' \in [Ids -> Row]
        /\ \A id \in Ids : rows'[id].seq = rows[id].seq /\ rows'[id].len = rows[id].len
    <3>1. \A id \in Ids : rows[id] \in Row /\ [rows[id] EXCEPT !.old = TRUE] \in Row
            /\ [rows[id] EXCEPT !.old = TRUE].seq = rows[id].seq
            /\ [rows[id] EXCEPT !.old = TRUE].len = rows[id].len
      BY <1>0, AgedRow DEF TypeOK
    <3>2. rows' = [id \in Ids |-> IF id \in Held(rows) THEN [rows[id] EXCEPT !.old = TRUE]
                                                      ELSE rows[id]]
      BY <1>17 DEF Season
    <3> QED
      BY <3>1, <3>2
  <2>2. TypeOK'
    BY <1>0, <1>17, <2>1 DEF Season, TypeOK
  <2>3. Held(rows') = Held(rows)
    BY <2>1 DEF Held
  <2>4. Bytes(rows', Held(rows)) = Bytes(rows, Held(rows))
    <3>1. Cells(rows', Held(rows)) = Cells(rows, Held(rows))
      BY <2>1 DEF Cells, Held
    <3>2. IsFiniteSet(Held(rows))
      BY RecordsAssumption, FS_Subset DEF Held
    <3> QED
      BY <3>1, <3>2, CellsFinite
  <2>5. RowsProper(rows')
    BY <1>0, <2>1 DEF RowsProper
  <2> QED
    BY <1>0, <1>17, <2>1, <2>2, <2>3, <2>4, <2>5
    DEF Season, CountsInv, CountsExact, TxExact, Numbered
<1>18. ASSUME OtherAccounts PROVE CountsInv'
  <2>1. TypeOK'
    BY <1>0, <1>18, SizesAssumption DEF OtherAccounts, TypeOK
  <2> QED
    BY <1>18, <2>1, CountsUnchanged DEF OtherAccounts
<1>19. ASSUME Restart PROVE CountsInv'
  <2>1. TypeOK'
    BY <1>0, <1>19, InitialTypes, SizesAssumption DEF Restart, TypeOK
  <2>2. tx'.by = Nobody
    BY <1>19, InitialTypes DEF Restart
  <2> QED
    BY <1>0, <1>19, <2>1, <2>2
    DEF Restart, CountsInv, CountsExact, TxExact, Numbered, RowsProper, Held, Bytes
<1>20. ASSUME UNCHANGED vars PROVE CountsInv'
  <2>1. TypeOK'
    BY <1>0, <1>20 DEF vars, TypeOK
  <2> QED
    BY <1>20, <2>1, CountsUnchanged DEF vars
<1> QED
  BY <1>1, <1>2, <1>3, <1>4, <1>5, <1>6, <1>7, <1>8, <1>9, <1>10, <1>11, <1>13, <1>14,
     <1>15, <1>16, <1>17, <1>18, <1>19, <1>20 DEF Next

\* In every reachable state, for any quotas, batches, losses and restarts, the
\* variables have their types and the account's counts are those of its rows.
THEOREM CountsCorrect == Spec => [](TypeOK /\ CountsExact)
<1>1. Spec => []CountsInv
  BY CountsInit, CountsStep, PTL DEF Spec
<1>2. CountsInv => TypeOK /\ CountsExact
  BY DEF CountsInv
<1> QED
  BY <1>1, <1>2, PTL

\* The types the steps below rely on, taken out of CountsInv once.
LEMMA Types ==
  ASSUME CountsInv
  PROVE  /\ account.seq \in Nat
         /\ \A id \in Ids : /\ rows[id] \in Row /\ rows[id].seq \in Nat
                            /\ rows[id].seq <= account.seq
         /\ \A d \in Devices : /\ client[d].since \in Nat
                               /\ client[d].view \in [Ids -> Version]
                               /\ req[d].versions \in [Ids -> Version]
                               /\ req[d].cursor \in Nat /\ req[d].seq \in Nat
                               /\ device[d].cursor \in Nat
                               /\ \A id \in Ids : /\ client[d].view[id].seq \in Nat
                                                  /\ req[d].versions[id].seq \in Nat
<1>1. account.seq \in Nat
  BY DEF CountsInv, TypeOK
<1>2. \A id \in Ids : /\ rows[id] \in Row /\ rows[id].seq \in Nat
                      /\ rows[id].seq <= account.seq
  BY DEF CountsInv, TypeOK, Numbered, Row
<1>3. \A d \in Devices : client[d].since \in Nat /\ client[d].view \in [Ids -> Version]
  BY DEF CountsInv, TypeOK
<1>4. \A d \in Devices : /\ req[d].versions \in [Ids -> Version]
                         /\ req[d].cursor \in Nat /\ req[d].seq \in Nat
  BY DEF CountsInv, TypeOK, Request
<1>5. \A d \in Devices : device[d].cursor \in Nat
  BY DEF CountsInv, TypeOK
<1>6. \A v \in [Ids -> Version] : \A id \in Ids : v[id].seq \in Nat
  BY DEF Version
<1> QED
  BY <1>1, <1>2, <1>3, <1>4, <1>5, <1>6

\* The same types of the next state.
LEMMA TypesNext ==
  ASSUME CountsInv'
  PROVE  /\ account'.seq \in Nat
         /\ \A id \in Ids : /\ rows'[id] \in Row /\ rows'[id].seq \in Nat
                            /\ rows'[id].seq <= account'.seq
BY DEF CountsInv, TypeOK, Numbered, Row

----------------------------------------------------------------------------
(* Quota.                                                                  *)

\* Forgetting rows takes from what is held.
LEMMA ForgetShrinks ==
  ASSUME CountsInv, NEW gone \in SUBSET Held(rows), Forget(gone)
  PROVE  /\ ~(Cardinality(Held(rows')) > Cardinality(Held(rows)))
         /\ ~(Bytes(rows', Held(rows')) > Bytes(rows, Held(rows)))
<1> DEFINE ns == [id \in Ids |-> IF id \in gone THEN NoRow ELSE rows[id]]
<1>1. rows' = ns /\ rows \in [Ids -> Row] /\ RowsProper(rows)
  BY DEF Forget, CountsInv, TypeOK
<1>2. /\ Bytes(rows, gone) \in Nat /\ Cardinality(gone) \in Nat
      /\ Bytes(ns, Held(ns)) \in Nat /\ Cardinality(Held(ns)) \in Nat
      /\ Bytes(rows, Held(rows)) = Bytes(ns, Held(ns)) + Bytes(rows, gone)
      /\ Cardinality(Held(rows)) = Cardinality(Held(ns)) + Cardinality(gone)
  BY <1>1, RemoveRows
<1> HIDE DEF ns
<1> QED
  BY <1>1, <1>2

\* What is really held grows only within the quota of the account and the cap on
\* all accounts, for any quotas, batches and purges (push_within's refusals).
THEOREM QuotaCorrect == Spec => QuotaHeld
<1> DEFINE Within ==
      /\ Cardinality(Held(rows')) > Cardinality(Held(rows))
           => Cardinality(Held(rows')) <= quota.records
      /\ Bytes(rows', Held(rows')) > Bytes(rows, Held(rows))
           => /\ Bytes(rows', Held(rows')) <= quota.bytes
              /\ Bytes(rows', Held(rows')) + elsewhere <= quota.server_bytes
<1>1. CountsInv /\ [Next]_vars => [Within]_vars
  <2> SUFFICES ASSUME CountsInv, [Next]_vars PROVE Within
    OBVIOUS
  <2>0. Cardinality(Held(rows)) \in Nat /\ Bytes(rows, Held(rows)) \in Nat
        /\ elsewhere \in Nat
    BY DEF CountsInv, CountsExact, TypeOK
  <2>1. CASE UNCHANGED rows
    BY <2>0, <2>1
  <2>2. CASE PushCommit
    <3>1. /\ tx.by # Nobody /\ rows' = tx.rows
          /\ ~(tx.records > account.record_count /\ tx.records > quota.records)
          /\ ~(tx.bytes > account.record_bytes /\ tx.bytes > quota.bytes)
          /\ ~(tx.bytes > account.record_bytes /\ elsewhere + tx.bytes > quota.server_bytes)
      BY <2>2 DEF PushCommit, Unlocked, OverQuota
    <3>2. /\ tx.records = Cardinality(Held(rows')) /\ tx.bytes = Bytes(rows', Held(rows'))
          /\ account.record_count = Cardinality(Held(rows))
          /\ account.record_bytes = Bytes(rows, Held(rows))
      BY <3>1 DEF CountsInv, TxExact, CountsExact
    <3>3. /\ tx.records \in Nat /\ tx.bytes \in Int
          /\ quota.records \in Nat /\ quota.bytes \in Nat /\ quota.server_bytes \in Nat
      BY DEF CountsInv, TypeOK
    <3> QED
      BY <2>0, <3>1, <3>2, <3>3
  <2>3. CASE Season
    <3>1. /\ \A id \in Ids : rows[id] \in Row
          /\ \A id \in Ids : rows'[id] = rows[id] \/ rows'[id] = [rows[id] EXCEPT !.old = TRUE]
      BY <2>3, Types DEF Season
    <3>2. \A id \in Ids : rows'[id].seq = rows[id].seq /\ rows'[id].len = rows[id].len
      BY <3>1, AgedRow
    <3>3. Held(rows') = Held(rows)
      BY <3>2 DEF Held
    <3>4. Bytes(rows', Held(rows')) = Bytes(rows, Held(rows))
      BY <3>2, <3>3 DEF Bytes, Held
    <3> QED
      BY <2>0, <3>3, <3>4
  <2>4. CASE Purge
    BY <2>4, ForgetShrinks DEF Purge, Purgeable
  <2>5. ASSUME NEW d \in Devices, Revoke(d) \/ DropManifests(d) PROVE Within
    BY <2>5, ForgetShrinks DEF Revoke, DropManifests, ManifestsOf
  <2> QED
    BY <2>1, <2>2, <2>3, <2>4, <2>5
    DEF Next, vars, PushArrives, PushTurnedAway, PushBegin, PullArrives, PullAnswered,
        Delivered, Lost, Enrolled, RevokeByCommand, PushEnvelope, PushRefused,
        OtherAccounts, Restart
<1> QED
  BY <1>1, CountsInit, CountsStep, PTL DEF Spec, QuotaHeld

----------------------------------------------------------------------------
(* What a transaction is made of.                                          *)

\* Some record of the request is this envelope.
InBatch(d, envelope) == \E i \in DOMAIN req[d].batch : req[d].batch[i] = envelope

\* The transaction is the table with some rows numbered above the account.
TxOnTop ==
  tx.by # Nobody =>
    /\ req[tx.by].at = "pushing"
    /\ \A id \in Ids : tx.rows[id] = rows[id] \/ tx.rows[id].seq > account.seq

\* The transaction differs from the table in rows that are new and numbered
\* each for itself, and each of them that replaces a row is in the request,
\* based on that row.
TxFaithful ==
  tx.by # Nobody =>
    /\ \A id \in Ids : tx.rows[id] = rows[id] \/ ~tx.rows[id].old
    /\ \A id, other \in Ids : id # other /\ tx.rows[id].seq > account.seq
                                => tx.rows[id].seq # tx.rows[other].seq
    /\ \A i \in DOMAIN tx.todo : InBatch(tx.by, tx.todo[i])
    /\ \A id \in Ids : rows[id].seq # 0 /\ tx.rows[id] # rows[id] =>
         \E i \in DOMAIN req[tx.by].batch : /\ req[tx.by].batch[i].id = id
                                            /\ req[tx.by].batch[i].base_seq = rows[id].seq

TxInv == CountsInv /\ TxOnTop /\ TxFaithful

\* Without a transaction nothing is asked of one.
LEMMA NoTransaction ==
  ASSUME tx.by = Nobody
  PROVE  TxOnTop /\ TxFaithful
BY DEF TxOnTop, TxFaithful

\* A new account has no transaction.
LEMMA TxInit == Init => TxInv
<1> SUFFICES ASSUME Init PROVE TxInv
  OBVIOUS
<1>1. tx.by = Nobody
  BY InitialTypes DEF Init
<1> QED
  BY <1>1, CountsInit, NoTransaction DEF TxInv

\* A transaction that is opened is the table, and all of the batch is to do.
LEMMA BeginFaithful ==
  ASSUME TxInv, NEW d \in Devices, PushBegin(d)
  PROVE  TxFaithful'
<1>1. /\ tx'.by = d /\ tx'.rows = rows /\ tx'.todo = req[d].batch
      /\ UNCHANGED <<account, rows, req>>
  BY DEF PushBegin
<1>2. /\ account.seq \in Nat
      /\ \A id \in Ids : rows[id].seq \in Nat /\ rows[id].seq <= account.seq
  BY Types DEF TxInv
<1>3. (\A i \in DOMAIN tx.todo : InBatch(tx.by, tx.todo[i]))'
  BY <1>1 DEF InBatch
<1>4. \A id \in Ids : ~(tx'.rows[id].seq > account'.seq)
  BY <1>1, <1>2
<1> QED
  BY <1>1, <1>3, <1>4 DEF TxFaithful

\* An envelope that is taken replaces a row the request is based on, and its
\* number is its own.
LEMMA EnvelopeFaithful ==
  ASSUME TxInv, PushEnvelope
  PROVE  TxFaithful'
<1> DEFINE envelope == Head(tx.todo)
           id == envelope.id
           batch == req[tx.by].batch
<1>1. /\ tx.by # Nobody /\ tx.by \in Devices /\ tx.todo # <<>> /\ tx.todo \in Seq(Envelope)
      /\ tx \in [by : Devices \cup {Nobody}, todo : Seq(Envelope), seq : Nat,
                 records : Nat, bytes : Int, rows : [Ids -> Row]]
      /\ account.seq \in Nat /\ tx.seq \in Nat /\ tx.seq >= account.seq
      /\ \A x \in Ids : /\ tx.rows[x].seq \in Nat /\ tx.rows[x].seq <= tx.seq
                        /\ rows[x].seq \in Nat /\ rows[x].seq <= account.seq
      /\ UNCHANGED <<account, rows, req>>
  BY DEF TxInv, CountsInv, TypeOK, Numbered, PushEnvelope, Unlocked, Row
<1>2. envelope \in Envelope /\ id \in Ids /\ InBatch(tx.by, envelope)
  <2>1. 1 \in DOMAIN tx.todo /\ envelope = tx.todo[1] /\ envelope \in Envelope
    BY <1>1
  <2>2. InBatch(tx.by, tx.todo[1])
    BY <1>1, <2>1 DEF TxInv, TxFaithful
  <2> QED
    BY <2>1, <2>2 DEF Envelope
<1>3. tx'.by = tx.by /\ tx'.todo = Tail(tx.todo)
  BY <1>1 DEF PushEnvelope
<1>4. (\A i \in DOMAIN tx.todo : InBatch(tx.by, tx.todo[i]))'
  <2>1. \A i \in DOMAIN Tail(tx.todo) : i + 1 \in DOMAIN tx.todo
                                        /\ Tail(tx.todo)[i] = tx.todo[i + 1]
    BY <1>1
  <2> QED
    BY <1>1, <1>3, <2>1 DEF TxInv, TxFaithful, InBatch
<1>5. CASE tx'.rows = tx.rows
  BY <1>1, <1>3, <1>4, <1>5 DEF TxInv, TxFaithful
<1>6. CASE tx'.rows # tx.rows
  <2>1. /\ ~Conflicts(tx.rows, envelope)
        /\ tx'.rows[id].seq = tx.seq + 1 /\ ~tx'.rows[id].old
        /\ \A x \in Ids : x # id => tx'.rows[x] = tx.rows[x]
    BY <1>1, <1>2, <1>6 DEF PushEnvelope
  <2>2. \A x \in Ids : tx'.rows[x] = rows'[x] \/ ~tx'.rows[x].old
    BY <1>1, <2>1 DEF TxInv, TxFaithful
  <2>3. ASSUME NEW x \in Ids, NEW y \in Ids, x # y, tx'.rows[x].seq > account'.seq
        PROVE  tx'.rows[x].seq # tx'.rows[y].seq
    BY <1>1, <2>1, <2>3 DEF TxInv, TxFaithful
  <2>4. ASSUME NEW x \in Ids, rows[x].seq # 0, tx'.rows[x] # rows[x]
        PROVE  \E i \in DOMAIN batch : batch[i].id = x /\ batch[i].base_seq = rows[x].seq
    <3>1. CASE tx.rows[x] # rows[x]
      BY <1>1, <2>4, <3>1 DEF TxInv, TxFaithful
    <3>2. CASE tx.rows[x] = rows[x]
      <4>1. x = id
        BY <2>1, <2>4, <3>2
      <4>2. envelope.base_seq = rows[x].seq
        BY <2>1, <2>4, <3>2, <4>1 DEF Conflicts
      <4> QED
        BY <1>2, <4>1, <4>2 DEF InBatch
    <3> QED
      BY <3>1, <3>2
  <2> QED
    BY <1>1, <1>3, <1>4, <2>2, <2>3, <2>4 DEF TxFaithful
<1> QED
  BY <1>5, <1>6

\* The transaction stays on top of the table.
LEMMA TxStep ==
  ASSUME CountsInv, TxOnTop, CountsInv', [Next]_vars
  PROVE  TxOnTop'
<1>0. /\ CountsInv /\ TxOnTop /\ tx.by \in Devices \cup {Nobody}
      /\ req \in [Devices -> Request]
      /\ account.seq \in Nat
  BY DEF CountsInv, TypeOK
<1>1. CASE tx'.by = Nobody
  BY <1>1 DEF TxOnTop
<1>2. ASSUME UNCHANGED <<account, rows, tx>>,
             tx.by \in Devices => req'[tx.by].at = req[tx.by].at
      PROVE  TxOnTop'
  BY <1>0, <1>2 DEF TxOnTop
<1>3. ASSUME NEW d \in Devices, PushBegin(d) PROVE TxOnTop'
  BY <1>3 DEF PushBegin, TxOnTop
<1>4. CASE PushEnvelope
  <2>0. /\ tx.by \in Devices /\ tx.by # Nobody /\ tx.seq \in Nat /\ tx.seq >= account.seq
        /\ tx \in [by : Devices \cup {Nobody}, todo : Seq(Envelope), seq : Nat,
                   records : Nat, bytes : Int, rows : [Ids -> Row]]
    BY <1>0, <1>4 DEF PushEnvelope, Unlocked, CountsInv, TypeOK, Numbered
  <2>1. tx'.by = tx.by
    BY <1>4, <2>0 DEF PushEnvelope
  <2>2. \A id \in Ids : tx'.rows[id] = tx.rows[id] \/ tx'.rows[id].seq = tx.seq + 1
    BY <1>4, <2>0 DEF PushEnvelope
  <2>3. UNCHANGED <<account, rows, req>>
    BY <1>4 DEF PushEnvelope
  <2> QED
    BY <1>0, <2>0, <2>1, <2>2, <2>3 DEF TxOnTop
<1>5. CASE Season
  <2>1. tx.by = Nobody
    BY <1>0, <1>5 DEF Season, TxOnTop
  <2> QED
    BY <1>5, <2>1 DEF Season, TxOnTop
<1>6. ASSUME NEW d \in Devices, PushArrives(d) \/ Delivered(d) \/ Lost(d) PROVE TxOnTop'
  <2>1. req[d].at # "pushing"
    BY <1>6, RecordsAssumption DEF PushArrives, Delivered, Lost
  <2>2. tx.by \in Devices => d # tx.by
    BY <1>0, <2>1, RecordsAssumption DEF TxOnTop
  <2>3. tx.by \in Devices => req'[tx.by] = req[tx.by]
    BY <1>0, <1>6, <2>2 DEF PushArrives, Delivered, Lost
  <2> QED
    BY <1>2, <1>6, <2>3 DEF PushArrives, Delivered, Lost
<1>7. CASE UNCHANGED <<account, rows, tx, req>>
  BY <1>2, <1>7
<1>8. CASE Unlocked /\ UNCHANGED tx
  BY <1>1, <1>8 DEF Unlocked
<1>9. CASE tx' = NoTx
  BY <1>1, <1>9, InitialTypes
<1> QED
  BY <1>3, <1>4, <1>5, <1>6, <1>7, <1>8, <1>9
  DEF Next, vars, PushTurnedAway, PullArrives, PullAnswered, Enrolled, Revoke,
      RevokeByCommand, DropManifests, Purge, PushRefused, PushCommit, OtherAccounts, Restart

\* Every step keeps a transaction faithful to its request and to the table.
LEMMA TxInvStep == TxInv /\ [Next]_vars => TxInv'
<1> SUFFICES ASSUME TxInv, [Next]_vars PROVE TxInv'
  OBVIOUS
<1>0. /\ CountsInv' /\ TxOnTop'
      /\ tx.by \in Devices \cup {Nobody} /\ req \in [Devices -> Request]
  BY CountsStep, TxStep DEF TxInv, CountsInv, TypeOK
<1> SUFFICES TxFaithful'
  BY <1>0 DEF TxInv
<1>1. CASE tx'.by = Nobody
  BY <1>1 DEF TxFaithful
<1>2. CASE Unlocked /\ UNCHANGED tx
  BY <1>1, <1>2 DEF Unlocked
<1>3. ASSUME UNCHANGED <<account, rows, tx>>,
             tx.by \in Devices => req'[tx.by] = req[tx.by]
      PROVE  TxFaithful'
  <2>1. CASE tx.by = Nobody
    BY <1>1, <1>3, <2>1
  <2>2. CASE tx.by # Nobody
    BY <1>0, <1>3, <2>2 DEF TxInv, TxFaithful, InBatch
  <2> QED
    BY <2>1, <2>2
<1>4. ASSUME NEW d \in Devices, PushBegin(d) PROVE TxFaithful'
  BY <1>4, BeginFaithful
<1>5. CASE PushEnvelope
  BY <1>5, EnvelopeFaithful
<1>6. CASE Season
  <2>1. tx.by = Nobody
    BY <1>0, <1>6 DEF Season, TxInv, TxOnTop
  <2> QED
    BY <1>1, <1>6, <2>1 DEF Season
<1>7. ASSUME NEW d \in Devices, Delivered(d) \/ Lost(d) PROVE TxFaithful'
  <2>1. req[d].at # "pushing"
    BY <1>7, RecordsAssumption DEF Delivered, Lost
  <2>2. tx.by \in Devices => d # tx.by
    BY <1>0, <2>1, RecordsAssumption DEF TxInv, TxOnTop
  <2>3. tx.by \in Devices => req'[tx.by] = req[tx.by]
    BY <1>0, <1>7, <2>2 DEF Delivered, Lost
  <2> QED
    BY <1>3, <1>7, <2>3 DEF Delivered, Lost
<1>8. CASE tx' = NoTx
  BY <1>1, <1>8, InitialTypes
<1> QED
  BY <1>2, <1>3, <1>4, <1>5, <1>6, <1>7, <1>8
  DEF Next, vars, PushArrives, PushTurnedAway, PullArrives, PullAnswered, Enrolled, Revoke,
      RevokeByCommand, DropManifests, Purge, PushRefused, PushCommit, OtherAccounts, Restart

\* No device overwrites what another wrote meanwhile: whatever the batches, a
\* version is only replaced by a push based on it (push_within).
THEOREM NoUpdateLost == Spec => NoLostUpdate
<1> DEFINE Kept == \A id \in Ids : rows[id].seq # 0 /\ rows'[id].seq > rows[id].seq =>
                     \E d \in Devices : \E i \in DOMAIN req[d].batch :
                       /\ req[d].batch[i].id = id
                       /\ req[d].batch[i].base_seq = rows[id].seq
<1>1. Spec => []TxInv
  BY TxInit, TxInvStep, PTL DEF Spec
<1>2. TxInv /\ [Next]_vars => [Kept]_vars
  <2> SUFFICES ASSUME TxInv, [Next]_vars PROVE Kept
    OBVIOUS
  <2>1. CASE PushCommit
    <3>1. tx.by # Nobody /\ tx.by \in Devices /\ rows' = tx.rows
      BY <2>1 DEF PushCommit, Unlocked, TxInv, CountsInv, TypeOK
    <3>2. \A id \in Ids : rows[id].seq \in Nat
      BY Types DEF TxInv
    <3>3. \A id \in Ids : rows'[id].seq > rows[id].seq => tx.rows[id] # rows[id]
      BY <3>1, <3>2
    <3> QED
      BY <3>1, <3>3 DEF TxInv, TxFaithful
  <2>2. CASE \A id \in Ids : rows'[id].seq \in {rows[id].seq, 0}
    <3>1. \A id \in Ids : rows[id].seq \in Nat
      BY Types DEF TxInv
    <3> QED
      BY <2>2, <3>1
  <2>3. CASE UNCHANGED rows
    BY <2>2, <2>3
  <2>4. CASE Season
    <3>1. \A id \in Ids : rows[id] \in Row
      BY Types DEF TxInv
    <3>2. \A id \in Ids : rows'[id] = rows[id] \/ rows'[id] = [rows[id] EXCEPT !.old = TRUE]
      BY <2>4 DEF Season
    <3>3. \A id \in Ids : rows'[id].seq = rows[id].seq
      BY <3>1, <3>2, AgedRow
    <3> QED
      BY <2>2, <3>3
  <2>5. ASSUME NEW gone, Forget(gone) PROVE Kept
    <3>1. \A id \in Ids : rows'[id].seq \in {rows[id].seq, 0}
      BY <2>5 DEF Forget, NoRow
    <3> QED
      BY <2>2, <3>1
  <2> QED
    BY <2>1, <2>3, <2>4, <2>5
    DEF Next, vars, PushArrives, PushTurnedAway, PushBegin, PullArrives, PullAnswered,
        Delivered, Lost, Enrolled, Revoke, RevokeByCommand, DropManifests, PushEnvelope,
        PushRefused, Purge, OtherAccounts, Restart
<1> QED
  BY <1>1, <1>2, PTL DEF Spec, NoLostUpdate

----------------------------------------------------------------------------
(* RecordStore.                                                            *)

\* The store that the rows are.
Versions(rs) == [id \in Ids |-> VersionOf(rs[id])]

\* The versions of well-typed rows are well typed.
LEMMA VersionsType ==
  ASSUME NEW rs \in [Ids -> Row]
  PROVE  /\ Versions(rs) \in [Ids -> Version]
         /\ \A id \in Ids : /\ Versions(rs)[id] = VersionOf(rs[id])
                            /\ Versions(rs)[id].seq = rs[id].seq
                            /\ Versions(rs)[id].deleted = rs[id].deleted
BY DEF Versions, VersionOf, Version, Row

\* A commit is one write: what it changes is numbered above the account's
\* number, each for itself.  A batch of nothing but conflicts changes nothing.
LEMMA CommitWrites ==
  ASSUME TxInv, TxInv', PushCommit
  PROVE  Store!Write \/ UNCHANGED <<Versions(rows), account.seq>>
<1>1. /\ tx.by # Nobody /\ rows' = tx.rows /\ account'.seq = tx.seq
      /\ rows \in [Ids -> Row] /\ rows' \in [Ids -> Row]
      /\ account.seq \in Nat /\ tx.seq \in Nat /\ tx.seq >= account.seq
  BY DEF PushCommit, Unlocked, TxInv, CountsInv, TypeOK, Numbered
<1>2. \A id \in Ids : /\ rows[id].seq \in Nat /\ tx.rows[id].seq \in Nat
                      /\ tx.rows[id].seq <= tx.seq
                      /\ tx.rows[id] = rows[id] \/ tx.rows[id].seq > account.seq
  BY <1>1 DEF TxInv, CountsInv, Numbered, TxOnTop, Row
<1>3. CASE tx.seq = account.seq
  <2>1. \A id \in Ids : rows'[id] = rows[id]
    BY <1>1, <1>2, <1>3
  <2> QED
    BY <1>1, <1>3, <2>1 DEF Versions
<1>4. CASE tx.seq # account.seq
  <2>1. account'.seq \in Nat /\ account'.seq > account.seq
    BY <1>1, <1>4
  <2>2. Versions(rows)' \in [Ids -> Version]
    BY <1>1, VersionsType DEF Versions
  <2>3. \A id \in Ids : /\ Versions(rows)[id] = VersionOf(rows[id])
                        /\ Versions(rows)'[id] = VersionOf(rows'[id])
                        /\ Versions(rows)'[id].seq = tx.rows[id].seq
    BY <1>1, VersionsType DEF Versions
  <2>4. \A id \in Ids : \/ Versions(rows)'[id] = Versions(rows)[id]
                        \/ Versions(rows)'[id].seq \in (account.seq + 1)..account'.seq
    BY <1>1, <1>2, <2>3
  <2>5. \A id, other \in Ids : id # other /\ Versions(rows)'[id].seq > account.seq
                                 => Versions(rows)'[id].seq # Versions(rows)'[other].seq
    BY <1>1, <2>3 DEF TxInv, TxFaithful
  <2> QED
    BY <2>1, <2>2, <2>4, <2>5 DEF Store!Write, Store!Version, Version, Versions
<1> QED
  BY <1>3, <1>4

\* Rows that are forgotten are forgotten by the store, if each was a tombstone
\* or a manifest.
LEMMA ForgetForgets ==
  ASSUME CountsInv, NEW gone \in SUBSET Held(rows), Forget(gone),
         \A id \in gone : rows[id].deleted \/ id \in Manifests
  PROVE  Store!Forget
<1>1. rows \in [Ids -> Row] /\ rows' \in [Ids -> Row] /\ account'.seq = account.seq
  BY ForgetExact DEF CountsInv, TypeOK
<1>2. \A id \in Ids : \/ id \notin gone /\ rows'[id] = rows[id]
                      \/ id \in gone /\ rows'[id] = NoRow
  BY DEF Forget
<1>3. VersionOf(NoRow) = Nothing
  BY DEF VersionOf, NoRow, Nothing
<1>4. /\ Versions(rows)' \in [Ids -> Version]
      /\ \A id \in Ids : /\ Versions(rows)[id] = VersionOf(rows[id])
                         /\ Versions(rows)[id].deleted = rows[id].deleted
                         /\ Versions(rows)'[id] = VersionOf(rows'[id])
  BY <1>1, VersionsType DEF Versions
<1>5. \A id \in Ids : \/ Versions(rows)'[id] = Versions(rows)[id]
                      \/ /\ Versions(rows)'[id] = Nothing
                         /\ Versions(rows)[id].deleted \/ id \in Manifests
  BY <1>2, <1>3, <1>4
<1> QED
  BY <1>1, <1>4, <1>5
  DEF Store!Forget, Store!Version, Store!Nothing, Version, Nothing, Versions

\* Every step of the mailbox is a write, a forgetting, or nothing to the store.
LEMMA StepOfStore ==
  ASSUME TxInv, TxInv', [Next]_vars
  PROVE  [Store!Next]_<<Versions(rows), account.seq>>
<1>0. CountsInv
  BY DEF TxInv
<1>1. CASE PushCommit
  BY <1>1, CommitWrites DEF Store!Next
<1>2. CASE UNCHANGED <<account, rows>>
  BY <1>2 DEF Versions
<1>3. CASE Season
  <2>1. \A id \in Ids : rows[id] \in Row
    BY <1>0, Types
  <2>2. \A id \in Ids : rows'[id] = rows[id] \/ rows'[id] = [rows[id] EXCEPT !.old = TRUE]
    BY <1>3 DEF Season
  <2>3. \A id \in Ids : VersionOf(rows'[id]) = VersionOf(rows[id])
    BY <2>1, <2>2, AgedRow
  <2> QED
    BY <1>3, <2>3 DEF Season, Versions
<1>4. CASE Purge
  BY <1>0, <1>4, ForgetForgets DEF Purge, Purgeable, Store!Next
<1>5. ASSUME NEW d \in Devices, Revoke(d) \/ DropManifests(d) PROVE Store!Forget
  BY <1>0, <1>5, ForgetForgets DEF Revoke, DropManifests, ManifestsOf
<1> QED
  BY <1>1, <1>2, <1>3, <1>4, <1>5
  DEF Next, vars, Store!Next, PushArrives, PushTurnedAway, PushBegin, PullArrives,
      PullAnswered, Delivered, Lost, Enrolled, RevokeByCommand, PushEnvelope, PushRefused,
      OtherAccounts, Restart

\* For any batches, quotas, purges and restarts, the server implements
\* RecordStore: a push is one write numbered upwards, and nothing but tombstones
\* and manifests ever goes (push_within, purge_tombstones, drop_manifests_of).
THEOREM ImplementsRecordStore == Spec => KeepsRecordStore
<1>1. Init => Store!Init
  BY DEF Init, Store!Init, Store!Nothing, VersionOf, NoRow
<1>2. Spec => []TxInv
  BY TxInit, TxInvStep, PTL DEF Spec
<1>3. TxInv /\ TxInv' /\ [Next]_vars
        => [Store!Next]_<<[id \in Ids |-> VersionOf(rows[id])], account.seq>>
  BY StepOfStore DEF Versions
<1> QED
  BY <1>1, <1>2, <1>3, PTL DEF Spec, KeepsRecordStore, Store!Spec

----------------------------------------------------------------------------
(* Devices and server agree: what devices know, for every number of       *)
(* devices and records, every page size and every interleaving.            *)

(* The inductive invariant.                                                *)

\* A version a device has been told is the row's, or an older one.
NotNewer(version, row) == version.seq < row.seq \/ version = VersionOf(row)

\* What a device knows: nothing the account has not numbered, nothing newer
\* than the row there is, and everything up to its cursor.
ViewOK(d) ==
  /\ client[d].since <= account.seq
  /\ \A id \in Ids : client[d].view[id].seq <= account.seq
  /\ \A id \in Ids : rows[id].seq # 0 => NotNewer(client[d].view[id], rows[id])
  /\ device[d].status = "live" =>
       \A id \in Readable(d, Ids) : rows[id].seq # 0 /\ rows[id].seq <= client[d].since
         => client[d].view[id] = VersionOf(rows[id])
  /\ device[d].status = "absent" => client[d].since = 0 /\ client[d].view = Silent

\* The same of an answer on its way: taking in a page leaves the device with
\* everything up to the page's cursor.
AnswerOK(d) ==
  /\ req[d].seq <= account.seq
  /\ \A id \in Ids : req[d].versions[id].seq <= account.seq
  /\ \A id \in Ids : rows[id].seq # 0 => NotNewer(req[d].versions[id], rows[id])
  /\ req[d].at \notin {"pushed", "pulled"} => req[d].versions = Silent
  /\ req[d].at = "pulled" => client[d].since <= req[d].cursor /\ req[d].cursor <= account.seq
  /\ device[d].status = "live" /\ req[d].at = "pulled" =>
       \A id \in Readable(d, Ids) : rows[id].seq # 0 /\ rows[id].seq <= req[d].cursor
         => Learn(client[d].view, req[d].versions)[id] = VersionOf(rows[id])
  /\ device[d].status = "absent" => req[d].at = "idle"

SyncInv == CountsInv /\ TxOnTop /\ \A d \in Devices : ViewOK(d) /\ AnswerOK(d)

\* What any step may do to the rows: nothing, take them away, or number them
\* above every number so far.
RowsMove ==
  /\ account.seq <= account'.seq
  /\ \A id \in Ids : \/ VersionOf(rows'[id]) = VersionOf(rows[id])
                     \/ rows'[id].seq = 0
                     \/ rows'[id].seq > account.seq

\* A version that is not newer than the row stays so while the rows move.
LEMMA NotNewerKept ==
  ASSUME CountsInv, CountsInv', RowsMove, NEW id \in Ids, rows'[id].seq # 0,
         NEW v \in Version, v.seq <= account.seq,
         rows[id].seq # 0 => NotNewer(v, rows[id])
  PROVE  NotNewer(v, rows'[id])
<1>1. v.seq \in Nat /\ rows'[id].seq \in Nat /\ rows[id].seq \in Nat /\ account.seq \in Nat
  BY Types, TypesNext DEF Version
<1>2. CASE VersionOf(rows'[id]) = VersionOf(rows[id])
  <2>1. rows'[id].seq = rows[id].seq
    BY <1>2 DEF VersionOf
  <2> QED
    BY <1>2, <2>1 DEF NotNewer
<1>3. CASE rows'[id].seq > account.seq
  BY <1>1, <1>3 DEF NotNewer
<1> QED
  BY <1>2, <1>3 DEF RowsMove

\* A row numbered no higher than the account was is a row that did not move.
LEMMA OldRow ==
  ASSUME CountsInv, CountsInv', RowsMove, NEW id \in Ids, NEW n \in Nat,
         n <= account.seq, rows'[id].seq # 0, rows'[id].seq <= n
  PROVE  VersionOf(rows'[id]) = VersionOf(rows[id]) /\ rows'[id].seq = rows[id].seq
<1>1. rows'[id].seq \in Nat /\ account.seq \in Nat
  BY Types, TypesNext
<1>2. VersionOf(rows'[id]) = VersionOf(rows[id])
  BY <1>1 DEF RowsMove
<1> QED
  BY <1>2 DEF VersionOf

\* A device that is left alone stays right while the rows move.
LEMMA ViewKept ==
  ASSUME CountsInv, CountsInv', RowsMove, NEW d \in Devices, ViewOK(d),
         client'[d] = client[d],
         device'[d].status \in {device[d].status, "revoked"}
  PROVE  ViewOK(d)'
<1>0. client[d].since \in Nat /\ \A id \in Ids : client[d].view[id] \in Version
  BY Types
<1>1. \A id \in Ids : rows'[id].seq # 0 => NotNewer(client[d].view[id], rows'[id])
  BY <1>0, NotNewerKept DEF ViewOK
<1>2. \A id \in Ids : rows'[id].seq # 0 /\ rows'[id].seq <= client[d].since =>
        VersionOf(rows'[id]) = VersionOf(rows[id]) /\ rows'[id].seq = rows[id].seq
  BY <1>0, OldRow DEF ViewOK
<1>3. device'[d].status = "live" =>
        \A id \in Readable(d, Ids) : rows'[id].seq # 0 /\ rows'[id].seq <= client[d].since
          => client[d].view[id] = VersionOf(rows'[id])
  BY <1>2 DEF ViewOK, Readable
<1>4. client[d].since <= account'.seq
      /\ \A id \in Ids : client[d].view[id].seq <= account'.seq
  <2>1. account'.seq \in Nat
    BY DEF CountsInv, TypeOK
  <2> QED
    BY <2>1, Types DEF ViewOK, RowsMove
<1> QED
  BY <1>1, <1>3, <1>4 DEF ViewOK

\* An answer on its way to a device stays right while the rows move.
LEMMA AnswerKept ==
  ASSUME CountsInv, CountsInv', RowsMove, NEW d \in Devices, AnswerOK(d),
         client'[d] = client[d], req'[d] = req[d],
         device'[d].status \in {device[d].status, "revoked"}
  PROVE  AnswerOK(d)'
<1>0. req[d].cursor \in Nat /\ \A id \in Ids : req[d].versions[id] \in Version
  BY Types
<1>1. \A id \in Ids : rows'[id].seq # 0 => NotNewer(req[d].versions[id], rows'[id])
  BY <1>0, NotNewerKept DEF AnswerOK
<1>2. req[d].at = "pulled" =>
       \A id \in Ids : rows'[id].seq # 0 /\ rows'[id].seq <= req[d].cursor =>
         VersionOf(rows'[id]) = VersionOf(rows[id]) /\ rows'[id].seq = rows[id].seq
  BY <1>0, OldRow DEF AnswerOK
<1>3. device'[d].status = "live" /\ req[d].at = "pulled" =>
        \A id \in Readable(d, Ids) : rows'[id].seq # 0 /\ rows'[id].seq <= req[d].cursor
          => Learn(client[d].view, req[d].versions)[id] = VersionOf(rows'[id])
  BY <1>2 DEF AnswerOK, Readable
<1>4. /\ req[d].seq <= account'.seq
      /\ \A id \in Ids : req[d].versions[id].seq <= account'.seq
      /\ req[d].at = "pulled" => client[d].since <= req[d].cursor
                                 /\ req[d].cursor <= account'.seq
  <2>1. account'.seq \in Nat
    BY DEF CountsInv, TypeOK
  <2> QED
    BY <2>1, Types DEF AnswerOK, RowsMove
<1> QED
  BY <1>1, <1>3, <1>4 DEF AnswerOK

\* A request that carries no answer is right whatever the rows do.
LEMMA NoAnswer ==
  ASSUME CountsInv', NEW d \in Devices,
         req'[d].at \notin {"pushed", "pulled"}, req'[d].versions = Silent,
         req'[d].seq <= account'.seq, device'[d].status = "absent" => req'[d].at = "idle"
  PROVE  AnswerOK(d)'
<1>1. \A id \in Ids : Silent[id].seq = 0
  BY DEF Silent, Nothing
<1>2. account'.seq \in Nat /\ \A id \in Ids : rows'[id].seq \in Nat
  BY DEF CountsInv, TypeOK, Row
<1> QED
  BY <1>1, <1>2 DEF AnswerOK, NotNewer

\* With an empty table every device knows all there is.
LEMMA SyncInit == Init => SyncInv
<1> SUFFICES ASSUME Init PROVE SyncInv
  OBVIOUS
<1>1. CountsInv
  BY CountsInit
<1>2. TxOnTop
  BY InitialTypes DEF Init, TxOnTop
<1>3. ASSUME NEW d \in Devices PROVE ViewOK(d) /\ AnswerOK(d)
  <2>1. client[d].since = 0 /\ client[d].view = Silent
    BY DEF Init
  <2>2. req[d].at = "idle" /\ req[d].versions = Silent /\ req[d].seq = 0
    BY DEF Init, Idle
  <2>3. \A id \in Ids : rows[id].seq = 0 /\ Silent[id].seq = 0
    BY DEF Init, NoRow, Silent, Nothing
  <2>4. account.seq = 0
    BY DEF Init
  <2> QED
    BY <2>1, <2>2, <2>3, <2>4 DEF ViewOK, AnswerOK, Readable
<1> QED
  BY <1>1, <1>2, <1>3 DEF SyncInv

\* Forgetting rows is one way for the rows to move.
LEMMA ForgetMoves ==
  ASSUME CountsInv, NEW gone \in SUBSET Held(rows), Forget(gone)
  PROVE  RowsMove
<1>1. account'.seq = account.seq /\ account.seq \in Nat
  BY ForgetExact, Types
<1>2. \A id \in Ids : rows'[id] = rows[id] \/ rows'[id].seq = 0
  BY DEF Forget, NoRow
<1> QED
  BY <1>1, <1>2 DEF RowsMove

\* Whatever the step, a row stays, goes, or gets a number above the account's.
LEMMA StepRows ==
  ASSUME CountsInv, TxOnTop, [Next]_vars
  PROVE  RowsMove
<1>0. CountsInv /\ account.seq \in Nat
  BY Types
<1>1. CASE UNCHANGED <<account, rows>>
  BY <1>0, <1>1 DEF RowsMove
<1>2. CASE PushCommit
  <2>1. tx.by # Nobody /\ account'.seq = tx.seq /\ rows' = tx.rows
    BY <1>2 DEF PushCommit, Unlocked
  <2>2. account.seq <= account'.seq
    BY <1>0, <2>1 DEF CountsInv, Numbered, TypeOK
  <2>3. \A id \in Ids : rows'[id] = rows[id] \/ rows'[id].seq > account.seq
    BY <2>1 DEF TxOnTop
  <2> QED
    BY <2>2, <2>3 DEF RowsMove
<1>3. CASE Season
  <2>1. \A id \in Ids : rows[id] \in Row
    BY <1>0, Types
  <2>2. \A id \in Ids : rows'[id] = rows[id] \/ rows'[id] = [rows[id] EXCEPT !.old = TRUE]
    BY <1>3 DEF Season
  <2>3. account' = account
    BY <1>3 DEF Season
  <2> QED
    <3>1. \A id \in Ids : VersionOf([rows[id] EXCEPT !.old = TRUE]) = VersionOf(rows[id])
      BY <2>1, AgedRow
    <3>2. \A id \in Ids : VersionOf(rows'[id]) = VersionOf(rows[id])
      BY <2>2, <3>1
    <3> QED
      BY <1>0, <2>3, <3>2 DEF RowsMove
<1>4. CASE Purge
  BY <1>0, <1>4, ForgetMoves DEF Purge, Purgeable
<1>5. ASSUME NEW d \in Devices, Revoke(d) \/ DropManifests(d) PROVE RowsMove
  BY <1>0, <1>5, ForgetMoves DEF Revoke, DropManifests, ManifestsOf
<1> QED
  BY <1>1, <1>2, <1>3, <1>4, <1>5
  DEF Next, vars, PushArrives, PushTurnedAway, PushBegin, PullArrives, PullAnswered,
      Delivered, Lost, Enrolled, RevokeByCommand, PushEnvelope, PushRefused,
      OtherAccounts, Restart

\* Taking in an answer: newer versions replace older ones.
LEMMA LearnFacts ==
  ASSUME NEW view \in [Ids -> Version], NEW versions \in [Ids -> Version], NEW id \in Ids
  PROVE  /\ Learn(view, versions) \in [Ids -> Version]
         /\ Learn(view, versions)[id] \in {view[id], versions[id]}
         /\ versions[id].seq > view[id].seq => Learn(view, versions)[id] = versions[id]
         /\ ~(versions[id].seq > view[id].seq) => Learn(view, versions)[id] = view[id]
BY DEF Learn

\* What a page holds, and what its cursor passes: every record a device may
\* read between its cursor and the page's is in the page.
LEMMA PageComplete ==
  ASSUME CountsInv, NEW d \in Devices, NEW limit, NEW id \in Readable(d, Ids),
         rows[id].seq > client[d].since, rows[id].seq <= CursorFor(d, limit)
  PROVE  id \in PageFor(d, limit)
<1> DEFINE since == client[d].since
           S == After(since)
           rest == LeftFor(d, limit)
           passed == {x \in S : \A other \in rest : rows[x].seq < rows[other].seq}
<1>1. since \in Nat /\ \A x \in Ids : rows[x].seq \in Nat
  BY Types
<1>2. id \in Ids /\ id \in Unread(d)
  BY <1>1 DEF Unread, Readable, After, Held
<1>3. S \in SUBSET Ids /\ rest \in SUBSET Ids
  BY DEF After, Held, LeftFor, Unread, Readable
<1>4. CursorFor(d, limit) = since \/ \E x \in passed : CursorFor(d, limit) = rows[x].seq
  BY <1>1, <1>3, PageCursorFacts DEF CursorFor
<1>5. ASSUME id \notin PageFor(d, limit) PROVE FALSE
  <2>1. id \in rest
    BY <1>2, <1>5 DEF LeftFor
  <2>2. PICK x \in passed : CursorFor(d, limit) = rows[x].seq
    BY <1>1, <1>2, <1>4
  <2>3. rows[x].seq < rows[id].seq
    BY <2>1, <2>2
  <2> QED
    BY <1>1, <1>2, <1>3, <2>2, <2>3
<1> QED
  BY <1>5

\* What an answer says of a record, and what it leaves out.
LEMMA AnswerFacts ==
  ASSUME NEW rs \in [Ids -> Row], NEW S, NEW id \in Ids
  PROVE  /\ Answer(rs, S)[id] \in {Nothing, VersionOf(rs[id])}
         /\ id \in S => Answer(rs, S)[id] = VersionOf(rs[id])
         /\ Answer(rs, S)[id].seq \in {0, rs[id].seq}
         /\ rs[id].seq # 0 => NotNewer(Answer(rs, S)[id], rs[id])
<1>1. /\ Answer(rs, S)[id] \in {Nothing, VersionOf(rs[id])}
      /\ id \in S => Answer(rs, S)[id] = VersionOf(rs[id])
  BY DEF Answer
<1>2. Nothing.seq = 0 /\ VersionOf(rs[id]).seq = rs[id].seq /\ rs[id].seq \in Nat
  BY DEF Nothing, VersionOf, Row
<1> QED
  BY <1>1, <1>2 DEF NotNewer

\* The answer to a pull brings the device up to the cursor it carries.
LEMMA PullKeeps ==
  ASSUME SyncInv, NEW d \in Devices, PullAnswered(d)
  PROVE  AnswerOK(d)'
<1>0. CountsInv /\ ViewOK(d) /\ rows \in [Ids -> Row] /\ req \in [Devices -> Request]
      /\ device \in [Devices -> [status : {"absent", "live", "revoked"}, cursor : Nat]]
  BY DEF SyncInv, CountsInv, TypeOK
<1>1. PICK limit \in Limits :
        /\ req' = [req EXCEPT ![d] =
                     [Idle EXCEPT !.at = "pulled",
                                  !.versions = Answer(rows, PageFor(d, limit)),
                                  !.cursor = CursorFor(d, limit),
                                  !.has_more = LeftFor(d, limit) # {}]]
        /\ device' = [device EXCEPT ![d].cursor =
                        Seen(@, IF CursorFor(d, limit) < req[d].seq
                                THEN CursorFor(d, limit) ELSE req[d].seq)]
  BY DEF PullAnswered
<1> DEFINE versions == Answer(rows, PageFor(d, limit))
           cursor == CursorFor(d, limit)
           since == client[d].since
           view == client[d].view
<1>2. /\ req'[d].at = "pulled" /\ req'[d].versions = versions /\ req'[d].cursor = cursor
      /\ req'[d].seq = 0
  BY <1>0, <1>1 DEF Idle
<1>3. UNCHANGED <<account, rows, client>> /\ device'[d].status = device[d].status
  BY <1>0, <1>1 DEF PullAnswered
<1>4. /\ since \in Nat /\ account.seq \in Nat /\ view \in [Ids -> Version]
      /\ \A id \in Ids : rows[id].seq \in Nat /\ rows[id].seq <= account.seq
  BY <1>0, Types
<1>5. versions \in [Ids -> Version]
  BY <1>0, AnswerType
<1>6. \A id \in Ids : /\ versions[id].seq <= account.seq
                      /\ rows[id].seq # 0 => NotNewer(versions[id], rows[id])
  BY <1>0, <1>4, AnswerFacts
<1>7. since <= cursor /\ cursor <= account.seq
  <2>1. After(since) \in SUBSET Ids /\ LeftFor(d, limit) \in SUBSET Ids
    BY DEF After, Held, LeftFor, Unread, Readable
  <2>2. /\ cursor \in Nat /\ since <= cursor
        /\ cursor = since \/ \E id \in After(since) : cursor = rows[id].seq
    BY <1>0, <1>4, <2>1, PageCursorFacts DEF CursorFor
  <2> QED
    BY <1>0, <1>4, <2>1, <2>2 DEF ViewOK
<1>8. ASSUME device[d].status = "live", NEW id \in Readable(d, Ids),
             rows[id].seq # 0, rows[id].seq <= cursor
      PROVE  Learn(view, versions)[id] = VersionOf(rows[id])
  <2>1. id \in Ids
    BY DEF Readable
  <2>2. /\ versions[id].seq > view[id].seq => Learn(view, versions)[id] = versions[id]
        /\ ~(versions[id].seq > view[id].seq) => Learn(view, versions)[id] = view[id]
    BY <1>4, <1>5, <2>1, LearnFacts
  <2>3. versions[id] \in {Nothing, VersionOf(rows[id])} /\ view[id].seq \in Nat
    BY <1>0, <1>4, <2>1, AnswerFacts DEF Version
  <2>4. Nothing.seq = 0 /\ VersionOf(rows[id]).seq = rows[id].seq
    BY DEF Nothing, VersionOf
  <2>5. CASE rows[id].seq <= since
    <3>1. view[id] = VersionOf(rows[id])
      BY <1>0, <1>8, <2>5 DEF ViewOK
    <3> HIDE DEF versions, view
    <3> QED
      BY <1>4, <2>1, <2>2, <2>3, <2>4, <3>1
  <2>6. CASE ~(rows[id].seq <= since)
    <3>1. id \in PageFor(d, limit)
      BY <1>0, <1>4, <1>8, <2>1, <2>6, PageComplete
    <3>2. versions[id] = VersionOf(rows[id])
      BY <1>0, <2>1, <3>1, AnswerFacts
    <3>3. view[id].seq < rows[id].seq \/ view[id] = VersionOf(rows[id])
      BY <1>0, <1>8, <2>1 DEF ViewOK, NotNewer
    <3> HIDE DEF versions, view
    <3> QED
      BY <1>4, <2>1, <2>2, <2>3, <2>4, <3>2, <3>3
  <2> QED
    BY <2>5, <2>6
<1>9. \A id \in Ids : rows'[id].seq # 0 => NotNewer(versions[id], rows'[id])
  BY <1>3, <1>6
<1> HIDE DEF versions, cursor, since, view
<1>10. device'[d].status = "live" =>
         \A id \in Readable(d, Ids) : rows'[id].seq # 0 /\ rows'[id].seq <= cursor
           => Learn(view, versions)[id] = VersionOf(rows'[id])
  BY <1>3, <1>8
<1>11. req[d].at = "pulling" /\ AnswerOK(d)
  BY DEF PullAnswered, SyncInv
<1>12. device'[d].status # "absent"
  BY <1>3, <1>11 DEF AnswerOK
<1> QED
  BY <1>2, <1>3, <1>4, <1>6, <1>7, <1>9, <1>10, <1>12 DEF AnswerOK, view, since

\* A device that takes in an answer is up to the answer's cursor.
LEMMA DeliveryKeeps ==
  ASSUME SyncInv, NEW d \in Devices, Delivered(d)
  PROVE  ViewOK(d)'
<1> DEFINE view == client[d].view
           versions == req[d].versions
           learnt == Learn(view, versions)
<1>0. /\ CountsInv /\ ViewOK(d) /\ AnswerOK(d)
      /\ client \in [Devices -> [since : Nat, view : [Ids -> Version]]]
      /\ UNCHANGED <<account, rows, device>>
  BY DEF SyncInv, CountsInv, TypeOK, Delivered
<1>1. /\ client'[d].since = (IF req[d].at = "pulled" THEN req[d].cursor ELSE client[d].since)
      /\ client'[d].view = learnt
  BY <1>0 DEF Delivered
<1>2. view \in [Ids -> Version] /\ versions \in [Ids -> Version]
  BY <1>0, Types
<1>3. \A id \in Ids : learnt[id] \in {view[id], versions[id]}
  BY <1>2, LearnFacts
<1>4. \A id \in Ids : learnt[id].seq <= account.seq
  BY <1>0, <1>3 DEF ViewOK, AnswerOK
<1>5. \A id \in Ids : rows[id].seq # 0 => NotNewer(learnt[id], rows[id])
  BY <1>0, <1>3 DEF ViewOK, AnswerOK
<1>6. client'[d].since <= account.seq
  BY <1>0, <1>1 DEF ViewOK, AnswerOK
<1>7. ASSUME device[d].status = "live", NEW id \in Readable(d, Ids),
             rows[id].seq # 0, rows[id].seq <= client'[d].since
      PROVE  learnt[id] = VersionOf(rows[id])
  <2>1. CASE req[d].at = "pulled"
    BY <1>0, <1>1, <1>7, <2>1 DEF AnswerOK
  <2>2. CASE req[d].at # "pulled"
    <3>1. view[id] = VersionOf(rows[id]) /\ id \in Ids
      BY <1>0, <1>1, <1>7, <2>2 DEF ViewOK, Readable
    <3>2. NotNewer(versions[id], rows[id])
      BY <1>0, <1>7, <3>1 DEF AnswerOK
    <3>3. view[id].seq = rows[id].seq /\ rows[id].seq \in Nat /\ versions[id].seq \in Nat
      BY <1>0, <3>1, Types DEF VersionOf
    <3>4. ~(versions[id].seq > view[id].seq)
      BY <3>2, <3>3 DEF NotNewer, VersionOf
    <3> QED
      BY <1>2, <3>1, <3>4, LearnFacts
  <2> QED
    BY <2>1, <2>2
<1>8. device[d].status # "absent"
  BY <1>0 DEF Delivered, AnswerOK
<1> HIDE DEF learnt
<1> QED
  BY <1>0, <1>1, <1>4, <1>5, <1>6, <1>7, <1>8 DEF ViewOK

\* Every step keeps every device right up to its cursor.
LEMMA SyncStep ==
  ASSUME ForeignCursors = {}, SyncInv, [Next]_vars
  PROVE  SyncInv'
<1>0. /\ CountsInv /\ CountsInv' /\ RowsMove /\ TxOnTop'
      /\ \A d \in Devices : ViewOK(d) /\ AnswerOK(d)
  BY CountsStep, StepRows, TxStep DEF SyncInv
<1>1. /\ req \in [Devices -> Request]
      /\ client \in [Devices -> [since : Nat, view : [Ids -> Version]]]
      /\ device \in [Devices -> [status : {"absent", "live", "revoked"}, cursor : Nat]]
      /\ rows \in [Ids -> Row] /\ account.seq \in Nat /\ account'.seq \in Nat
      /\ account.seq <= account'.seq
  BY <1>0 DEF CountsInv, TypeOK, RowsMove
<1>2. ASSUME NEW e \in Devices, client'[e] = client[e], req'[e] = req[e],
             device'[e].status \in {device[e].status, "revoked"}
      PROVE  ViewOK(e)' /\ AnswerOK(e)'
  BY <1>0, <1>2, ViewKept, AnswerKept
<1>3. ASSUME NEW e \in Devices, client'[e] = client[e],
             device'[e].status = device[e].status, device[e].status # "absent" \/ req'[e] = Idle,
             req'[e].at \notin {"pushed", "pulled"}, req'[e].versions = Silent,
             req'[e].seq <= account'.seq
      PROVE  ViewOK(e)' /\ AnswerOK(e)'
  <2>1. ViewOK(e)'
    BY <1>0, <1>3, ViewKept
  <2>2. device'[e].status = "absent" => req'[e].at = "idle"
    BY <1>3 DEF Idle
  <2> QED
    BY <1>0, <1>3, <2>1, <2>2, NoAnswer
<1>4. Idle.at = "idle" /\ Idle.versions = Silent /\ Idle.seq = 0 /\ 0 <= account'.seq
  BY <1>1 DEF Idle
<1>5. ASSUME NEW d \in Devices, PushArrives(d), NEW e \in Devices
      PROVE  ViewOK(e)' /\ AnswerOK(e)'
  <2>1. CASE e = d
    <3>1. PICK n \in Lengths : \E batch \in [1..n -> Offers(d)] :
            req' = [req EXCEPT ![d] = [Idle EXCEPT !.at = "pushing", !.batch = batch]]
      BY <1>5 DEF PushArrives
    <3>2. PICK batch \in [1..n -> Offers(d)] :
            req' = [req EXCEPT ![d] = [Idle EXCEPT !.at = "pushing", !.batch = batch]]
      BY <3>1
    <3>3. req'[d].at = "pushing" /\ req'[d].versions = Silent /\ req'[d].seq = 0
      BY <1>1, <3>2 DEF Idle
    <3> QED
      BY <1>3, <1>4, <1>5, <2>1, <3>3 DEF PushArrives
  <2>2. CASE e # d
    BY <1>1, <1>2, <1>5, <2>2 DEF PushArrives
  <2> QED
    BY <2>1, <2>2
<1>6. ASSUME NEW d \in Devices, PushTurnedAway(d) \/ Lost(d), NEW e \in Devices
      PROVE  ViewOK(e)' /\ AnswerOK(e)'
  <2>1. CASE e = d
    BY <1>1, <1>3, <1>4, <1>6, <2>1 DEF PushTurnedAway, Lost
  <2>2. CASE e # d
    BY <1>1, <1>2, <1>6, <2>2 DEF PushTurnedAway, Lost
  <2> QED
    BY <2>1, <2>2
<1>7. ASSUME PushRefused, NEW e \in Devices PROVE ViewOK(e)' /\ AnswerOK(e)'
  <2>1. CASE e = tx.by
    BY <1>1, <1>3, <1>4, <1>7, <2>1 DEF PushRefused
  <2>2. CASE e # tx.by
    BY <1>1, <1>2, <1>7, <2>2 DEF PushRefused
  <2> QED
    BY <2>1, <2>2
<1>8. ASSUME PushCommit, NEW e \in Devices PROVE ViewOK(e)' /\ AnswerOK(e)'
  <2>1. CASE e = tx.by
    <3>1. PICK ids : req' = [req EXCEPT ![tx.by] =
                       [Idle EXCEPT !.at = "pushed", !.versions = Answer(tx.rows, ids)]]
      BY <1>8 DEF PushCommit
    <3>2. /\ req'[e].at = "pushed" /\ req'[e].versions = Answer(rows', ids)
          /\ req'[e].seq = 0
      BY <1>1, <1>8, <2>1, <3>1 DEF Idle, PushCommit
    <3>3. rows' \in [Ids -> Row] /\ \A id \in Ids : rows'[id].seq <= account'.seq
      BY <1>0, TypesNext DEF CountsInv, TypeOK
    <3>4. \A id \in Ids : /\ Answer(rows', ids)[id].seq <= account'.seq
                          /\ rows'[id].seq # 0 => NotNewer(Answer(rows', ids)[id], rows'[id])
      BY <1>4, <3>3, AnswerFacts
    <3>5. device' = device /\ client' = client
      BY <1>8 DEF PushCommit
    <3>6. ViewOK(e)'
      BY <1>0, <3>5, ViewKept
    <3>7. device[e].status # "absent"
      <4>1. tx.by # Nobody /\ req[e].at = "pushing"
        BY <1>8, <2>1 DEF PushCommit, Unlocked, SyncInv, TxOnTop
      <4> QED
        BY <1>0, <4>1 DEF AnswerOK
    <3>8. AnswerOK(e)'
      BY <1>4, <3>2, <3>4, <3>5, <3>7 DEF AnswerOK
    <3> QED
      BY <3>6, <3>8
  <2>2. CASE e # tx.by
    BY <1>1, <1>2, <1>8, <2>2 DEF PushCommit
  <2> QED
    BY <2>1, <2>2
<1>9. ASSUME NEW d \in Devices, PullArrives(d), NEW e \in Devices
      PROVE  ViewOK(e)' /\ AnswerOK(e)'
  <2>1. CASE e = d
    <3>1. req'[d].at = "pulling" /\ req'[d].versions = Silent /\ req'[d].seq = account.seq
      BY <1>1, <1>9 DEF PullArrives, Idle
    <3> QED
      BY <1>1, <1>3, <1>9, <2>1, <3>1 DEF PullArrives
  <2>2. CASE e # d
    BY <1>1, <1>2, <1>9, <2>2 DEF PullArrives
  <2> QED
    BY <2>1, <2>2
<1>10. ASSUME NEW d \in Devices, PullAnswered(d), NEW e \in Devices
       PROVE  ViewOK(e)' /\ AnswerOK(e)'
  <2>0. client' = client /\ device'[e].status = device[e].status /\ (e # d => req'[e] = req[e])
    BY <1>1, <1>10 DEF PullAnswered
  <2>1. CASE e = d
    BY <1>0, <1>10, <2>0, <2>1, ViewKept, PullKeeps
  <2>2. CASE e # d
    BY <1>2, <2>0, <2>2
  <2> QED
    BY <2>1, <2>2
<1>11. ASSUME NEW d \in Devices, Delivered(d), NEW e \in Devices
       PROVE  ViewOK(e)' /\ AnswerOK(e)'
  <2>0. device' = device
    BY <1>11 DEF Delivered
  <2>1. CASE e = d
    <3>1. ViewOK(e)'
      BY <1>11, <2>1, DeliveryKeeps
    <3>2. req'[d] = Idle
      BY <1>1, <1>11 DEF Delivered
    <3> QED
      BY <1>0, <1>4, <2>0, <2>1, <3>1, <3>2, NoAnswer
  <2>2. CASE e # d
    BY <1>1, <1>2, <1>11, <2>0, <2>2 DEF Delivered
  <2> QED
    BY <2>1, <2>2
<1>12. ASSUME NEW d \in Devices, Enrolled(d), NEW e \in Devices
       PROVE  ViewOK(e)' /\ AnswerOK(e)'
  <2>1. CASE e = d
    <3>1. /\ client' = [client EXCEPT ![d].since = 0]
          /\ device[d].status = "absent" /\ device'[d].status = "live"
          /\ UNCHANGED <<account, rows, req>>
      BY <1>1, <1>12 DEF Enrolled
    <3>2. /\ client'[d].since = 0 /\ client'[d].view = Silent
          /\ client[d].since = 0 /\ client[d].view = Silent /\ req[d].at = "idle"
      BY <1>0, <1>1, <3>1 DEF ViewOK, AnswerOK
    <3>3. \A id \in Ids : rows[id].seq \in Nat
      BY <1>0, Types
    <3>4. ViewOK(d)'
      BY <1>0, <1>1, <3>1, <3>2, <3>3 DEF ViewOK, Readable
    <3>5. AnswerOK(d)'
      BY <1>0, <3>1, <3>2 DEF AnswerOK
    <3> QED
      BY <2>1, <3>4, <3>5
  <2>2. CASE e # d
    BY <1>1, <1>2, <1>12, <2>2 DEF Enrolled
  <2> QED
    BY <2>1, <2>2
<1>13. ASSUME NEW d \in Devices, Revoke(d) \/ RevokeByCommand(d), NEW e \in Devices
       PROVE  ViewOK(e)' /\ AnswerOK(e)'
  BY <1>1, <1>2, <1>13 DEF Revoke, RevokeByCommand
<1>14. ASSUME Restart, NEW e \in Devices PROVE ViewOK(e)' /\ AnswerOK(e)'
  <2>1. req'[e] = Idle /\ UNCHANGED <<client, device>>
    BY <1>14 DEF Restart
  <2> QED
    BY <1>3, <1>4, <2>1
<1>15. ASSUME UNCHANGED <<client, req, device>>, NEW e \in Devices
       PROVE  ViewOK(e)' /\ AnswerOK(e)'
  BY <1>2, <1>15
<1>16. ASSUME NEW e \in Devices PROVE ViewOK(e)' /\ AnswerOK(e)'
  BY <1>5, <1>6, <1>7, <1>8, <1>9, <1>10, <1>11, <1>12, <1>13, <1>14, <1>15
  DEF Next, vars, PushBegin, PushEnvelope, DropManifests, Season, Purge, OtherAccounts
<1> QED
  BY <1>0, <1>16 DEF SyncInv

\* Pages skip nothing: whatever devices write, delete, purge and lose, a device
\* has every record up to its cursor in the version the server holds
\* (records::pull), provided no device brings a cursor from another server.
THEOREM SyncCorrect == ForeignCursors = {} => (Spec => []NothingSkipped)
<1> SUFFICES ASSUME ForeignCursors = {} PROVE Spec => []NothingSkipped
  OBVIOUS
<1>1. Init => SyncInv
  BY SyncInit
<1>2. SyncInv /\ [Next]_vars => SyncInv'
  BY SyncStep
<1>3. SyncInv => NothingSkipped
  BY DEF SyncInv, ViewOK, NothingSkipped, Live, Readable, Held
<1> QED
  BY <1>1, <1>2, <1>3, PTL DEF Spec

----------------------------------------------------------------------------
(* Pages that say whether there is more.                                   *)

\* What is left of a page is what there is to read after the page's cursor.
LEMMA LeftIsAfter ==
  ASSUME CountsInv, NEW d \in Devices, NEW limit
  PROVE  LeftFor(d, limit) # {} <=> Readable(d, After(CursorFor(d, limit))) # {}
<1> DEFINE since == client[d].since
           S == After(since)
           rest == LeftFor(d, limit)
           cursor == CursorFor(d, limit)
           passed == {x \in S : \A other \in rest : rows[x].seq < rows[other].seq}
<1>1. since \in Nat /\ \A x \in Ids : rows[x].seq \in Nat
  BY Types
<1>2. S \in SUBSET Ids /\ rest \in SUBSET Ids
  BY DEF After, Held, LeftFor, Unread, Readable
<1>3. /\ cursor \in Nat /\ since <= cursor
      /\ \A x \in passed : rows[x].seq <= cursor
      /\ cursor = since \/ \E x \in passed : cursor = rows[x].seq
  BY <1>1, <1>2, PageCursorFacts DEF CursorFor
<1>4. /\ \A x \in rest : x \in Ids /\ x \in Readable(d, S) /\ x \in Held(rows)
                         /\ rows[x].seq > since
      /\ \A x \in S : x \in Ids /\ x \in Held(rows) /\ rows[x].seq > since
  BY DEF LeftFor, Unread, Readable, After, Held
<1>5. ASSUME NEW x \in rest PROVE x \in Readable(d, After(cursor))
  <2>1. rows[x].seq > cursor
    BY <1>1, <1>3, <1>4
  <2> QED
    BY <1>4, <2>1 DEF Readable, After
<1>6. ASSUME NEW x \in Readable(d, After(cursor)), rest = {} PROVE FALSE
  <2>1. x \in Ids /\ x \in Held(rows) /\ rows[x].seq > cursor
    BY DEF Readable, After, Held
  <2>2. x \in S
    BY <1>1, <1>3, <2>1 DEF After
  <2>3. rows[x].seq <= cursor
    BY <1>3, <1>6, <2>2
  <2> QED
    BY <1>1, <1>3, <2>1, <2>3
<1> QED
  BY <1>5, <1>6

\* A page says there is more exactly when there is, for any page size, blob sizes
\* and interleaving (has_more of records::pull).
THEOREM HasMoreCorrect == Spec => HasMoreIsHonest
<1> DEFINE Honest ==
      \A d \in Devices : req[d].at = "pulling" /\ req'[d].at = "pulled" =>
        (req'[d].has_more <=> Readable(d, After(req'[d].cursor)) # {})
<1>1. CountsInv /\ [Next]_vars => [Honest]_vars
  <2> SUFFICES ASSUME CountsInv, [Next]_vars, NEW e \in Devices,
                      req[e].at = "pulling", req'[e].at = "pulled"
               PROVE  req'[e].has_more <=> Readable(e, After(req'[e].cursor)) # {}
    OBVIOUS
  <2>0. req \in [Devices -> Request] /\ tx.by \in Devices \cup {Nobody}
    BY DEF CountsInv, TypeOK
  <2>1. PullAnswered(e)
    <3>1. Idle.at = "idle"
      BY DEF Idle
    <3>2. req'[e].at # req[e].at /\ req'[e].at \notin {"idle", "pushing", "pushed"}
      OBVIOUS
    <3>3. ~PushCommit
      <4>1. ASSUME PushCommit PROVE req'[e] = req[e] \/ req'[e].at = "pushed"
        <5>1. PICK ids : req' = [req EXCEPT ![tx.by] =
                           [Idle EXCEPT !.at = "pushed", !.versions = Answer(tx.rows, ids)]]
          BY <4>1 DEF PushCommit
        <5> QED
          BY <2>0, <5>1 DEF Idle
      <4> QED
        BY <3>2, <4>1
    <3>4. \A d \in Devices : ~PushArrives(d) /\ ~PullArrives(d)
      BY <2>0, <3>2 DEF PushArrives, PullArrives, Idle
    <3>5. \A d \in Devices : PullAnswered(d) => d = e
      BY <2>0, <3>2 DEF PullAnswered
    <3> QED
      BY <2>0, <3>1, <3>2, <3>3, <3>4, <3>5
      DEF Next, vars, PushTurnedAway, PushBegin, Delivered, Lost, Enrolled, Revoke,
          RevokeByCommand, DropManifests, PushEnvelope, PushRefused, Season, Purge,
          OtherAccounts, Restart
  <2>2. PICK limit \in Limits :
          /\ req' = [req EXCEPT ![e] =
                       [Idle EXCEPT !.at = "pulled",
                                    !.versions = Answer(rows, PageFor(e, limit)),
                                    !.cursor = CursorFor(e, limit),
                                    !.has_more = LeftFor(e, limit) # {}]]
    BY <2>1 DEF PullAnswered
  <2>3. req'[e].cursor = CursorFor(e, limit) /\ req'[e].has_more = (LeftFor(e, limit) # {})
    BY <2>0, <2>2 DEF Idle
  <2> QED
    BY <2>3, LeftIsAfter
<1> QED
  BY <1>1, CountsInit, CountsStep, PTL DEF Spec, HasMoreIsHonest

----------------------------------------------------------------------------
(* Nothing is forgotten that a device still has.                           *)

\* A version that is no news, or news of a delete.
Dead(version) == version.seq = 0 \/ version.deleted

\* What a device in the account makes of records that are forgotten.  The server
\* notes no more than the device has been given.  It has none of the forgotten
\* records alive, the answer to its push brings none, and what that answer says
\* of a row a season old is what the row is.
GhostOK(d) ==
  device[d].status = "live" =>
    /\ device[d].cursor <= Reached(d)
    /\ \A id \in Ids \ Manifests :
         /\ rows[id].seq = 0 => Dead(Known(d)[id])
         /\ req[d].at = "pushed" /\ rows[id].seq = 0 => Dead(req[d].versions[id])
         /\ req[d].at = "pushed" /\ rows[id].seq # 0 /\ rows[id].old =>
              req[d].versions[id] \in {Nothing, VersionOf(rows[id])}

GhostInv == SyncInv /\ TxInv /\ \A d \in Devices : GhostOK(d)

\* What a step does to the rows that are no manifests: nothing, unless it is a
\* commit, whose rows are new, a season, which finds no answer on its way, or a
\* purge, which takes tombstones that are old and everybody read.
RecordMoves(id) ==
  \/ rows'[id] = rows[id]
  \/ rows'[id].seq # 0 /\ ~rows'[id].old
  \/ /\ rows[id].seq # 0 /\ VersionOf(rows'[id]) = VersionOf(rows[id])
     /\ \A d \in Devices : req[d].at = "idle"
  \/ /\ rows'[id].seq = 0 /\ rows[id].seq # 0 /\ rows[id].deleted /\ rows[id].old
     /\ \A d \in Live : rows[id].seq <= device[d].cursor

LEMMA StepRecords ==
  ASSUME TxInv, [Next]_vars, NEW id \in Ids \ Manifests
  PROVE  RecordMoves(id)
<1>0. /\ CountsInv /\ TxOnTop /\ TxFaithful /\ rows[id] \in Row
      /\ rows[id].seq \in Nat /\ account.seq \in Nat
  BY Types DEF TxInv
<1>1. CASE UNCHANGED rows
  BY <1>1 DEF RecordMoves
<1>2. CASE PushCommit
  <2>1. tx.by # Nobody /\ rows' = tx.rows
    BY <1>2 DEF PushCommit, Unlocked
  <2>2. tx.rows[id] = rows[id] \/ (tx.rows[id].seq > account.seq /\ ~tx.rows[id].old)
    BY <1>0, <2>1 DEF TxOnTop, TxFaithful
  <2> QED
    BY <1>0, <2>1, <2>2 DEF RecordMoves
<1>3. CASE Season
  BY <1>0, <1>3, AgedRow DEF Season, Held, RecordMoves
<1>4. CASE Purge
  BY <1>0, <1>4 DEF Purge, Purgeable, ReadByAll, Forget, NoRow, Held, RecordMoves
<1>5. ASSUME NEW d \in Devices, Revoke(d) \/ DropManifests(d) PROVE RecordMoves(id)
  BY <1>0, <1>5 DEF Revoke, DropManifests, ManifestsOf, Forget, RecordMoves
<1> QED
  BY <1>1, <1>2, <1>3, <1>4, <1>5
  DEF Next, vars, PushArrives, PushTurnedAway, PushBegin, PullArrives, PullAnswered,
      Delivered, Lost, Enrolled, RevokeByCommand, PushEnvelope, PushRefused,
      OtherAccounts, Restart

\* A device has every record up to what it has been given.
LEMMA GivenIsKnown ==
  ASSUME SyncInv, NEW d \in Devices, device[d].status = "live", NEW id \in Ids \ Manifests,
         rows[id].seq # 0, rows[id].seq <= Reached(d)
  PROVE  Known(d)[id] = VersionOf(rows[id])
BY DEF SyncInv, ViewOK, AnswerOK, Known, Reached, Readable

\* A device whose cursor, knowledge and answer are left alone stays right while
\* the rows move.
LEMMA GhostKept ==
  ASSUME GhostInv, [Next]_vars, NEW d \in Devices,
         device[d].status # "live" => device'[d].status # "live",
         device'[d].cursor = device[d].cursor,
         Reached(d)' = Reached(d), Known(d)' = Known(d),
         req'[d].at = "pushed" => req[d].at = "pushed" /\ req'[d].versions = req[d].versions
  PROVE  GhostOK(d)'
<1> SUFFICES ASSUME device'[d].status = "live" PROVE GhostOK(d)'
  BY DEF GhostOK
<1>1. /\ device[d].status = "live" /\ GhostOK(d) /\ d \in Live /\ SyncInv
      /\ device[d].cursor \in Nat
  BY Types DEF GhostInv, Live, SyncInv
<1>2. ASSUME NEW id \in Ids \ Manifests
      PROVE  /\ rows'[id].seq = 0 => Dead(Known(d)[id])
             /\ req'[d].at = "pushed" /\ rows'[id].seq = 0 => Dead(req'[d].versions[id])
             /\ req'[d].at = "pushed" /\ rows'[id].seq # 0 /\ rows'[id].old =>
                  req'[d].versions[id] \in {Nothing, VersionOf(rows'[id])}
  <2>0. RecordMoves(id) /\ VersionOf(rows[id]).seq = rows[id].seq
        /\ VersionOf(rows'[id]).seq = rows'[id].seq
    BY StepRecords DEF GhostInv, VersionOf
  <2>1. CASE rows'[id] = rows[id]
    BY <1>1, <2>1 DEF GhostOK
  <2>2. CASE rows'[id].seq # 0 /\ ~rows'[id].old
    BY <2>2
  <2>3. CASE /\ rows[id].seq # 0 /\ VersionOf(rows'[id]) = VersionOf(rows[id])
             /\ \A e \in Devices : req[e].at = "idle"
    BY <2>0, <2>3
  <2>4. CASE /\ rows'[id].seq = 0 /\ rows[id].seq # 0 /\ rows[id].deleted /\ rows[id].old
             /\ \A e \in Live : rows[id].seq <= device[e].cursor
    <3>1. rows[id].seq <= Reached(d)
      <4>1. rows[id].seq \in Nat /\ Reached(d) \in Nat
        BY <1>1, Types DEF SyncInv, Reached
      <4> QED
        BY <1>1, <2>4, <4>1 DEF GhostOK
    <3>2. Known(d)[id] = VersionOf(rows[id])
      BY <1>1, <2>4, <3>1, GivenIsKnown
    <3>3. Dead(VersionOf(rows[id])) /\ Dead(Nothing)
      BY <2>4 DEF Dead, VersionOf, Nothing
    <3> QED
      BY <1>1, <2>4, <3>2, <3>3 DEF GhostOK
  <2> QED
    BY <2>0, <2>1, <2>2, <2>3, <2>4 DEF RecordMoves
<1> QED
  BY <1>1, <1>2 DEF GhostOK

\* What is learnt of a record from two dead versions is dead.
LEMMA LearnDead ==
  ASSUME NEW view \in [Ids -> Version], NEW versions \in [Ids -> Version], NEW id \in Ids,
         Dead(view[id]), Dead(versions[id])
  PROVE  Dead(Learn(view, versions)[id])
BY LearnFacts

\* The page a device is given, and the note of how far that is.
LEMMA PullGhost ==
  ASSUME GhostInv, NEW d \in Devices, PullAnswered(d)
  PROVE  GhostOK(d)'
<1> SUFFICES ASSUME device'[d].status = "live" PROVE GhostOK(d)'
  BY DEF GhostOK
<1>0. /\ CountsInv /\ rows \in [Ids -> Row] /\ req \in [Devices -> Request]
      /\ device \in [Devices -> [status : {"absent", "live", "revoked"}, cursor : Nat]]
      /\ GhostOK(d)
  BY DEF GhostInv, SyncInv, CountsInv, TypeOK
<1>1. PICK limit \in Limits :
        /\ req' = [req EXCEPT ![d] =
                     [Idle EXCEPT !.at = "pulled",
                                  !.versions = Answer(rows, PageFor(d, limit)),
                                  !.cursor = CursorFor(d, limit),
                                  !.has_more = LeftFor(d, limit) # {}]]
        /\ device' = [device EXCEPT ![d].cursor =
                        Seen(@, IF CursorFor(d, limit) < req[d].seq
                                THEN CursorFor(d, limit) ELSE req[d].seq)]
  BY DEF PullAnswered
<1> DEFINE versions == Answer(rows, PageFor(d, limit))
           cursor == CursorFor(d, limit)
<1>2. /\ req'[d].at = "pulled" /\ req'[d].versions = versions /\ req'[d].cursor = cursor
      /\ device'[d].status = device[d].status
      /\ device'[d].cursor = Seen(device[d].cursor,
                                  IF cursor < req[d].seq THEN cursor ELSE req[d].seq)
  BY <1>0, <1>1 DEF Idle
<1>3. req[d].at = "pulling" /\ UNCHANGED <<rows, client>>
  BY DEF PullAnswered
<1>4. cursor \in Nat /\ client[d].since <= cursor
  <2>1. After(client[d].since) \in SUBSET Ids /\ LeftFor(d, limit) \in SUBSET Ids
    BY DEF After, Held, LeftFor, Unread, Readable
  <2> QED
    BY <1>0, <2>1, Types, PageCursorFacts DEF CursorFor
<1>5. device'[d].cursor <= cursor
  <2>1. /\ device[d].cursor \in Nat /\ client[d].since \in Nat /\ req[d].seq \in Nat
        /\ device[d].cursor <= client[d].since
    BY <1>0, <1>2, <1>3, Types DEF GhostOK, Reached
  <2> HIDE DEF cursor
  <2> QED
    BY <1>2, <1>4, <2>1 DEF Seen
<1>6. ASSUME NEW id \in Ids, rows[id].seq = 0
      PROVE  Learn(client[d].view, versions)[id] = client[d].view[id]
  <2>1. client[d].view \in [Ids -> Version] /\ versions \in [Ids -> Version]
    BY <1>0, Types, AnswerType
  <2>2. versions[id].seq = 0 /\ client[d].view[id].seq \in Nat
    BY <1>0, <1>6, <2>1, AnswerFacts DEF Version
  <2> HIDE DEF versions
  <2> QED
    BY <2>1, <2>2, LearnFacts
<1> HIDE DEF versions, cursor
<1>7. Known(d)' = Learn(client[d].view, versions) /\ Reached(d)' = cursor
  BY <1>2, <1>3 DEF Known, Reached
<1>8. \A id \in Ids \ Manifests : rows[id].seq = 0 => Dead(client[d].view[id])
  BY <1>0, <1>2, <1>3 DEF GhostOK, Known
<1> QED
  BY <1>2, <1>3, <1>5, <1>6, <1>7, <1>8 DEF GhostOK

\* The answer to a push tells of the rows there are.
LEMMA CommitGhost ==
  ASSUME GhostInv, PushCommit, NEW d \in Devices
  PROVE  GhostOK(d)'
<1>1. /\ [Next]_vars /\ UNCHANGED <<device, client>> /\ req \in [Devices -> Request]
      /\ tx.by \in Devices /\ tx.by # Nobody /\ req[tx.by].at = "pushing"
      /\ rows' = tx.rows /\ rows' \in [Ids -> Row]
  BY DEF PushCommit, Next, Unlocked, GhostInv, TxInv, TxOnTop, CountsInv, TypeOK
<1>2. CASE d # tx.by
  <2>1. req'[d] = req[d]
    BY <1>1, <1>2 DEF PushCommit
  <2>2. Reached(d)' = Reached(d) /\ Known(d)' = Known(d)
    BY <1>1, <2>1 DEF Reached, Known
  <2> QED
    BY <1>1, <2>1, <2>2, GhostKept
<1>3. CASE d = tx.by
  <2> SUFFICES ASSUME device'[d].status = "live" PROVE GhostOK(d)'
    BY DEF GhostOK
  <2>1. PICK ids : req' = [req EXCEPT ![tx.by] =
                     [Idle EXCEPT !.at = "pushed", !.versions = Answer(tx.rows, ids)]]
    BY DEF PushCommit
  <2>2. req'[d].at = "pushed" /\ req'[d].versions = Answer(rows', ids)
    BY <1>1, <1>3, <2>1 DEF Idle
  <2>3. Reached(d)' = Reached(d) /\ Known(d)' = Known(d)
    BY <1>1, <1>3, <2>2 DEF Reached, Known
  <2>4. \A id \in Ids : /\ req'[d].versions[id] \in {Nothing, VersionOf(rows'[id])}
                        /\ rows'[id].seq = 0 => Dead(req'[d].versions[id])
    BY <1>1, <2>2, AnswerFacts DEF Dead
  <2>5. \A id \in Ids \ Manifests : rows'[id].seq = 0 => rows[id].seq = 0
    <3>1. \A id \in Ids : tx.rows[id] = rows[id] \/ tx.rows[id].seq > account.seq
      BY <1>1 DEF GhostInv, TxInv, TxOnTop
    <3>2. account.seq \in Nat
      BY Types DEF GhostInv, TxInv
    <3> QED
      BY <1>1, <3>1, <3>2
  <2>6. GhostOK(d)
    BY DEF GhostInv
  <2> QED
    BY <1>1, <2>3, <2>4, <2>5, <2>6 DEF GhostOK
<1> QED
  BY <1>2, <1>3

\* A device takes in an answer that brings nothing forgotten back.
LEMMA DeliveryGhost ==
  ASSUME GhostInv, NEW d \in Devices, Delivered(d)
  PROVE  GhostOK(d)'
<1> SUFFICES ASSUME device'[d].status = "live" PROVE GhostOK(d)'
  BY DEF GhostOK
<1>1. /\ UNCHANGED <<rows, device>> /\ req[d].at \in {"pushed", "pulled"}
      /\ client \in [Devices -> [since : Nat, view : [Ids -> Version]]]
      /\ req \in [Devices -> Request] /\ GhostOK(d)
      /\ client[d].view \in [Ids -> Version] /\ req[d].versions \in [Ids -> Version]
  BY Types DEF Delivered, GhostInv, SyncInv, CountsInv, TypeOK
<1>2. /\ req'[d].at = "idle"
      /\ client'[d].since = (IF req[d].at = "pulled" THEN req[d].cursor ELSE client[d].since)
      /\ client'[d].view = Learn(client[d].view, req[d].versions)
  BY <1>1 DEF Delivered, Idle
<1>3. Reached(d)' = Reached(d) /\ Known(d)' = Learn(client[d].view, req[d].versions)
  BY <1>1, <1>2 DEF Reached, Known
<1>4. ASSUME NEW id \in Ids \ Manifests, rows[id].seq = 0 PROVE Dead(Known(d)'[id])
  <2>1. CASE req[d].at = "pulled"
    BY <1>1, <1>3, <1>4, <2>1 DEF GhostOK, Known
  <2>2. CASE req[d].at = "pushed"
    BY <1>1, <1>3, <1>4, <2>2, LearnDead DEF GhostOK, Known
  <2> QED
    BY <1>1, <2>1, <2>2
<1> QED
  BY <1>1, <1>2, <1>3, <1>4 DEF GhostOK

\* In a new account nothing is forgotten and nothing known.
LEMMA GhostInit == Init => GhostInv
<1> SUFFICES ASSUME Init PROVE GhostInv
  OBVIOUS
<1>1. ASSUME NEW d \in Devices PROVE GhostOK(d)
  <2>1. /\ device[d].cursor = 0 /\ client[d].since = 0 /\ client[d].view = Silent
        /\ req[d].at = "idle"
    BY DEF Init, Idle
  <2>2. \A id \in Ids : Dead(Silent[id])
    BY DEF Silent, Nothing, Dead
  <2> QED
    BY <2>1, <2>2 DEF GhostOK, Reached, Known
<1> QED
  BY <1>1, SyncInit, TxInit DEF GhostInv

\* Every step keeps every device clear of what is forgotten.
LEMMA GhostStep ==
  ASSUME ForeignCursors = {}, "pulled" \notin AnswersLost, GhostInv, [Next]_vars
  PROVE  GhostInv'
<1>0. /\ SyncInv' /\ TxInv' /\ SyncInv /\ TxInv /\ CountsInv
      /\ req \in [Devices -> Request]
      /\ device \in [Devices -> [status : {"absent", "live", "revoked"}, cursor : Nat]]
      /\ client \in [Devices -> [since : Nat, view : [Ids -> Version]]]
  BY SyncStep, TxInvStep DEF GhostInv, SyncInv, CountsInv, TypeOK
<1> SUFFICES ASSUME NEW e \in Devices PROVE GhostOK(e)'
  BY <1>0 DEF GhostInv
<1>1. ASSUME client'[e] = client[e], req'[e] = req[e],
             device'[e].status \in {device[e].status, "revoked"},
             device'[e].cursor = device[e].cursor
      PROVE  GhostOK(e)'
  BY <1>1, GhostKept DEF Reached, Known
<1>2. ASSUME UNCHANGED <<client, device>>, req[e].at # "pulled",
             req'[e].at \notin {"pushed", "pulled"}
      PROVE  GhostOK(e)'
  BY <1>2, GhostKept DEF Reached, Known
<1>3. Idle.at = "idle"
  BY DEF Idle
<1>4. ASSUME NEW d \in Devices, PushArrives(d) PROVE GhostOK(e)'
  <2>1. CASE e = d
    <3>1. req'[d].at = "pushing"
      BY <1>0, <1>4 DEF PushArrives, Idle
    <3> QED
      BY <1>2, <1>4, <2>1, <3>1 DEF PushArrives
  <2> QED
    BY <1>0, <1>1, <1>4, <2>1 DEF PushArrives
<1>5. ASSUME NEW d \in Devices, PullArrives(d) PROVE GhostOK(e)'
  <2>1. CASE e = d
    <3>1. req'[d].at = "pulling"
      BY <1>0, <1>5 DEF PullArrives, Idle
    <3> QED
      BY <1>2, <1>5, <2>1, <3>1 DEF PullArrives
  <2> QED
    BY <1>0, <1>1, <1>5, <2>1 DEF PullArrives
<1>6. ASSUME NEW d \in Devices, PushTurnedAway(d) \/ Lost(d) PROVE GhostOK(e)'
  <2>1. req[d].at # "pulled" /\ UNCHANGED <<client, device>>
    BY <1>6 DEF PushTurnedAway, Lost
  <2>2. req'[d].at = "idle" /\ (e # d => req'[e] = req[e])
    BY <1>0, <1>3, <1>6 DEF PushTurnedAway, Lost
  <2> QED
    BY <1>1, <1>2, <2>1, <2>2
<1>7. CASE PushRefused
  <2>1. tx.by # Nobody /\ req[tx.by].at = "pushing" /\ tx.by \in Devices
    BY <1>0, <1>7 DEF PushRefused, Unlocked, SyncInv, TxOnTop, CountsInv, TypeOK
  <2>2. req'[tx.by].at = "idle" /\ (e # tx.by => req'[e] = req[e])
        /\ UNCHANGED <<client, device>>
    BY <1>0, <1>3, <1>7, <2>1 DEF PushRefused
  <2> QED
    BY <1>1, <1>2, <2>1, <2>2
<1>8. CASE PushCommit
  BY <1>8, CommitGhost
<1>9. ASSUME NEW d \in Devices, PullAnswered(d) PROVE GhostOK(e)'
  <2>1. CASE e = d
    BY <1>9, <2>1, PullGhost
  <2>2. CASE e # d
    BY <1>0, <1>1, <1>9, <2>2 DEF PullAnswered
  <2> QED
    BY <2>1, <2>2
<1>10. ASSUME NEW d \in Devices, Delivered(d) PROVE GhostOK(e)'
  <2>1. CASE e = d
    BY <1>10, <2>1, DeliveryGhost
  <2>2. CASE e # d
    BY <1>0, <1>1, <1>10, <2>2 DEF Delivered
  <2> QED
    BY <2>1, <2>2
<1>11. ASSUME NEW d \in Devices, Enrolled(d) PROVE GhostOK(e)'
  <2>1. CASE e = d
    <3>1. /\ client' = [client EXCEPT ![d].since = 0] /\ UNCHANGED <<rows, req>>
          /\ device[d].status = "absent" /\ device'[d].cursor = 0
      BY <1>0, <1>11 DEF Enrolled
    <3>2. /\ client'[d].since = 0 /\ client'[d].view = Silent /\ req[d].at = "idle"
      BY <1>0, <3>1 DEF SyncInv, ViewOK, AnswerOK
    <3>3. \A id \in Ids : Dead(Silent[id])
      BY DEF Silent, Nothing, Dead
    <3> QED
      BY <2>1, <3>1, <3>2, <3>3 DEF GhostOK, Reached, Known
  <2>2. CASE e # d
    BY <1>0, <1>1, <1>11, <2>2 DEF Enrolled
  <2> QED
    BY <2>1, <2>2
<1>12. ASSUME NEW d \in Devices, Revoke(d) \/ RevokeByCommand(d) PROVE GhostOK(e)'
  BY <1>0, <1>1, <1>12 DEF Revoke, RevokeByCommand
<1>13. CASE Restart
  <2>1. req[e].at # "pulled" /\ req'[e] = Idle /\ UNCHANGED <<client, device>>
    BY <1>13 DEF Restart
  <2> QED
    BY <1>2, <1>3, <2>1
<1>14. CASE UNCHANGED <<client, req, device>>
  BY <1>1, <1>14
<1> QED
  BY <1>4, <1>5, <1>6, <1>7, <1>8, <1>9, <1>10, <1>11, <1>12, <1>13, <1>14
  DEF Next, vars, PushBegin, PushEnvelope, DropManifests, Season, Purge, OtherAccounts

\* What the server has forgotten no device has alive (purge_tombstones,
\* lowest_cursor), as long as no device brings a cursor from another server and
\* no page is lost on its way: either may leave a ghost, as two runs show.
THEOREM NoGhostsEver ==
  ForeignCursors = {} /\ "pulled" \notin AnswersLost => (Spec => []NoGhosts)
<1> SUFFICES ASSUME ForeignCursors = {}, "pulled" \notin AnswersLost
             PROVE  Spec => []NoGhosts
  OBVIOUS
<1>1. Init => GhostInv
  BY GhostInit
<1>2. GhostInv /\ [Next]_vars => GhostInv'
  BY GhostStep
<1>3. GhostInv => NoGhosts
  BY DEF GhostInv, GhostOK, NoGhosts, Live, Dead
<1> QED
  BY <1>1, <1>2, <1>3, PTL DEF Spec

\* Under the same two conditions a record is only forgotten as a tombstone that
\* every device in the account has been given (main.rs purge, devices::seen).
THEOREM ForgottenOnceRead ==
  ForeignCursors = {} /\ "pulled" \notin AnswersLost => (Spec => ForgottenOnlyOnceRead)
<1> SUFFICES ASSUME ForeignCursors = {}, "pulled" \notin AnswersLost
             PROVE  Spec => ForgottenOnlyOnceRead
  OBVIOUS
<1> DEFINE Given == \A id \in Ids \ Manifests : rows[id].seq # 0 /\ rows'[id].seq = 0 =>
                      \A d \in Live : Known(d)[id] = VersionOf(rows[id])
<1>1. Init => GhostInv
  BY GhostInit
<1>2. GhostInv /\ [Next]_vars => GhostInv'
  BY GhostStep
<1>3. GhostInv /\ [Next]_vars => [Given]_vars
  <2> SUFFICES ASSUME GhostInv, [Next]_vars, NEW id \in Ids \ Manifests,
                      rows[id].seq # 0, rows'[id].seq = 0, NEW d \in Live
               PROVE  Known(d)[id] = VersionOf(rows[id])
    OBVIOUS
  <2>1. RecordMoves(id) /\ VersionOf(rows[id]).seq = rows[id].seq
        /\ VersionOf(rows'[id]).seq = rows'[id].seq
    BY StepRecords DEF GhostInv, VersionOf
  <2>2. rows[id].seq <= device[d].cursor
    BY <2>1 DEF RecordMoves
  <2>3. d \in Devices /\ device[d].status = "live" /\ SyncInv /\ GhostOK(d)
    BY DEF Live, GhostInv
  <2>4. rows[id].seq <= Reached(d)
    <3>1. rows[id].seq \in Nat /\ device[d].cursor \in Nat /\ Reached(d) \in Nat
      BY <2>3, Types DEF SyncInv, Reached
    <3> QED
      BY <2>2, <2>3, <3>1 DEF GhostOK
  <2> QED
    BY <2>3, <2>4, GivenIsKnown
<1> QED
  BY <1>1, <1>2, <1>3, PTL DEF Spec, ForgottenOnlyOnceRead

=============================================================================
