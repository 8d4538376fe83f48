---------------------------- MODULE MeasuresProofs ----------------------------
(***************************************************************************)
(* The proofs about what measures and shows the agents' work: the panel    *)
(* that follows the service, the searches and what reads their hits, and   *)
(* the scoring of runs against routes.                                     *)
(***************************************************************************)
EXTENDS Knowledge, FiniteSetTheorems, FunctionTheorems, SequenceTheorems, TLAPS

-----------------------------------------------------------------------------
(* Induction over the natural numbers, for a set of them. *)
LEMMA SetInduction ==
  ASSUME NEW S, 0 \in S, \A n \in Nat \ {0} : n - 1 \in S => n \in S
  PROVE  Nat \subseteq S
  <1> DEFINE lt == {p \in Nat \X Nat : p[1] < p[2]}
             T == Nat \ S
  <1>1. IsWellFoundedOn(lt, Nat)
    BY NatLessThanWellFounded DEF OpToRel
  <1>2. SUFFICES ASSUME T # {} PROVE FALSE
    OBVIOUS
  <1>3. \E k \in T : \A j \in T : <<j, k>> \notin lt
    <2>1. T \subseteq Nat
      OBVIOUS
    <2> HIDE DEF lt, T
    <2>2. QED
      BY <1>1, <1>2, <2>1, WFMin
  <1>4. PICK k \in T : \A j \in T : <<j, k>> \notin lt
    BY <1>3
  <1>5. k \in Nat /\ k \notin S /\ k # 0
    OBVIOUS
  <1>6. k - 1 \in Nat /\ k - 1 < k
    BY <1>5
  <1>7. k - 1 \in T
    BY <1>5, <1>6
  <1>8. <<k - 1, k>> \in lt
    BY <1>5, <1>6
  <1>9. QED
    BY <1>4, <1>7, <1>8

(* F computes the value at a point of S, below V, from those of lower rank. *)
Recursion(S, V, rank, N, F) ==
  /\ V # {}
  /\ N \in Nat /\ rank \in [S -> 0 .. N]
  /\ F \in [[S -> V] \X S -> V]
  /\ \A g, h \in [S -> V], x \in S :
       (\A y \in S : rank[y] < rank[x] => g[y] = h[y]) => F[<<g, x>>] = F[<<h, x>>]

(* A function computed in this way exists. *)
LEMMA RecursionExists ==
  ASSUME NEW S, NEW V, NEW rank, NEW N, NEW F, Recursion(S, V, rank, N, F)
  PROVE  \E f \in [S -> V] : \A x \in S : f[x] = F[<<f, x>>]
  <1>a. PICK v \in V : TRUE
    BY DEF Recursion
  <1>b. /\ F \in [[S -> V] \X S -> V]
        /\ \A g, h \in [S -> V], x \in S :
             (\A y \in S : rank[y] < rank[x] => g[y] = h[y]) => F[<<g, x>>] = F[<<h, x>>]
    BY DEF Recursion
  <1>c. N \in Nat /\ rank \in [S -> Nat] /\ \A x \in S : rank[x] \in Nat /\ rank[x] <= N
    <2>1. N \in Nat /\ rank \in [S -> 0 .. N]
      BY DEF Recursion
    <2>2. QED
      BY <2>1
  <1> DEFINE K == {k \in Nat : \E f \in [S -> V] :
                                 \A x \in S : rank[x] < k => f[x] = F[<<f, x>>]}
  <1>1. 0 \in K
    <2>0. v \in V
      BY <1>a
    <2>1. [x \in S |-> v] \in [S -> V] /\ \A x \in S : ~(rank[x] < 0)
      BY <2>0, <1>c
    <2>2. QED
      BY <2>1
  <1>2. ASSUME NEW k \in Nat \ {0}, k - 1 \in K PROVE k \in K
    <2>1. PICK f \in [S -> V] : \A x \in S : rank[x] < k - 1 => f[x] = F[<<f, x>>]
      BY <1>2
    <2> DEFINE g == [x \in S |-> F[<<f, x>>]]
    <2>2. \A x \in S : <<f, x>> \in [S -> V] \X S
      OBVIOUS
    <2>3. g \in [S -> V]
      BY <1>b, <2>2
    <2>4. ASSUME NEW x \in S, rank[x] < k PROVE g[x] = F[<<g, x>>]
      <3>1. \A y \in S : rank[y] < rank[x] => f[y] = g[y]
        <4> SUFFICES ASSUME NEW y \in S, rank[y] < rank[x] PROVE f[y] = g[y]
          OBVIOUS
        <4>1. rank[x] \in Nat /\ rank[y] \in Nat
          BY <1>c
        <4>2. rank[y] < k - 1
          BY <4>1, <2>4
        <4>3. QED
          BY <2>1, <4>2
      <3>2. F[<<f, x>>] = F[<<g, x>>]
        BY <1>b, <2>3, <3>1
      <3>3. QED
        BY <3>2
    <2> HIDE DEF g
    <2>5. QED
      BY <2>3, <2>4
  <1> HIDE DEF K
  <1>3. Nat \subseteq K
    BY <1>1, <1>2, SetInduction
  <1>4. N + 1 \in K
    BY <1>c, <1>3
  <1>5. PICK f \in [S -> V] : \A x \in S : rank[x] < N + 1 => f[x] = F[<<f, x>>]
    BY <1>4 DEF K
  <1>6. \A x \in S : rank[x] < N + 1
    BY <1>c
  <1>7. QED
    BY <1>5, <1>6

(* The numbers up to n are n. *)
LEMMA UpTo == \A n \in Nat : IsFiniteSet(1 .. n) /\ Cardinality(1 .. n) = n
  <1> SUFFICES ASSUME NEW n \in Nat PROVE IsFiniteSet(1 .. n) /\ Cardinality(1 .. n) = n
    OBVIOUS
  <1>1. QED
    BY FS_Interval

-----------------------------------------------------------------------------
(* FlattenSeq computes what its recursive definition says. *)
LEMMA FlattenUnfolds ==
  ASSUME NEW V, NEW ss \in Seq(Seq(V))
  PROVE  \E f \in [1 .. Len(ss) -> Seq(V)] :
           /\ \A i \in 1 .. Len(ss) : f[i] = IF i = 1 THEN ss[i] ELSE f[i - 1] \o ss[i]
           /\ Len(ss) # 0 => FlattenSeq(ss) = f[Len(ss)]
  <1> DEFINE n == Len(ss)
             D == 1 .. n
             W == Seq(V)
             Step(g, i) == IF i = 1 THEN ss[i] ELSE g[i - 1] \o ss[i]
             F == [gi \in [D -> W] \X D |-> Step(gi[1], gi[2])]
             rank == [i \in D |-> i]
             flatten == CHOOSE f : f = [i \in D |-> Step(f, i)]
  <1>1. n \in Nat /\ \A i \in D : ss[i] \in W /\ (i # 1 => i - 1 \in D)
    OBVIOUS
  <1>2. ASSUME NEW g \in [D -> W], NEW i \in D PROVE F[<<g, i>>] = Step(g, i) /\ Step(g, i) \in W
    <2>1. <<g, i>> \in [D -> W] \X D
      OBVIOUS
    <2>2. F[<<g, i>>] = Step(g, i)
      BY <2>1
    <2>3. CASE i = 1
      BY <1>1, <2>2, <2>3
    <2>4. CASE i # 1
      <3>1. g[i - 1] \in Seq(V) /\ ss[i] \in Seq(V)
        BY <1>1, <2>4
      <3>2. g[i - 1] \o ss[i] \in Seq(V)
        BY <3>1
      <3>3. QED
        BY <2>2, <2>4, <3>2
    <2>5. QED
      BY <2>3, <2>4
  <1>3. F \in [[D -> W] \X D -> W]
    <2>1. \A gi \in [D -> W] \X D : gi = <<gi[1], gi[2]>> /\ gi[1] \in [D -> W] /\ gi[2] \in D
      OBVIOUS
    <2>2. \A gi \in [D -> W] \X D : Step(gi[1], gi[2]) \in W
      BY <2>1, <1>2
    <2>3. QED
      BY <2>2
  <1>4. rank \in [D -> Nat] /\ \A i \in D : rank[i] = i /\ rank[i] <= n
    OBVIOUS
  <1>5. ASSUME NEW g \in [D -> W], NEW h \in [D -> W], NEW i \in D,
               \A j \in D : rank[j] < rank[i] => g[j] = h[j]
        PROVE  F[<<g, i>>] = F[<<h, i>>]
    <2>1. i # 1 => rank[i - 1] < rank[i]
      BY <1>1, <1>4
    <2>2. Step(g, i) = Step(h, i)
      BY <1>1, <1>5, <2>1
    <2>3. QED
      BY <1>2, <2>2
  <1>6. Recursion(D, W, rank, n, F)
    <2>1. <<>> \in W /\ rank \in [D -> 0 .. n]
      OBVIOUS
    <2> HIDE DEF F, rank, W, D, n
    <2>2. QED
      BY <1>1, <1>3, <1>5, <2>1 DEF Recursion
  <1>7. \E f \in [D -> W] : \A i \in D : f[i] = F[<<f, i>>]
    <2> HIDE DEF F, rank, W, D, n
    <2>1. QED
      BY <1>6, RecursionExists
  <1>8. PICK w \in [D -> W] : \A i \in D : w[i] = F[<<w, i>>]
    BY <1>7
  <1>9. w = [i \in D |-> Step(w, i)]
    <2>1. \A i \in D : w[i] = Step(w, i)
      BY <1>2, <1>8
    <2> HIDE DEF F, Step
    <2>2. QED
      BY <2>1
  <1>10. flatten = [i \in D |-> Step(flatten, i)]
    <2> HIDE DEF F, Step
    <2>1. QED
      BY <1>9
  <1>11. \A i \in D : flatten[i] \in W
    <2> DEFINE I == {i \in Nat : i \in D => flatten[i] \in W}
    <2>1. 0 \in I
      OBVIOUS
    <2>2. ASSUME NEW i \in Nat \ {0}, i - 1 \in I PROVE i \in I
      <3> SUFFICES ASSUME i \in D PROVE flatten[i] \in W
        OBVIOUS
      <3>1. flatten[i] = Step(flatten, i)
        <4> HIDE DEF Step, flatten
        <4>1. QED
          BY <1>10
      <3>2. ss[i] \in Seq(V)
        BY <1>1
      <3>3. i # 1 => flatten[i - 1] \in Seq(V)
        <4> HIDE DEF flatten
        <4>1. QED
          BY <1>1, <2>2
      <3> HIDE DEF flatten
      <3>4. i # 1 => flatten[i - 1] \o ss[i] \in Seq(V)
        BY <3>2, <3>3
      <3>5. QED
        BY <3>1, <3>2, <3>4
    <2> HIDE DEF I
    <2>3. Nat \subseteq I
      BY <2>1, <2>2, SetInduction
    <2> HIDE DEF flatten, Step
    <2>4. D \subseteq Nat
      OBVIOUS
    <2>5. QED
      BY <2>3, <2>4 DEF I
  <1>12. flatten \in [D -> W]
    <2> HIDE DEF Step
    <2>1. QED
      BY <1>10, <1>11
  <1>13. n # 0 => FlattenSeq(ss) = flatten[n]
    BY DEF FlattenSeq
  <1>14. \A i \in D : flatten[i] = Step(flatten, i)
    <2> HIDE DEF Step, flatten
    <2>1. QED
      BY <1>10
  <1> HIDE DEF flatten
  <1>15. QED
    BY <1>12, <1>13, <1>14

(* One more sequence adds its elements. *)
LEMMA FlattenAppend ==
  ASSUME NEW V, NEW ss \in Seq(Seq(V)), NEW s \in Seq(V)
  PROVE  FlattenSeq(ss) \in Seq(V) /\ FlattenSeq(Append(ss, s)) = FlattenSeq(ss) \o s
  <1> DEFINE n == Len(ss)
             tt == Append(ss, s)
  <1>1. /\ n \in Nat /\ tt \in Seq(Seq(V)) /\ Len(tt) = n + 1 /\ tt[n + 1] = s
        /\ \A i \in 1 .. n : tt[i] = ss[i]
    OBVIOUS
  <1>2. PICK f \in [1 .. n -> Seq(V)] :
           /\ \A i \in 1 .. n : f[i] = IF i = 1 THEN ss[i] ELSE f[i - 1] \o ss[i]
           /\ n # 0 => FlattenSeq(ss) = f[n]
    BY FlattenUnfolds
  <1>3. PICK g \in [1 .. n + 1 -> Seq(V)] :
           /\ \A i \in 1 .. n + 1 : g[i] = IF i = 1 THEN tt[i] ELSE g[i - 1] \o tt[i]
           /\ FlattenSeq(tt) = g[n + 1]
    <2> HIDE DEF tt, n
    <2>1. n + 1 # 0
      BY <1>1
    <2>2. \E g \in [1 .. Len(tt) -> Seq(V)] :
             /\ \A i \in 1 .. Len(tt) : g[i] = IF i = 1 THEN tt[i] ELSE g[i - 1] \o tt[i]
             /\ Len(tt) # 0 => FlattenSeq(tt) = g[Len(tt)]
      BY <1>1, FlattenUnfolds
    <2>3. QED
      BY <1>1, <2>1, <2>2
  <1> HIDE DEF tt, n
  <1>4. \A i \in 1 .. n : f[i] = g[i]
    <2> DEFINE I == {i \in Nat : i \in 1 .. n => f[i] = g[i]}
    <2>1. 0 \in I
      OBVIOUS
    <2>2. ASSUME NEW i \in Nat \ {0}, i - 1 \in I PROVE i \in I
      <3> SUFFICES ASSUME i \in 1 .. n PROVE f[i] = g[i]
        OBVIOUS
      <3>1. i \in 1 .. n + 1 /\ tt[i] = ss[i]
        BY <1>1
      <3>2. i # 1 => i - 1 \in 1 .. n /\ f[i - 1] = g[i - 1]
        BY <1>1, <2>2
      <3>3. CASE i = 1
        BY <1>2, <1>3, <3>1, <3>3
      <3>4. CASE i # 1
        <4>1. f[i] = f[i - 1] \o ss[i]
          BY <1>2, <3>4
        <4>2. g[i] = g[i - 1] \o tt[i]
          BY <1>3, <3>1, <3>4
        <4>3. QED
          BY <3>1, <3>2, <3>4, <4>1, <4>2
      <3>5. QED
        BY <3>3, <3>4
    <2> HIDE DEF I
    <2>3. Nat \subseteq I
      BY <2>1, <2>2, SetInduction
    <2>4. QED
      BY <2>3, <1>1 DEF I
  <1>5. CASE n = 0
    <2>1. ss = <<>>
      BY <1>5 DEF n
    <2>2. FlattenSeq(ss) = <<>>
      BY <2>1 DEF FlattenSeq
    <2>3. FlattenSeq(tt) = s
      BY <1>1, <1>3, <1>5
    <2>4. QED
      BY <2>2, <2>3 DEF tt
  <1>6. CASE n # 0
    <2>1. PICK m \in 1 .. n + 1 : m = n + 1 /\ m # 1 /\ m - 1 = n /\ n \in 1 .. n
      BY <1>1, <1>6
    <2>2. g[m] = g[m - 1] \o tt[m]
      BY <1>3, <2>1
    <2>3. FlattenSeq(tt) = f[n] \o s
      BY <1>1, <1>3, <1>4, <2>1, <2>2
    <2>4. FlattenSeq(ss) = f[n] /\ f[n] \in Seq(V)
      BY <1>2, <1>6, <2>1
    <2>5. QED
      BY <2>3, <2>4 DEF tt
  <1>7. QED
    BY <1>5, <1>6

-----------------------------------------------------------------------------
(* The panel.  Each record is written in two pieces, one turn after the    *)
(* other.                                                                  *)
RunsComeInPairs ==
  /\ 2 * begun <= Len(runs) + 2
  /\ \A i \in DOMAIN runs : i = 2 * runs[i] - 1 \/ i = 2 * runs[i]

(* A server never restarted keeps the first piece of a record until it has *)
(* read the second, and has told, or is telling, all whole ones.           *)
Told(n) ==
  /\ \/ runsPos = 2 * n /\ buffer = <<>>
     \/ runsPos = 2 * n + 1 /\ buffer = <<n + 1>>
  /\ FromRecords(rows \o telling) = FlattenSeq([k \in 1 .. n |-> Narrative(k)])

ToldInOrder == restarts = 0 => \E n \in 0 .. Len(Turns) : Told(n)

PageIsCurrent ==
  restarts = 0 => since <= Len(rows) /\ (~tardy => seen = 1 .. since)

PanelInv ==
  /\ PanelTypeOK
  /\ RunsComeInPairs
  /\ ToldInOrder
  /\ PageIsCurrent

OfRecord(row) == ~row.live /\ row.kind # "user"

Piece(row) == IF ~row.live /\ row.kind # "user" THEN <<row>> ELSE <<>>
Pieces(log) == [i \in DOMAIN log |-> Piece(log[i])]

(* A row of a record is a piece of one, any other of none. *)
LEMMA PiecesAreSequences ==
  ASSUME NEW log \in Seq(Row)
  PROVE  Pieces(log) \in Seq(Seq(Row)) /\ Len(Pieces(log)) = Len(log)
  <1>1. \A i \in DOMAIN log : Piece(log[i]) \in Seq(Row)
    <2>1. ASSUME NEW r \in Row PROVE Piece(r) \in Seq(Row)
      BY DEF Piece
    <2>2. QED
      BY <2>1
  <1>2. DOMAIN log = 1 .. Len(log) /\ Len(log) \in Nat
    OBVIOUS
  <1>3. Pieces(log) \in [1 .. Len(log) -> Seq(Row)]
    BY <1>1, <1>2 DEF Pieces
  <1>4. QED
    BY <1>2, <1>3

(* The rows made from records are the pieces one after the other. *)
LEMMA FromRecordsRows ==
  ASSUME NEW log \in Seq(Row)
  PROVE  FromRecords(log) = FlattenSeq(Pieces(log)) /\ FromRecords(log) \in Seq(Row)
  <1>1. FromRecords(log) = FlattenSeq(Pieces(log))
    BY DEF FromRecords, Pieces, Piece
  <1>2. <<>> \in Seq(Row)
    OBVIOUS
  <1>3. QED
    BY <1>1, <1>2, PiecesAreSequences, FlattenAppend

(* One row more is one piece more, or none. *)
LEMMA FromRecordsAppend ==
  ASSUME NEW log \in Seq(Row), NEW row \in Row
  PROVE  FromRecords(Append(log, row)) =
           FromRecords(log) \o (IF OfRecord(row) THEN <<row>> ELSE <<>>)
  <1> DEFINE longer == Append(log, row)
  <1>1. /\ longer \in Seq(Row) /\ Len(longer) = Len(log) + 1 /\ longer[Len(log) + 1] = row
        /\ \A i \in 1 .. Len(log) : longer[i] = log[i]
        /\ DOMAIN longer = 1 .. Len(log) + 1 /\ Len(log) \in Nat /\ DOMAIN log = 1 .. Len(log)
    OBVIOUS
  <1>2. Piece(row) \in Seq(Row)
    BY DEF Piece
  <1>3. /\ Pieces(log) \in Seq(Seq(Row)) /\ Len(Pieces(log)) = Len(log)
        /\ Pieces(longer) \in Seq(Seq(Row)) /\ Len(Pieces(longer)) = Len(longer)
    BY <1>1, PiecesAreSequences
  <1>4. Pieces(longer) = Append(Pieces(log), Piece(row))
    <2> HIDE DEF longer
    <2>1. \A i \in 1 .. Len(log) + 1 : Pieces(longer)[i] = Append(Pieces(log), Piece(row))[i]
      <3> SUFFICES ASSUME NEW i \in 1 .. Len(log) + 1
                   PROVE  Pieces(longer)[i] = Append(Pieces(log), Piece(row))[i]
        OBVIOUS
      <3>1. Pieces(longer)[i] = Piece(longer[i])
        BY <1>1 DEF Pieces
      <3>2. CASE i = Len(log) + 1
        <4>1. Len(Pieces(log)) + 1 = i /\ Pieces(log) \in Seq(Seq(Row))
          BY <1>3, <3>2
        <4>2. Append(Pieces(log), Piece(row))[i] = Piece(row)
          BY <4>1, AppendProperties
        <4>3. QED
          BY <1>1, <3>1, <3>2, <4>2
      <3>3. CASE i \in 1 .. Len(log)
        <4>1. Pieces(log)[i] = Piece(log[i])
          BY <1>1, <3>3 DEF Pieces
        <4>2. i \in 1 .. Len(Pieces(log)) /\ Pieces(log) \in Seq(Seq(Row))
          BY <1>3, <3>3
        <4>3. Append(Pieces(log), Piece(row))[i] = Pieces(log)[i]
          BY <4>2
        <4>4. QED
          BY <1>1, <3>1, <3>3, <4>1, <4>3
      <3>4. QED
        <4>1. Len(log) \in Nat
          BY <1>1
        <4>2. i = Len(log) + 1 \/ i \in 1 .. Len(log)
          BY <4>1
        <4>3. QED
          BY <3>2, <3>3, <4>2
    <2>2. /\ Pieces(longer) \in Seq(Seq(Row)) /\ Len(Pieces(longer)) = Len(log) + 1
          /\ Pieces(log) \in Seq(Seq(Row)) /\ Len(Pieces(log)) = Len(log)
      BY <1>3, <1>1
    <2>3. Piece(row) \in Seq(Row)
      BY <1>2
    <2>4. /\ Append(Pieces(log), Piece(row)) \in Seq(Seq(Row))
          /\ Len(Append(Pieces(log), Piece(row))) = Len(log) + 1
      BY <2>2, <2>3, AppendProperties
    <2>5. QED
      BY <2>1, <2>2, <2>4, SeqEqual
  <1>5. Piece(row) = IF OfRecord(row) THEN <<row>> ELSE <<>>
    BY DEF OfRecord, Piece
  <1>6. FromRecords(longer) = FlattenSeq(Pieces(longer))
    BY <1>1, FromRecordsRows
  <1>7. FlattenSeq(Append(Pieces(log), Piece(row))) = FlattenSeq(Pieces(log)) \o Piece(row)
    <2> HIDE DEF longer
    <2>1. QED
      BY <1>2, <1>3, FlattenAppend
  <1>8. FromRecords(longer) = FromRecords(log) \o Piece(row)
    <2> HIDE DEF longer
    <2>1. QED
      BY <1>4, <1>6, <1>7, FromRecordsRows
  <1>9. QED
    BY <1>5, <1>8

(* An empty log has no row of a record. *)
LEMMA FromRecordsEmpty == FromRecords(<<>>) = <<>>
  BY DEF FromRecords, FlattenSeq

(* An appended row that is of no record, and one that is. *)
LEMMA FromRecordsConcat ==
  ASSUME NEW a \in Seq(Row), NEW b \in Seq(Row)
  PROVE  FromRecords(a \o b) = FromRecords(a) \o FromRecords(b)
  <1> DEFINE I == {n \in Nat : \A s \in Seq(Row) :
                     Len(s) = n => FromRecords(a \o s) = FromRecords(a) \o FromRecords(s)}
  <1>1. 0 \in I
    <2> SUFFICES ASSUME NEW s \in Seq(Row), Len(s) = 0
                 PROVE  FromRecords(a \o s) = FromRecords(a) \o FromRecords(s)
      OBVIOUS
    <2>1. s = <<>> /\ a \o s = a
      OBVIOUS
    <2>2. FromRecords(a) \in Seq(Row)
      BY FromRecordsRows
    <2>3. FromRecords(a) \o <<>> = FromRecords(a)
      BY <2>2
    <2>4. QED
      BY <2>1, <2>3, FromRecordsEmpty
  <1>2. ASSUME NEW n \in Nat \ {0}, n - 1 \in I PROVE n \in I
    <2> SUFFICES ASSUME NEW s \in Seq(Row), Len(s) = n
                 PROVE  FromRecords(a \o s) = FromRecords(a) \o FromRecords(s)
      OBVIOUS
    <2>0. s # <<>>
      BY n # 0, Len(s) = n
    <2>1. PICK t \in Seq(Row) : \E row \in Row : s = Append(t, row)
      BY <2>0, SequenceEmptyOrAppend
    <2>2. PICK row \in Row : s = Append(t, row)
      BY <2>1
    <2>3. Len(t) = n - 1
      BY <2>2
    <2>4. a \o s = Append(a \o t, row) /\ a \o t \in Seq(Row)
      BY <2>2
    <2>5. FromRecords(a \o t) = FromRecords(a) \o FromRecords(t)
      BY <1>2, <2>3
    <2> DEFINE tip == IF OfRecord(row) THEN <<row>> ELSE <<>>
    <2>6. tip \in Seq(Row)
      OBVIOUS
    <2> HIDE DEF tip
    <2>7. /\ FromRecords(a \o s) = FromRecords(a \o t) \o tip
          /\ FromRecords(s) = FromRecords(t) \o tip
          /\ FromRecords(a) \in Seq(Row) /\ FromRecords(t) \in Seq(Row)
      BY <2>2, <2>4, FromRecordsAppend, FromRecordsRows DEF tip
    <2>8. (FromRecords(a) \o FromRecords(t)) \o tip = FromRecords(a) \o (FromRecords(t) \o tip)
      <3>1. FromRecords(a) \in Seq(Row) /\ FromRecords(t) \in Seq(Row)
        BY <2>7
      <3>2. QED
        BY <2>6, <3>1
    <2>9. QED
      BY <2>5, <2>7, <2>8
  <1> HIDE DEF I
  <1>3. Nat \subseteq I
    BY <1>1, <1>2, SetInduction
  <1>4. Len(b) \in I
    BY <1>3
  <1>5. QED
    BY <1>4 DEF I

(* A log with nothing else is all rows of records. *)
LEMMA FromRecordsKeeps ==
  ASSUME NEW b \in Seq(Row), \A i \in DOMAIN b : OfRecord(b[i])
  PROVE  FromRecords(b) = b
  <1> DEFINE I == {n \in Nat : \A s \in Seq(Row) :
                     Len(s) = n /\ (\A i \in DOMAIN s : OfRecord(s[i])) => FromRecords(s) = s}
  <1>1. 0 \in I
    <2> SUFFICES ASSUME NEW s \in Seq(Row), Len(s) = 0 PROVE FromRecords(s) = s
      OBVIOUS
    <2>1. s = <<>>
      OBVIOUS
    <2>2. QED
      BY <2>1, FromRecordsEmpty
  <1>2. ASSUME NEW n \in Nat \ {0}, n - 1 \in I PROVE n \in I
    <2> SUFFICES ASSUME NEW s \in Seq(Row), Len(s) = n, \A i \in DOMAIN s : OfRecord(s[i])
                 PROVE  FromRecords(s) = s
      OBVIOUS
    <2>0. s # <<>>
      BY n # 0, Len(s) = n
    <2>1. PICK t \in Seq(Row) : \E row \in Row : s = Append(t, row)
      BY <2>0, SequenceEmptyOrAppend
    <2>2. PICK row \in Row : s = Append(t, row)
      BY <2>1
    <2>3. Len(t) = n - 1 /\ \A i \in DOMAIN t : i \in DOMAIN s /\ t[i] = s[i]
      BY <2>2
    <2>4. n \in DOMAIN s /\ s[n] = row
      BY <2>2, <2>3
    <2>5. FromRecords(t) = t
      BY <1>2, <2>3
    <2>6. FromRecords(s) = t \o <<row>>
      BY <2>2, <2>4, <2>5, FromRecordsAppend
    <2>7. QED
      BY <2>2, <2>6
  <1> HIDE DEF I
  <1>3. Nat \subseteq I
    BY <1>1, <1>2, SetInduction
  <1>4. Len(b) \in I
    BY <1>3
  <1>5. QED
    BY <1>4 DEF I

(* A run's own rows, in the order the code writes them. *)
LEMMA NarrativeIsOfRecord ==
  ASSUME NEW n \in DOMAIN Turns
  PROVE  Narrative(n) \in Seq(Row) /\ \A i \in DOMAIN Narrative(n) : OfRecord(Narrative(n)[i])
  <1> DEFINE K == {"agent", "plan", "exec", "tool", "gate", "error", "answer", "note"}
             turn_ == Turns[n]
             opening == <<"agent">>
             planned == IF turn_.orchestrated THEN <<"plan">> ELSE <<>>
             asking == IF turn_.asked THEN <<"gate">> ELSE <<>>
             started == IF turn_.orchestrated /\ turn_.branches # <<>> THEN <<"exec">> ELSE <<>>
             steps == [i \in DOMAIN turn_.branches |-> KindOfBranch(turn_.branches[i])]
             ended == IF turn_.handed THEN <<"exec">> ELSE <<>>
             closing == IF turn_.answered THEN <<"answer">> ELSE <<"note">>
             kinds == opening \o planned \o asking \o started \o steps \o ended \o closing
  <1>1. turn_.branches \in Seq({"ok", "declined", "other"})
    BY PanelAssumption
  <1>2. steps \in Seq(K)
    <2>1. \A b : KindOfBranch(b) \in K
      BY DEF KindOfBranch
    <2>2. steps \in [1 .. Len(turn_.branches) -> K] /\ Len(turn_.branches) \in Nat
      BY <1>1, <2>1
    <2>3. QED
      BY <2>2
  <1>3. opening \in Seq(K) /\ planned \in Seq(K) /\ asking \in Seq(K)
        /\ started \in Seq(K) /\ ended \in Seq(K) /\ closing \in Seq(K)
    <2>1. <<>> \in Seq(K)
      OBVIOUS
    <2>2. \A k \in K : <<k>> \in Seq(K)
      <3> HIDE DEF K
      <3>1. QED
        OBVIOUS
    <2>3. {"agent", "plan", "gate", "exec", "answer", "note"} \subseteq K
      OBVIOUS
    <2> HIDE DEF K
    <2>4. QED
      BY <2>1, <2>2, <2>3
  <1>4. kinds \in Seq(K)
    <2> HIDE DEF K, opening, planned, asking, started, steps, ended, closing
    <2>1. QED
      BY <1>2, <1>3
  <1>5. Narrative(n) = [i \in DOMAIN kinds |-> RowOf(kinds[i], n, FALSE)]
    BY DEF Narrative
  <1> HIDE DEF kinds
  <1>6. \A k \in K : RowOf(k, n, FALSE) \in Row /\ OfRecord(RowOf(k, n, FALSE))
    BY DEF RowOf, Row, OfRecord
  <1> HIDE DEF K
  <1>7. DOMAIN kinds = 1 .. Len(kinds) /\ Len(kinds) \in Nat /\ \A i \in DOMAIN kinds : kinds[i] \in K
    BY <1>4
  <1>8. Narrative(n) \in [1 .. Len(kinds) -> Row]
    BY <1>5, <1>6, <1>7
  <1>9. \A i \in DOMAIN kinds : OfRecord(Narrative(n)[i])
    BY <1>5, <1>6, <1>7
  <1>10. Narrative(n) \in Seq(Row) /\ DOMAIN Narrative(n) = DOMAIN kinds
    BY <1>7, <1>8
  <1>11. QED
    BY <1>9, <1>10

(* What a line of the log is turned into: the run's rows, after the message *)
(* if it was not shown.                                                     *)
LEMMA LinesAreRows ==
  ASSUME NEW line \in Seq(DOMAIN Turns), line # <<>>
  PROVE  Expand1(line) \in Seq(Row)
  <1> DEFINE inLog == Request(Turns[line[1]]) = <<>> \/ AlreadyShowedUser(Request(Turns[line[1]]))
             message == RowOf("user", line[1], FALSE)
             torn == RowOf("error", line[1], FALSE)
             first == IF inLog THEN <<>> ELSE <<message>>
  <1>1. line[1] \in DOMAIN Turns
    BY Len(line) \in Nat, Len(line) # 0
  <1>2. message \in Row /\ torn \in Row
    BY <1>1 DEF RowOf, Row
  <1>3. Narrative(line[1]) \in Seq(Row)
    BY <1>1, NarrativeIsOfRecord
  <1>4. Expand1(line) = IF Len(line) = 2 /\ line[1] = line[2] THEN first \o Narrative(line[1])
                        ELSE <<torn>>
    BY DEF Expand1, ExpandRun
  <1> HIDE DEF inLog, message, torn
  <1>5. first \in Seq(Row) /\ <<torn>> \in Seq(Row)
    BY <1>2
  <1> HIDE DEF first
  <1>6. first \o Narrative(line[1]) \in Seq(Row)
    BY <1>3, <1>5
  <1>7. QED
    BY <1>4, <1>5, <1>6

(* What a whole line adds is the narrative, after the message or alone. *)
LEMMA WholeRecordIsTold ==
  ASSUME NEW n \in DOMAIN Turns
  PROVE  /\ Expand1(<<n, n>>) \in Seq(Row)
         /\ FromRecords(Expand1(<<n, n>>)) = Narrative(n)
  <1> DEFINE inLog == Request(Turns[n]) = <<>> \/ AlreadyShowedUser(Request(Turns[n]))
             message == RowOf("user", n, FALSE)
             first == IF inLog THEN <<>> ELSE <<message>>
  <1>1. message \in Row /\ ~OfRecord(message)
    BY DEF RowOf, Row, OfRecord
  <1>2. Expand1(<<n, n>>) = first \o Narrative(n)
    BY DEF Expand1, ExpandRun
  <1>3. Narrative(n) \in Seq(Row) /\ FromRecords(Narrative(n)) = Narrative(n)
    BY NarrativeIsOfRecord, FromRecordsKeeps
  <1> HIDE DEF inLog, message
  <1>4. first \in Seq(Row)
    BY <1>1
  <1>5. FromRecords(first) = <<>>
    <2>1. CASE inLog
      BY <2>1, FromRecordsEmpty
    <2>2. CASE ~inLog
      <3>1. <<>> \in Seq(Row) /\ Append(<<>>, message) = <<message>>
        OBVIOUS
      <3>2. FromRecords(Append(<<>>, message)) = FromRecords(<<>>) \o <<>>
        BY <1>1, <3>1, FromRecordsAppend
      <3>3. FromRecords(<<message>>) = <<>>
        BY <3>1, <3>2, FromRecordsEmpty
      <3>4. QED
        BY <2>2, <3>3
    <2>3. QED
      BY <2>1, <2>2
  <1> HIDE DEF first
  <1>6. FromRecords(first \o Narrative(n)) = FromRecords(first) \o FromRecords(Narrative(n))
    BY <1>3, <1>4, FromRecordsConcat
  <1>7. <<>> \o Narrative(n) = Narrative(n) /\ first \o Narrative(n) \in Seq(Row)
    BY <1>3, <1>4
  <1>8. QED
    BY <1>2, <1>3, <1>5, <1>6, <1>7

(* The next record adds its narrative to the earlier ones. *)
LEMMA NarrativesFollow ==
  ASSUME NEW n \in 0 .. Len(Turns) - 1
  PROVE  FlattenSeq([k \in 1 .. n + 1 |-> Narrative(k)]) =
           FlattenSeq([k \in 1 .. n |-> Narrative(k)]) \o Narrative(n + 1)
  <1> DEFINE short == [k \in 1 .. n |-> Narrative(k)]
             long == [k \in 1 .. n + 1 |-> Narrative(k)]
  <1>1. Len(Turns) \in Nat /\ DOMAIN Turns = 1 .. Len(Turns)
    BY PanelAssumption
  <1>2. \A k \in 1 .. n + 1 : Narrative(k) \in Seq(Row)
    BY <1>1, NarrativeIsOfRecord
  <1>3. n \in Nat /\ n + 1 \in Nat /\ n + 1 \in 1 .. n + 1 /\ \A k \in 1 .. n : k \in 1 .. n + 1
    BY <1>1
  <1>4. short \in [1 .. n -> Seq(Row)] /\ long \in [1 .. n + 1 -> Seq(Row)]
    BY <1>2, <1>3
  <1>5. short \in Seq(Seq(Row)) /\ long \in Seq(Seq(Row)) /\ Len(short) = n /\ Len(long) = n + 1
    <2> HIDE DEF short, long
    <2>1. QED
      BY <1>3, <1>4
  <1>6. Narrative(n + 1) \in Seq(Row)
    BY <1>2, <1>3
  <1>7. long = Append(short, Narrative(n + 1))
    <2> DEFINE both == Append(short, Narrative(n + 1))
    <2>1. \A k \in 1 .. n : short[k] = Narrative(k) /\ long[k] = Narrative(k)
      BY <1>3
    <2>2. long[n + 1] = Narrative(n + 1)
      BY <1>3
    <2> HIDE DEF short, long
    <2>3. /\ both \in Seq(Seq(Row)) /\ Len(both) = n + 1 /\ both[n + 1] = Narrative(n + 1)
          /\ \A k \in 1 .. n : both[k] = short[k]
      BY <1>5, <1>6, AppendProperties
    <2> HIDE DEF both
    <2>4. \A k \in 1 .. n + 1 : long[k] = both[k]
      <3> SUFFICES ASSUME NEW k \in 1 .. n + 1 PROVE long[k] = both[k]
        OBVIOUS
      <3>1. k = n + 1 \/ k \in 1 .. n
        BY <1>3
      <3>2. QED
        BY <3>1, <2>1, <2>2, <2>3
    <2>5. long = both
      BY <1>5, <2>3, <2>4, SeqEqual
    <2>6. QED
      BY <2>5 DEF both
  <1> HIDE DEF short, long
  <1>8. FlattenSeq(Append(short, Narrative(n + 1))) = FlattenSeq(short) \o Narrative(n + 1)
    BY <1>5, <1>6, FlattenAppend
  <1>9. QED
    BY <1>7, <1>8 DEF short, long

(* The panel has told nothing of no record. *)
LEMMA PanelStart == PanelInit => PanelInv
  <1> SUFFICES ASSUME PanelInit PROVE PanelInv
    OBVIOUS
  <1>1. /\ begun = 0 /\ runs = <<>> /\ stdoutPos = 0 /\ runsPos = 0 /\ buffer = <<>>
        /\ telling = <<>> /\ rows = <<>> /\ since = 0 /\ seen = {} /\ tardy = FALSE /\ restarts = 0
    BY DEF PanelInit
  <1>2. Len(Turns) \in Nat /\ MaxRestarts \in Nat
    BY PanelAssumption
  <1>3. PanelTypeOK
    <2>1. <<>> \in Seq(DOMAIN Turns) /\ <<>> \in Seq(Row) /\ Len(<<>>) = 0
      OBVIOUS
    <2>2. begun \in 0 .. Len(Turns) /\ stdoutPos \in 0 .. begun /\ restarts \in 0 .. MaxRestarts
      BY <1>1, <1>2
    <2>3. /\ runs \in Seq(DOMAIN Turns) /\ Len(runs) = 0 /\ buffer \in Seq(DOMAIN Turns) /\ Len(buffer) = 0
          /\ rows \in Seq(Row) /\ telling \in Seq(Row)
      BY <1>1, <2>1
    <2>4. Len(runs) <= 2 * begun /\ runsPos \in 0 .. Len(runs) /\ Len(buffer) <= 1
      BY <1>1, <2>3
    <2>5. since \in Nat /\ seen \subseteq Nat /\ tardy \in BOOLEAN
      BY <1>1
    <2>6. QED
      BY <2>2, <2>3, <2>4, <2>5 DEF PanelTypeOK
  <1>4. RunsComeInPairs
    BY <1>1 DEF RunsComeInPairs
  <1>5. Told(0)
    <2>1. rows \o telling = <<>>
      BY <1>1
    <2>2. [k \in 1 .. 0 |-> Narrative(k)] = <<>>
      OBVIOUS
    <2>3. FlattenSeq(<<>>) = <<>>
      BY DEF FlattenSeq
    <2>4. runsPos = 2 * 0 /\ buffer = <<>>
      BY <1>1
    <2>5. QED
      BY <2>1, <2>2, <2>3, <2>4, FromRecordsEmpty DEF Told
  <1>6. PageIsCurrent
    BY <1>1 DEF PageIsCurrent
  <1>7. QED
    BY <1>2, <1>3, <1>4, <1>5, <1>6 DEF PanelInv, ToldInOrder

(* The ranges of the counters, from the types. *)
LEMMA PanelRanges ==
  ASSUME PanelTypeOK
  PROVE  /\ begun \in Nat /\ begun <= Len(Turns) /\ Len(Turns) \in Nat
         /\ DOMAIN Turns = 1 .. Len(Turns)
         /\ Len(runs) \in Nat /\ DOMAIN runs = 1 .. Len(runs)
         /\ \A i \in DOMAIN runs : runs[i] \in DOMAIN Turns
         /\ stdoutPos \in Nat /\ runsPos \in Nat /\ runsPos <= Len(runs)
         /\ since \in Nat /\ Len(rows) \in Nat /\ restarts \in Nat
         /\ MaxEvents \in Nat \ {0} /\ MaxRestarts \in Nat
  BY PanelAssumption DEF PanelTypeOK

(* The service, and the first thread: what they add is of no record. *)
LEMMA BeginTurnKeepsPanelInv == PanelInv /\ BeginTurn => PanelInv'
  <1> SUFFICES ASSUME PanelInv, BeginTurn PROVE PanelInv'
    OBVIOUS
  <1> USE DEF PanelInv
  <1>1. /\ begun < Len(Turns) /\ Len(runs) = 2 * begun /\ begun' = begun + 1
        /\ UNCHANGED <<runs, stdoutPos, runsPos, buffer, telling, rows, since, seen, tardy, restarts>>
    BY DEF BeginTurn, tailVars, pageVars
  <1>2. PanelTypeOK'
    BY <1>1, PanelRanges DEF PanelTypeOK
  <1>3. RunsComeInPairs'
    BY <1>1, PanelRanges DEF RunsComeInPairs
  <1>4. ToldInOrder' /\ PageIsCurrent'
    BY <1>1 DEF ToldInOrder, Told, PageIsCurrent
  <1>5. QED
    BY <1>2, <1>3, <1>4

(* The second piece of a record follows its first: one worker writes both. *)
LEMMA FlushPieceKeepsPanelInv == PanelInv /\ FlushPiece => PanelInv'
  <1> SUFFICES ASSUME PanelInv, FlushPiece PROVE PanelInv'
    OBVIOUS
  <1> USE DEF PanelInv
  <1>1. /\ Len(runs) < 2 * begun /\ runs' = Append(runs, begun)
        /\ UNCHANGED <<begun, stdoutPos, runsPos, buffer, telling, rows, since, seen, tardy, restarts>>
    BY DEF FlushPiece, tailVars, pageVars
  <1>2. begun \in DOMAIN Turns /\ runs \in Seq(DOMAIN Turns)
    BY <1>1, PanelRanges DEF PanelTypeOK
  <1>3. /\ runs' \in Seq(DOMAIN Turns) /\ Len(runs') = Len(runs) + 1
        /\ runs'[Len(runs) + 1] = begun /\ \A i \in 1 .. Len(runs) : runs'[i] = runs[i]
        /\ DOMAIN runs' = 1 .. Len(runs) + 1
    BY <1>1, <1>2
  <1>4. PanelTypeOK'
    BY <1>1, <1>3, PanelRanges DEF PanelTypeOK
  <1>5. RunsComeInPairs'
    <2>1. 2 * begun' <= Len(runs') + 2
      BY <1>1, <1>3, PanelRanges DEF RunsComeInPairs
    <2>2. ASSUME NEW i \in DOMAIN runs' PROVE i = 2 * runs'[i] - 1 \/ i = 2 * runs'[i]
      <3>1. CASE i = Len(runs) + 1
        <4>1. PICK len \in Nat, b \in Nat : len = Len(runs) /\ b = begun
          BY PanelRanges
        <4>2. 2 * b <= len + 2 /\ len < 2 * b
          BY <1>1, <4>1 DEF RunsComeInPairs
        <4>3. len + 1 = 2 * b - 1 \/ len + 1 = 2 * b
          BY <4>2
        <4>4. runs'[i] = b /\ i = len + 1
          BY <1>3, <3>1, <4>1
        <4>5. QED
          BY <4>3, <4>4
      <3>2. CASE i \in 1 .. Len(runs)
        BY <1>3, <3>2, PanelRanges DEF RunsComeInPairs
      <3>3. QED
        BY <1>3, <3>1, <3>2, PanelRanges
    <2>3. QED
      BY <2>1, <2>2 DEF RunsComeInPairs
  <1>6. ToldInOrder' /\ PageIsCurrent'
    BY <1>1 DEF ToldInOrder, Told, PageIsCurrent
  <1>7. QED
    BY <1>4, <1>5, <1>6

(* The first thread's rows are live: no row of a record comes or goes. *)
LEMMA TailServiceLogKeepsPanelInv == PanelInv /\ TailServiceLog => PanelInv'
  <1> SUFFICES ASSUME PanelInv, TailServiceLog PROVE PanelInv'
    OBVIOUS
  <1> USE DEF PanelInv
  <1> DEFINE line == RowOf("user", stdoutPos', TRUE)
  <1>1. /\ stdoutPos < begun /\ stdoutPos' = stdoutPos + 1
        /\ rows' = IF Turns[stdoutPos'].live THEN Append(rows, line) ELSE rows
        /\ UNCHANGED <<begun, runs, runsPos, buffer, telling, since, seen, tardy, restarts>>
    BY DEF TailServiceLog, pageVars
  <1>2. stdoutPos' \in DOMAIN Turns /\ rows \in Seq(Row) /\ telling \in Seq(Row)
    BY <1>1, PanelRanges DEF PanelTypeOK
  <1>3. line \in Row /\ ~OfRecord(line)
    BY <1>2 DEF RowOf, Row, OfRecord
  <1>4. /\ rows' \in Seq(Row) /\ Len(rows') >= Len(rows)
        /\ FromRecords(rows') = FromRecords(rows)
    <2> HIDE DEF line
    <2>1. CASE rows' = Append(rows, line)
      <3>1. FromRecords(rows') = FromRecords(rows) \o <<>>
        BY <1>2, <1>3, <2>1, FromRecordsAppend
      <3>2. FromRecords(rows) \in Seq(Row)
        BY <1>2, FromRecordsRows
      <3>3. FromRecords(rows) \o <<>> = FromRecords(rows)
        BY <3>2
      <3>4. rows' \in Seq(Row) /\ Len(rows') = Len(rows) + 1 /\ Len(rows) \in Nat
        BY <1>2, <1>3, <2>1
      <3>5. QED
        BY <3>1, <3>3, <3>4
    <2>2. CASE rows' = rows
      BY <1>2, <2>2, PanelRanges
    <2>3. QED
      BY <1>1, <2>1, <2>2
  <1>5. PanelTypeOK'
    <2>1. stdoutPos' \in 0 .. begun'
      BY <1>1, PanelRanges
    <2>2. QED
      BY <1>1, <1>4, <2>1 DEF PanelTypeOK
  <1>6. RunsComeInPairs'
    BY <1>1 DEF RunsComeInPairs
  <1>7. FromRecords(rows' \o telling') = FromRecords(rows \o telling)
    <2>1. /\ FromRecords(rows' \o telling) = FromRecords(rows') \o FromRecords(telling)
          /\ FromRecords(rows \o telling) = FromRecords(rows) \o FromRecords(telling)
      BY <1>2, <1>4, FromRecordsConcat
    <2>2. QED
      BY <1>1, <1>4, <2>1
  <1>8. ToldInOrder'
    BY <1>1, <1>7 DEF ToldInOrder, Told
  <1>9. PageIsCurrent'
    BY <1>1, <1>4, <1>5, PanelRanges DEF PageIsCurrent, PanelTypeOK
  <1>10. QED
    BY <1>5, <1>6, <1>8, <1>9

(* The second thread: the first piece of a record is kept, the second makes *)
(* the line whole.                                                          *)
LEMMA TailRunsKeepsPanelInv == PanelInv /\ TailRuns => PanelInv'
  <1> SUFFICES ASSUME PanelInv, TailRuns PROVE PanelInv'
    OBVIOUS
  <1> USE DEF PanelInv
  <1> DEFINE pieces == Append(buffer, runs[runsPos'])
  <1>1. /\ telling = <<>> /\ runsPos < Len(runs) /\ runsPos' = runsPos + 1
        /\ telling' = (IF Len(pieces) = 2 THEN Expand1(pieces) ELSE <<>>)
        /\ buffer' = (IF Len(pieces) = 2 THEN <<>> ELSE pieces)
        /\ UNCHANGED <<begun, runs, stdoutPos, rows, since, seen, tardy, restarts>>
    BY DEF TailRuns, KeepPartial, pageVars
  <1>2. /\ runsPos' \in 1 .. Len(runs) /\ runs[runsPos'] \in DOMAIN Turns
        /\ buffer \in Seq(DOMAIN Turns) /\ Len(buffer) <= 1
    BY <1>1, PanelRanges DEF PanelTypeOK
  <1>3. /\ pieces \in Seq(DOMAIN Turns) /\ pieces # <<>> /\ Len(pieces) \in Nat /\ Len(pieces) <= 2
    BY <1>2, AppendProperties
  <1>4. telling' \in Seq(Row) /\ buffer' \in Seq(DOMAIN Turns) /\ Len(buffer') <= 1
    <2> HIDE DEF pieces
    <2>1. CASE Len(pieces) = 2
      <3>1. telling' = Expand1(pieces) /\ buffer' = <<>>
        BY <1>1, <2>1
      <3>2. <<>> \in Seq(DOMAIN Turns) /\ Len(<<>>) = 0
        OBVIOUS
      <3>3. QED
        BY <1>3, <3>1, <3>2, LinesAreRows
    <2>2. CASE Len(pieces) # 2
      <3>1. telling' = <<>> /\ buffer' = pieces
        BY <1>1, <2>2
      <3>2. <<>> \in Seq(Row)
        OBVIOUS
      <3>3. pieces \in Seq(DOMAIN Turns)
        BY <1>3
      <3>4. Len(pieces) <= 1
        <4>1. \A k \in Nat : k <= 2 /\ k # 2 => k <= 1
          OBVIOUS
        <4>2. QED
          BY <1>3, <2>2, <4>1
      <3>5. QED
        BY <3>1, <3>2, <3>3, <3>4
    <2>3. QED
      BY <2>1, <2>2
  <1>5. PanelTypeOK'
    <2>1. runsPos' \in 0 .. Len(runs')
      BY <1>1, <1>2
    <2> HIDE DEF pieces
    <2>2. QED
      BY <1>1, <1>4, <2>1 DEF PanelTypeOK
  <1>6. RunsComeInPairs' /\ PageIsCurrent'
    BY <1>1 DEF RunsComeInPairs, PageIsCurrent
  <1>7. ASSUME restarts = 0 PROVE \E n \in 0 .. Len(Turns) : Told(n)'
    <2>1. PICK n \in 0 .. Len(Turns) : Told(n)
      BY <1>7 DEF ToldInOrder
    <2>2. rows \in Seq(Row) /\ rows \o telling = rows /\ rows \o <<>> = rows
      BY <1>1 DEF PanelTypeOK
    <2>3. FromRecords(rows) = FlattenSeq([k \in 1 .. n |-> Narrative(k)])
      BY <2>1, <2>2 DEF Told
    <2>4. n \in Nat /\ n <= Len(Turns)
      BY PanelRanges
    <2>5. runsPos' \in DOMAIN runs /\ runs[runsPos'] \in Nat
      BY <1>2, PanelRanges
    <2>6. runsPos' = 2 * runs[runsPos'] - 1 \/ runsPos' = 2 * runs[runsPos']
      BY <2>5 DEF RunsComeInPairs
    <2>7. CASE runsPos = 2 * n /\ buffer = <<>>
      <3>1. runs[runsPos'] = n + 1 /\ runsPos' = 2 * n + 1
        BY <1>1, <2>4, <2>5, <2>6, <2>7
      <3>2. pieces = <<n + 1>>
        BY <2>7, <3>1
      <3>3. Len(pieces) = 1
        BY <3>2
      <3>4. telling' = <<>> /\ buffer' = <<n + 1>>
        BY <1>1, <3>2, <3>3
      <3>5. FromRecords(rows' \o telling') = FromRecords(rows)
        BY <1>1, <2>2, <3>4
      <3>6. Told(n)'
        BY <2>3, <3>1, <3>4, <3>5 DEF Told
      <3>7. QED
        BY <3>6
    <2>8. CASE runsPos = 2 * n + 1 /\ buffer = <<n + 1>>
      <3>1. runs[runsPos'] = n + 1 /\ runsPos' = 2 * (n + 1)
        BY <1>1, <2>4, <2>5, <2>6, <2>8
      <3>2. pieces = <<n + 1, n + 1>>
        <4>1. ASSUME NEW k \in Nat PROVE Append(<<k>>, k) = <<k, k>>
          <5>1. <<k>> \in Seq(Nat) /\ <<k, k>> \in Seq(Nat) /\ Len(<<k>>) = 1 /\ Len(<<k, k>>) = 2
            OBVIOUS
          <5>2. /\ Append(<<k>>, k) \in Seq(Nat) /\ Len(Append(<<k>>, k)) = 2
                /\ \A i \in 1 .. 2 : Append(<<k>>, k)[i] = <<k, k>>[i]
            BY <5>1, AppendProperties
          <5>3. QED
            BY <5>1, <5>2, SeqEqual
        <4>2. n + 1 \in Nat
          BY <2>4
        <4>3. pieces = Append(<<n + 1>>, n + 1)
          BY <2>8, <3>1
        <4>4. QED
          BY <4>1, <4>2, <4>3
      <3>3. Len(pieces) = 2
        BY <3>2
      <3>4. telling' = Expand1(<<n + 1, n + 1>>) /\ buffer' = <<>>
        BY <1>1, <3>2, <3>3
      <3>5. n + 1 \in DOMAIN Turns
        BY <1>2, <3>1
      <3>6. FromRecords(rows' \o telling') = FromRecords(rows) \o FromRecords(telling')
        BY <1>1, <1>4, <2>2, FromRecordsConcat
      <3>7. FromRecords(telling') = Narrative(n + 1)
        BY <3>4, <3>5, WholeRecordIsTold
      <3>8. n \in 0 .. Len(Turns) - 1 /\ n + 1 \in 0 .. Len(Turns)
        BY <2>4, <3>5, PanelRanges
      <3>9. FlattenSeq([k \in 1 .. n + 1 |-> Narrative(k)]) =
              FlattenSeq([k \in 1 .. n |-> Narrative(k)]) \o Narrative(n + 1)
        BY <3>8, NarrativesFollow
      <3>10. FromRecords(rows' \o telling') = FlattenSeq([k \in 1 .. n + 1 |-> Narrative(k)])
        BY <2>3, <3>6, <3>7, <3>9
      <3>11. Told(n + 1)'
        BY <3>1, <3>4, <3>10 DEF Told
      <3>12. QED
        BY <3>8, <3>11
    <2>9. QED
      BY <2>1, <2>7, <2>8 DEF Told
  <1>8. ToldInOrder'
    BY <1>1, <1>7 DEF ToldInOrder
  <1>9. QED
    BY <1>5, <1>6, <1>8

(* A row moves from what is to be told to what is. *)
LEMMA AddRowKeepsPanelInv == PanelInv /\ AddRow => PanelInv'
  <1> SUFFICES ASSUME PanelInv, AddRow PROVE PanelInv'
    OBVIOUS
  <1> USE DEF PanelInv
  <1>1. /\ telling # <<>> /\ rows' = Append(rows, Head(telling)) /\ telling' = Tail(telling)
        /\ UNCHANGED <<begun, runs, stdoutPos, runsPos, buffer, since, seen, tardy, restarts>>
    BY DEF AddRow, pageVars
  <1>2. rows \in Seq(Row) /\ telling \in Seq(Row) /\ Head(telling) \in Row /\ Tail(telling) \in Seq(Row)
    BY <1>1 DEF PanelTypeOK
  <1>3. rows' \in Seq(Row) /\ telling' \in Seq(Row) /\ Len(rows') = Len(rows) + 1 /\ Len(rows) \in Nat
    BY <1>1, <1>2
  <1>4. rows' \o telling' = rows \o telling
    <2>1. Append(rows, Head(telling)) \o Tail(telling) = rows \o telling
      BY <1>1, <1>2
    <2>2. QED
      BY <1>1, <2>1
  <1>5. PanelTypeOK'
    BY <1>1, <1>3 DEF PanelTypeOK
  <1>6. RunsComeInPairs'
    BY <1>1 DEF RunsComeInPairs
  <1>7. ToldInOrder'
    BY <1>1, <1>4 DEF ToldInOrder, Told
  <1>8. PageIsCurrent'
    BY <1>1, <1>3, PanelRanges DEF PageIsCurrent
  <1>9. QED
    BY <1>5, <1>6, <1>7, <1>8

(* What the page is given ends with the newest row. *)
LEMMA PageGetsTheNewest ==
  ASSUME PanelTypeOK, Since(since) # {}
  PROVE  /\ Since(since) = {s \in 1 .. Len(rows) : s > Len(rows) - MaxEvents /\ s > since}
         /\ Max(Since(since)) = Len(rows) /\ since < Len(rows)
  <1>1. Len(rows) \in Nat /\ DOMAIN rows = 1 .. Len(rows) /\ since \in Nat /\ MaxEvents \in Nat \ {0}
    BY PanelRanges DEF PanelTypeOK
  <1>2. Since(since) = {s \in 1 .. Len(rows) : s > Len(rows) - MaxEvents /\ s > since}
    BY <1>1 DEF Since, Window
  <1>3. PICK s \in 1 .. Len(rows) : s > since
    BY <1>2
  <1>4. Len(rows) \in Since(since) /\ since < Len(rows)
    <2>1. Len(rows) \in 1 .. Len(rows) /\ Len(rows) > since /\ Len(rows) > Len(rows) - MaxEvents
      BY <1>1, <1>3
    <2>2. QED
      BY <1>2, <2>1
  <1>5. \A t \in Since(since) : t \in Nat /\ Len(rows) >= t
    BY <1>1, <1>2
  <1>6. Max(Since(since)) \in Since(since) /\ \A t \in Since(since) : Max(Since(since)) >= t
    BY <1>4, <1>5 DEF Max
  <1>7. Max(Since(since)) = Len(rows)
    BY <1>1, <1>4, <1>5, <1>6
  <1>8. QED
    BY <1>2, <1>4, <1>7

(* A page not a whole log behind finds all the rows after its place. *)
LEMMA FetchKeepsPanelInv == PanelInv /\ Fetch => PanelInv'
  <1> SUFFICES ASSUME PanelInv, Fetch PROVE PanelInv'
    OBVIOUS
  <1> USE DEF PanelInv
  <1>1. /\ Since(since) # {} /\ since' = Max(Since(since)) /\ seen' = seen \cup Since(since)
        /\ tardy' = (tardy \/ Len(rows) - since > MaxEvents)
        /\ UNCHANGED <<begun, runs, stdoutPos, runsPos, buffer, telling, rows, restarts>>
    BY DEF Fetch, tailVars
  <1>2. Since(since) = {s \in 1 .. Len(rows) : s > Len(rows) - MaxEvents /\ s > since}
    BY <1>1, PageGetsTheNewest
  <1>3. since' = Len(rows) /\ since < Len(rows)
    BY <1>1, PageGetsTheNewest
  <1>4. PanelTypeOK'
    <2>1. Since(since) \subseteq Nat
      BY <1>2
    <2>2. since' \in Nat /\ seen' \subseteq Nat
      BY <1>1, <1>3, <2>1, PanelRanges DEF PanelTypeOK
    <2>3. tardy' \in BOOLEAN
      BY <1>1
    <2>4. QED
      BY <1>1, <2>2, <2>3 DEF PanelTypeOK
  <1>5. RunsComeInPairs' /\ ToldInOrder'
    BY <1>1 DEF RunsComeInPairs, ToldInOrder, Told
  <1>6. PageIsCurrent'
    <2> SUFFICES ASSUME restarts' = 0 PROVE since' <= Len(rows') /\ (~tardy' => seen' = 1 .. since')
      BY DEF PageIsCurrent
    <2>1. since' <= Len(rows')
      BY <1>1, <1>3, PanelRanges
    <2>2. ASSUME ~tardy' PROVE seen' = 1 .. since'
      <3>1. seen = 1 .. since /\ ~(Len(rows) - since > MaxEvents)
        BY <1>1, <2>2 DEF PageIsCurrent
      <3>2. since \in Nat /\ Len(rows) \in Nat /\ MaxEvents \in Nat
        BY PanelRanges
      <3>3. Since(since) = since + 1 .. Len(rows)
        BY <1>2, <3>1, <3>2
      <3>4. (1 .. since) \cup (since + 1 .. Len(rows)) = 1 .. Len(rows)
        BY <1>3, <3>2
      <3>5. QED
        BY <1>1, <1>3, <3>1, <3>3, <3>4
    <2>3. QED
      BY <2>1, <2>2
  <1>7. QED
    BY <1>4, <1>5, <1>6

(* A page loaded again, and a server started again. *)
LEMMA BeginAgainKeepsPanelInv == PanelInv /\ (Reload \/ RestartServer) => PanelInv'
  <1> SUFFICES ASSUME PanelInv, Reload \/ RestartServer PROVE PanelInv'
    OBVIOUS
  <1> USE DEF PanelInv
  <1>1. CASE Reload
    <2>1. /\ since' = 0 /\ seen' = {}
          /\ UNCHANGED <<begun, runs, stdoutPos, runsPos, buffer, telling, rows, tardy, restarts>>
      BY <1>1 DEF Reload, tailVars
    <2>2. PanelTypeOK'
      BY <2>1 DEF PanelTypeOK
    <2>3. PageIsCurrent'
      BY <2>1, PanelRanges DEF PageIsCurrent
    <2>4. QED
      BY <2>1, <2>2, <2>3 DEF RunsComeInPairs, ToldInOrder, Told
  <1>2. CASE RestartServer
    <2>1. /\ restarts < MaxRestarts /\ restarts' = restarts + 1 /\ rows' = <<>> /\ stdoutPos' = begun
          /\ runsPos' = Len(runs) /\ buffer' = <<>> /\ telling' = <<>> /\ seen' = {}
          /\ UNCHANGED <<begun, runs, since, tardy>>
      BY <1>2 DEF RestartServer
    <2>2. restarts' # 0 /\ restarts' \in 0 .. MaxRestarts /\ runsPos' \in 0 .. Len(runs) /\ stdoutPos' \in 0 .. begun
      BY <2>1, PanelRanges
    <2>3. <<>> \in Seq(Row) /\ <<>> \in Seq(DOMAIN Turns) /\ Len(<<>>) <= 1
      OBVIOUS
    <2>4. PanelTypeOK'
      BY <2>1, <2>2, <2>3 DEF PanelTypeOK
    <2>5. QED
      BY <2>1, <2>2, <2>4 DEF RunsComeInPairs, ToldInOrder, PageIsCurrent
  <1>3. QED
    BY <1>1, <1>2

(* Every step of the panel keeps the invariant. *)
LEMMA PanelStepKeepsInv == PanelInv /\ [PanelNext]_panelVars => PanelInv'
  <1> SUFFICES ASSUME PanelInv, [PanelNext]_panelVars PROVE PanelInv'
    OBVIOUS
  <1>1. CASE PanelNext
    BY <1>1, BeginTurnKeepsPanelInv, FlushPieceKeepsPanelInv, TailServiceLogKeepsPanelInv,
       TailRunsKeepsPanelInv, AddRowKeepsPanelInv, FetchKeepsPanelInv, BeginAgainKeepsPanelInv
       DEF PanelNext
  <1>2. CASE UNCHANGED panelVars
    BY <1>2 DEF panelVars, tailVars, pageVars, PanelInv, PanelTypeOK, RunsComeInPairs,
                ToldInOrder, Told, PageIsCurrent
  <1>3. QED
    BY <1>1, <1>2

(* Two pieces are a record, so the invariant says what the property does. *)
LEMMA PanelInvShows == PanelInv => PanelTypeOK /\ PanelIsFaithful
  <1> SUFFICES ASSUME PanelInv PROVE PanelTypeOK /\ PanelIsFaithful
    OBVIOUS
  <1>1. ASSUME restarts = 0
        PROVE  FromRecords(rows \o telling) = FlattenSeq([n \in 1 .. runsPos \div 2 |-> Narrative(n)])
    <2>1. PICK n \in 0 .. Len(Turns) : Told(n)
      BY <1>1 DEF PanelInv, ToldInOrder
    <2>2. n \in Nat
      BY PanelRanges DEF PanelInv
    <2>3. runsPos \div 2 = n
      BY <2>1, <2>2 DEF Told
    <2>4. QED
      BY <2>1, <2>3 DEF Told
  <1>2. QED
    BY <1>1 DEF PanelInv, PanelIsFaithful, PageIsCurrent

-----------------------------------------------------------------------------
(* What Ordered needs of its second argument: a strict total order on S. *)
TotalOn(S, R) ==
  /\ IsFiniteSet(S)
  /\ \A a \in S : <<a, a>> \notin R
  /\ \A a, b \in S : a # b => <<a, b>> \in R \/ <<b, a>> \in R
  /\ \A a, b, c \in S : <<a, b>> \in R /\ <<b, c>> \in R => <<a, c>> \in R

(* s is the members of S, each before those it is above. *)
Sorts(s, S, R) ==
  /\ s \in [1 .. Cardinality(S) -> S]
  /\ \A i, j \in 1 .. Cardinality(S) : i < j => <<s[i], s[j]>> \in R

(* An order of a set orders its subsets. *)
LEMMA TotalOnSubset ==
  ASSUME NEW S, NEW R, TotalOn(S, R), NEW T \in SUBSET S
  PROVE  TotalOn(T, R) /\ Cardinality(T) \in Nat
  <1>1. IsFiniteSet(T) /\ Cardinality(T) \in Nat
    BY FS_Subset, FS_CardinalityType DEF TotalOn
  <1>2. QED
    BY <1>1 DEF TotalOn

(* A set that is not empty has a member that is above no other. *)
LEMMA LowestExists ==
  ASSUME NEW S, NEW R, TotalOn(S, R), S # {}
  PROVE  \E m \in S : \A x \in S \ {m} : <<x, m>> \in R
  <1> DEFINE K == {n \in Nat : \A T \in SUBSET S : Cardinality(T) = n /\ T # {} =>
                                 \E m \in T : \A x \in T \ {m} : <<x, m>> \in R}
  <1>1. 0 \in K
    <2>1. \A T \in SUBSET S : Cardinality(T) = 0 => T = {}
      BY FS_Subset, FS_EmptySet DEF TotalOn
    <2>2. QED
      BY <2>1
  <1>2. ASSUME NEW n \in Nat \ {0}, n - 1 \in K PROVE n \in K
    <2> SUFFICES ASSUME NEW T \in SUBSET S, Cardinality(T) = n, T # {}
                 PROVE  \E m \in T : \A x \in T \ {m} : <<x, m>> \in R
      OBVIOUS
    <2>1. PICK x \in T : TRUE
      OBVIOUS
    <2> DEFINE U == T \ {x}
    <2>2. U \in SUBSET S /\ Cardinality(U) = n - 1
      BY <2>1, FS_Subset, FS_RemoveElement DEF TotalOn
    <2>3. CASE U = {}
      BY <2>1, <2>3
    <2>4. CASE U # {}
      <3>1. PICK m \in U : \A y \in U \ {m} : <<y, m>> \in R
        BY <1>2, <2>2, <2>4
      <3>2. x \in S /\ m \in S /\ x # m
        BY <2>1
      <3>3. <<x, m>> \in R \/ <<m, x>> \in R
        BY <3>2 DEF TotalOn
      <3>4. CASE <<x, m>> \in R
        BY <3>1, <3>4
      <3>5. CASE <<m, x>> \in R
        <4>1. \A y \in U \ {m} : <<y, x>> \in R
          BY <3>1, <3>2, <3>5 DEF TotalOn
        <4>2. QED
          BY <2>1, <3>1, <3>5, <4>1
      <3>6. QED
        BY <3>3, <3>4, <3>5
    <2>5. QED
      BY <2>3, <2>4
  <1> HIDE DEF K
  <1>3. Cardinality(S) \in K
    BY <1>1, <1>2, SetInduction, FS_CardinalityType DEF TotalOn
  <1>4. QED
    BY <1>3 DEF K

(* A finite set in a total order can be listed in it. *)
LEMMA SortingExists ==
  ASSUME NEW S, NEW R, TotalOn(S, R)
  PROVE  \E s : Sorts(s, S, R)
  <1> DEFINE K == {n \in Nat : \A T \in SUBSET S : Cardinality(T) = n => \E s : Sorts(s, T, R)}
  <1>1. 0 \in K
    <2> SUFFICES ASSUME NEW T \in SUBSET S, Cardinality(T) = 0 PROVE \E s : Sorts(s, T, R)
      OBVIOUS
    <2>1. 1 .. Cardinality(T) = {}
      OBVIOUS
    <2>2. Sorts([i \in {} |-> i], T, R)
      BY <2>1 DEF Sorts
    <2>3. QED
      BY <2>2
  <1>2. ASSUME NEW n \in Nat \ {0}, n - 1 \in K PROVE n \in K
    <2> SUFFICES ASSUME NEW T \in SUBSET S, Cardinality(T) = n PROVE \E s : Sorts(s, T, R)
      OBVIOUS
    <2>1. TotalOn(T, R) /\ T # {}
      BY TotalOnSubset, FS_EmptySet
    <2>2. PICK m \in T : \A x \in T \ {m} : <<x, m>> \in R
      BY <2>1, LowestExists
    <2> DEFINE U == T \ {m}
    <2>3. U \in SUBSET S /\ Cardinality(U) = n - 1
      BY <2>1, <2>2, FS_RemoveElement DEF TotalOn
    <2>4. PICK s : Sorts(s, U, R)
      BY <1>2, <2>3
    <2>5. /\ s \in [1 .. n - 1 -> U]
          /\ \A i, j \in 1 .. n - 1 : i < j => <<s[i], s[j]>> \in R
      BY <2>3, <2>4 DEF Sorts
    <2> DEFINE t == [i \in 1 .. n |-> IF i = n THEN m ELSE s[i]]
    <2>6. \A i \in 1 .. n : i # n => i \in 1 .. n - 1
      OBVIOUS
    <2>7. t \in [1 .. n -> T]
      BY <2>2, <2>5, <2>6
    <2>8. ASSUME NEW i \in 1 .. n, NEW j \in 1 .. n, i < j PROVE <<t[i], t[j]>> \in R
      <3>1. i \in 1 .. n - 1 /\ t[i] = s[i] /\ s[i] \in U
        BY <2>5, <2>8
      <3>2. CASE j = n
        BY <2>2, <3>1, <3>2
      <3>3. CASE j # n
        BY <2>5, <2>6, <2>8, <3>1, <3>3
      <3>4. QED
        BY <3>2, <3>3
    <2> HIDE DEF t
    <2>9. Sorts(t, T, R)
      BY <2>7, <2>8 DEF Sorts
    <2>10. QED
      BY <2>9
  <1> HIDE DEF K
  <1>3. Cardinality(S) \in K
    BY <1>1, <1>2, SetInduction, FS_CardinalityType DEF TotalOn
  <1>4. QED
    BY <1>3 DEF K

(* What Ordered returns: each member once, where the order puts it. *)
LEMMA OrderedSorts ==
  ASSUME NEW S, NEW R, TotalOn(S, R)
  PROVE  LET s == Ordered(S, R)
             n == Cardinality(S)
         IN  /\ n \in Nat /\ s \in [1 .. n -> S] /\ s \in Seq(S) /\ Len(s) = n
             /\ \A i, j \in 1 .. n : s[i] = s[j] => i = j
             /\ \A x \in S : \E i \in 1 .. n : s[i] = x
             /\ \A i, j \in 1 .. n : <<s[i], s[j]>> \in R <=> i < j
  <1> DEFINE s == Ordered(S, R)
             n == Cardinality(S)
  <1>1. n \in Nat /\ IsFiniteSet(S)
    BY FS_CardinalityType DEF TotalOn
  <1>2. PICK r : Sorts(r, S, R)
    BY SortingExists
  <1>3. r \in [1 .. n -> S] /\ \A i, j \in DOMAIN r : i < j => <<r[i], r[j]>> \in R
    BY <1>2 DEF Sorts
  <1>4. s \in [1 .. n -> S] /\ \A i, j \in DOMAIN s : i < j => <<s[i], s[j]>> \in R
    BY <1>3 DEF Ordered
  <1> HIDE DEF s, n
  <1>5. /\ \A i, j \in 1 .. n : i < j => <<s[i], s[j]>> \in R
        /\ \A i \in 1 .. n : s[i] \in S
    BY <1>4
  <1>6. \A i, j \in 1 .. n : <<s[i], s[j]>> \in R => i < j
    <2> SUFFICES ASSUME NEW i \in 1 .. n, NEW j \in 1 .. n, <<s[i], s[j]>> \in R, ~(i < j)
                 PROVE  FALSE
      OBVIOUS
    <2>1. s[i] \in S /\ s[j] \in S
      BY <1>5
    <2>2. CASE i = j
      BY <2>1, <2>2 DEF TotalOn
    <2>3. CASE j < i
      <3>1. <<s[j], s[i]>> \in R
        BY <1>5, <2>3
      <3>2. QED
        BY <2>1, <3>1 DEF TotalOn
    <2>4. QED
      BY <1>1, <2>2, <2>3
  <1>7. \A i, j \in 1 .. n : s[i] = s[j] => i = j
    <2> SUFFICES ASSUME NEW i \in 1 .. n, NEW j \in 1 .. n, s[i] = s[j], i # j PROVE FALSE
      OBVIOUS
    <2>1. <<s[i], s[j]>> \in R \/ <<s[j], s[i]>> \in R
      BY <1>1, <1>5
    <2>2. QED
      BY <1>5, <2>1 DEF TotalOn
  <1>8. \A x \in S : \E i \in 1 .. n : s[i] = x
    <2>1. s \in Injection(1 .. n, S)
      BY <1>4, <1>7, Fun_IsInj
    <2>2. Cardinality(1 .. n) = n
      BY <1>1, UpTo
    <2>3. s \in Surjection(1 .. n, S)
      BY <1>1, <2>1, <2>2, FS_Injection DEF n
    <2>4. QED
      BY <2>3 DEF Surjection
  <1>9. s \in Seq(S) /\ Len(s) = n
    BY <1>1, <1>4
  <1>10. QED
    BY <1>1, <1>4, <1>5, <1>6, <1>7, <1>8, <1>9 DEF s, n

(* R is: by one key, the greater first, and by another, the smaller first,  *)
(* among equals, and no two members share both.                             *)
KeyedBy(S, R, first, then) ==
  /\ IsFiniteSet(S)
  /\ first \in [S -> Int] /\ then \in [S -> Int]
  /\ \A a, b \in S : /\ then[a] = then[b] => a = b
                     /\ <<a, b>> \in R <=>
                          first[a] > first[b] \/ (first[a] = first[b] /\ then[a] < then[b])

(* Such keys give a total order. *)
LEMMA KeysOrder ==
  ASSUME NEW S, NEW R, NEW first, NEW then, KeyedBy(S, R, first, then)
  PROVE  TotalOn(S, R)
  <1> USE DEF KeyedBy
  <1>1. \A a \in S : first[a] \in Int /\ then[a] \in Int
    OBVIOUS
  <1>2. \A a \in S : <<a, a>> \notin R
    BY <1>1
  <1>3. \A a, b \in S : a # b => <<a, b>> \in R \/ <<b, a>> \in R
    <2> SUFFICES ASSUME NEW a \in S, NEW b \in S, then[a] # then[b]
                 PROVE  <<a, b>> \in R \/ <<b, a>> \in R
      OBVIOUS
    <2>1. \/ first[a] > first[b] \/ first[b] > first[a]
          \/ first[a] = first[b] /\ (then[a] < then[b] \/ then[b] < then[a])
      BY <1>1
    <2>2. QED
      BY <2>1
  <1>4. \A a, b, c \in S : <<a, b>> \in R /\ <<b, c>> \in R => <<a, c>> \in R
    BY <1>1
  <1>5. QED
    BY <1>2, <1>3, <1>4 DEF TotalOn

-----------------------------------------------------------------------------
(* A ranking holds every chunk at most once. *)
LEMMA RankingsAre ==
  ASSUME NEW r \in Rankings
  PROVE  /\ r \in Seq(DocIds) /\ Len(r) \in 0 .. Depth /\ DOMAIN r = 1 .. Len(r)
         /\ ToSet(r) \subseteq DocIds
         /\ \A i, j \in DOMAIN r : r[i] = r[j] => i = j
  <1>1. PICK m \in 0 .. Depth : r \in [1 .. m -> DocIds]
    BY DEF Rankings, SeqOf
  <1>2. m \in Nat /\ r \in Seq(DocIds) /\ Len(r) = m
    BY <1>1
  <1>3. \A i, j \in DOMAIN r : r[i] = r[j] => i = j
    BY DEF Rankings, IsInjective
  <1>4. QED
    BY <1>1, <1>2, <1>3 DEF ToSet

(* A later position gives a smaller share, and none gives nothing. *)
LEMMA ShareFalls ==
  ASSUME NEW p \in 1 .. Depth
  PROVE  Share(p) \in Nat \ {0} /\ \A q \in 1 .. Depth : p < q => Share(p) > Share(q)
  <1>1. \A x \in 1 .. Depth : RrfUnit % (60 + x) = 0 /\ RrfUnit \in Nat \ {0} /\ 60 + x \in Nat \ {0}
    BY RankingAssumption
  <1>2. \A u, d \in Nat \ {0} : u % d = 0 => u = d * (u \div d) /\ u \div d \in Nat \ {0}
    OBVIOUS
  <1>3. \A x \in 1 .. Depth : RrfUnit = (60 + x) * Share(x) /\ Share(x) \in Nat \ {0}
    BY <1>1, <1>2 DEF Share
  <1>4. \A a, b, s, t \in Nat \ {0} : a < b /\ a * s = b * t => s > t
    OBVIOUS
  <1>5. ASSUME NEW q \in 1 .. Depth, p < q PROVE Share(p) > Share(q)
    <2>1. 60 + p < 60 + q
      BY <1>5, RankingAssumption
    <2>2. (60 + p) * Share(p) = (60 + q) * Share(q)
      BY <1>3
    <2>3. QED
      BY <1>1, <1>3, <1>4, <2>1, <2>2
  <1>6. QED
    BY <1>3, <1>5

(* An arm counts for what it returned, the more the earlier. *)
LEMMA ArmScoreOf ==
  ASSUME NEW r \in Rankings, NEW w \in Nat
  PROVE  /\ \A id : ArmScore(r, w, id) \in Nat
         /\ \A id : ArmScore(r, w, id) # 0 <=> w # 0 /\ id \in ToSet(r)
         /\ \A i, j \in DOMAIN r : w # 0 /\ i < j => ArmScore(r, w, r[i]) > ArmScore(r, w, r[j])
  <1> DEFINE place(id) == CHOOSE i \in DOMAIN r : r[i] = id
  <1>1. /\ Len(r) \in 0 .. Depth /\ DOMAIN r = 1 .. Len(r) /\ Depth \in Nat
        /\ \A i, j \in DOMAIN r : r[i] = r[j] => i = j
    BY RankingsAre, RankingAssumption
  <1>2. \A i \in DOMAIN r : r[i] \in ToSet(r) /\ place(r[i]) = i /\ i \in 1 .. Depth
    BY <1>1 DEF ToSet
  <1>3. \A id \in ToSet(r) : place(id) \in 1 .. Depth
    BY <1>2 DEF ToSet
  <1>4. \A i \in DOMAIN r : w # 0 => ArmScore(r, w, r[i]) = w * Share(i)
    BY <1>2 DEF ArmScore
  <1>5. \A id \in ToSet(r) : w # 0 => ArmScore(r, w, id) = w * Share(place(id))
    BY DEF ArmScore
  <1> HIDE DEF place
  <1>6. \A id : w = 0 \/ id \notin ToSet(r) => ArmScore(r, w, id) = 0
    BY DEF ArmScore
  <1>7. \A a, b \in Nat \ {0} : a * b \in Nat \ {0}
    OBVIOUS
  <1>8. \A id \in ToSet(r) : w # 0 => ArmScore(r, w, id) \in Nat \ {0}
    BY <1>3, <1>5, <1>7, ShareFalls
  <1>9. ASSUME NEW i \in DOMAIN r, NEW j \in DOMAIN r, w # 0, i < j
        PROVE  ArmScore(r, w, r[i]) > ArmScore(r, w, r[j])
    <2>1. Share(i) > Share(j) /\ Share(i) \in Nat \ {0} /\ Share(j) \in Nat \ {0}
      BY <1>2, <1>9, ShareFalls
    <2>2. \A a, b, c \in Nat \ {0} : b > c => a * b > a * c
      OBVIOUS
    <2>3. w * Share(i) > w * Share(j)
      BY <1>9, <2>1, <2>2
    <2>4. QED
      BY <1>4, <1>9, <2>3
  <1>10. QED
    BY <1>6, <1>8, <1>9

(* The chunks that some arm that counts has. *)
CountedIn(dense, lexical, weights) ==
  {id \in DocIds : \/ weights[1] # 0 /\ id \in ToSet(dense)
                   \/ weights[2] # 0 /\ id \in ToSet(lexical)}

(* Where an arm puts b, it puts a before it. *)
ArmPrefers(ranking, weight, a, b) ==
  weight # 0 /\ b \in ToSet(ranking) =>
    \E i, j \in DOMAIN ranking : i < j /\ ranking[i] = a /\ ranking[j] = b

(* What an arm prefers it gives more, unless it gives the other nothing. *)
LEMMA ArmPrefersScore ==
  ASSUME NEW r \in Rankings, NEW w \in Nat, NEW a, NEW b, ArmPrefers(r, w, a, b)
  PROVE  /\ ArmScore(r, w, a) >= ArmScore(r, w, b)
         /\ ArmScore(r, w, b) # 0 => ArmScore(r, w, a) > ArmScore(r, w, b)
  <1>1. /\ \A id : ArmScore(r, w, id) \in Nat
        /\ ArmScore(r, w, b) # 0 <=> w # 0 /\ b \in ToSet(r)
        /\ \A x, y \in DOMAIN r : w # 0 /\ x < y => ArmScore(r, w, r[x]) > ArmScore(r, w, r[y])
    BY ArmScoreOf
  <1>2. ASSUME ArmScore(r, w, b) # 0 PROVE ArmScore(r, w, a) > ArmScore(r, w, b)
    <2>1. w # 0 /\ \E x, y \in DOMAIN r : x < y /\ r[x] = a /\ r[y] = b
      BY <1>1, <1>2 DEF ArmPrefers
    <2>2. QED
      BY <1>1, <2>1
  <1>3. QED
    BY <1>1, <1>2

(* What fusing is worth: every chunk that counts once, what both arms prefer first. *)
Fused(f, dense, lexical, weights) ==
  /\ f \in Seq(DocIds)
  /\ Len(f) = Cardinality(CountedIn(dense, lexical, weights))
  /\ \A i, j \in DOMAIN f : f[i] = f[j] => i = j
  /\ ToSet(f) = CountedIn(dense, lexical, weights)
  /\ \A i, j \in DOMAIN f :
       f[i] # f[j] /\ ArmPrefers(dense, weights[1], f[i], f[j])
         /\ ArmPrefers(lexical, weights[2], f[i], f[j]) => i < j

(* What both arms prefer is fused first: its sum is higher. *)
LEMMA FuseFuses ==
  ASSUME NEW dense \in Rankings, NEW lexical \in Rankings, NEW weights \in Nat \X Nat
  PROVE  Fused(Fuse(dense, lexical, weights), dense, lexical, weights)
  <1> DEFINE either == ToSet(dense) \cup ToSet(lexical)
             score == [id \in either |->
                         ArmScore(dense, weights[1], id) + ArmScore(lexical, weights[2], id)]
             present == {id \in either : score[id] # 0}
             above == {p \in present \X present :
                          \/ score[p[1]] > score[p[2]]
                          \/ score[p[1]] = score[p[2]] /\ p[1] < p[2]}
             f == Fuse(dense, lexical, weights)
             counted == CountedIn(dense, lexical, weights)
  <1>1. weights[1] \in Nat /\ weights[2] \in Nat
    OBVIOUS
  <1>2. \A id : /\ ArmScore(dense, weights[1], id) \in Nat
                /\ ArmScore(lexical, weights[2], id) \in Nat
                /\ ArmScore(dense, weights[1], id) # 0 <=> weights[1] # 0 /\ id \in ToSet(dense)
                /\ ArmScore(lexical, weights[2], id) # 0 <=> weights[2] # 0 /\ id \in ToSet(lexical)
    BY <1>1, ArmScoreOf
  <1>3. either \subseteq DocIds /\ DocIds \subseteq Nat /\ IsFiniteSet(DocIds)
    BY RankingsAre, RankingAssumption
  <1>4. \A id \in either :
          /\ score[id] = ArmScore(dense, weights[1], id) + ArmScore(lexical, weights[2], id)
          /\ score[id] \in Nat
          /\ score[id] # 0 <=> \/ ArmScore(dense, weights[1], id) # 0
                              \/ ArmScore(lexical, weights[2], id) # 0
    <2>1. \A x, y \in Nat : x + y \in Nat /\ (x + y # 0 <=> x # 0 \/ y # 0)
      OBVIOUS
    <2>2. \A id \in either :
            score[id] = ArmScore(dense, weights[1], id) + ArmScore(lexical, weights[2], id)
      OBVIOUS
    <2> HIDE DEF score
    <2>3. QED
      BY <1>2, <2>1, <2>2
  <1>5. f = Ordered(present, above)
    <2>1. DOMAIN score = either
      OBVIOUS
    <2>2. QED
      BY <2>1 DEF Fuse
  <1> HIDE DEF f, counted, score
  <1>6. present = counted /\ present \subseteq DocIds /\ IsFiniteSet(present)
    <2>1. present = counted
      BY <1>2, <1>3, <1>4 DEF CountedIn, counted
    <2>2. QED
      BY <1>3, <2>1, FS_Subset DEF CountedIn, counted
  <1>7. \A a, b \in present :
          <<a, b>> \in above <=> score[a] > score[b] \/ (score[a] = score[b] /\ a < b)
    <2> SUFFICES ASSUME NEW a \in present, NEW b \in present
                 PROVE  <<a, b>> \in above <=>
                          score[a] > score[b] \/ (score[a] = score[b] /\ a < b)
      OBVIOUS
    <2> HIDE DEF present
    <2>1. QED
      OBVIOUS
  <1>8. TotalOn(present, above)
    <2> DEFINE key == [a \in present |-> score[a]]
               own == [a \in present |-> a]
    <2>1. key \in [present -> Int] /\ own \in [present -> Int]
      <3>0. present \subseteq either
        OBVIOUS
      <3>1. \A a \in present : score[a] \in Int /\ a \in Int
        <4> HIDE DEF present, either
        <4>1. QED
          BY <1>3, <1>4, <3>0
      <3> HIDE DEF present
      <3>2. QED
        BY <3>1
    <2>2. \A a, b \in present : /\ own[a] = own[b] => a = b
                                /\ <<a, b>> \in above <=>
                                     key[a] > key[b] \/ (key[a] = key[b] /\ own[a] < own[b])
      <3> HIDE DEF above, present
      <3>1. QED
        BY <1>7
    <2> HIDE DEF above, key, own, present
    <2>3. QED
      BY <1>6, <2>1, <2>2, KeysOrder DEF KeyedBy
  <1> DEFINE n == Cardinality(present)
  <1>9. /\ n \in Nat /\ f \in [1 .. n -> present] /\ f \in Seq(present) /\ Len(f) = n
        /\ \A i, j \in 1 .. n : f[i] = f[j] => i = j
        /\ \A x \in present : \E i \in 1 .. n : f[i] = x
        /\ \A i, j \in 1 .. n : <<f[i], f[j]>> \in above <=> i < j
    <2> HIDE DEF above, present
    <2>1. QED
      BY <1>5, <1>8, OrderedSorts
  <1>10. f \in Seq(DocIds) /\ DOMAIN f = 1 .. n
    <2> HIDE DEF above, present
    <2>1. QED
      BY <1>6, <1>9
  <1>11. ASSUME NEW i \in DOMAIN f, NEW j \in DOMAIN f, f[i] # f[j],
                ArmPrefers(dense, weights[1], f[i], f[j]),
                ArmPrefers(lexical, weights[2], f[i], f[j])
         PROVE  i < j
    <2>2. f[i] \in present /\ f[j] \in present
      BY <1>9, <1>10
    <2>3. score[f[j]] # 0
      BY <2>2
    <2>4. score[f[i]] > score[f[j]]
      <3>1. /\ ArmScore(dense, weights[1], f[i]) >= ArmScore(dense, weights[1], f[j])
            /\ ArmScore(lexical, weights[2], f[i]) >= ArmScore(lexical, weights[2], f[j])
            /\ ArmScore(dense, weights[1], f[j]) # 0 =>
                 ArmScore(dense, weights[1], f[i]) > ArmScore(dense, weights[1], f[j])
            /\ ArmScore(lexical, weights[2], f[j]) # 0 =>
                 ArmScore(lexical, weights[2], f[i]) > ArmScore(lexical, weights[2], f[j])
        BY <1>1, <1>11, ArmPrefersScore
      <3>2. QED
        BY <1>2, <1>4, <2>2, <2>3, <3>1
    <2>5. <<f[i], f[j]>> \in above
      BY <1>7, <2>2, <2>4
    <2> HIDE DEF above
    <2>6. QED
      BY <1>9, <1>10, <2>5
  <1>12. ToSet(f) = present
    <2> HIDE DEF above, present
    <2>1. QED
      BY <1>9, <1>10 DEF ToSet
  <1> HIDE DEF above
  <1>13. QED
    BY <1>6, <1>9, <1>10, <1>11, <1>12 DEF Fused, counted, f

(* Growing within 1 .. m is staying in place. *)
LEMMA GrowingIsIdentity ==
  ASSUME NEW m \in Nat, NEW g \in [1 .. m -> 1 .. m], \A i, j \in 1 .. m : i < j => g[i] < g[j]
  PROVE  \A i \in 1 .. m : g[i] = i
  <1> DEFINE Up == {n \in Nat : n \in 1 .. m => g[n] >= n}
             Tight == {n \in Nat : n < m => g[m - n] <= m - n}
  <1>0. \A i \in 1 .. m : g[i] \in 1 .. m /\ g[i] \in Nat
    OBVIOUS
  <1>1. Nat \subseteq Up
    <2>1. ASSUME NEW n \in Nat \ {0}, n - 1 \in Up PROVE n \in Up
      <3>1. CASE n - 1 \in 1 .. m /\ n \in 1 .. m
        <4>1. g[n - 1] >= n - 1 /\ g[n - 1] < g[n]
          BY <2>1, <3>1
        <4>2. g[n] >= n
          BY <1>0, <3>1, <4>1
        <4>3. QED
          BY <4>2
      <3>2. CASE n - 1 \notin 1 .. m /\ n \in 1 .. m
        <4>1. n = 1
          BY <3>2
        <4>2. QED
          BY <1>0, <3>2, <4>1
      <3>3. QED
        BY <3>1, <3>2
    <2>2. 0 \in Up
      OBVIOUS
    <2> HIDE DEF Up
    <2>3. QED
      BY <2>1, <2>2, SetInduction
  <1>2. Nat \subseteq Tight
    <2>1. ASSUME NEW n \in Nat \ {0}, n - 1 \in Tight PROVE n \in Tight
      <3> SUFFICES ASSUME n < m PROVE g[m - n] <= m - n
        OBVIOUS
      <3>1. m - n \in 1 .. m /\ m - (n - 1) \in 1 .. m /\ m - n < m - (n - 1) /\ n - 1 < m
        OBVIOUS
      <3>2. g[m - (n - 1)] <= m - (n - 1)
        BY <2>1, <3>1
      <3>3. g[m - n] < g[m - (n - 1)]
        BY <3>1
      <3>4. g[m - n] \in Nat /\ g[m - (n - 1)] \in Nat
        BY <1>0, <3>1
      <3> DEFINE x == g[m - n]
                 y == g[m - (n - 1)]
      <3> HIDE DEF x, y
      <3>5. x \in Nat /\ y \in Nat /\ x < y /\ y <= m - (n - 1)
        BY <3>2, <3>3, <3>4 DEF x, y
      <3>6. x <= m - n
        BY <3>5
      <3>7. QED
        BY <3>6 DEF x
    <2>2. 0 \in Tight
      <3>1. 0 < m => g[m] <= m
        BY <1>0
      <3>2. QED
        BY <3>1
    <2> HIDE DEF Tight
    <2>3. QED
      BY <2>1, <2>2, SetInduction
  <1>3. ASSUME NEW i \in 1 .. m PROVE g[i] = i
    <2>1. g[i] >= i
      BY <1>1
    <2>2. m - i \in Nat /\ m - i < m /\ m - (m - i) = i
      OBVIOUS
    <2>3. g[m - (m - i)] <= m - (m - i)
      BY <1>2, <2>2
    <2>4. g[i] <= i
      BY <2>2, <2>3
    <2>5. QED
      BY <1>0, <2>1, <2>4
  <1>4. QED
    BY <1>3

(* Where packing takes each hit from. *)
Packing(n, length) ==
  IF length < 3 THEN n
  ELSE IF n <= (length + 1) \div 2 THEN 2 * n - 1
  ELSE 2 * (length - n + 1)

(* Packing takes every hit once. *)
LEMMA PackingPermutes ==
  ASSUME NEW length \in Nat
  PROVE  /\ \A n \in 1 .. length : Packing(n, length) \in 1 .. length
         /\ \A n, m \in 1 .. length : Packing(n, length) = Packing(m, length) => n = m
  <1> DEFINE half == (length + 1) \div 2
  <1>1. half \in Nat /\ 2 * half <= length + 1 /\ length <= 2 * half
    OBVIOUS
  <1> HIDE DEF half
  <1>2. \A n \in 1 .. length :
          Packing(n, length) = IF length < 3 THEN n
                               ELSE IF n <= half THEN 2 * n - 1
                               ELSE 2 * (length - n + 1)
    BY DEF Packing, half
  <1>3. \A n \in 1 .. length : Packing(n, length) \in 1 .. length
    BY <1>1, <1>2
  <1>4. ASSUME NEW n \in 1 .. length, NEW m \in 1 .. length,
               Packing(n, length) = Packing(m, length)
        PROVE  n = m
    <2>1. \A x, y \in Int : 2 * x - 1 # 2 * y
      OBVIOUS
    <2>2. CASE length < 3
      BY <1>2, <1>4, <2>2
    <2>3. CASE ~(length < 3)
      <3>0. /\ n \in Int /\ m \in Int /\ length - m + 1 \in Int /\ length - n + 1 \in Int
            /\ 2 * n - 1 # 2 * (length - m + 1) /\ 2 * m - 1 # 2 * (length - n + 1)
        BY <2>1
      <3>1. n <= half /\ m > half => FALSE
        BY <1>1, <1>2, <1>4, <2>3, <3>0
      <3>2. m <= half /\ n > half => FALSE
        BY <1>1, <1>2, <1>4, <2>3, <3>0
      <3>3. n <= half /\ m <= half => n = m
        BY <1>2, <1>4, <2>3
      <3>4. n > half /\ m > half => n = m
        BY <1>1, <1>2, <1>4, <2>3
      <3>5. QED
        BY <1>1, <3>1, <3>2, <3>3, <3>4
    <2>4. QED
      BY <2>2, <2>3
  <1>5. QED
    BY <1>3, <1>4

(* Hits that carry their rank are read in it however they are packed. *)
LEMMA PackingMovesNothing ==
  ASSUME NEW hits \in Seq(Hit), \A i \in DOMAIN hits : hits[i].rank = i,
         \A i, j \in DOMAIN hits : hits[i].chunk = hits[j].chunk => i = j
  PROVE  RankedIds(PackForLlm(hits)) = [i \in DOMAIN hits |-> hits[i].chunk]
  <1> DEFINE L == Len(hits)
             packed == PackForLlm(hits)
             places == DOMAIN packed
             above == {p \in places \X places :
                 \/ packed[p[1]].rank < packed[p[2]].rank
                 \/ /\ packed[p[1]].rank = packed[p[2]].rank
                    /\ packed[p[1]].chunk < packed[p[2]].chunk}
             order == Ordered(places, above)
             from == [n \in 1 .. L |-> Packing(n, L)]
  <1>1. L \in Nat /\ DOMAIN hits = 1 .. L
    OBVIOUS
  <1>2. /\ \A n \in 1 .. L : from[n] \in 1 .. L
        /\ \A n, m \in 1 .. L : from[n] = from[m] => n = m
    BY <1>1, PackingPermutes
  <1>3. places = 1 .. L /\ \A n \in 1 .. L : packed[n] = hits[from[n]]
    <2>1. CASE L < 3
      <3>1. packed = hits /\ \A n \in 1 .. L : from[n] = n
        BY <2>1 DEF PackForLlm, Packing
      <3> HIDE DEF packed, from
      <3>2. QED
        BY <1>1, <3>1
    <2>2. CASE ~(L < 3)
      BY <1>1, <2>2 DEF PackForLlm, Packing
    <2>3. QED
      BY <2>1, <2>2
  <1> HIDE DEF from, packed
  <1>4. \A n \in 1 .. L : /\ hits[n].rank = n /\ packed[n].rank = from[n]
                          /\ hits[n].chunk \in Nat /\ packed[n].chunk \in Nat
                          /\ packed[n].rank \in Int
    <2>1. \A n \in 1 .. L : hits[n] \in Hit /\ hits[n].rank = n
      BY <1>1
    <2>2. \A n \in 1 .. L : hits[n].chunk \in Nat
      BY <2>1, RankingAssumption DEF Hit
    <2>3. \A n \in 1 .. L : packed[n] = hits[from[n]] /\ from[n] \in 1 .. L
      BY <1>2, <1>3
    <2> HIDE DEF L
    <2>4. QED
      BY <2>1, <2>2, <2>3
  <1>5. TotalOn(places, above)
    <2> DEFINE first == [n \in places |-> -packed[n].rank]
               then == [n \in places |-> packed[n].chunk]
    <2>1. first \in [places -> Int] /\ then \in [places -> Int] /\ IsFiniteSet(places)
      <3>1. IsFiniteSet(places)
        BY <1>1, <1>3, UpTo
      <3>2. \A n \in places : packed[n].chunk \in Int /\ -packed[n].rank \in Int
        <4>1. \A n \in 1 .. L : packed[n].chunk \in Nat /\ packed[n].rank \in Int
          BY <1>4
        <4>2. QED
          BY <1>3, <4>1
      <3> HIDE DEF places
      <3>3. QED
        BY <3>1, <3>2
    <2>2. ASSUME NEW a \in places, NEW b \in places
          PROVE  /\ then[a] = then[b] => a = b
                 /\ <<a, b>> \in above <=>
                      first[a] > first[b] \/ (first[a] = first[b] /\ then[a] < then[b])
      <3>1. then[a] = then[b] => a = b
        BY <1>1, <1>2, <1>3
      <3>2. /\ first[a] = -packed[a].rank /\ first[b] = -packed[b].rank
            /\ then[a] = packed[a].chunk /\ then[b] = packed[b].chunk
            /\ packed[a].rank \in Int /\ packed[b].rank \in Int
        BY <1>2, <1>3, <1>4
      <3>3. <<a, b>> \in above <=> \/ packed[a].rank < packed[b].rank
                                   \/ /\ packed[a].rank = packed[b].rank
                                      /\ packed[a].chunk < packed[b].chunk
        <4> HIDE DEF places
        <4>1. QED
          OBVIOUS
      <3> HIDE DEF above, first, then
      <3>4. QED
        BY <3>1, <3>2, <3>3
    <2> HIDE DEF above, first, then, places
    <2>3. \A a, b \in places : /\ then[a] = then[b] => a = b
                               /\ <<a, b>> \in above <=>
                                    first[a] > first[b] \/ (first[a] = first[b] /\ then[a] < then[b])
      BY <2>2
    <2>4. KeyedBy(places, above, first, then)
      BY <2>1, <2>3 DEF KeyedBy
    <2>5. QED
      BY <2>4, KeysOrder
  <1>6. Cardinality(places) = L
    BY <1>1, <1>3, UpTo
  <1>7. /\ order \in [1 .. L -> 1 .. L]
        /\ \A i, j \in 1 .. L : i < j => <<order[i], order[j]>> \in above
    <2> HIDE DEF above, places
    <2>1. QED
      BY <1>3, <1>5, <1>6, OrderedSorts
  <1> DEFINE g == [n \in 1 .. L |-> from[order[n]]]
  <1>8. g \in [1 .. L -> 1 .. L] /\ \A i, j \in 1 .. L : i < j => g[i] < g[j]
    <2> HIDE DEF order
    <2>1. g \in [1 .. L -> 1 .. L]
      BY <1>2, <1>7
    <2>2. ASSUME NEW i \in 1 .. L, NEW j \in 1 .. L, i < j PROVE g[i] < g[j]
      <3>1. order[i] \in 1 .. L /\ order[j] \in 1 .. L /\ order[i] # order[j]
        <4>1. <<order[i], order[j]>> \in above
          BY <1>7, <2>2
        <4> HIDE DEF above
        <4>2. QED
          BY <1>3, <1>5, <1>7, <4>1 DEF TotalOn
      <3>2. \/ packed[order[i]].rank < packed[order[j]].rank
            \/ packed[order[i]].rank = packed[order[j]].rank
        BY <1>7, <2>2
      <3>3. from[order[i]] < from[order[j]] \/ from[order[i]] = from[order[j]]
        BY <1>4, <3>1, <3>2
      <3>4. QED
        BY <1>2, <3>1, <3>3
    <2>3. QED
      BY <2>1, <2>2
  <1>9. \A n \in 1 .. L : from[order[n]] = n
    <2>1. \A n \in 1 .. L : g[n] = n
      <3> HIDE DEF g
      <3>1. QED
        BY <1>1, <1>8, GrowingIsIdentity
    <2> HIDE DEF order
    <2>2. QED
      BY <2>1
  <1>10. RankedIds(packed) = [n \in DOMAIN order |-> packed[order[n]].chunk]
    BY DEF RankedIds
  <1> HIDE DEF order
  <1>11. DOMAIN order = 1 .. L /\ \A n \in 1 .. L : packed[order[n]].chunk = hits[n].chunk
    BY <1>3, <1>7, <1>9
  <1>12. QED
    BY <1>1, <1>10, <1>11 DEF packed

-----------------------------------------------------------------------------
(* The head of a sequence. *)
LEMMA UptoOf ==
  ASSUME NEW V, NEW seq \in Seq(V), NEW n \in Nat
  PROVE  /\ Upto(seq, n) \in Seq(V) /\ Len(Upto(seq, n)) = Least(n, Len(seq))
         /\ DOMAIN Upto(seq, n) = 1 .. Least(n, Len(seq))
         /\ Least(n, Len(seq)) \in Nat /\ Least(n, Len(seq)) <= n /\ Least(n, Len(seq)) <= Len(seq)
         /\ \A i \in 1 .. Least(n, Len(seq)) : Upto(seq, n)[i] = seq[i] /\ i \in DOMAIN seq
  <1> DEFINE m == Least(n, Len(seq))
  <1>1. m \in Nat /\ m <= Len(seq) /\ m <= n
    BY DEF Least
  <1> HIDE DEF m
  <1>2. Upto(seq, n) = [i \in 1 .. m |-> seq[i]]
    BY DEF Upto, m
  <1>3. \A i \in 1 .. m : i \in DOMAIN seq /\ seq[i] \in V
    BY <1>1
  <1>4. Upto(seq, n) \in Seq(V) /\ Len(Upto(seq, n)) = m
    BY <1>1, <1>2, <1>3
  <1>5. QED
    BY <1>1, <1>2, <1>3, <1>4 DEF m

(* The hits are the first k, each with its place. *)
LEMMA HitsOf ==
  ASSUME NEW ids \in Seq(DocIds), NEW k \in Nat
  PROVE  /\ Hits(ids, k) \in Seq(Hit) /\ Len(Hits(ids, k)) = Least(k, Len(ids))
         /\ DOMAIN Hits(ids, k) = 1 .. Least(k, Len(ids))
         /\ \A i \in DOMAIN Hits(ids, k) :
              i \in DOMAIN ids /\ Hits(ids, k)[i].chunk = ids[i] /\ Hits(ids, k)[i].rank = i
  <1> DEFINE m == Least(k, Len(ids))
  <1>1. /\ DOMAIN Upto(ids, k) = 1 .. m /\ m \in Nat
        /\ \A i \in 1 .. m : i \in DOMAIN ids
    BY UptoOf
  <1> HIDE DEF m
  <1>2. Hits(ids, k) = [i \in 1 .. m |-> [chunk |-> ids[i], rank |-> i]]
    BY <1>1 DEF Hits
  <1>3. \A i \in 1 .. m : [chunk |-> ids[i], rank |-> i] \in Hit
    BY <1>1 DEF Hit
  <1>4. Hits(ids, k) \in Seq(Hit) /\ Len(Hits(ids, k)) = m
    BY <1>1, <1>2, <1>3
  <1>5. QED
    BY <1>1, <1>2, <1>4 DEF m

(* Every band has a number. *)
LEMMA BandScoreOf == \A band : BandScore(band) \in Nat
  <1> SUFFICES ASSUME NEW band PROVE BandScore(band) \in Nat
    OBVIOUS
  <1>1. CASE band = "answers"
    BY <1>1 DEF BandScore
  <1>2. CASE band = "related"
    BY <1>2 DEF BandScore
  <1>3. CASE band # "answers" /\ band # "related"
    BY <1>3 DEF BandScore
  <1>4. QED
    BY <1>1, <1>2, <1>3

(* A sequence of chunks without one twice. *)
OnceEach(ids) == ids \in Seq(DocIds) /\ \A i, j \in DOMAIN ids : ids[i] = ids[j] => i = j

(* A chunk is said of it what was said of its place. *)
LEMMA SaidOfPlaces ==
  ASSUME NEW pool, OnceEach(pool), NEW verdicts \in [DOMAIN pool -> Verdicts]
  PROVE  /\ SaidOf(pool, verdicts) \in [ToSet(pool) -> Verdicts]
         /\ ToSet(pool) \subseteq DocIds
         /\ \A i \in DOMAIN pool : pool[i] \in ToSet(pool) /\ SaidOf(pool, verdicts)[pool[i]] = verdicts[i]
  <1> USE DEF OnceEach
  <1> DEFINE place(id) == CHOOSE i \in DOMAIN pool : pool[i] = id
  <1>1. \A i \in DOMAIN pool : pool[i] \in ToSet(pool) /\ pool[i] \in DocIds /\ place(pool[i]) = i
    BY DEF ToSet
  <1>2. \A id \in ToSet(pool) : place(id) \in DOMAIN pool /\ id \in DocIds
    BY <1>1 DEF ToSet
  <1>3. SaidOf(pool, verdicts) = [id \in ToSet(pool) |-> verdicts[place(id)]]
    BY DEF SaidOf
  <1> HIDE DEF place
  <1>4. QED
    BY <1>1, <1>2, <1>3

(* Re-ranking keeps every candidate, the better bands first, and within a band the order. *)
Reordered(r, pool, verdicts) ==
  /\ OnceEach(r) /\ Len(r) = Len(pool)
  /\ \A i \in DOMAIN r : \E x \in DOMAIN pool : r[i] = pool[x]
  /\ \A x \in DOMAIN pool : \E i \in DOMAIN r : r[i] = pool[x]
  /\ \A i, j \in DOMAIN r : \A x, y \in DOMAIN pool :
       /\ r[i] = pool[x] /\ r[j] = pool[y]
       /\ \/ BandScore(verdicts[x]) > BandScore(verdicts[y])
          \/ BandScore(verdicts[x]) = BandScore(verdicts[y]) /\ x < y
       => i < j

(* Re-ranking lists the pool once, across bands by verdict, within one in order. *)
LEMMA ReorderReorders ==
  ASSUME NEW pool, OnceEach(pool), NEW verdicts \in [DOMAIN pool -> Verdicts]
  PROVE  Reordered(Reorder(pool, verdicts), pool, verdicts)
  <1> USE DEF OnceEach
  <1> DEFINE n == Len(pool)
             places == DOMAIN pool
             above == {p \in places \X places :
                     \/ BandScore(verdicts[p[1]]) > BandScore(verdicts[p[2]])
                     \/ BandScore(verdicts[p[1]]) = BandScore(verdicts[p[2]]) /\ p[1] < p[2]}
             order == Ordered(places, above)
             r == Reorder(pool, verdicts)
  <1>1. n \in Nat /\ places = 1 .. n /\ \A i \in places : pool[i] \in DocIds
    OBVIOUS
  <1>2. IsFiniteSet(places) /\ Cardinality(places) = n
    <2>1. n \in Nat => IsFiniteSet(1 .. n) /\ Cardinality(1 .. n) = n
      <3> HIDE DEF n
      <3>1. QED
        BY UpTo
    <2> HIDE DEF n, places
    <2>2. QED
      BY <1>1, <2>1
  <1>3. \A a, b \in places : <<a, b>> \in above <=>
          \/ BandScore(verdicts[a]) > BandScore(verdicts[b])
          \/ BandScore(verdicts[a]) = BandScore(verdicts[b]) /\ a < b
    <2> SUFFICES ASSUME NEW a \in places, NEW b \in places
                 PROVE  <<a, b>> \in above <=>
                          \/ BandScore(verdicts[a]) > BandScore(verdicts[b])
                          \/ BandScore(verdicts[a]) = BandScore(verdicts[b]) /\ a < b
      OBVIOUS
    <2> HIDE DEF places
    <2>1. QED
      OBVIOUS
  <1>4. r = [i \in DOMAIN order |-> pool[order[i]]]
    BY DEF Reorder, ByVerdict
  <1> HIDE DEF above, r
  <1>5. TotalOn(places, above)
    <2> DEFINE first == [i \in places |-> BandScore(verdicts[i])]
               then == [i \in places |-> i]
    <2>1. first \in [places -> Int] /\ then \in [places -> Int]
      BY <1>1, BandScoreOf
    <2>2. \A a, b \in places : /\ first[a] = BandScore(verdicts[a]) /\ first[b] = BandScore(verdicts[b])
                               /\ then[a] = a /\ then[b] = b
      OBVIOUS
    <2> HIDE DEF first, then, places
    <2>3. KeyedBy(places, above, first, then)
      BY <1>2, <1>3, <2>1, <2>2 DEF KeyedBy
    <2>4. QED
      BY <2>3, KeysOrder
  <1>6. /\ order \in [1 .. n -> places]
        /\ \A i, j \in 1 .. n : order[i] = order[j] => i = j
        /\ \A x \in places : \E i \in 1 .. n : order[i] = x
        /\ \A i, j \in 1 .. n : <<order[i], order[j]>> \in above <=> i < j
    <2> HIDE DEF places, n
    <2>1. QED
      BY <1>2, <1>5, OrderedSorts
  <1> HIDE DEF order
  <1>7. DOMAIN r = 1 .. n /\ \A i \in 1 .. n : r[i] = pool[order[i]] /\ order[i] \in places
    BY <1>4, <1>6
  <1>8. r \in Seq(DocIds) /\ Len(r) = n
    <2>1. r = [i \in 1 .. n |-> pool[order[i]]]
      BY <1>4, <1>6
    <2>2. \A i \in 1 .. n : pool[order[i]] \in DocIds
      BY <1>1, <1>6
    <2> HIDE DEF n
    <2>3. QED
      BY <1>1, <2>1, <2>2
  <1>9. \A i, j \in 1 .. n : r[i] = r[j] => i = j
    BY <1>6, <1>7
  <1>10. \A x \in places : \E i \in 1 .. n : r[i] = pool[x]
    BY <1>6, <1>7
  <1>11. ASSUME NEW i \in 1 .. n, NEW j \in 1 .. n, NEW x \in places, NEW y \in places,
                r[i] = pool[x], r[j] = pool[y],
                \/ BandScore(verdicts[x]) > BandScore(verdicts[y])
                \/ BandScore(verdicts[x]) = BandScore(verdicts[y]) /\ x < y
         PROVE  i < j
    <2>1. order[i] = x /\ order[j] = y
      BY <1>7, <1>11
    <2>2. <<x, y>> \in above
      BY <1>3, <1>11
    <2>3. QED
      BY <1>6, <2>1, <2>2
  <1>12. /\ \A i, j \in DOMAIN r : r[i] = r[j] => i = j
         /\ \A i \in DOMAIN r : \E x \in DOMAIN pool : r[i] = pool[x]
         /\ \A x \in DOMAIN pool : \E i \in DOMAIN r : r[i] = pool[x]
    BY <1>7, <1>9, <1>10
  <1>13. QED
    BY <1>7, <1>8, <1>11, <1>12 DEF r, Reordered

-----------------------------------------------------------------------------
(* The verdicts kept under a list of candidates are about that list. *)
CacheIsSound ==
  \A key \in DOMAIN reranks :
    /\ key \in Seq(DocIds)
    /\ \A i, j \in DOMAIN key : key[i] = key[j] => i = j
    /\ reranks[key].verdicts \in [DOMAIN key -> Verdicts]
    /\ reranks[key].said = SaidOf(key, reranks[key].verdicts)

(* What was shown is the fused order, or the re-ranked head of it. *)
ShownAs(ids) ==
  \/ search.said = NoVerdicts /\ ids = search.fused
  \/ /\ search.fused # <<>>
     /\ \E verdicts \in [DOMAIN Pool -> Verdicts] :
          search.said = SaidOf(Pool, verdicts) /\ ids = Reorder(Pool, verdicts)

SearchSoFar ==
  /\ search.at \in {"dense", "lexical", "rerank"} => search.said = NoVerdicts
  /\ search.at \in {"rerank", "done"} =>
       search.fused = Fuse(search.dense, search.lexical, search.weights)
  /\ search.at = "rerank" => search.fused # <<>>
  /\ search.at = "done" => \E ids : ShownAs(ids) /\ search.hits = Hits(ids, search.k)

RankingInv == RankingTypeOK /\ CacheIsSound /\ SearchSoFar

(* The candidates of a re-ranking are the head of the fused order. *)
LEMMA PoolOf ==
  ASSUME search \in Search, search.fused = Fuse(search.dense, search.lexical, search.weights)
  PROVE  /\ Fused(search.fused, search.dense, search.lexical, search.weights)
         /\ search.fused \in Seq(DocIds)
         /\ \A i, j \in DOMAIN search.fused : search.fused[i] = search.fused[j] => i = j
         /\ Pool \in Seq(DocIds) /\ Len(Pool) = Least(Depth, Len(search.fused))
         /\ DOMAIN Pool = 1 .. Least(Depth, Len(search.fused))
         /\ \A i \in DOMAIN Pool : Pool[i] = search.fused[i] /\ i \in DOMAIN search.fused
         /\ \A i, j \in DOMAIN Pool : Pool[i] = Pool[j] => i = j
  <1>1. /\ search.dense \in Rankings /\ search.lexical \in Rankings
        /\ search.weights \in Nat \X Nat /\ search.fused \in Seq(DocIds)
    BY DEF Search
  <1>2. Fused(search.fused, search.dense, search.lexical, search.weights)
    BY <1>1, FuseFuses
  <1>3. \A i, j \in DOMAIN search.fused : search.fused[i] = search.fused[j] => i = j
    BY <1>2 DEF Fused
  <1>4. /\ Pool \in Seq(DocIds) /\ Len(Pool) = Least(Depth, Len(search.fused))
        /\ DOMAIN Pool = 1 .. Least(Depth, Len(search.fused))
        /\ \A i \in DOMAIN Pool : Pool[i] = search.fused[i] /\ i \in DOMAIN search.fused
    <2>1. Depth \in Nat
      BY RankingAssumption
    <2> DEFINE f == search.fused
    <2>2. f \in Seq(DocIds) /\ Pool = Upto(f, Depth)
      BY <1>1 DEF Pool
    <2> HIDE DEF f
    <2>3. /\ Upto(f, Depth) \in Seq(DocIds) /\ Len(Upto(f, Depth)) = Least(Depth, Len(f))
          /\ DOMAIN Upto(f, Depth) = 1 .. Least(Depth, Len(f))
          /\ \A i \in 1 .. Least(Depth, Len(f)) : Upto(f, Depth)[i] = f[i] /\ i \in DOMAIN f
      BY <2>1, <2>2, UptoOf
    <2>4. QED
      BY <2>2, <2>3 DEF f
  <1>5. QED
    BY <1>1, <1>2, <1>3, <1>4

(* The order shown, before it is cut to k. *)
ShowsFaithfully(ids) ==
  LET counted == UNION {ToSet(arm) : arm \in Arms}
      head == IF search.said = NoVerdicts THEN Cardinality(counted) ELSE Depth
  IN  /\ ids \in Seq(DocIds)
      /\ \A i, j \in DOMAIN ids : ids[i] = ids[j] => i = j
      /\ Cardinality(counted) \in Nat
      /\ Len(ids) = Least(Cardinality(counted), head)
      /\ \A a \in counted, i \in DOMAIN ids :
           a # ids[i] /\ Dominates(a, ids[i]) /\ Band(a) >= Band(ids[i]) =>
             \E j \in DOMAIN ids : j < i /\ ids[j] = a
      /\ \A i, j \in DOMAIN ids : Band(ids[i]) > Band(ids[j]) => i < j

(* The arms of the property are the arms that were fused. *)
LEMMA ArmsAre ==
  ASSUME search \in Search
  PROVE  /\ UNION {ToSet(arm) : arm \in Arms} =
              CountedIn(search.dense, search.lexical, search.weights)
         /\ \A a, b : Dominates(a, b) =>
              /\ ArmPrefers(search.dense, search.weights[1], a, b)
              /\ ArmPrefers(search.lexical, search.weights[2], a, b)
  <1>1. search.dense \in Rankings /\ search.lexical \in Rankings
    BY DEF Search
  <1>2. ToSet(search.dense) \subseteq DocIds /\ ToSet(search.lexical) \subseteq DocIds
    BY <1>1, RankingsAre
  <1>3. \A r : r \in Arms <=> \/ search.weights[1] # 0 /\ r = search.dense
                              \/ search.weights[2] # 0 /\ r = search.lexical
    <2> DEFINE x == <<search.dense, search.weights[1]>>
               y == <<search.lexical, search.weights[2]>>
    <2>1. /\ x[1] = search.dense /\ x[2] = search.weights[1]
          /\ y[1] = search.lexical /\ y[2] = search.weights[2]
      OBVIOUS
    <2>2. Arms = {arm[1] : arm \in {a \in {x, y} : a[2] # 0}}
      BY DEF Arms
    <2> HIDE DEF x, y
    <2>3. \A r : r \in Arms <=> (x[2] # 0 /\ r = x[1]) \/ (y[2] # 0 /\ r = y[1])
      BY <2>2
    <2>4. QED
      BY <2>1, <2>3
  <1>4. UNION {ToSet(arm) : arm \in Arms} =
          CountedIn(search.dense, search.lexical, search.weights)
    BY <1>2, <1>3 DEF CountedIn
  <1>5. QED
    BY <1>3, <1>4 DEF Dominates, ArmPrefers

(* An order of the fused list, or of its head by verdict, is what the property asks. *)
LEMMA ShownIsFaithful ==
  ASSUME search \in Search, search.fused = Fuse(search.dense, search.lexical, search.weights),
         NEW ids, ShownAs(ids)
  PROVE  ShowsFaithfully(ids)
  <1> DEFINE fused == search.fused
             counted == UNION {ToSet(arm) : arm \in Arms}
  <1>1. /\ fused \in Seq(DocIds) /\ Len(fused) = Cardinality(counted) /\ ToSet(fused) = counted
        /\ \A i, j \in DOMAIN fused : fused[i] = fused[j] => i = j
        /\ \A i, j \in DOMAIN fused : fused[i] # fused[j] /\ Dominates(fused[i], fused[j]) => i < j
    BY PoolOf, ArmsAre DEF Fused
  <1>2. \A id : Band(id) \in Nat
    BY BandScoreOf DEF Band
  <1>3. /\ \A a \in counted : \E i \in DOMAIN fused : fused[i] = a
        /\ Cardinality(counted) \in Nat /\ DOMAIN fused = 1 .. Len(fused) /\ Len(fused) \in Nat
    <2> HIDE DEF fused, counted
    <2>1. Len(fused) \in Nat /\ DOMAIN fused = 1 .. Len(fused)
      BY <1>1
    <2>2. QED
      BY <1>1, <2>1 DEF ToSet
  <1> HIDE DEF fused, counted
  <1>4. CASE search.said = NoVerdicts /\ ids = fused
    <2>1. \A id : Band(id) = 0
      BY <1>4 DEF Band, NoVerdicts
    <2>2. \A a \in counted, i \in DOMAIN ids :
            a # ids[i] /\ Dominates(a, ids[i]) => \E j \in DOMAIN ids : j < i /\ ids[j] = a
      BY <1>1, <1>3, <1>4
    <2>3. Len(ids) = Least(Cardinality(counted), Cardinality(counted))
      BY <1>1, <1>4 DEF Least
    <2>4. \A i, j \in DOMAIN ids : Band(ids[i]) > Band(ids[j]) => i < j
      BY <2>1
    <2>5. QED
      BY <1>1, <1>3, <1>4, <2>2, <2>3, <2>4 DEF ShowsFaithfully, counted
  <1>5. CASE /\ fused # <<>>
             /\ \E verdicts \in [DOMAIN Pool -> Verdicts] :
                  search.said = SaidOf(Pool, verdicts) /\ ids = Reorder(Pool, verdicts)
    <2>1. PICK verdicts \in [DOMAIN Pool -> Verdicts] :
            search.said = SaidOf(Pool, verdicts) /\ ids = Reorder(Pool, verdicts)
      BY <1>5
    <2>2. /\ Pool \in Seq(DocIds) /\ Len(Pool) = Least(Depth, Len(fused))
          /\ DOMAIN Pool = 1 .. Least(Depth, Len(fused))
          /\ \A i \in DOMAIN Pool : Pool[i] = fused[i] /\ i \in DOMAIN fused
          /\ \A i, j \in DOMAIN Pool : Pool[i] = Pool[j] => i = j
      BY PoolOf DEF fused
    <2>3. /\ ids \in Seq(DocIds) /\ Len(ids) = Len(Pool)
          /\ \A i, j \in DOMAIN ids : ids[i] = ids[j] => i = j
          /\ \A i \in DOMAIN ids : \E x \in DOMAIN Pool : ids[i] = Pool[x]
          /\ \A x \in DOMAIN Pool : \E i \in DOMAIN ids : ids[i] = Pool[x]
          /\ \A i, j \in DOMAIN ids : \A x, y \in DOMAIN Pool :
               /\ ids[i] = Pool[x] /\ ids[j] = Pool[y]
               /\ \/ BandScore(verdicts[x]) > BandScore(verdicts[y])
                  \/ BandScore(verdicts[x]) = BandScore(verdicts[y]) /\ x < y
               => i < j
      <3>1. OnceEach(Pool)
        BY <2>2 DEF OnceEach
      <3>2. Reordered(ids, Pool, verdicts)
        BY <2>1, <3>1, ReorderReorders
      <3>3. QED
        BY <3>2 DEF Reordered, OnceEach
    <2>4. /\ DOMAIN search.said = ToSet(Pool)
          /\ \A x \in DOMAIN Pool : Pool[x] \in ToSet(Pool) /\ search.said[Pool[x]] = verdicts[x]
      <3>1. OnceEach(Pool)
        BY <2>2 DEF OnceEach
      <3>2. QED
        BY <2>1, <3>1, SaidOfPlaces
    <2>5. \A x \in DOMAIN Pool : Band(Pool[x]) = BandScore(verdicts[x])
      BY <2>4 DEF Band
    <2>6. search.said # NoVerdicts
      <3>1. 1 \in DOMAIN Pool
        BY <1>1, <1>5, <2>2, RankingAssumption DEF Least
      <3>2. DOMAIN search.said # {}
        BY <2>4, <3>1
      <3>3. QED
        BY <3>2 DEF NoVerdicts
    <2>7. Len(ids) = Least(Cardinality(counted), Depth)
      BY <1>1, <1>3, <2>2, <2>3, RankingAssumption DEF Least
    <2>8. ASSUME NEW i \in DOMAIN ids, NEW j \in DOMAIN ids, Band(ids[i]) > Band(ids[j])
          PROVE  i < j
      <3>1. PICK x \in DOMAIN Pool : ids[i] = Pool[x]
        BY <2>3
      <3>2. PICK y \in DOMAIN Pool : ids[j] = Pool[y]
        BY <2>3
      <3>3. BandScore(verdicts[x]) > BandScore(verdicts[y])
        BY <2>5, <2>8, <3>1, <3>2
      <3>4. QED
        BY <2>3, <3>1, <3>2, <3>3
    <2>9. ASSUME NEW a \in counted, NEW i \in DOMAIN ids, a # ids[i], Dominates(a, ids[i]),
                 Band(a) >= Band(ids[i])
          PROVE  \E j \in DOMAIN ids : j < i /\ ids[j] = a
      <3>1. PICK y \in DOMAIN Pool : ids[i] = Pool[y]
        BY <2>3
      <3>2. PICK x \in DOMAIN fused : fused[x] = a
        BY <1>3
      <3>3. y \in DOMAIN fused /\ fused[y] = ids[i]
        BY <2>2, <3>1
      <3>4. x < y
        BY <1>1, <2>9, <3>2, <3>3
      <3>5. x \in DOMAIN Pool /\ Pool[x] = a
        <4>1. x \in Nat /\ x >= 1 /\ y \in Nat
          BY <1>3, <3>3
        <4>2. x \in DOMAIN Pool
          BY <2>2, <3>4, <4>1
        <4>3. QED
          BY <2>2, <3>2, <4>2
      <3>6. PICK j \in DOMAIN ids : ids[j] = Pool[x]
        BY <2>3, <3>5
      <3>7. BandScore(verdicts[x]) >= BandScore(verdicts[y])
        BY <2>5, <2>9, <3>1, <3>5
      <3>8. \/ BandScore(verdicts[x]) > BandScore(verdicts[y])
            \/ BandScore(verdicts[x]) = BandScore(verdicts[y]) /\ x < y
        BY <3>4, <3>7, BandScoreOf
      <3>9. j < i
        BY <2>3, <3>1, <3>5, <3>6, <3>8
      <3>10. QED
        BY <3>5, <3>6, <3>9
    <2>10. QED
      BY <1>3, <2>3, <2>6, <2>7, <2>8, <2>9 DEF ShowsFaithfully, counted
  <1>6. QED
    BY <1>4, <1>5 DEF ShownAs, fused

(* So the hits of a finished search are faithful. *)
LEMMA RankingInvShows == RankingInv => RankingTypeOK /\ SearchIsFaithful
  <1> SUFFICES ASSUME RankingInv, search.at = "done" PROVE SearchIsFaithful
    BY DEF RankingInv, SearchIsFaithful
  <1>1. search \in Search /\ search.k \in Nat
    BY DEF RankingInv, RankingTypeOK, Search
  <1>2. PICK ids : ShownAs(ids) /\ search.hits = Hits(ids, search.k)
    BY DEF RankingInv, SearchSoFar
  <1>3. ShowsFaithfully(ids)
    BY <1>1, <1>2, ShownIsFaithful DEF RankingInv, SearchSoFar
  <1> DEFINE hits == search.hits
             counted == UNION {ToSet(arm) : arm \in Arms}
             head == IF search.said = NoVerdicts THEN Cardinality(counted) ELSE Depth
             place(id) == IF \E i \in DOMAIN hits : hits[i].chunk = id
                            THEN CHOOSE i \in DOMAIN hits : hits[i].chunk = id
                            ELSE Len(hits) + 1
  <1>4. /\ ids \in Seq(DocIds)
        /\ \A i, j \in DOMAIN ids : ids[i] = ids[j] => i = j
        /\ Cardinality(counted) \in Nat
        /\ Len(ids) = Least(Cardinality(counted), head)
        /\ \A a \in counted, i \in DOMAIN ids :
             a # ids[i] /\ Dominates(a, ids[i]) /\ Band(a) >= Band(ids[i]) =>
               \E j \in DOMAIN ids : j < i /\ ids[j] = a
        /\ \A i, j \in DOMAIN ids : Band(ids[i]) > Band(ids[j]) => i < j
    BY <1>3 DEF ShowsFaithfully
  <1>5. /\ hits \in Seq(Hit) /\ Len(hits) = Least(search.k, Len(ids))
        /\ DOMAIN hits = 1 .. Least(search.k, Len(ids))
        /\ \A i \in DOMAIN hits : i \in DOMAIN ids /\ hits[i].chunk = ids[i] /\ hits[i].rank = i
    <2>1. hits = Hits(ids, search.k)
      BY <1>2
    <2>2. ids \in Seq(DocIds) /\ search.k \in Nat
      BY <1>1, <1>4
    <2> HIDE DEF hits
    <2>3. QED
      BY <2>1, <2>2, HitsOf
  <1> HIDE DEF hits, counted, head
  <1>6. \A i, j \in DOMAIN hits : hits[i].chunk = hits[j].chunk => i = j
    BY <1>4, <1>5
  <1>7. RankedIds(PackForLlm(hits)) = [i \in DOMAIN hits |-> hits[i].chunk]
    BY <1>5, <1>6, PackingMovesNothing
  <1>8. Len(hits) = Least(Least(Cardinality(counted), head), search.k)
    <2>1. Len(ids) \in Nat
      BY <1>4
    <2>2. QED
      BY <1>1, <1>4, <1>5, <2>1 DEF Least
  <1>9. ASSUME NEW a \in counted, NEW i \in DOMAIN hits, a # hits[i].chunk,
               Dominates(a, hits[i].chunk), Band(a) >= Band(hits[i].chunk)
        PROVE  place(a) < i
    <2>1. PICK j \in DOMAIN ids : j < i /\ ids[j] = a
      BY <1>4, <1>5, <1>9
    <2>2. j \in DOMAIN hits /\ hits[j].chunk = a
      BY <1>4, <1>5, <2>1
    <2>3. place(a) = j
      BY <1>6, <2>2
    <2> HIDE DEF place
    <2>4. QED
      BY <2>1, <2>3
  <1>10. \A i, j \in DOMAIN hits : Band(hits[i].chunk) > Band(hits[j].chunk) => i < j
    BY <1>4, <1>5
  <1>11. QED
    BY <1>6, <1>7, <1>8, <1>9, <1>10 DEF SearchIsFaithful, hits, counted, head

-----------------------------------------------------------------------------
(* Nothing found, nothing fused and nothing shown. *)
LEMMA EmptyRanking ==
  /\ <<>> \in Rankings /\ NoVerdicts \in UNION {[ids -> Verdicts] : ids \in SUBSET DocIds}
  /\ \A k \in Nat : Hits(<<>>, k) = <<>>
  /\ \A w \in Nat \X Nat : Fuse(<<>>, <<>>, w) = <<>>
  <1>1. <<>> \in Rankings
    <2>1. 0 \in 0 .. Depth
      BY RankingAssumption
    <2>2. <<>> \in [1 .. 0 -> DocIds]
      OBVIOUS
    <2>3. IsInjective(<<>>)
      BY DEF IsInjective
    <2>4. QED
      BY <2>1, <2>2, <2>3 DEF Rankings, SeqOf
  <1>2. NoVerdicts \in UNION {[ids -> Verdicts] : ids \in SUBSET DocIds}
    <2>1. NoVerdicts \in [{} -> Verdicts] /\ {} \in SUBSET DocIds
      BY DEF NoVerdicts
    <2>2. QED
      BY <2>1
  <1>3. ASSUME NEW k \in Nat PROVE Hits(<<>>, k) = <<>>
    <2>1. <<>> \in Seq(DocIds) /\ Len(<<>>) = 0
      OBVIOUS
    <2>2. Hits(<<>>, k) \in Seq(Hit) /\ Len(Hits(<<>>, k)) = Least(k, Len(<<>>))
      BY <2>1, HitsOf
    <2>3. Least(k, 0) = 0
      BY DEF Least
    <2>4. QED
      BY <2>1, <2>2, <2>3
  <1>4. ASSUME NEW w \in Nat \X Nat PROVE Fuse(<<>>, <<>>, w) = <<>>
    <2> DEFINE f == Fuse(<<>>, <<>>, w)
    <2>1. Fused(f, <<>>, <<>>, w)
      BY <1>1, FuseFuses
    <2> HIDE DEF f
    <2>2. CountedIn(<<>>, <<>>, w) = {}
      BY DEF CountedIn, ToSet
    <2>3. f \in Seq(DocIds) /\ Len(f) = 0
      BY <2>1, <2>2, FS_EmptySet DEF Fused
    <2>4. f = <<>>
      BY <2>3
    <2>5. QED
      BY <2>4 DEF f
  <1>5. QED
    BY <1>1, <1>2, <1>3, <1>4

(* A search that has not begun is one. *)
LEMMA NoSearchTyped == NoSearch \in Search
  <1>1. <<>> \in Seq(DocIds) /\ <<>> \in Seq(Hit) /\ <<1, 1>> \in Nat \X Nat
    OBVIOUS
  <1>2. QED
    BY <1>1, EmptyRanking DEF NoSearch, Search

(* Before any search the cache is empty. *)
LEMMA RankingStart == RankingInit => RankingInv
  <1> SUFFICES ASSUME RankingInit PROVE RankingInv
    OBVIOUS
  <1>1. search = NoSearch /\ DOMAIN reranks = {} /\ queries = 0
    BY DEF RankingInit
  <1>2. RankingTypeOK
    BY <1>1, NoSearchTyped, RankingAssumption DEF RankingTypeOK
  <1>3. CacheIsSound
    BY <1>1 DEF CacheIsSound
  <1>4. SearchSoFar
    BY <1>1 DEF SearchSoFar, NoSearch
  <1>5. QED
    BY <1>2, <1>3, <1>4 DEF RankingInv

(* What a step leaves of the cache is as sound as it was. *)
LEMMA CacheStays ==
  ASSUME RankingInv, UNCHANGED reranks, search' \in Search, queries' \in 0 .. MaxQueries,
         SearchSoFar'
  PROVE  RankingInv'
  BY DEF RankingInv, RankingTypeOK, CacheIsSound

(* A new search begins with nothing found. *)
LEMMA StartKeepsRankingInv ==
  ASSUME RankingInv, NEW k \in Cuts, NEW rerank \in BOOLEAN, NEW w \in ArmWeights,
         NEW visible \in {"dense", "done", "index_empty"}, Start(k, rerank, w, visible)
  PROVE  RankingInv'
  <1>1. k \in Nat /\ w \in Nat \X Nat /\ MaxQueries \in Nat
    BY RankingAssumption
  <1>2. queries' \in 0 .. MaxQueries /\ UNCHANGED reranks
    BY <1>1 DEF RankingInv, RankingTypeOK, Start
  <1>3. /\ search' \in Search /\ search'.said = NoVerdicts /\ search'.at = visible
        /\ search'.fused = <<>> /\ search'.dense = <<>> /\ search'.lexical = <<>>
        /\ search'.weights = w /\ search'.hits = <<>> /\ search'.k = k
    <2>1. search' = [NoSearch EXCEPT !.at = visible, !.k = k, !.rerank = rerank, !.weights = w]
      BY DEF Start
    <2>2. search' \in Search
      BY <1>1, <2>1, NoSearchTyped DEF Search
    <2>3. QED
      BY <2>1, <2>2 DEF NoSearch
  <1>4. SearchSoFar'
    <2>1. search'.fused = Fuse(search'.dense, search'.lexical, search'.weights)
      BY <1>1, <1>3, EmptyRanking
    <2>2. ShownAs(<<>>)' /\ search'.hits = Hits(<<>>, search'.k)
      BY <1>1, <1>3, EmptyRanking DEF ShownAs
    <2>3. QED
      BY <1>3, <2>1, <2>2 DEF SearchSoFar
  <1>5. QED
    BY <1>2, <1>3, <1>4, CacheStays

(* The first arm returns, and nothing is fused yet. *)
LEMMA DenseArmKeepsRankingInv ==
  ASSUME RankingInv, NEW ranking \in Rankings, DenseArm(ranking)
  PROVE  RankingInv'
  <1>1. /\ search \in Search /\ search.at = "dense" /\ search.said = NoVerdicts
        /\ search' = [search EXCEPT !.at = "lexical", !.dense = ranking]
    BY DEF RankingInv, RankingTypeOK, SearchSoFar, DenseArm
  <1>2. search' \in Search /\ search'.at = "lexical" /\ search'.said = NoVerdicts
    BY <1>1 DEF Search
  <1>3. SearchSoFar'
    BY <1>2 DEF SearchSoFar
  <1>4. UNCHANGED reranks /\ queries' \in 0 .. MaxQueries
    BY DEF DenseArm, RankingInv, RankingTypeOK
  <1>5. QED
    BY <1>2, <1>3, <1>4, CacheStays

(* The second returns: fused, and shown unless it is to be re-ranked. *)
LEMMA LexicalArmKeepsRankingInv ==
  ASSUME RankingInv, NEW ranking \in Rankings, LexicalArm(ranking)
  PROVE  RankingInv'
  <1> DEFINE fused == Fuse(search.dense, ranking, search.weights)
  <1>1. /\ search \in Search /\ search.at = "lexical" /\ search.said = NoVerdicts
        /\ search.dense \in Rankings /\ search.weights \in Nat \X Nat /\ search.k \in Nat
    BY DEF RankingInv, RankingTypeOK, SearchSoFar, LexicalArm, Search
  <1>2. search' = [search EXCEPT !.lexical = ranking, !.fused = fused,
                     !.at = IF search.rerank /\ fused # <<>> THEN "rerank" ELSE "done",
                     !.hits = IF search.rerank THEN <<>> ELSE Hits(fused, search.k)]
    BY DEF LexicalArm
  <1>3. fused \in Seq(DocIds)
    <2>1. Fused(fused, search.dense, ranking, search.weights)
      BY <1>1, FuseFuses
    <2> HIDE DEF fused
    <2>2. QED
      BY <2>1 DEF Fused
  <1>4. search'.fused = Fuse(search'.dense, search'.lexical, search'.weights)
    BY <1>1, <1>2 DEF Search
  <1> HIDE DEF fused
  <1>5. /\ search'.fused = fused /\ search'.said = NoVerdicts /\ search'.k = search.k
        /\ search'.at = IF search.rerank /\ fused # <<>> THEN "rerank" ELSE "done"
        /\ search'.hits = IF search.rerank THEN <<>> ELSE Hits(fused, search.k)
    BY <1>1, <1>2 DEF Search
  <1>6. search' \in Search
    <2>1. Hits(fused, search.k) \in Seq(Hit) /\ <<>> \in Seq(Hit)
      BY <1>1, <1>3, HitsOf
    <2>2. QED
      BY <1>1, <1>2, <1>3, <2>1 DEF Search
  <1>7. SearchSoFar'
    <2>1. PICK ids : ids = fused
      OBVIOUS
    <2>2. search'.at = "rerank" => search'.fused # <<>>
      BY <1>5
    <2>3. search'.at = "done" => search'.hits = Hits(ids, search'.k)
      BY <1>1, <1>5, <2>1, EmptyRanking
    <2>4. ShownAs(ids)'
      BY <1>5, <2>1 DEF ShownAs
    <2>5. QED
      BY <1>4, <1>5, <2>2, <2>3, <2>4 DEF SearchSoFar
  <1>8. UNCHANGED reranks /\ queries' \in 0 .. MaxQueries
    BY DEF LexicalArm, RankingInv, RankingTypeOK
  <1>9. QED
    BY <1>6, <1>7, <1>8, CacheStays

(* A re-ranking with sound verdicts ends as it should. *)
LEMMA RankedEndsWell ==
  ASSUME RankingInv, search.at = "rerank", NEW entry, Ranked(entry),
         entry.verdicts \in [DOMAIN Pool -> Verdicts], entry.said = SaidOf(Pool, entry.verdicts)
  PROVE  search' \in Search /\ SearchSoFar'
  <1>1. /\ search \in Search /\ search.fused # <<>> /\ search.k \in Nat
        /\ search.fused = Fuse(search.dense, search.lexical, search.weights)
    BY DEF RankingInv, RankingTypeOK, SearchSoFar, Search
  <1>2. /\ Pool \in Seq(DocIds)
        /\ \A i, j \in DOMAIN Pool : Pool[i] = Pool[j] => i = j
    BY <1>1, PoolOf
  <1>3. OnceEach(Pool)
    BY <1>2 DEF OnceEach
  <1>4. PICK verdicts \in [DOMAIN Pool -> Verdicts] : verdicts = entry.verdicts
    OBVIOUS
  <1>5. PICK ids : ids = Reorder(Pool, verdicts)
    OBVIOUS
  <1>6. ids \in Seq(DocIds)
    <2>1. Reordered(Reorder(Pool, verdicts), Pool, verdicts)
      BY <1>3, ReorderReorders
    <2>2. QED
      BY <1>5, <2>1 DEF Reordered, OnceEach
  <1>7. Hits(ids, search.k) \in Seq(Hit)
    BY <1>1, <1>6, HitsOf
  <1>8. SaidOf(Pool, verdicts) \in [ToSet(Pool) -> Verdicts] /\ ToSet(Pool) \in SUBSET DocIds
    BY <1>3, SaidOfPlaces
  <1>9. search' = [search EXCEPT !.at = "done", !.said = SaidOf(Pool, verdicts),
                     !.hits = Hits(ids, search.k)]
    BY <1>4, <1>5 DEF Ranked
  <1>10. search' \in Search
    <2> DEFINE said == SaidOf(Pool, verdicts)
    <2>1. said \in UNION {[some -> Verdicts] : some \in SUBSET DocIds}
      BY <1>8
    <2> HIDE DEF said
    <2>2. QED
      BY <1>1, <1>7, <1>9, <2>1 DEF Search, said
  <1>11. /\ search'.at = "done" /\ search'.fused = search.fused /\ search'.dense = search.dense
         /\ search'.lexical = search.lexical /\ search'.weights = search.weights
         /\ search'.k = search.k /\ search'.said = SaidOf(Pool, verdicts)
         /\ search'.hits = Hits(ids, search.k)
    BY <1>1, <1>9 DEF Search
  <1>12. Pool' = Pool
    BY <1>11 DEF Pool
  <1>13. ShownAs(ids)'
    BY <1>1, <1>4, <1>5, <1>11, <1>12 DEF ShownAs
  <1>14. SearchSoFar'
    BY <1>1, <1>11, <1>13 DEF SearchSoFar
  <1>15. QED
    BY <1>10, <1>14

(* A cached entry is of this very pool. *)
LEMMA GetRerankKeepsRankingInv ==
  ASSUME RankingInv, GetRerank
  PROVE  RankingInv'
  <1> DEFINE entry == reranks[Pool]
  <1>1. /\ search.at = "rerank" /\ Pool \in DOMAIN reranks /\ Ranked(entry) /\ UNCHANGED reranks
        /\ queries' \in 0 .. MaxQueries
    BY DEF GetRerank, RerankKey, RankingInv, RankingTypeOK
  <1>2. entry.verdicts \in [DOMAIN Pool -> Verdicts] /\ entry.said = SaidOf(Pool, entry.verdicts)
    BY <1>1 DEF RankingInv, CacheIsSound
  <1> HIDE DEF entry
  <1>3. search' \in Search /\ SearchSoFar'
    BY <1>1, <1>2, RankedEndsWell
  <1>4. QED
    BY <1>1, <1>3, CacheStays

(* A new entry says of each chunk what the model said of its place. *)
LEMMA CallRerankerKeepsRankingInv ==
  ASSUME RankingInv, NEW verdicts, CallReranker(verdicts)
  PROVE  RankingInv'
  <1>1. PICK pool : pool = Pool
    OBVIOUS
  <1> DEFINE entry == [verdicts |-> verdicts, said |-> SaidOf(pool, verdicts)]
  <1>2. /\ search.at = "rerank" /\ Ranked(entry) /\ UNCHANGED queries
        /\ verdicts \in [DOMAIN pool -> Given \cup {"none"}]
        /\ reranks' = [key \in DOMAIN reranks \cup {pool} |->
                         IF key = pool THEN entry ELSE reranks[key]]
    BY <1>1 DEF CallReranker, RerankKey
  <1>3. verdicts \in [DOMAIN pool -> Verdicts]
    <2>1. Given \cup {"none"} \subseteq Verdicts
      BY RankingAssumption DEF Verdicts
    <2>2. QED
      BY <1>2, <2>1
  <1>4. pool \in Seq(DocIds) /\ \A i, j \in DOMAIN pool : pool[i] = pool[j] => i = j
    <2>1. search \in Search /\ search.fused = Fuse(search.dense, search.lexical, search.weights)
      BY <1>2 DEF RankingInv, RankingTypeOK, SearchSoFar
    <2>2. QED
      BY <1>1, <2>1, PoolOf
  <1>5. entry.verdicts = verdicts /\ entry.said = SaidOf(pool, verdicts)
    OBVIOUS
  <1> HIDE DEF entry
  <1>6. search' \in Search /\ SearchSoFar'
    BY <1>1, <1>2, <1>3, <1>5, RankedEndsWell
  <1>7. /\ DOMAIN reranks' = DOMAIN reranks \cup {pool} /\ reranks'[pool] = entry
        /\ \A key \in DOMAIN reranks : key # pool => reranks'[key] = reranks[key]
    BY <1>2
  <1>8. CacheIsSound'
    <2> SUFFICES ASSUME NEW key \in DOMAIN reranks'
                 PROVE  /\ key \in Seq(DocIds)
                        /\ \A i, j \in DOMAIN key : key[i] = key[j] => i = j
                        /\ reranks'[key].verdicts \in [DOMAIN key -> Verdicts]
                        /\ reranks'[key].said = SaidOf(key, reranks'[key].verdicts)
      BY DEF CacheIsSound
    <2>1. CASE key = pool
      BY <1>3, <1>4, <1>5, <1>7, <2>1
    <2>2. CASE key # pool
      BY <1>7, <2>2 DEF RankingInv, CacheIsSound
    <2>3. QED
      BY <2>1, <2>2
  <1>9. RankingTypeOK'
    <2>1. verdicts \in Seq(Verdicts)
      <3>1. Len(pool) \in Nat /\ DOMAIN pool = 1 .. Len(pool)
        BY <1>4
      <3>2. QED
        BY <1>3, <3>1
    <2>2. \A key \in DOMAIN reranks' : reranks'[key].verdicts \in Seq(Verdicts)
      BY <1>5, <1>7, <2>1 DEF RankingInv, RankingTypeOK
    <2>3. QED
      BY <1>2, <1>6, <2>2 DEF RankingInv, RankingTypeOK
  <1>10. QED
    BY <1>6, <1>8, <1>9 DEF RankingInv

(* A failed re-ranking shows the fused order. *)
LEMMA RerankFailsKeepsRankingInv ==
  ASSUME RankingInv, RerankFails
  PROVE  RankingInv'
  <1>1. /\ search \in Search /\ search.said = NoVerdicts /\ search.k \in Nat
        /\ search.fused \in Seq(DocIds)
        /\ search.fused = Fuse(search.dense, search.lexical, search.weights)
        /\ search' = [search EXCEPT !.at = "done", !.hits = Hits(search.fused, search.k)]
    BY DEF RankingInv, RankingTypeOK, SearchSoFar, RerankFails, Search
  <1>2. search' \in Search
    BY <1>1, HitsOf DEF Search
  <1>3. /\ search'.at = "done" /\ search'.fused = search.fused /\ search'.dense = search.dense
        /\ search'.lexical = search.lexical /\ search'.weights = search.weights
        /\ search'.k = search.k /\ search'.said = NoVerdicts
        /\ search'.hits = Hits(search'.fused, search'.k)
    BY <1>1 DEF Search
  <1>4. SearchSoFar'
    <2>1. PICK ids : ids = search'.fused
      OBVIOUS
    <2>2. ShownAs(ids)'
      BY <1>3, <2>1 DEF ShownAs
    <2>3. QED
      BY <1>1, <1>3, <2>1, <2>2 DEF SearchSoFar
  <1>5. UNCHANGED reranks /\ queries' \in 0 .. MaxQueries
    BY DEF RerankFails, RankingInv, RankingTypeOK
  <1>6. QED
    BY <1>2, <1>4, <1>5, CacheStays

(* Every step of a search keeps the invariant. *)
LEMMA RankingStepKeepsInv == RankingInv /\ [RankingNext]_rankingVars => RankingInv'
  <1> SUFFICES ASSUME RankingInv, [RankingNext]_rankingVars PROVE RankingInv'
    OBVIOUS
  <1>1. CASE RankingNext
    BY <1>1, StartKeepsRankingInv, DenseArmKeepsRankingInv, LexicalArmKeepsRankingInv,
       GetRerankKeepsRankingInv, CallRerankerKeepsRankingInv, RerankFailsKeepsRankingInv
       DEF RankingNext
  <1>2. CASE UNCHANGED rankingVars
    BY <1>2 DEF rankingVars, RankingInv, RankingTypeOK, CacheIsSound, SearchSoFar, ShownAs, Pool
  <1>3. QED
    BY <1>1, <1>2

-----------------------------------------------------------------------------
(* The cells of a table of n by m and a far edge, and their distance from it. *)
Grid(n, m) == (1 .. n + 1) \X (1 .. m + 1)
Edge(n, m, x) == x[1] > n \/ x[2] > m
Steps(n, m) == [x \in Grid(n, m) |-> (n + 1 - x[1]) + (m + 1 - x[2])]

(* Each neighbour is a cell, and nearer to the far corner. *)
LEMMA GridSteps ==
  ASSUME NEW n \in Nat, NEW m \in Nat
  PROVE  /\ Steps(n, m) \in [Grid(n, m) -> 0 .. n + m]
         /\ \A x \in Grid(n, m) : ~Edge(n, m, x) =>
              /\ Down(x) \in Grid(n, m) /\ Steps(n, m)[Down(x)] = Steps(n, m)[x] - 1
              /\ Across(x) \in Grid(n, m) /\ Steps(n, m)[Across(x)] = Steps(n, m)[x] - 1
              /\ Past(x) \in Grid(n, m) /\ Steps(n, m)[Past(x)] = Steps(n, m)[x] - 2
  <1>1. \A x \in Grid(n, m) : /\ x[1] \in 1 .. n + 1 /\ x[2] \in 1 .. m + 1
                              /\ x[1] \in Nat /\ x[2] \in Nat
    BY DEF Grid
  <1>2. \A x \in Grid(n, m) : Steps(n, m)[x] = (n + 1 - x[1]) + (m + 1 - x[2])
    BY DEF Steps
  <1>3. Steps(n, m) \in [Grid(n, m) -> 0 .. n + m]
    <2>1. \A x \in Grid(n, m) : (n + 1 - x[1]) + (m + 1 - x[2]) \in 0 .. n + m
      BY <1>1
    <2>2. QED
      BY <2>1 DEF Steps
  <1>4. ASSUME NEW x \in Grid(n, m), ~Edge(n, m, x)
        PROVE  Down(x) \in Grid(n, m) /\ Across(x) \in Grid(n, m) /\ Past(x) \in Grid(n, m)
    <2>1. x[1] <= n /\ x[2] <= m /\ x[1] \in 1 .. n + 1 /\ x[2] \in 1 .. m + 1
      BY <1>1, <1>4 DEF Edge
    <2>2. x[1] + 1 \in 1 .. n + 1 /\ x[2] + 1 \in 1 .. m + 1
      BY <2>1
    <2>3. QED
      BY <2>1, <2>2 DEF Grid, Down, Across, Past
  <1>5. ASSUME NEW x \in Grid(n, m), ~Edge(n, m, x)
        PROVE  /\ Steps(n, m)[Down(x)] = Steps(n, m)[x] - 1
               /\ Steps(n, m)[Across(x)] = Steps(n, m)[x] - 1
               /\ Steps(n, m)[Past(x)] = Steps(n, m)[x] - 2
    <2>1. /\ Down(x)[1] = x[1] + 1 /\ Down(x)[2] = x[2]
          /\ Across(x)[1] = x[1] /\ Across(x)[2] = x[2] + 1
          /\ Past(x)[1] = x[1] + 1 /\ Past(x)[2] = x[2] + 1
      BY DEF Down, Across, Past
    <2>2. /\ Steps(n, m)[Down(x)] = (n + 1 - Down(x)[1]) + (m + 1 - Down(x)[2])
          /\ Steps(n, m)[Across(x)] = (n + 1 - Across(x)[1]) + (m + 1 - Across(x)[2])
          /\ Steps(n, m)[Past(x)] = (n + 1 - Past(x)[1]) + (m + 1 - Past(x)[2])
      BY <1>2, <1>4, <1>5
    <2>3. QED
      BY <1>1, <1>2, <2>1, <2>2
  <1>6. QED
    BY <1>3, <1>4, <1>5

(* What holds at the edge, and at every other cell when it holds at those it *)
(* reaches, holds everywhere.                                               *)
LEMMA GridInduction ==
  ASSUME NEW n \in Nat, NEW m \in Nat, NEW G,
         \A x \in Grid(n, m) : Edge(n, m, x) => x \in G,
         \A x \in Grid(n, m) : ~Edge(n, m, x) /\ Down(x) \in G /\ Across(x) \in G /\ Past(x) \in G
                               => x \in G
  PROVE  Grid(n, m) \subseteq G
  <1> DEFINE steps == Steps(n, m)
             K == {k \in Nat : \A x \in Grid(n, m) : steps[x] <= k => x \in G}
  <1>1. /\ \A x \in Grid(n, m) : steps[x] \in Nat
        /\ \A x \in Grid(n, m) : ~Edge(n, m, x) =>
             /\ Down(x) \in Grid(n, m) /\ steps[Down(x)] = steps[x] - 1
             /\ Across(x) \in Grid(n, m) /\ steps[Across(x)] = steps[x] - 1
             /\ Past(x) \in Grid(n, m) /\ steps[Past(x)] = steps[x] - 2
    BY GridSteps
  <1> HIDE DEF steps
  <1>2. 0 \in K
    <2> SUFFICES ASSUME NEW x \in Grid(n, m), steps[x] <= 0, ~Edge(n, m, x) PROVE FALSE
      OBVIOUS
    <2>1. steps[x] \in Nat /\ steps[Past(x)] \in Nat /\ steps[Past(x)] = steps[x] - 2
      BY <1>1
    <2>2. QED
      BY <2>1
  <1>3. ASSUME NEW k \in Nat \ {0}, k - 1 \in K PROVE k \in K
    <2> SUFFICES ASSUME NEW x \in Grid(n, m), steps[x] <= k, ~Edge(n, m, x) PROVE x \in G
      OBVIOUS
    <2>1. /\ Down(x) \in Grid(n, m) /\ steps[Down(x)] = steps[x] - 1
          /\ Across(x) \in Grid(n, m) /\ steps[Across(x)] = steps[x] - 1
          /\ Past(x) \in Grid(n, m) /\ steps[Past(x)] = steps[x] - 2 /\ steps[x] \in Nat
      BY <1>1
    <2>2. steps[Down(x)] <= k - 1 /\ steps[Across(x)] <= k - 1 /\ steps[Past(x)] <= k - 1
      BY <2>1
    <2>3. Down(x) \in G /\ Across(x) \in G /\ Past(x) \in G
      BY <1>3, <2>1, <2>2
    <2>4. QED
      BY <2>3
  <1> HIDE DEF K
  <1>4. Nat \subseteq K
    BY <1>2, <1>3, SetInduction
  <1>5. ASSUME NEW x \in Grid(n, m) PROVE x \in G
    BY <1>1, <1>4 DEF K
  <1>6. QED
    BY <1>5

(* A table filled from its far corner: C gives a cell from its neighbours.  *)
Filling(n, m, V, e, C) ==
  /\ n \in Nat /\ m \in Nat /\ e \in V
  /\ C \in [Grid(n, m) \X (V \X V \X V) -> V]

FillCell(n, m, e, C, g, x) ==
  IF Edge(n, m, x) THEN e ELSE C[<<x, <<g[Down(x)], g[Across(x)], g[Past(x)]>>>>]

(* There is a table filled in this way. *)
LEMMA FillingExists ==
  ASSUME NEW n, NEW m, NEW V, NEW e, NEW C, Filling(n, m, V, e, C)
  PROVE  \E f \in [Grid(n, m) -> V] : \A x \in Grid(n, m) : f[x] = FillCell(n, m, e, C, f, x)
  <1> DEFINE S == Grid(n, m)
             rank == Steps(n, m)
             F == [gx \in [S -> V] \X S |-> FillCell(n, m, e, C, gx[1], gx[2])]
  <1>0. n \in Nat /\ m \in Nat /\ e \in V /\ C \in [S \X (V \X V \X V) -> V]
    BY DEF Filling
  <1>1. /\ rank \in [S -> 0 .. n + m]
        /\ \A x \in S : ~Edge(n, m, x) =>
             /\ Down(x) \in S /\ rank[Down(x)] = rank[x] - 1
             /\ Across(x) \in S /\ rank[Across(x)] = rank[x] - 1
             /\ Past(x) \in S /\ rank[Past(x)] = rank[x] - 2
    BY <1>0, GridSteps
  <1> HIDE DEF S, rank
  <1>2. ASSUME NEW g \in [S -> V], NEW x \in S
        PROVE  F[<<g, x>>] = FillCell(n, m, e, C, g, x) /\ FillCell(n, m, e, C, g, x) \in V
    <2>1. <<g, x>> \in [S -> V] \X S
      OBVIOUS
    <2>2. F[<<g, x>>] = FillCell(n, m, e, C, g, x)
      BY <2>1
    <2>3. CASE Edge(n, m, x)
      BY <1>0, <2>2, <2>3 DEF FillCell
    <2>4. CASE ~Edge(n, m, x)
      <3>1. g[Down(x)] \in V /\ g[Across(x)] \in V /\ g[Past(x)] \in V
        BY <1>1, <2>4
      <3>2. <<x, <<g[Down(x)], g[Across(x)], g[Past(x)]>>>> \in S \X (V \X V \X V)
        BY <3>1
      <3>3. QED
        BY <1>0, <2>2, <2>4, <3>2 DEF FillCell
    <2>5. QED
      BY <2>3, <2>4
  <1>3. F \in [[S -> V] \X S -> V]
    <2>1. \A gx \in [S -> V] \X S : gx[1] \in [S -> V] /\ gx[2] \in S
      OBVIOUS
    <2>2. \A gx \in [S -> V] \X S : FillCell(n, m, e, C, gx[1], gx[2]) \in V
      BY <1>2, <2>1
    <2>3. QED
      BY <2>2
  <1> HIDE DEF F
  <1>4. ASSUME NEW g \in [S -> V], NEW h \in [S -> V], NEW x \in S,
               \A y \in S : rank[y] < rank[x] => g[y] = h[y]
        PROVE  F[<<g, x>>] = F[<<h, x>>]
    <2>1. CASE Edge(n, m, x)
      BY <1>2, <2>1 DEF FillCell
    <2>2. CASE ~Edge(n, m, x)
      <3>1. /\ Down(x) \in S /\ rank[Down(x)] < rank[x]
            /\ Across(x) \in S /\ rank[Across(x)] < rank[x]
            /\ Past(x) \in S /\ rank[Past(x)] < rank[x]
        BY <1>0, <1>1, <2>2
      <3>2. g[Down(x)] = h[Down(x)] /\ g[Across(x)] = h[Across(x)] /\ g[Past(x)] = h[Past(x)]
        BY <1>4, <3>1
      <3>3. FillCell(n, m, e, C, g, x) = FillCell(n, m, e, C, h, x)
        BY <3>2 DEF FillCell
      <3>4. QED
        BY <1>2, <3>3
    <2>3. QED
      BY <2>1, <2>2
  <1>5. Recursion(S, V, rank, n + m, F)
    <2>1. V # {} /\ n + m \in Nat /\ rank \in [S -> 0 .. n + m]
      BY <1>0, <1>1
    <2>2. QED
      BY <1>3, <1>4, <2>1 DEF Recursion
  <1>6. PICK f \in [S -> V] : \A x \in S : f[x] = F[<<f, x>>]
    BY <1>5, RecursionExists
  <1>7. QED
    BY <1>2, <1>6 DEF S

-----------------------------------------------------------------------------
(* The table of a route and a run, cell by cell. *)
TableFilled(table, expected, actual) ==
  /\ table \in [Cells(expected, actual) -> Nat]
  /\ \A x \in Cells(expected, actual) :
       table[x] = IF Ended(expected, actual, x) THEN 0
                  ELSE IF Same(expected, actual, x) THEN 1 + table[Past(x)]
                  ELSE Larger(table[Down(x)], table[Across(x)])

(* align's table is filled as its definition says. *)
LEMMA TableUnfolds ==
  ASSUME NEW expected \in Seq(Tools), NEW actual \in Seq(ToolCall)
  PROVE  TableFilled(Table(expected, actual), expected, actual)
  <1> DEFINE n == Len(expected)
             m == Len(actual)
             S == Grid(n, m)
             C == [xv \in S \X (Nat \X Nat \X Nat) |->
                     IF Same(expected, actual, xv[1]) THEN 1 + xv[2][3]
                     ELSE Larger(xv[2][1], xv[2][2])]
             Cell(g, x) == IF Ended(expected, actual, x) THEN 0
                           ELSE IF Same(expected, actual, x) THEN 1 + g[Past(x)]
                           ELSE Larger(g[Down(x)], g[Across(x)])
             table == CHOOSE g : g = [x \in Cells(expected, actual) |-> Cell(g, x)]
  <1>1. Table(expected, actual) = table
    BY DEF Table
  <1>2. n \in Nat /\ m \in Nat /\ Cells(expected, actual) = S
    BY DEF Cells, Grid
  <1>3. \A x \in S : Ended(expected, actual, x) <=> Edge(n, m, x)
    BY DEF Ended, Edge
  <1>4. ASSUME NEW x \in S, NEW a \in Nat, NEW b \in Nat, NEW c \in Nat
        PROVE  /\ C[<<x, <<a, b, c>>>>] = IF Same(expected, actual, x) THEN 1 + c ELSE Larger(a, b)
               /\ C[<<x, <<a, b, c>>>>] \in Nat
    <2>1. <<x, <<a, b, c>>>> \in S \X (Nat \X Nat \X Nat)
      OBVIOUS
    <2>2. C[<<x, <<a, b, c>>>>] = IF Same(expected, actual, x) THEN 1 + c ELSE Larger(a, b)
      <3> HIDE DEF S
      <3>1. QED
        BY <2>1
    <2> HIDE DEF C
    <2>3. QED
      BY <2>2 DEF Larger
  <1>5. C \in [S \X (Nat \X Nat \X Nat) -> Nat]
    <2> HIDE DEF S
    <2>1. \A xv \in S \X (Nat \X Nat \X Nat) :
            /\ xv[2][1] \in Nat /\ xv[2][2] \in Nat /\ xv[2][3] \in Nat
      OBVIOUS
    <2>2. \A xv \in S \X (Nat \X Nat \X Nat) :
            (IF Same(expected, actual, xv[1]) THEN 1 + xv[2][3] ELSE Larger(xv[2][1], xv[2][2])) \in Nat
      BY <2>1 DEF Larger
    <2>3. QED
      BY <2>2
  <1> HIDE DEF C
  <1>6. Filling(n, m, Nat, 0, C)
    BY <1>2, <1>5 DEF Filling
  <1>7. PICK f \in [S -> Nat] : \A x \in S : f[x] = FillCell(n, m, 0, C, f, x)
    BY <1>6, FillingExists
  <1>8. \A x \in S : ~Edge(n, m, x) => Down(x) \in S /\ Across(x) \in S /\ Past(x) \in S
    BY <1>2, GridSteps
  <1> HIDE DEF n, m, S
  <1>9. \A x \in S : f[x] = Cell(f, x)
    <2> SUFFICES ASSUME NEW x \in S PROVE f[x] = Cell(f, x)
      OBVIOUS
    <2>1. CASE Edge(n, m, x)
      BY <1>3, <1>7, <2>1 DEF FillCell
    <2>2. CASE ~Edge(n, m, x)
      <3>1. f[Down(x)] \in Nat /\ f[Across(x)] \in Nat /\ f[Past(x)] \in Nat
        BY <1>8, <2>2
      <3>2. f[x] = C[<<x, <<f[Down(x)], f[Across(x)], f[Past(x)]>>>>]
        BY <1>7, <2>2 DEF FillCell
      <3>3. C[<<x, <<f[Down(x)], f[Across(x)], f[Past(x)]>>>>] =
              IF Same(expected, actual, x) THEN 1 + f[Past(x)] ELSE Larger(f[Down(x)], f[Across(x)])
        <4>1. PICK a \in Nat, b \in Nat, c \in Nat :
                a = f[Down(x)] /\ b = f[Across(x)] /\ c = f[Past(x)]
          BY <3>1
        <4>2. C[<<x, <<a, b, c>>>>] = IF Same(expected, actual, x) THEN 1 + c ELSE Larger(a, b)
          BY <1>4
        <4>3. QED
          BY <4>1, <4>2
      <3>4. QED
        BY <1>3, <2>2, <3>2, <3>3
    <2>3. QED
      BY <2>1, <2>2
  <1>10. f = [x \in S |-> Cell(f, x)]
    <2> HIDE DEF Cell
    <2>1. QED
      BY <1>9
  <1>11. table = [x \in S |-> Cell(table, x)]
    <2> HIDE DEF Cell
    <2>1. QED
      BY <1>2, <1>10
  <1> HIDE DEF table
  <1>12. \A x \in S : table[x] = Cell(table, x)
    <2> HIDE DEF Cell
    <2>1. QED
      BY <1>11
  <1>13. \A x \in S : table[x] \in Nat
    <2> DEFINE G == {x \in S : table[x] \in Nat}
    <2>1. \A x \in S : Edge(n, m, x) => x \in G
      BY <1>3, <1>12
    <2>2. \A x \in S : ~Edge(n, m, x) /\ Down(x) \in G /\ Across(x) \in G /\ Past(x) \in G => x \in G
      <3> SUFFICES ASSUME NEW x \in S, ~Edge(n, m, x), table[Down(x)] \in Nat,
                          table[Across(x)] \in Nat, table[Past(x)] \in Nat
                   PROVE  table[x] \in Nat
        OBVIOUS
      <3>1. table[x] = IF Same(expected, actual, x) THEN 1 + table[Past(x)]
                       ELSE Larger(table[Down(x)], table[Across(x)])
        BY <1>3, <1>12
      <3>2. QED
        BY <3>1 DEF Larger
    <2> HIDE DEF G
    <2>3. S \subseteq G
      BY <1>2, <2>1, <2>2, GridInduction DEF S
    <2>4. QED
      BY <2>3 DEF G
  <1>14. table \in [S -> Nat]
    <2> HIDE DEF Cell
    <2>1. QED
      BY <1>11, <1>12, <1>13
  <1>15. QED
    BY <1>1, <1>2, <1>12, <1>14 DEF TableFilled

(* The walk through it, cell by cell. *)
WalkFilled(walk, expected, actual) ==
  /\ walk \in [Cells(expected, actual) -> Seq(Nat \X Nat)]
  /\ \A x \in Cells(expected, actual) :
       walk[x] = IF Ended(expected, actual, x) THEN <<>>
                 ELSE IF Same(expected, actual, x) THEN <<x>> \o walk[Past(x)]
                 ELSE IF Table(expected, actual)[Down(x)] >= Table(expected, actual)[Across(x)]
                   THEN walk[Down(x)]
                 ELSE walk[Across(x)]

(* So is the walk through it. *)
LEMMA WalkUnfolds ==
  ASSUME NEW expected \in Seq(Tools), NEW actual \in Seq(ToolCall)
  PROVE  WalkFilled(Walk(expected, actual), expected, actual)
  <1> DEFINE n == Len(expected)
             m == Len(actual)
             S == Grid(n, m)
             V == Seq(Nat \X Nat)
             first(x) == Table(expected, actual)[Down(x)] >= Table(expected, actual)[Across(x)]
             Turn(x, a, b, c) == IF Same(expected, actual, x) THEN <<x>> \o c
                                 ELSE IF first(x) THEN a ELSE b
             C == [xv \in S \X (V \X V \X V) |-> Turn(xv[1], xv[2][1], xv[2][2], xv[2][3])]
             Cell(g, x) == IF Ended(expected, actual, x) THEN <<>>
                           ELSE Turn(x, g[Down(x)], g[Across(x)], g[Past(x)])
             walk == CHOOSE g : g = [x \in Cells(expected, actual) |->
                       IF Ended(expected, actual, x) THEN <<>>
                       ELSE IF Same(expected, actual, x) THEN <<x>> \o g[Past(x)]
                       ELSE IF first(x) THEN g[Down(x)]
                       ELSE g[Across(x)]]
  <1>1. Walk(expected, actual) = walk
    BY DEF Walk
  <1>2. n \in Nat /\ m \in Nat /\ Cells(expected, actual) = S
    BY DEF Cells, Grid
  <1>3. /\ \A x \in S : Ended(expected, actual, x) <=> Edge(n, m, x)
        /\ \A x \in S : x \in Nat \X Nat
    BY DEF Ended, Edge, Grid
  <1> HIDE DEF n, m, S, first
  <1>4. ASSUME NEW x \in S, NEW a \in V, NEW b \in V, NEW c \in V
        PROVE  Turn(x, a, b, c) \in V
    <2>1. <<x>> \o c \in V
      <3>1. PICK p \in Nat \X Nat : p = x
        BY <1>3
      <3>2. <<p>> \in Seq(Nat \X Nat)
        OBVIOUS
      <3>3. <<p>> \o c \in Seq(Nat \X Nat)
        BY <3>2
      <3>4. QED
        BY <3>1, <3>3
    <2>2. QED
      BY <2>1
  <1> HIDE DEF V, Turn
  <1>5. ASSUME NEW x \in S, NEW a \in V, NEW b \in V, NEW c \in V
        PROVE  C[<<x, <<a, b, c>>>>] = Turn(x, a, b, c)
    <2>1. <<x, <<a, b, c>>>> \in S \X (V \X V \X V)
      OBVIOUS
    <2>2. QED
      BY <2>1
  <1>6. C \in [S \X (V \X V \X V) -> V]
    <2>1. \A xv \in S \X (V \X V \X V) :
            xv[1] \in S /\ xv[2][1] \in V /\ xv[2][2] \in V /\ xv[2][3] \in V
      OBVIOUS
    <2>2. \A xv \in S \X (V \X V \X V) : Turn(xv[1], xv[2][1], xv[2][2], xv[2][3]) \in V
      BY <1>4, <2>1
    <2>3. QED
      BY <2>2
  <1> HIDE DEF C
  <1>7. Filling(n, m, V, <<>>, C)
    <2>1. <<>> \in V
      BY DEF V
    <2>2. QED
      BY <1>2, <1>6, <2>1 DEF Filling, S
  <1>8. PICK f \in [S -> V] : \A x \in S : f[x] = FillCell(n, m, <<>>, C, f, x)
    BY <1>7, FillingExists DEF S
  <1>9. \A x \in S : ~Edge(n, m, x) => Down(x) \in S /\ Across(x) \in S /\ Past(x) \in S
    BY <1>2, GridSteps DEF S
  <1>10. \A x \in S : f[x] = Cell(f, x)
    <2> SUFFICES ASSUME NEW x \in S PROVE f[x] = Cell(f, x)
      OBVIOUS
    <2>1. CASE Edge(n, m, x)
      BY <1>3, <1>8, <2>1 DEF FillCell
    <2>2. CASE ~Edge(n, m, x)
      <3>1. f[Down(x)] \in V /\ f[Across(x)] \in V /\ f[Past(x)] \in V
        BY <1>9, <2>2
      <3>2. f[x] = C[<<x, <<f[Down(x)], f[Across(x)], f[Past(x)]>>>>]
        BY <1>8, <2>2 DEF FillCell
      <3>3. C[<<x, <<f[Down(x)], f[Across(x)], f[Past(x)]>>>>] =
              Turn(x, f[Down(x)], f[Across(x)], f[Past(x)])
        BY <1>5, <3>1
      <3>4. QED
        BY <1>3, <2>2, <3>2, <3>3
    <2>3. QED
      BY <2>1, <2>2
  <1>11. \A g, x : Cell(g, x) = IF Ended(expected, actual, x) THEN <<>>
                                ELSE IF Same(expected, actual, x) THEN <<x>> \o g[Past(x)]
                                ELSE IF first(x) THEN g[Down(x)]
                                ELSE g[Across(x)]
    BY DEF Turn
  <1>12. walk = CHOOSE g : g = [x \in S |-> Cell(g, x)]
    BY <1>2 DEF Turn
  <1>13. f = [x \in S |-> Cell(f, x)]
    <2> HIDE DEF Cell
    <2>1. QED
      BY <1>10
  <1>14. walk = [x \in S |-> Cell(walk, x)]
    <2> HIDE DEF Cell, walk
    <2>1. QED
      BY <1>12, <1>13
  <1> HIDE DEF walk
  <1>15. \A x \in S : walk[x] = Cell(walk, x)
    <2> HIDE DEF Cell
    <2>1. QED
      BY <1>14
  <1>16. \A x \in S : walk[x] \in V
    <2> DEFINE G == {x \in S : walk[x] \in V}
    <2>1. \A x \in S : Edge(n, m, x) => x \in G
      <3>1. <<>> \in V
        BY DEF V
      <3>2. \A x \in S : Edge(n, m, x) => walk[x] = <<>>
        BY <1>3, <1>15
      <3>3. QED
        BY <3>1, <3>2
    <2>2. \A x \in S : ~Edge(n, m, x) /\ Down(x) \in G /\ Across(x) \in G /\ Past(x) \in G => x \in G
      <3> SUFFICES ASSUME NEW x \in S, ~Edge(n, m, x), walk[Down(x)] \in V,
                          walk[Across(x)] \in V, walk[Past(x)] \in V
                   PROVE  walk[x] \in V
        OBVIOUS
      <3>1. walk[x] = Turn(x, walk[Down(x)], walk[Across(x)], walk[Past(x)])
        BY <1>3, <1>15
      <3>2. QED
        BY <1>4, <3>1
    <2> HIDE DEF G
    <2>3. S \subseteq G
      BY <1>2, <2>1, <2>2, GridInduction DEF S
    <2>4. QED
      BY <2>3 DEF G
  <1>17. walk \in [S -> V]
    <2> HIDE DEF Cell
    <2>1. QED
      BY <1>14, <1>15, <1>16
  <1>18. QED
    <2>1. \A x \in S : walk[x] = IF Ended(expected, actual, x) THEN <<>>
                                ELSE IF Same(expected, actual, x) THEN <<x>> \o walk[Past(x)]
                                ELSE IF first(x) THEN walk[Down(x)]
                                ELSE walk[Across(x)]
      <3> HIDE DEF Cell
      <3>1. QED
        BY <1>11, <1>15
    <2> HIDE DEF Cell
    <2>2. QED
      BY <1>1, <1>2, <1>17, <2>1 DEF WalkFilled, V, first

-----------------------------------------------------------------------------
(* Pairs of equal names from a cell on, forward in both sequences. *)
Aligned(pairs, expected, actual, x) ==
  /\ \A k \in 1 .. Len(pairs) :
       /\ pairs[k][1] \in x[1] .. Len(expected) /\ pairs[k][2] \in x[2] .. Len(actual)
       /\ Same(expected, actual, pairs[k])
  /\ \A k, l \in 1 .. Len(pairs) : k < l =>
       pairs[k][1] < pairs[l][1] /\ pairs[k][2] < pairs[l][2]

(* What is aligned from a cell on is so from an earlier one. *)
LEMMA AlignedFromEarlier ==
  ASSUME NEW expected, NEW actual, NEW pairs, NEW x \in Nat \X Nat, NEW y \in Nat \X Nat,
         Len(expected) \in Nat, Len(actual) \in Nat,
         Aligned(pairs, expected, actual, y), x[1] <= y[1], x[2] <= y[2]
  PROVE  Aligned(pairs, expected, actual, x)
  <1>1. /\ y[1] .. Len(expected) \subseteq x[1] .. Len(expected)
        /\ y[2] .. Len(actual) \subseteq x[2] .. Len(actual)
    <2>1. x[1] \in Nat /\ y[1] \in Nat /\ x[2] \in Nat /\ y[2] \in Nat
      OBVIOUS
    <2>2. \A a, b, c \in Nat : a <= b => b .. c \subseteq a .. c
      OBVIOUS
    <2>3. QED
      BY <2>1, <2>2
  <1>2. QED
    BY <1>1 DEF Aligned

(* A pair of equal names in front of an alignment makes a longer one. *)
LEMMA AlignedByOneMore ==
  ASSUME NEW expected, NEW actual, NEW x \in Nat \X Nat, NEW pairs \in Seq(Nat \X Nat),
         Len(expected) \in Nat, Len(actual) \in Nat,
         x[1] <= Len(expected), x[2] <= Len(actual), Same(expected, actual, x),
         Aligned(pairs, expected, actual, Past(x))
  PROVE  /\ Aligned(<<x>> \o pairs, expected, actual, x)
         /\ Len(<<x>> \o pairs) = 1 + Len(pairs)
  <1> DEFINE longer == <<x>> \o pairs
  <1>1. Len(pairs) \in Nat /\ x[1] \in Nat /\ x[2] \in Nat /\ Past(x) = <<x[1] + 1, x[2] + 1>>
    BY DEF Past
  <1>2. /\ Len(longer) = 1 + Len(pairs) /\ longer[1] = x
        /\ \A k \in 2 .. 1 + Len(pairs) : longer[k] = pairs[k - 1]
    <2>1. <<x>> \in Seq(Nat \X Nat) /\ Len(<<x>>) = 1 /\ <<x>>[1] = x
      OBVIOUS
    <2>2. QED
      BY <2>1
  <1> HIDE DEF longer
  <1>3. /\ \A k \in 1 .. Len(pairs) :
             /\ pairs[k][1] \in x[1] + 1 .. Len(expected) /\ pairs[k][2] \in x[2] + 1 .. Len(actual)
             /\ Same(expected, actual, pairs[k])
        /\ \A k, l \in 1 .. Len(pairs) : k < l =>
             pairs[k][1] < pairs[l][1] /\ pairs[k][2] < pairs[l][2]
    BY <1>1 DEF Aligned
  <1>4. \A k \in 1 .. Len(longer) : k = 1 \/ (k \in 2 .. 1 + Len(pairs) /\ k - 1 \in 1 .. Len(pairs))
    BY <1>1, <1>2
  <1>5. ASSUME NEW k \in 1 .. Len(longer)
        PROVE  /\ longer[k][1] \in x[1] .. Len(expected) /\ longer[k][2] \in x[2] .. Len(actual)
               /\ Same(expected, actual, longer[k])
    <2>1. CASE k = 1
      BY <1>1, <1>2, <2>1
    <2>2. CASE k # 1
      <3>1. longer[k] = pairs[k - 1] /\ k - 1 \in 1 .. Len(pairs)
        BY <1>2, <1>4, <2>2
      <3>2. /\ longer[k][1] \in x[1] + 1 .. Len(expected)
            /\ longer[k][2] \in x[2] + 1 .. Len(actual)
            /\ Same(expected, actual, longer[k])
        BY <1>3, <3>1
      <3>3. QED
        BY <1>1, <3>2
    <2>3. QED
      BY <2>1, <2>2
  <1>6. ASSUME NEW k \in 1 .. Len(longer), NEW l \in 1 .. Len(longer), k < l
        PROVE  longer[k][1] < longer[l][1] /\ longer[k][2] < longer[l][2]
    <2>1. longer[l] = pairs[l - 1] /\ l - 1 \in 1 .. Len(pairs)
      <3>1. l # 1
        BY <1>6
      <3>2. QED
        BY <1>2, <1>4, <3>1
    <2>2. CASE k = 1
      <3>1. /\ pairs[l - 1][1] \in x[1] + 1 .. Len(expected)
            /\ pairs[l - 1][2] \in x[2] + 1 .. Len(actual)
        BY <1>3, <2>1
      <3>2. QED
        BY <1>1, <1>2, <2>1, <2>2, <3>1
    <2>3. CASE k # 1
      <3>1. longer[k] = pairs[k - 1] /\ k - 1 \in 1 .. Len(pairs)
        BY <1>2, <1>4, <2>3
      <3>2. k - 1 < l - 1
        BY <1>6
      <3>3. QED
        BY <1>3, <2>1, <3>1, <3>2
    <2>4. QED
      BY <2>2, <2>3
  <1>7. QED
    BY <1>2, <1>5, <1>6 DEF longer, Aligned

(* The walk collects such pairs, as many as the table says. *)
LEMMA WalkAligns ==
  ASSUME NEW expected \in Seq(Tools), NEW actual \in Seq(ToolCall)
  PROVE  \A x \in Cells(expected, actual) :
           /\ Aligned(Walk(expected, actual)[x], expected, actual, x)
           /\ Len(Walk(expected, actual)[x]) = Table(expected, actual)[x]
  <1> DEFINE n == Len(expected)
             m == Len(actual)
             S == Cells(expected, actual)
             walk == Walk(expected, actual)
             table == Table(expected, actual)
             G == {x \in S : Aligned(walk[x], expected, actual, x) /\ Len(walk[x]) = table[x]}
  <1>1. n \in Nat /\ m \in Nat /\ S = Grid(n, m) /\ S \subseteq Nat \X Nat
    BY DEF Cells, Grid
  <1>2. /\ \A x \in S : Ended(expected, actual, x) <=> Edge(n, m, x)
        /\ \A x \in S : Ended(expected, actual, x) <=> x[1] > n \/ x[2] > m
    BY DEF Ended, Edge
  <1>3. /\ walk \in [S -> Seq(Nat \X Nat)]
        /\ \A x \in S : walk[x] = IF Ended(expected, actual, x) THEN <<>>
                 ELSE IF Same(expected, actual, x) THEN <<x>> \o walk[Past(x)]
                 ELSE IF table[Down(x)] >= table[Across(x)] THEN walk[Down(x)]
                 ELSE walk[Across(x)]
    BY WalkUnfolds DEF WalkFilled
  <1>4. /\ table \in [S -> Nat]
        /\ \A x \in S : table[x] = IF Ended(expected, actual, x) THEN 0
                  ELSE IF Same(expected, actual, x) THEN 1 + table[Past(x)]
                  ELSE Larger(table[Down(x)], table[Across(x)])
    BY TableUnfolds DEF TableFilled
  <1>5. \A x \in S : ~Ended(expected, actual, x) => Down(x) \in S /\ Across(x) \in S /\ Past(x) \in S
    BY <1>1, <1>2, GridSteps
  <1> HIDE DEF n, m, S, walk, table
  <1>6. \A x \in S : Edge(n, m, x) => x \in G
    <2> SUFFICES ASSUME NEW x \in S, Ended(expected, actual, x) PROVE x \in G
      BY <1>2
    <2>1. walk[x] = <<>> /\ table[x] = 0
      BY <1>3, <1>4
    <2>2. Len(<<>>) = 0
      OBVIOUS
    <2>3. Aligned(<<>>, expected, actual, x)
      BY DEF Aligned
    <2>4. QED
      BY <2>1, <2>2, <2>3
  <1>7. ASSUME NEW x \in S, ~Ended(expected, actual, x), Down(x) \in G, Across(x) \in G, Past(x) \in G
        PROVE  x \in G
    <2>1. /\ Aligned(walk[Down(x)], expected, actual, Down(x)) /\ Len(walk[Down(x)]) = table[Down(x)]
          /\ Aligned(walk[Across(x)], expected, actual, Across(x))
          /\ Len(walk[Across(x)]) = table[Across(x)]
          /\ Aligned(walk[Past(x)], expected, actual, Past(x)) /\ Len(walk[Past(x)]) = table[Past(x)]
      BY <1>7
    <2>2. /\ x \in Nat \X Nat /\ Down(x) \in Nat \X Nat /\ Across(x) \in Nat \X Nat
          /\ x[1] <= Down(x)[1] /\ x[2] <= Down(x)[2]
          /\ x[1] <= Across(x)[1] /\ x[2] <= Across(x)[2]
      BY <1>1 DEF Down, Across
    <2>3. CASE Same(expected, actual, x)
      <3>1. walk[x] = <<x>> \o walk[Past(x)] /\ table[x] = 1 + table[Past(x)]
        BY <1>3, <1>4, <1>7, <2>3
      <3>2. x[1] <= Len(expected) /\ x[2] <= Len(actual)
        BY <1>1, <1>2, <1>7, <2>2 DEF n, m
      <3>3. walk[Past(x)] \in Seq(Nat \X Nat)
        BY <1>3, <1>5, <1>7
      <3>4. PICK pairs \in Seq(Nat \X Nat) : pairs = walk[Past(x)]
        BY <3>3
      <3>5. Len(expected) \in Nat /\ Len(actual) \in Nat
        OBVIOUS
      <3>6. /\ Aligned(<<x>> \o pairs, expected, actual, x)
            /\ Len(<<x>> \o pairs) = 1 + Len(pairs)
        BY <2>1, <2>2, <2>3, <3>2, <3>4, <3>5, AlignedByOneMore
      <3>7. QED
        BY <2>1, <3>1, <3>4, <3>6
    <2>4. CASE ~Same(expected, actual, x)
      <3>1. Len(expected) \in Nat /\ Len(actual) \in Nat
        OBVIOUS
      <3>2. /\ Aligned(walk[Down(x)], expected, actual, x)
            /\ Aligned(walk[Across(x)], expected, actual, x)
        BY <2>1, <2>2, <3>1, AlignedFromEarlier
      <3>3. /\ walk[x] = IF table[Down(x)] >= table[Across(x)] THEN walk[Down(x)] ELSE walk[Across(x)]
            /\ table[x] = Larger(table[Down(x)], table[Across(x)])
        BY <1>3, <1>4, <1>7, <2>4
      <3>4. QED
        BY <2>1, <3>2, <3>3 DEF Larger
    <2>5. QED
      BY <2>3, <2>4
  <1> HIDE DEF G
  <1>8. Grid(n, m) \subseteq G
    BY <1>1, <1>2, <1>6, <1>7, GridInduction
  <1>9. QED
    BY <1>1, <1>8 DEF G, S, walk, table

(* A way to find the names at the positions p of the route, in order, in the run. *)
Embeds(p, at, expected, actual, x) ==
  /\ p \subseteq x[1] .. Len(expected)
  /\ \A h \in p : at[h] \in x[2] .. Len(actual) /\ expected[h] = actual[at[h]].tool
  /\ \A h, g \in p : g < h => at[g] < at[h]

(* No such way finds more of them than the table says. *)
LEMMA NoneFindsMore ==
  ASSUME NEW expected \in Seq(Tools), NEW actual \in Seq(ToolCall)
  PROVE  \A x \in Cells(expected, actual) : \A p, at :
           Embeds(p, at, expected, actual, x) =>
             IsFiniteSet(p) /\ Cardinality(p) \in Nat
             /\ Cardinality(p) <= Table(expected, actual)[x]
  <1> DEFINE n == Len(expected)
             m == Len(actual)
             S == Cells(expected, actual)
             table == Table(expected, actual)
             Bounded(x) == \A p, at : Embeds(p, at, expected, actual, x) => Cardinality(p) <= table[x]
             G == {x \in S : Bounded(x)}
  <1>1. /\ n \in Nat /\ m \in Nat /\ S = Grid(n, m)
        /\ \A x \in S : x[1] \in Nat /\ x[2] \in Nat /\ x[1] >= 1 /\ x[2] >= 1
    BY DEF Cells, Grid
  <1>2. /\ \A x \in S : Ended(expected, actual, x) <=> Edge(n, m, x)
        /\ \A x \in S : Ended(expected, actual, x) <=> x[1] > n \/ x[2] > m
    BY DEF Ended, Edge
  <1>3. /\ table \in [S -> Nat]
        /\ \A x \in S : table[x] = IF Ended(expected, actual, x) THEN 0
                  ELSE IF Same(expected, actual, x) THEN 1 + table[Past(x)]
                  ELSE Larger(table[Down(x)], table[Across(x)])
    BY TableUnfolds DEF TableFilled
  <1>4. \A x \in S : ~Ended(expected, actual, x) => Down(x) \in S /\ Across(x) \in S /\ Past(x) \in S
    BY <1>1, <1>2, GridSteps
  <1>5. ASSUME NEW x \in S, NEW p, NEW at, Embeds(p, at, expected, actual, x)
        PROVE  /\ p \subseteq x[1] .. n /\ IsFiniteSet(p) /\ Cardinality(p) \in Nat
               /\ \A h \in p : /\ at[h] \in x[2] .. m /\ expected[h] = actual[at[h]].tool
                               /\ h \in Nat /\ at[h] \in Nat
               /\ \A h, g \in p : g < h => at[g] < at[h]
    <2>1. p \subseteq x[1] .. n
      BY <1>5 DEF Embeds
    <2>2. IsFiniteSet(p) /\ Cardinality(p) \in Nat
      <3>1. x[1] \in Int /\ n \in Int
        BY <1>1
      <3> HIDE DEF n
      <3>2. IsFiniteSet(x[1] .. n)
        BY <3>1, FS_Interval
      <3>3. IsFiniteSet(p)
        BY <2>1, <3>2, FS_Subset
      <3>4. QED
        BY <3>3, FS_CardinalityType
    <2>3. QED
      BY <1>1, <1>5, <2>1, <2>2 DEF Embeds
  <1> HIDE DEF n, m, S, table, Bounded
  <1>6. \A x \in S : Edge(n, m, x) => x \in G
    <2> SUFFICES ASSUME NEW x \in S, x[1] > n \/ x[2] > m, NEW p, NEW at,
                        Embeds(p, at, expected, actual, x)
                 PROVE  Cardinality(p) <= table[x]
      BY <1>2 DEF Bounded
    <2>1. p = {}
      BY <1>1, <1>5
    <2>2. table[x] = 0
      BY <1>2, <1>3
    <2>3. QED
      BY <2>1, <2>2, FS_EmptySet
  <1>7. ASSUME NEW x \in S, ~Ended(expected, actual, x), Down(x) \in G, Across(x) \in G, Past(x) \in G
        PROVE  x \in G
    <2> SUFFICES ASSUME NEW p, NEW at, Embeds(p, at, expected, actual, x)
                 PROVE  Cardinality(p) <= table[x]
      BY DEF Bounded
    <2>1. /\ p \subseteq x[1] .. n /\ IsFiniteSet(p) /\ Cardinality(p) \in Nat
          /\ \A h \in p : /\ at[h] \in x[2] .. m /\ expected[h] = actual[at[h]].tool
                          /\ h \in Nat /\ at[h] \in Nat
          /\ \A h, g \in p : g < h => at[g] < at[h]
      BY <1>5
    <2>2. /\ x[1] \in Nat /\ x[2] \in Nat
          /\ Down(x)[1] = x[1] + 1 /\ Down(x)[2] = x[2]
          /\ Across(x)[1] = x[1] /\ Across(x)[2] = x[2] + 1
          /\ Past(x)[1] = x[1] + 1 /\ Past(x)[2] = x[2] + 1
      BY <1>1 DEF Down, Across, Past
    <2>3. /\ Down(x) \in S /\ Across(x) \in S /\ Past(x) \in S
          /\ table[Down(x)] \in Nat /\ table[Across(x)] \in Nat /\ table[Past(x)] \in Nat
      BY <1>3, <1>4, <1>7
    <2>4. /\ \A q, by : Embeds(q, by, expected, actual, Down(x)) => Cardinality(q) <= table[Down(x)]
          /\ \A q, by : Embeds(q, by, expected, actual, Across(x)) => Cardinality(q) <= table[Across(x)]
          /\ \A q, by : Embeds(q, by, expected, actual, Past(x)) => Cardinality(q) <= table[Past(x)]
      BY <1>7 DEF Bounded
    <2>5. CASE Same(expected, actual, x)
      <3>1. table[x] = 1 + table[Past(x)]
        BY <1>3, <1>7, <2>5
      <3>2. \E y : \A h \in p \ {y} : h > x[1] /\ at[h] > x[2]
        <4>1. CASE x[1] \in p
          <5>1. \A h \in p \ {x[1]} : h > x[1] /\ at[h] > x[2]
            <6> SUFFICES ASSUME NEW h \in p, h # x[1] PROVE h > x[1] /\ at[h] > x[2]
              OBVIOUS
            <6>1. h > x[1]
              BY <2>1, <2>2
            <6>2. at[x[1]] < at[h] /\ at[x[1]] \in x[2] .. m /\ at[h] \in Nat
              BY <2>1, <4>1, <6>1
            <6>3. QED
              BY <2>2, <6>1, <6>2
          <5>2. QED
            BY <5>1
        <4>2. CASE x[1] \notin p
          <5>1. \A h \in p : h > x[1]
            BY <2>1, <2>2, <4>2
          <5>2. CASE \E y \in p : at[y] = x[2]
            <6>1. PICK y \in p : at[y] = x[2]
              BY <5>2
            <6>2. \A h \in p \ {y} : at[h] > x[2]
              <7> SUFFICES ASSUME NEW h \in p, h # y PROVE at[h] > x[2]
                OBVIOUS
              <7>1. h < y \/ y < h
                BY <2>1
              <7>2. at[h] # at[y] /\ at[h] \in x[2] .. m
                BY <2>1, <7>1
              <7>3. QED
                BY <2>2, <6>1, <7>2
            <6>3. QED
              BY <5>1, <6>2
          <5>3. CASE ~\E y \in p : at[y] = x[2]
            <6>1. \A h \in p : at[h] > x[2]
              BY <2>1, <2>2, <5>3
            <6>2. QED
              BY <5>1, <6>1
          <5>4. QED
            BY <5>2, <5>3
        <4>3. QED
          BY <4>1, <4>2
      <3>3. PICK y : \A h \in p \ {y} : h > x[1] /\ at[h] > x[2]
        BY <3>2
      <3> DEFINE q == p \ {y}
      <3>4. Embeds(q, at, expected, actual, Past(x))
        <4>1. \A h \in q : /\ h \in x[1] + 1 .. n /\ at[h] \in x[2] + 1 .. m
                           /\ expected[h] = actual[at[h]].tool
          BY <1>1, <2>1, <2>2, <3>3
        <4>2. QED
          BY <2>1, <2>2, <4>1 DEF Embeds, n, m
      <3>5. Cardinality(q) <= table[Past(x)]
        BY <2>4, <3>4
      <3>6. Cardinality(p) <= 1 + Cardinality(q) /\ Cardinality(q) \in Nat
        <4>1. /\ IsFiniteSet(q)
              /\ Cardinality(q) = IF y \in p THEN Cardinality(p) - 1 ELSE Cardinality(p)
          BY <2>1, FS_RemoveElement
        <4>2. Cardinality(q) \in Nat
          BY <4>1, FS_CardinalityType
        <4> HIDE DEF q
        <4>3. QED
          BY <2>1, <4>1, <4>2
      <3> HIDE DEF q
      <3>7. QED
        BY <2>1, <2>3, <3>1, <3>5, <3>6
    <2>6. CASE ~Same(expected, actual, x)
      <3>1. table[x] = Larger(table[Down(x)], table[Across(x)])
        BY <1>3, <1>7, <2>6
      <3>2. CASE x[1] \in p
        <4>1. at[x[1]] # x[2]
          BY <2>1, <2>6, <3>2 DEF Same
        <4>2. \A h \in p : at[h] \in x[2] + 1 .. m
          <5> SUFFICES ASSUME NEW h \in p PROVE at[h] \in x[2] + 1 .. m
            OBVIOUS
          <5>1. at[x[1]] \in x[2] .. m /\ at[x[1]] > x[2] /\ at[h] \in x[2] .. m
            BY <1>1, <2>1, <2>2, <3>2, <4>1
          <5>2. h = x[1] \/ x[1] < h
            BY <2>1, <2>2
          <5>3. h = x[1] \/ at[x[1]] < at[h]
            BY <2>1, <3>2, <5>2
          <5>4. QED
            BY <1>1, <2>2, <5>1, <5>3
        <4>3. Embeds(p, at, expected, actual, Across(x))
          BY <2>1, <2>2, <4>2 DEF Embeds, n, m
        <4>4. Cardinality(p) <= table[Across(x)]
          BY <2>4, <4>3
        <4>5. QED
          BY <2>1, <2>3, <3>1, <4>4 DEF Larger
      <3>3. CASE x[1] \notin p
        <4>1. p \subseteq x[1] + 1 .. n
          BY <1>1, <2>1, <2>2, <3>3
        <4>2. Embeds(p, at, expected, actual, Down(x))
          BY <2>1, <2>2, <4>1 DEF Embeds, n, m
        <4>3. Cardinality(p) <= table[Down(x)]
          BY <2>4, <4>2
        <4>4. QED
          BY <2>1, <2>3, <3>1, <4>3 DEF Larger
      <3>4. QED
        BY <3>2, <3>3
    <2>7. QED
      BY <2>5, <2>6
  <1> HIDE DEF G
  <1>8. Grid(n, m) \subseteq G
    BY <1>1, <1>2, <1>6, <1>7, GridInduction
  <1>9. ASSUME NEW x \in S, NEW p, NEW at, Embeds(p, at, expected, actual, x)
        PROVE  IsFiniteSet(p) /\ Cardinality(p) \in Nat /\ Cardinality(p) <= table[x]
    <2>1. Bounded(x)
      BY <1>1, <1>8 DEF G
    <2>2. QED
      BY <1>5, <1>9, <2>1 DEF Bounded
  <1>10. QED
    BY <1>9 DEF S, table

-----------------------------------------------------------------------------
(* What align reports is an alignment, and no embedding has more calls. *)
LEMMA AlignAligns ==
  ASSUME NEW expected \in Seq(Tools), NEW actual \in Seq(ToolCall)
  PROVE  /\ Align(expected, actual) \in Seq(Nat \X Nat)
         /\ Aligned(Align(expected, actual), expected, actual, <<1, 1>>)
         /\ \A p, at : Embeds(p, at, expected, actual, <<1, 1>>) =>
              Cardinality(p) \in Nat /\ Cardinality(p) <= Len(Align(expected, actual))
  <1>1. <<1, 1>> \in Cells(expected, actual)
    BY DEF Cells
  <1>2. Align(expected, actual) = Walk(expected, actual)[<<1, 1>>]
    BY DEF Align
  <1>3. Align(expected, actual) \in Seq(Nat \X Nat)
    BY <1>1, <1>2, WalkUnfolds DEF WalkFilled
  <1>4. /\ Aligned(Align(expected, actual), expected, actual, <<1, 1>>)
        /\ Len(Align(expected, actual)) = Table(expected, actual)[<<1, 1>>]
    BY <1>1, <1>2, WalkAligns
  <1>5. \A p, at : Embeds(p, at, expected, actual, <<1, 1>>) =>
          Cardinality(p) \in Nat /\ Cardinality(p) <= Table(expected, actual)[<<1, 1>>]
    BY <1>1, NoneFindsMore
  <1>6. QED
    BY <1>3, <1>4, <1>5

(* No alignment is longer than the one reported. *)
LEMMA NoneIsLonger ==
  ASSUME NEW expected \in Seq(Tools), NEW actual \in Seq(ToolCall),
         NEW p \in SUBSET DOMAIN expected, Occurs(p, expected, actual, DOMAIN actual)
  PROVE  Cardinality(p) \in Nat /\ Cardinality(p) <= Len(Align(expected, actual))
  <1>1. PICK at \in [p -> DOMAIN actual] :
          \A i \in p : /\ actual[at[i]].tool = expected[i]
                       /\ \A h \in p : h < i => at[h] < at[i]
    BY DEF Occurs
  <1>2. <<1, 1>>[1] = 1 /\ <<1, 1>>[2] = 1 /\ DOMAIN expected = 1 .. Len(expected)
        /\ DOMAIN actual = 1 .. Len(actual)
    OBVIOUS
  <1>3. \A i \in p : at[i] \in 1 .. Len(actual)
    BY <1>1, <1>2
  <1>4. Embeds(p, at, expected, actual, <<1, 1>>)
    BY <1>1, <1>2, <1>3 DEF Embeds
  <1>5. QED
    BY <1>4, AlignAligns

(* The pairs of an alignment are as many as its length. *)
LEMMA PairsCounted ==
  ASSUME NEW expected \in Seq(Tools), NEW actual \in Seq(ToolCall)
  PROVE  LET pairs == Align(expected, actual)
         IN  /\ IsFiniteSet(ToSet(pairs)) /\ Cardinality(ToSet(pairs)) = Len(pairs)
             /\ \A p \in ToSet(pairs) : p[2] \in DOMAIN actual
  <1> DEFINE pairs == Align(expected, actual)
             T == ToSet(pairs)
             f == [k \in 1 .. Len(pairs) |-> pairs[k]]
  <1>1. /\ pairs \in Seq(Nat \X Nat) /\ Aligned(pairs, expected, actual, <<1, 1>>)
    BY AlignAligns
  <1> HIDE DEF pairs
  <1>2. /\ Len(pairs) \in Nat /\ DOMAIN pairs = 1 .. Len(pairs)
        /\ \A k \in 1 .. Len(pairs) : pairs[k][1] \in Nat /\ pairs[k] \in T
        /\ \A p \in T : \E k \in 1 .. Len(pairs) : pairs[k] = p
    BY <1>1 DEF ToSet
  <1>3. /\ \A k, l \in 1 .. Len(pairs) : k < l => pairs[k][1] < pairs[l][1]
        /\ \A k \in 1 .. Len(pairs) : pairs[k][2] \in 1 .. Len(actual)
    BY <1>1 DEF Aligned
  <1>4. \A k, l \in 1 .. Len(pairs) : pairs[k] = pairs[l] => k = l
    <2> SUFFICES ASSUME NEW k \in 1 .. Len(pairs), NEW l \in 1 .. Len(pairs), k # l,
                        pairs[k] = pairs[l]
                 PROVE  FALSE
      OBVIOUS
    <2>1. k < l \/ l < k
      BY <1>2
    <2>2. pairs[k][1] < pairs[l][1] \/ pairs[l][1] < pairs[k][1]
      BY <1>3, <2>1
    <2>3. QED
      BY <1>2, <2>2
  <1> HIDE DEF T
  <1>5. f \in [1 .. Len(pairs) -> T]
    BY <1>2
  <1>6. \A k \in 1 .. Len(pairs) : f[k] = pairs[k]
    OBVIOUS
  <1> HIDE DEF f
  <1>7. f \in Surjection(1 .. Len(pairs), T)
    BY <1>2, <1>5, <1>6, Fun_IsSurj
  <1>8. f \in Injection(1 .. Len(pairs), T)
    BY <1>4, <1>5, <1>6, Fun_IsInj
  <1>9. IsFiniteSet(1 .. Len(pairs)) /\ Cardinality(1 .. Len(pairs)) = Len(pairs)
    BY <1>2, UpTo
  <1>10. IsFiniteSet(T) /\ Cardinality(T) = Len(pairs)
    BY <1>7, <1>8, <1>9, FS_Surjection
  <1>11. \A p \in T : p[2] \in DOMAIN actual
    BY <1>2, <1>3
  <1>12. QED
    BY <1>10, <1>11 DEF pairs, T

(* A fraction is one when the count is the length. *)
LEMMA PartOfUnit ==
  ASSUME NEW length \in Nat \ {0}, Unit % length = 0, NEW count \in Nat
  PROVE  /\ Part(count, length) \in Nat
         /\ Part(length, length) = Unit
         /\ Part(count, length) >= Unit => count >= length
  <1>1. Unit \in Nat \ {0}
    BY TrajectoryAssumption
  <1> DEFINE q == Unit \div length
  <1>2. Unit = length * q /\ q \in Nat \ {0}
    BY <1>1
  <1> HIDE DEF q
  <1>3. count * q \in Nat /\ (count < length => count * q < length * q)
    BY <1>2
  <1>4. Part(count, length) = count * q /\ Part(length, length) = length * q
    BY DEF Part, q
  <1>5. QED
    BY <1>1, <1>2, <1>3, <1>4

(* An alignment takes every expected call once at most. *)
LEMMA NoMoreThanAsked ==
  ASSUME NEW expected \in Seq(Tools), NEW actual \in Seq(ToolCall)
  PROVE  Len(Align(expected, actual)) <= Len(expected)
  <1> DEFINE pairs == Align(expected, actual)
             n == Len(expected)
             g == [k \in 1 .. Len(pairs) |-> pairs[k][1]]
  <1>1. /\ pairs \in Seq(Nat \X Nat) /\ Aligned(pairs, expected, actual, <<1, 1>>)
    BY AlignAligns
  <1>2. n \in Nat /\ Len(pairs) \in Nat
    BY <1>1
  <1> HIDE DEF pairs
  <1>3. /\ \A k \in 1 .. Len(pairs) : pairs[k][1] \in 1 .. n
        /\ \A k, l \in 1 .. Len(pairs) : k < l => pairs[k][1] < pairs[l][1]
    BY <1>1 DEF Aligned
  <1>4. Len(pairs) <= n
    <2>1. g \in [1 .. Len(pairs) -> 1 .. n]
      BY <1>3
    <2>2. \A k, l \in 1 .. Len(pairs) : g[k] = g[l] => k = l
      <3> SUFFICES ASSUME NEW k \in 1 .. Len(pairs), NEW l \in 1 .. Len(pairs), k # l, g[k] = g[l]
                   PROVE  FALSE
        OBVIOUS
      <3>1. k < l \/ l < k
        BY <1>2
      <3>2. /\ g[k] = pairs[k][1] /\ g[l] = pairs[l][1]
            /\ pairs[k][1] \in 1 .. n /\ pairs[l][1] \in 1 .. n
        BY <1>3
      <3>3. pairs[k][1] < pairs[l][1] \/ pairs[l][1] < pairs[k][1]
        BY <1>3, <3>1
      <3>4. QED
        BY <3>2, <3>3
    <2> HIDE DEF g, n
    <2>3. g \in Injection(1 .. Len(pairs), 1 .. n)
      BY <2>1, <2>2, Fun_IsInj
    <2>4. IsFiniteSet(1 .. n) /\ Cardinality(1 .. n) = n /\ Cardinality(1 .. Len(pairs)) = Len(pairs)
      BY <1>2, UpTo
    <2>5. QED
      BY <2>3, <2>4, FS_Injection
  <1>5. QED
    BY <1>4 DEF pairs

(* Every expected call was made: the alignment is the whole route. *)
LEMMA WholeRouteAligned ==
  ASSUME NEW expected \in Seq(Tools), NEW actual \in Seq(ToolCall),
         expected # <<>> => Unit % Len(expected) = 0,
         TrajectoryRecall(expected, Align(expected, actual)) = Unit
  PROVE  /\ Len(Align(expected, actual)) = Len(expected)
         /\ \A k \in 1 .. Len(expected) : Align(expected, actual)[k][1] = k
  <1> DEFINE pairs == Align(expected, actual)
             n == Len(expected)
             g == [k \in 1 .. Len(pairs) |-> pairs[k][1]]
  <1>1. /\ pairs \in Seq(Nat \X Nat) /\ Aligned(pairs, expected, actual, <<1, 1>>)
    BY AlignAligns
  <1>2. n \in Nat /\ Len(pairs) \in Nat /\ (expected # <<>> <=> n # 0)
    BY <1>1
  <1> HIDE DEF pairs
  <1>3. /\ \A k \in 1 .. Len(pairs) : pairs[k][1] \in 1 .. n
        /\ \A k, l \in 1 .. Len(pairs) : k < l => pairs[k][1] < pairs[l][1]
    BY <1>1 DEF Aligned
  <1>4. Len(pairs) <= n
    BY NoMoreThanAsked DEF pairs, n
  <1>5. Len(pairs) >= n
    <2>1. CASE n = 0
      BY <1>2, <2>1
    <2>2. CASE n # 0
      <3>1. Part(Len(pairs), n) = Unit
        BY <1>2, <2>2 DEF TrajectoryRecall, pairs
      <3>2. Unit \in Nat /\ Unit % n = 0
        BY <1>2, <2>2, TrajectoryAssumption
      <3> HIDE DEF n
      <3>3. n \in Nat \ {0}
        BY <1>2, <2>2
      <3>4. QED
        BY <1>2, <3>1, <3>2, <3>3, PartOfUnit
    <2>3. QED
      BY <2>1, <2>2
  <1>6. Len(pairs) = n
    BY <1>2, <1>4, <1>5
  <1>7. \A k \in 1 .. n : pairs[k][1] = k
    <2>1. g \in [1 .. n -> 1 .. n] /\ \A k, l \in 1 .. n : k < l => g[k] < g[l]
      BY <1>3, <1>6
    <2>2. \A k \in 1 .. n : g[k] = pairs[k][1]
      BY <1>6
    <2> HIDE DEF g, n
    <2>3. \A k \in 1 .. n : g[k] = k
      BY <1>2, <2>1, GrowingIsIdentity
    <2>4. QED
      BY <2>2, <2>3
  <1>8. QED
    BY <1>6, <1>7 DEF pairs

(* Where the run ended and what it says, as the property puts it. *)
LEMMA EarnedByMeeting ==
  ASSUME NEW s, NEW route \in Seq(Tools), NEW actual \in Seq(ToolCall), NEW stopped, NEW fits,
         route # <<>> => Unit % Len(route) = 0,
         Meets(ScoreAgainst(s, route, actual, stopped, fits))
  PROVE  /\ GoalCompletion(s, actual, stopped, fits)
         /\ Occurs(DOMAIN route, route, actual, {j \in DOMAIN actual : actual[j].right})
  <1> DEFINE pairs == Align(route, actual)
             n == Len(route)
             right == {j \in DOMAIN actual : actual[j].right}
             fitting == {p \in ToSet(pairs) : actual[p[2]].right}
             at == [k \in 1 .. n |-> pairs[k][2]]
  <1>1. /\ GoalCompletion(s, actual, stopped, fits)
        /\ TrajectoryRecall(route, pairs) = Unit
        /\ Parameters(pairs, actual) >= Unit
    BY DEF Meets, ScoreAgainst
  <1>2. /\ Len(pairs) = n /\ \A k \in 1 .. n : pairs[k][1] = k
    BY <1>1, WholeRouteAligned
  <1>3. /\ pairs \in Seq(Nat \X Nat) /\ Aligned(pairs, route, actual, <<1, 1>>)
    BY AlignAligns
  <1>4. /\ IsFiniteSet(ToSet(pairs)) /\ Cardinality(ToSet(pairs)) = Len(pairs)
        /\ \A p \in ToSet(pairs) : p[2] \in DOMAIN actual
    BY PairsCounted
  <1>5. n \in Nat /\ DOMAIN route = 1 .. n /\ (route # <<>> <=> n # 0)
    OBVIOUS
  <1> HIDE DEF pairs, n
  <1>6. /\ \A k \in 1 .. n : pairs[k][2] \in DOMAIN actual /\ pairs[k] \in ToSet(pairs)
                             /\ route[k] = actual[pairs[k][2]].tool
        /\ \A k, l \in 1 .. n : k < l => pairs[k][2] < pairs[l][2]
    <2>1. \A k \in 1 .. n : pairs[k] \in ToSet(pairs)
      BY <1>2, <1>3 DEF ToSet
    <2>2. \A k \in 1 .. n : Same(route, actual, pairs[k])
      BY <1>2, <1>3 DEF Aligned
    <2>3. \A k \in 1 .. n : pairs[k][2] \in DOMAIN actual
      BY <1>4, <2>1
    <2>4. \A k, l \in 1 .. n : k < l => pairs[k][2] < pairs[l][2]
      BY <1>2, <1>3 DEF Aligned
    <2>5. QED
      BY <1>2, <2>1, <2>2, <2>3, <2>4 DEF Same
  <1>7. \A k \in 1 .. n : pairs[k][2] \in right
    <2>1. CASE n = 0
      BY <2>1
    <2>2. CASE n # 0
      <3>1. pairs # <<>> /\ n \in Nat \ {0} /\ Unit % n = 0
        BY <1>2, <1>3, <1>5, <2>2 DEF n
      <3>2. Part(Cardinality(fitting), n) >= Unit
        BY <1>1, <1>2, <3>1 DEF Parameters
      <3>3. /\ IsFiniteSet(fitting) /\ Cardinality(fitting) \in Nat /\ Cardinality(fitting) <= n
            /\ Cardinality(fitting) = n => fitting = ToSet(pairs)
        <4>1. fitting \in SUBSET ToSet(pairs)
          OBVIOUS
        <4> HIDE DEF fitting
        <4>2. QED
          BY <1>2, <1>4, <4>1, FS_Subset, FS_CardinalityType
      <3> HIDE DEF fitting
      <3>4. Cardinality(fitting) >= n
        BY <3>1, <3>2, <3>3, PartOfUnit
      <3>5. fitting = ToSet(pairs)
        BY <3>1, <3>3, <3>4
      <3>6. QED
        BY <1>6, <3>5 DEF fitting
    <2>3. QED
      BY <2>1, <2>2
  <1>8. Occurs(DOMAIN route, route, actual, right)
    <2>1. at \in [DOMAIN route -> right]
      BY <1>5, <1>7
    <2>2. \A k \in 1 .. n : at[k] = pairs[k][2]
      OBVIOUS
    <2> HIDE DEF at, right
    <2>3. \A i \in DOMAIN route : /\ actual[at[i]].tool = route[i]
                                  /\ \A h \in DOMAIN route : h < i => at[h] < at[i]
      BY <1>5, <1>6, <2>2
    <2>4. QED
      BY <2>1, <2>3 DEF Occurs
  <1>9. QED
    BY <1>1, <1>8

(* A run that is exactly a route meets it. *)
LEMMA ExactRunMeets ==
  ASSUME NEW s, NEW route \in Seq(Tools), NEW actual \in Seq(ToolCall), NEW stopped, NEW fits,
         route # <<>> => Unit % Len(route) = 0,
         GoalCompletion(s, actual, stopped, fits),
         \A j \in DOMAIN actual : actual[j].right,
         [j \in DOMAIN actual |-> actual[j].tool] = route
  PROVE  Meets(ScoreAgainst(s, route, actual, stopped, fits))
  <1> DEFINE pairs == Align(route, actual)
             n == Len(route)
             at == [h \in 1 .. n |-> h]
             fitting == {p \in ToSet(pairs) : actual[p[2]].right}
  <1>1. /\ n \in Nat /\ DOMAIN route = 1 .. n /\ DOMAIN actual = 1 .. n /\ Len(actual) = n
        /\ (route # <<>> <=> n # 0)
        /\ \A h \in 1 .. n : route[h] = actual[h].tool
    <2>1. DOMAIN route = DOMAIN actual /\ \A h \in DOMAIN actual : route[h] = actual[h].tool
      OBVIOUS
    <2>2. DOMAIN route = 1 .. n /\ DOMAIN actual = 1 .. Len(actual) /\ n \in Nat
          /\ Len(actual) \in Nat /\ (route # <<>> <=> n # 0)
      OBVIOUS
    <2> DEFINE m == Len(actual)
    <2> HIDE DEF n, m
    <2>3. n \in Nat /\ m \in Nat /\ 1 .. n = 1 .. m
      BY <2>1, <2>2 DEF m
    <2>4. (n # 0 => n \in 1 .. m) /\ (m # 0 => m \in 1 .. n)
      <3>1. (n # 0 => n \in 1 .. n) /\ (m # 0 => m \in 1 .. m)
        BY <2>3
      <3>2. QED
        BY <2>3, <3>1
    <2>5. n = m
      BY <2>3, <2>4
    <2>6. QED
      BY <2>1, <2>2, <2>5 DEF m
  <1>2. /\ pairs \in Seq(Nat \X Nat) /\ Aligned(pairs, route, actual, <<1, 1>>)
        /\ \A p, by : Embeds(p, by, route, actual, <<1, 1>>) =>
             Cardinality(p) \in Nat /\ Cardinality(p) <= Len(pairs)
    BY AlignAligns
  <1>3. /\ IsFiniteSet(ToSet(pairs)) /\ Cardinality(ToSet(pairs)) = Len(pairs)
        /\ \A p \in ToSet(pairs) : p[2] \in DOMAIN actual
    BY PairsCounted
  <1> HIDE DEF pairs
  <1>4. n <= Len(pairs)
    <2>1. Embeds(1 .. n, at, route, actual, <<1, 1>>)
      <3>1. \A h \in 1 .. n : at[h] = h
        OBVIOUS
      <3>2. <<1, 1>>[1] = 1 /\ <<1, 1>>[2] = 1
        OBVIOUS
      <3> HIDE DEF at
      <3>3. QED
        BY <1>1, <3>1, <3>2 DEF Embeds, n
    <2>2. Cardinality(1 .. n) = n
      BY <1>1, UpTo
    <2>3. QED
      BY <1>2, <2>1, <2>2
  <1>5. Len(pairs) = n
    <2>1. Len(pairs) <= n /\ Len(pairs) \in Nat
      BY <1>2, NoMoreThanAsked DEF pairs
    <2>2. QED
      BY <1>1, <1>4, <2>1
  <1>6. fitting = ToSet(pairs)
    BY <1>3
  <1>7. /\ TrajectoryRecall(route, pairs) = Unit
        /\ Parameters(pairs, actual) >= Unit
    <2>1. Unit \in Nat
      BY TrajectoryAssumption
    <2>2. CASE n = 0
      <3>1. route = <<>> /\ pairs = <<>>
        BY <1>1, <1>2, <1>5, <2>2
      <3>2. QED
        BY <2>1, <3>1 DEF TrajectoryRecall, Parameters, NotDefined
    <2>3. CASE n # 0
      <3>1. route # <<>> /\ pairs # <<>> /\ n \in Nat \ {0}
        BY <1>1, <1>2, <1>5, <2>3
      <3>2. Unit % n = 0
        BY <3>1 DEF n
      <3> HIDE DEF n
      <3>3. Part(n, n) = Unit
        BY <3>1, <3>2, PartOfUnit
      <3>4. TrajectoryRecall(route, pairs) = Unit
        BY <1>5, <3>1, <3>3 DEF TrajectoryRecall, n
      <3>5. Parameters(pairs, actual) = Part(Cardinality(fitting), Len(pairs))
        BY <3>1 DEF Parameters
      <3>6. Parameters(pairs, actual) = Unit
        BY <1>3, <1>5, <1>6, <3>3, <3>5
      <3>7. QED
        BY <2>1, <3>4, <3>6
    <2>4. QED
      BY <2>2, <2>3
  <1>8. QED
    BY <1>7 DEF Meets, ScoreAgainst, pairs

-----------------------------------------------------------------------------
(* The loop's best is one of the routes' scores, and passes when one does.  *)
LEMMA BestRouteOf ==
  ASSUME NEW c, NEW R, c \in Seq(R), c # <<>>
  PROVE  /\ \E i \in DOMAIN c : BestRoute(c) = c[i]
         /\ (\E i \in DOMAIN c : Meets(c[i])) => Meets(BestRoute(c))
  <1> DEFINE n == Len(c)
             D == 1 .. n
             Step(g, i) == IF i = 1 THEN c[1]
                           ELSE IF Outranks(c[i], g[i - 1]) THEN c[i] ELSE g[i - 1]
             F == [gi \in [D -> R] \X D |-> Step(gi[1], gi[2])]
             rank == [i \in D |-> i]
             best == CHOOSE g : g = [i \in DOMAIN c |-> Step(g, i)]
  <1>1. n \in Nat \ {0} /\ DOMAIN c = D /\ 1 \in D /\ n \in D
        /\ \A i \in D : c[i] \in R /\ (i # 1 => i - 1 \in D)
    OBVIOUS
  <1>2. ASSUME NEW g \in [D -> R], NEW i \in D PROVE F[<<g, i>>] = Step(g, i) /\ Step(g, i) \in R
    <2>1. <<g, i>> \in [D -> R] \X D
      OBVIOUS
    <2>2. F[<<g, i>>] = Step(g, i)
      BY <2>1
    <2>3. c[1] \in R /\ c[i] \in R /\ (i # 1 => g[i - 1] \in R)
      BY <1>1
    <2> HIDE DEF F
    <2>4. QED
      BY <2>2, <2>3
  <1>3. F \in [[D -> R] \X D -> R]
    <2>1. \A gi \in [D -> R] \X D : gi = <<gi[1], gi[2]>> /\ gi[1] \in [D -> R] /\ gi[2] \in D
      OBVIOUS
    <2>2. \A gi \in [D -> R] \X D : Step(gi[1], gi[2]) \in R
      BY <2>1, <1>2
    <2>3. QED
      BY <2>2
  <1>4. rank \in [D -> 0 .. n] /\ \A i \in D : rank[i] = i
    BY <1>1
  <1> HIDE DEF F
  <1>5. ASSUME NEW g \in [D -> R], NEW h \in [D -> R], NEW i \in D,
               \A j \in D : rank[j] < rank[i] => g[j] = h[j]
        PROVE  F[<<g, i>>] = F[<<h, i>>]
    <2>1. i # 1 => i - 1 \in D /\ rank[i - 1] < rank[i]
      BY <1>1, <1>4
    <2>2. i # 1 => g[i - 1] = h[i - 1]
      BY <1>5, <2>1
    <2>3. Step(g, i) = Step(h, i)
      BY <2>2
    <2>4. QED
      BY <1>2, <2>3
  <1> HIDE DEF rank
  <1>6. Recursion(D, R, rank, n, F)
    <2>1. R # {} /\ n \in Nat
      BY <1>1
    <2> HIDE DEF D, n
    <2>2. QED
      BY <1>3, <1>4, <1>5, <2>1 DEF Recursion
  <1>7. PICK w \in [D -> R] : \A i \in D : w[i] = F[<<w, i>>]
    <2> HIDE DEF D, n
    <2>1. QED
      BY <1>6, RecursionExists
  <1>8. w = [i \in D |-> Step(w, i)]
    <2>1. \A i \in D : w[i] = Step(w, i)
      BY <1>2, <1>7
    <2> HIDE DEF Step, D
    <2>2. QED
      BY <2>1
  <1>9. best = [i \in D |-> Step(best, i)]
    <2> HIDE DEF Step, D
    <2>1. QED
      BY <1>1, <1>8
  <1>10. BestRoute(c) = best[n]
    BY DEF BestRoute
  <1> HIDE DEF best
  <1>11. \A i \in D : best[i] = Step(best, i)
    <2> HIDE DEF Step, D
    <2>1. QED
      BY <1>9
  <1>12. \A i \in D : /\ best[i] = IF i = 1 THEN c[1]
                                   ELSE IF Outranks(c[i], best[i - 1]) THEN c[i] ELSE best[i - 1]
    BY <1>11
  <1> DEFINE Good(i) == /\ \E j \in D : best[i] = c[j]
                        /\ \A j \in D : j <= i /\ Meets(c[j]) => Meets(best[i])
             I == {i \in Nat : i \in D => Good(i)}
  <1> HIDE DEF n, Step
  <1>13. 0 \in I
    BY DEF D
  <1>14. ASSUME NEW i \in Nat \ {0}, i - 1 \in I PROVE i \in I
    <2> SUFFICES ASSUME i \in D PROVE Good(i)
      OBVIOUS
    <2>1. CASE i = 1
      <3>1. best[i] = c[i]
        BY <1>12, <2>1
      <3>2. \A j \in D : j <= i => j = i
        BY <2>1
      <3>3. QED
        BY <3>1, <3>2
    <2>2. CASE i # 1
      <3>1. i - 1 \in D /\ Good(i - 1)
        BY <1>1, <1>14, <2>2
      <3>2. \A j \in D : j <= i => j = i \/ j <= i - 1
        OBVIOUS
      <3>3. CASE Outranks(c[i], best[i - 1])
        <4>1. best[i] = c[i]
          BY <1>12, <2>2, <3>3
        <4>2. Meets(best[i - 1]) => Meets(c[i])
          BY <3>3 DEF Outranks
        <4>3. QED
          BY <3>1, <3>2, <4>1, <4>2
      <3>4. CASE ~Outranks(c[i], best[i - 1])
        <4>1. best[i] = best[i - 1]
          BY <1>12, <2>2, <3>4
        <4>2. Meets(c[i]) => Meets(best[i - 1])
          BY <3>4 DEF Outranks
        <4>3. QED
          BY <3>1, <3>2, <4>1, <4>2
      <3>5. QED
        BY <3>3, <3>4
    <2>3. QED
      BY <2>1, <2>2
  <1> HIDE DEF I
  <1>15. Nat \subseteq I
    BY <1>13, <1>14, SetInduction
  <1>16. Good(n)
    BY <1>1, <1>15 DEF I
  <1>17. QED
    BY <1>1, <1>10, <1>16 DEF n

-----------------------------------------------------------------------------
(* What has just been scored is the score of some calls against the scenario. *)
TrajectoryInv ==
  /\ TrajectoryTypeOK
  /\ \A a \in scored :
       \E actual \in Seq(ToolCall), stopped \in Endings, fits \in BOOLEAN :
         a = ScoreCase(scenario, actual, stopped, fits)

(* Nothing is scored yet. *)
LEMMA TrajectoryStart == TrajectoryInit => TrajectoryInv
  BY TrajectoryAssumption DEF TrajectoryInit, TrajectoryInv, TrajectoryTypeOK

(* A call takes the last score away. *)
LEMMA CallKeepsInv ==
  ASSUME TrajectoryInv, NEW t \in Tools, NEW right \in BOOLEAN,
         NEW b \in {"ok", "error", "declined"}, Call(t, right, b)
  PROVE  TrajectoryInv'
  <1>1. /\ scenario' = scenario /\ attempts' = attempts /\ scored' = {}
        /\ made' = Append(made, [tool |-> t, right |-> right, branch |-> b])
        /\ Len(made) < MaxCalls /\ MaxCalls \in Nat
    BY TrajectoryAssumption DEF Call
  <1>2. made \in Seq(ToolCall) /\ Len(made) \in Nat
    BY DEF TrajectoryInv, TrajectoryTypeOK
  <1>3. [tool |-> t, right |-> right, branch |-> b] \in ToolCall
    BY DEF ToolCall
  <1>4. made' \in Seq(ToolCall) /\ Len(made') <= MaxCalls
    BY <1>1, <1>2, <1>3
  <1>5. QED
    BY <1>1, <1>4 DEF TrajectoryInv, TrajectoryTypeOK

(* The calls made are what is scored. *)
LEMMA EndRunKeepsInv ==
  ASSUME TrajectoryInv, NEW stopped \in Endings, NEW fits \in BOOLEAN, EndRun(stopped, fits)
  PROVE  TrajectoryInv'
  <1>1. /\ scenario' = scenario /\ attempts' = attempts + 1 /\ attempts < RunsPerCase
        /\ scored' = {ScoreCase(scenario, made, stopped, fits)} /\ made' = <<>>
    BY DEF EndRun
  <1>2. /\ scenario \in Scenarios /\ made \in Seq(ToolCall) /\ attempts \in 0 .. RunsPerCase
        /\ RunsPerCase \in Nat /\ MaxCalls \in Nat
    BY TrajectoryAssumption DEF TrajectoryInv, TrajectoryTypeOK
  <1>3. ScoreCase(scenario, made, stopped, fits).calls = made
    BY DEF ScoreCase
  <1>4. attempts' \in 0 .. RunsPerCase /\ made' \in Seq(ToolCall) /\ Len(made') <= MaxCalls
    BY <1>1, <1>2
  <1>5. TrajectoryTypeOK'
    BY <1>1, <1>2, <1>3, <1>4 DEF TrajectoryTypeOK
  <1>6. \A a \in scored' : \E actual \in Seq(ToolCall), st \in Endings, ft \in BOOLEAN :
          a = ScoreCase(scenario', actual, st, ft)
    BY <1>1, <1>2
  <1>7. QED
    BY <1>5, <1>6 DEF TrajectoryInv

(* Every step of the suite keeps the invariant. *)
LEMMA TrajectoryStepKeepsInv == TrajectoryInv /\ [TrajectoryNext]_trajectoryVars => TrajectoryInv'
  <1>1. TrajectoryInv /\ UNCHANGED trajectoryVars => TrajectoryInv'
    BY DEF trajectoryVars, TrajectoryInv, TrajectoryTypeOK
  <1>2. QED
    BY <1>1, CallKeepsInv, EndRunKeepsInv DEF TrajectoryNext

(* A score of a case is of one of the scenario's routes. *)
LEMMA CaseIsOfARoute ==
  ASSUME NEW s \in Scenarios, NEW actual \in Seq(ToolCall), NEW stopped, NEW fits,
         NEW a, a = ScoreCase(s, actual, stopped, fits)
  PROVE  /\ a.calls = actual /\ a.stopped = stopped /\ a.fits = fits
         /\ a.passed = (Meets(a.scores) /\ ~ForbiddenCalled(s, actual))
         /\ \E route \in ToSet(s.routes) :
              /\ route \in Seq(Tools) /\ (route # <<>> => Unit % Len(route) = 0)
              /\ a.scores = ScoreAgainst(s, route, actual, stopped, fits)
         /\ \A route \in ToSet(s.routes) :
              /\ route \in Seq(Tools) /\ (route # <<>> => Unit % Len(route) = 0)
              /\ Meets(ScoreAgainst(s, route, actual, stopped, fits)) => Meets(a.scores)
  <1> DEFINE scoreOf(route) == ScoreAgainst(s, route, actual, stopped, fits)
             c == [i \in DOMAIN s.routes |-> scoreOf(s.routes[i])]
             R == {scoreOf(s.routes[i]) : i \in DOMAIN s.routes}
  <1>1. /\ s.routes \in Seq(Seq(Tools)) /\ s.routes # <<>>
        /\ \A i \in DOMAIN s.routes : s.routes[i] # <<>> => Unit % Len(s.routes[i]) = 0
    BY TrajectoryAssumption
  <1>2. a = [scores |-> BestRoute(c), passed |-> Meets(BestRoute(c)) /\ ~ForbiddenCalled(s, actual),
             calls |-> actual, stopped |-> stopped, fits |-> fits]
    BY DEF ScoreCase
  <1> HIDE DEF scoreOf
  <1>3. c \in Seq(R) /\ c # <<>> /\ DOMAIN c = DOMAIN s.routes
        /\ \A i \in DOMAIN s.routes : c[i] = scoreOf(s.routes[i])
    <2>1. DOMAIN s.routes = 1 .. Len(s.routes) /\ Len(s.routes) \in Nat \ {0}
      BY <1>1
    <2>2. \A i \in DOMAIN s.routes : scoreOf(s.routes[i]) \in R
      OBVIOUS
    <2> HIDE DEF R
    <2>3. c \in [1 .. Len(s.routes) -> R]
      BY <2>1, <2>2
    <2>4. c \in Seq(R) /\ Len(c) = Len(s.routes)
      BY <2>1, <2>3
    <2>5. QED
      BY <2>1, <2>4
  <1> HIDE DEF c, R
  <1>4. /\ \E i \in DOMAIN c : BestRoute(c) = c[i]
        /\ (\E i \in DOMAIN c : Meets(c[i])) => Meets(BestRoute(c))
    BY <1>3, BestRouteOf
  <1>5. \A route \in ToSet(s.routes) : \E i \in DOMAIN s.routes : s.routes[i] = route
    BY DEF ToSet
  <1>6. \A i \in DOMAIN s.routes : /\ s.routes[i] \in ToSet(s.routes)
                                   /\ s.routes[i] \in Seq(Tools)
    BY <1>1 DEF ToSet
  <1>7. \A route \in ToSet(s.routes) :
          /\ route \in Seq(Tools) /\ (route # <<>> => Unit % Len(route) = 0)
          /\ Meets(scoreOf(route)) => Meets(BestRoute(c))
    BY <1>1, <1>3, <1>4, <1>5, <1>6
  <1>8. \E route \in ToSet(s.routes) : BestRoute(c) = scoreOf(route)
    BY <1>3, <1>4, <1>6
  <1>9. a.scores = BestRoute(c)
    BY <1>2
  <1>10. QED
    BY <1>2, <1>7, <1>8, <1>9 DEF scoreOf

(* So a pass is earned. *)
LEMMA TrajectoryInvShows == TrajectoryInv => TrajectoryTypeOK /\ PassIsEarned
  <1> SUFFICES ASSUME TrajectoryInv PROVE PassIsEarned
    BY DEF TrajectoryInv
  <1> SUFFICES ASSUME NEW a \in scored
               PROVE  LET proper == /\ a.fits
                                    /\ scenario.stopped # {} => a.stopped \in scenario.stopped
                                    /\ scenario.branches # {} =>
                                         \E j \in DOMAIN a.calls : a.calls[j].branch \in scenario.branches
                                    /\ \A j \in DOMAIN a.calls : a.calls[j].tool \notin scenario.forbidden
                          right == {j \in DOMAIN a.calls : a.calls[j].right}
                          routes == ToSet(scenario.routes)
                      IN  /\ a.passed => proper /\ \E r \in routes : Occurs(DOMAIN r, r, a.calls, right)
                          /\ /\ proper
                             /\ right = DOMAIN a.calls
                             /\ [j \in DOMAIN a.calls |-> a.calls[j].tool] \in routes
                             => a.passed
                          /\ \A p \in SUBSET DOMAIN a.scores.route :
                               Occurs(p, a.scores.route, a.calls, DOMAIN a.calls)
                                 => Cardinality(p) <= Len(a.scores.pairs)
    BY DEF PassIsEarned
  <1>1. PICK actual \in Seq(ToolCall), stopped \in Endings, fits \in BOOLEAN :
          a = ScoreCase(scenario, actual, stopped, fits)
    BY DEF TrajectoryInv
  <1>2. scenario \in Scenarios
    BY DEF TrajectoryInv, TrajectoryTypeOK
  <1>3. /\ a.calls = actual /\ a.stopped = stopped /\ a.fits = fits
        /\ a.passed = (Meets(a.scores) /\ ~ForbiddenCalled(scenario, actual))
    BY <1>1, <1>2, CaseIsOfARoute
  <1>4. PICK route \in ToSet(scenario.routes) :
          /\ route \in Seq(Tools) /\ (route # <<>> => Unit % Len(route) = 0)
          /\ a.scores = ScoreAgainst(scenario, route, actual, stopped, fits)
    BY <1>1, <1>2, CaseIsOfARoute
  <1>5. \A r \in ToSet(scenario.routes) :
          /\ r \in Seq(Tools) /\ (r # <<>> => Unit % Len(r) = 0)
          /\ Meets(ScoreAgainst(scenario, r, actual, stopped, fits)) => Meets(a.scores)
    BY <1>1, <1>2, CaseIsOfARoute
  <1> DEFINE proper == /\ fits
                       /\ scenario.stopped # {} => stopped \in scenario.stopped
                       /\ scenario.branches # {} =>
                            \E j \in DOMAIN actual : actual[j].branch \in scenario.branches
                       /\ \A j \in DOMAIN actual : actual[j].tool \notin scenario.forbidden
             right == {j \in DOMAIN actual : actual[j].right}
  <1>6. proper <=> GoalCompletion(scenario, actual, stopped, fits) /\ ~ForbiddenCalled(scenario, actual)
    BY DEF GoalCompletion, ForbiddenCalled
  <1>7. a.passed => proper /\ \E r \in ToSet(scenario.routes) : Occurs(DOMAIN r, r, actual, right)
    <2> SUFFICES ASSUME a.passed
                 PROVE  proper /\ \E r \in ToSet(scenario.routes) : Occurs(DOMAIN r, r, actual, right)
      OBVIOUS
    <2>1. Meets(ScoreAgainst(scenario, route, actual, stopped, fits)) /\ ~ForbiddenCalled(scenario, actual)
      BY <1>3, <1>4
    <2>2. GoalCompletion(scenario, actual, stopped, fits) /\ Occurs(DOMAIN route, route, actual, right)
      BY <1>4, <2>1, EarnedByMeeting
    <2> HIDE DEF proper
    <2>3. QED
      BY <1>6, <2>1, <2>2
  <1>8. /\ proper
        /\ right = DOMAIN actual
        /\ [j \in DOMAIN actual |-> actual[j].tool] \in ToSet(scenario.routes)
        => a.passed
    <2> DEFINE r == [j \in DOMAIN actual |-> actual[j].tool]
    <2> SUFFICES ASSUME proper, right = DOMAIN actual, r \in ToSet(scenario.routes)
                 PROVE  a.passed
      OBVIOUS
    <2> HIDE DEF proper
    <2>1. PICK q \in ToSet(scenario.routes) : r = q
      OBVIOUS
    <2>2. GoalCompletion(scenario, actual, stopped, fits) /\ ~ForbiddenCalled(scenario, actual)
      BY <1>6
    <2>3. \A j \in DOMAIN actual : actual[j].right
      OBVIOUS
    <2>4. q \in Seq(Tools) /\ (q # <<>> => Unit % Len(q) = 0)
      BY <1>5
    <2>5. Meets(ScoreAgainst(scenario, q, actual, stopped, fits))
      BY <2>1, <2>2, <2>3, <2>4, ExactRunMeets
    <2>6. QED
      BY <1>3, <1>5, <2>2, <2>5
  <1>9. ASSUME NEW p \in SUBSET DOMAIN a.scores.route,
               Occurs(p, a.scores.route, actual, DOMAIN actual)
        PROVE  Cardinality(p) <= Len(a.scores.pairs)
    <2>1. a.scores.route = route /\ a.scores.pairs = Align(route, actual)
      BY <1>4 DEF ScoreAgainst
    <2>2. QED
      BY <1>4, <1>9, <2>1, NoneIsLonger
  <1> HIDE DEF proper, right
  <1>10. QED
    BY <1>3, <1>7, <1>8, <1>9 DEF proper, right

-----------------------------------------------------------------------------
(* A behaviour follows one part and leaves the others where they began. *)
MeasuresInv == PanelInv /\ RankingInv /\ TrajectoryInv

(* The invariant holds at the start. *)
LEMMA MeasuresStart == Init => MeasuresInv
  BY PanelStart, RankingStart, TrajectoryStart DEF Init, MeasuresInv

(* A step is one of a part or leaves it alone. *)
LEMMA MeasuresPartsStep ==
  [Next]_vars =>
    [PanelNext]_panelVars /\ [RankingNext]_rankingVars /\ [TrajectoryNext]_trajectoryVars
  BY DEF Next, vars

(* Every step keeps it. *)
LEMMA MeasuresStep == MeasuresInv /\ [Next]_vars => MeasuresInv'
  BY MeasuresPartsStep, PanelStepKeepsInv, RankingStepKeepsInv, TrajectoryStepKeepsInv
     DEF MeasuresInv

(* The inductive invariant of the panel, the searches and the agent suite. *)
THEOREM MeasuresInvariant == Spec => []MeasuresInv
  BY MeasuresStart, MeasuresStep, PTL DEF Spec

(* Their variables keep their types, whatever the turns, the corpus and the *)
(* scenarios.                                                              *)
THEOREM MeasuresTypes == Spec => [](PanelTypeOK /\ RankingTypeOK /\ TrajectoryTypeOK)
  <1>1. MeasuresInv => PanelTypeOK /\ RankingTypeOK /\ TrajectoryTypeOK
    BY PanelInvShows, RankingInvShows, TrajectoryInvShows DEF MeasuresInv
  <1>2. QED
    BY <1>1, MeasuresInvariant, PTL

(* However writes and reads cut the records, and whatever the size of the  *)
(* log, the demo's panel tells every record once and in order, and a page  *)
(* that keeps up is given every row (tail_runs, since).                    *)
THEOREM PanelTellsTheRuns == Spec => []PanelIsFaithful
  <1>1. MeasuresInv => PanelIsFaithful
    BY PanelInvShows DEF MeasuresInv
  <1>2. QED
    BY <1>1, MeasuresInvariant, PTL

(* For every corpus, depth, cut and pair of weights a finished search      *)
(* returns as many chunks as it can, each once, in an order both arms and  *)
(* the re-ranker's verdicts agree to, and packing them for the model moves *)
(* no metric (_search_with, rrf, rerank, pack_for_llm).                    *)
THEOREM SearchesAreFaithful == Spec => []SearchIsFaithful
  <1>1. MeasuresInv => SearchIsFaithful
    BY RankingInvShows DEF MeasuresInv
  <1>2. QED
    BY <1>1, MeasuresInvariant, PTL

(* Whatever the scenario, its routes and the calls of the run, a pass is   *)
(* earned, a run that is one of the routes is never failed, and align's    *)
(* alignment is a longest one (score_case, align, _passed).                *)
THEOREM PassesAreEarned == Spec => []PassIsEarned
  <1>1. MeasuresInv => PassIsEarned
    BY TrajectoryInvShows DEF MeasuresInv
  <1>2. QED
    BY <1>1, MeasuresInvariant, PTL
=============================================================================
