---------------------- MODULE SchemaAdaptationProofs ----------------------
(***************************************************************************)
(* Theorems about SchemaAdaptation for every prototype schema, every       *)
(* ladder of index types and every configuration.                          *)
(***************************************************************************)
EXTENDS SchemaAdaptation, TLAPS, SequenceTheorems, FiniteSetTheorems, BoundedInduction

USE DEF vars, treeVars, builderVars, loopVars

-----------------------------------------------------------------------------
(***************************************************************************)
(* The inductive invariant.                                                *)
(***************************************************************************)

\* The values that rows 1 to n of the batch have for field f.
Values(f, n) == {entity[j][f] : j \in 1..n} \ {NoValue}

\* The record builder and the tree: they differ exactly while an update is
\* pending.
BuilderFollowsTree ==
  /\ width = index
  /\ columns \subseteq ColumnsUnder(optional)
  /\ pending <=> columns # ColumnsUnder(optional)
  /\ pc = "idle" => ~pending

\* What the rows appended so far have asked for.
RowsRevealed ==
  pc = "append" =>
    /\ entity \in Entity
    /\ next \in 1..Len(entity) + 1
    /\ \A j \in 1..next - 1, f \in Field : entity[j][f] # NoValue => f \notin optional

\* After one update no row misses a column.
Covered ==
  pc = "append" /\ updates > 0 =>
    /\ ~pending
    /\ \A j \in 1..Len(entity), f \in Field : entity[j][f] # NoValue => f \in columns

\* From then on the dictionaries hold the values of this batch only.
OwnDictionaries ==
  pc = "append" /\ updates > 0 =>
    \A f \in Encoded : memo[f] \in Bijection(1..Len(memo[f]), Values(f, next - 1))

\* After two updates they fit.
Fits ==
  /\ pc # "panicked"
  /\ FewUpdates
  /\ pc = "append" /\ updates = 2 =>
       \A f \in Encoded : Cardinality(Values(f, Len(entity))) <= IndexMaxCard[width[f]]

IInv ==
  /\ TypeOK
  /\ BuilderFollowsTree
  /\ RowsRevealed
  /\ Covered
  /\ OwnDictionaries
  /\ Fits

-----------------------------------------------------------------------------
(***************************************************************************)
(* Index types.                                                            *)
(***************************************************************************)

LEMMA Ladder ==
  /\ Len(IndexMaxCard) \in Nat \ {0}
  /\ \A i \in IndexType : IndexMaxCard[i] \in Nat
BY SchemaAssumption, EmptySeq, ElementOfSeq DEF IndexType

LEMMA FindIndexType ==
  ASSUME NEW card \in Nat
  PROVE  /\ FindIndex(card) \in IndexType
         /\ \A i \in IndexType : card <= IndexMaxCard[i] => FindIndex(card) <= i
         /\ FindIndex(card) = Len(IndexMaxCard) \/ card <= IndexMaxCard[FindIndex(card)]
<1> DEFINE enough == {i \in IndexType : card <= IndexMaxCard[i]}
<1>1. CASE enough = {}
  <2>1. FindIndex(card) = Len(IndexMaxCard)
    BY <1>1 DEF FindIndex
  <2> QED
    BY <1>1, <2>1, Ladder DEF IndexType
<1>2. CASE enough # {}
  <2>1. enough \in SUBSET Nat
    BY Ladder DEF IndexType
  <2>2. \E i \in enough : \A j \in enough : i <= j
    BY <1>2, <2>1, LeastElement
  <2>3. FindIndex(card) = CHOOSE i \in enough : \A j \in enough : i <= j
    BY <1>2 DEF FindIndex
  <2>4. FindIndex(card) \in enough /\ \A j \in enough : FindIndex(card) <= j
    BY <2>2, <2>3
  <2> QED
    BY <2>4
<1> QED
  BY <1>1, <1>2

\* A smaller cardinality never needs a wider index type.
LEMMA FindIndexMonotonic ==
  ASSUME NEW a \in Nat, NEW b \in Nat, a <= b
  PROVE  FindIndex(a) <= FindIndex(b)
<1>1. CASE FindIndex(b) = Len(IndexMaxCard)
  BY <1>1, FindIndexType, Ladder DEF IndexType
<1>2. CASE b <= IndexMaxCard[FindIndex(b)]
  <2>1. FindIndex(b) \in IndexType
    BY FindIndexType
  <2>2. a <= IndexMaxCard[FindIndex(b)]
    BY <1>2, <2>1, Ladder
  <2> QED
    BY <2>1, <2>2, FindIndexType
<1> QED
  BY <1>1, <1>2, FindIndexType

LEMMA WidestIndexType == WidestIndex \in IndexType
BY FindIndexType, SchemaAssumption DEF WidestIndex

LEMMA FirstIndexType == ASSUME NEW f \in Dictionary PROVE FirstIndex(f) \in Index
<1>1. MinCard[f] \in Nat /\ MaxCard \in Nat
  BY SchemaAssumption
<1> DEFINE card == IF MaxCard < MinCard[f] THEN MaxCard ELSE MinCard[f]
<1>2. card \in Nat /\ card <= MaxCard
  BY <1>1
<1>3. FindIndex(card) \in IndexType /\ FindIndex(card) <= WidestIndex
  BY <1>1, <1>2, FindIndexType, FindIndexMonotonic DEF WidestIndex
<1>4. FirstIndex(f) = 0 \/ FirstIndex(f) = FindIndex(card)
  BY DEF FirstIndex
<1> HIDE DEF card
<1> QED
  BY <1>3, <1>4, Ladder, WidestIndexType DEF Index, IndexType

\* updateIndexType leaves a dictionary without indices or with indices that
\* are wide enough and no narrower than before; it leaves one that fits alone.
LEMMA FittingType ==
  ASSUME NEW f \in Dictionary, index[f] \in Index, Len(memo[f]) \in Nat
  PROVE  /\ Fitting(f) \in Index
         /\ index[f] = 0 => Fitting(f) = 0
         /\ Fitting(f) # 0 => /\ index[f] <= Fitting(f)
                              /\ Len(memo[f]) <= IndexMaxCard[Fitting(f)]
         /\ index[f] # 0 /\ Len(memo[f]) <= IndexMaxCard[index[f]]
              => Fitting(f) = index[f]
<1> DEFINE enough == {i \in index[f]..WidestIndex : Len(memo[f]) <= IndexMaxCard[i]}
<1>1. WidestIndex \in Nat \ {0}
  BY WidestIndexType, Ladder DEF IndexType
<1>2. CASE index[f] = 0 \/ enough = {}
  <2>1. Fitting(f) = 0
    BY <1>2 DEF Fitting
  <2>2. index[f] # 0 => ~(Len(memo[f]) <= IndexMaxCard[index[f]])
    BY <1>1, <1>2 DEF Index
  <2> QED
    BY <1>1, <2>1, <2>2 DEF Index
<1>3. CASE index[f] # 0 /\ enough # {}
  <2>1. enough \subseteq Nat
    BY <1>1 DEF Index
  <2>2. \E i \in enough : \A j \in enough : i <= j
    BY <1>3, <2>1, LeastElement
  <2>3. Fitting(f) = CHOOSE i \in enough : \A j \in enough : i <= j
    BY <1>3 DEF Fitting
  <2>4. Fitting(f) \in enough /\ \A j \in enough : Fitting(f) <= j
    BY <2>2, <2>3
  <2> QED
    BY <1>1, <1>3, <2>4 DEF Index
<1> QED
  BY <1>2, <1>3

-----------------------------------------------------------------------------
(***************************************************************************)
(* Rows and dictionaries.                                                  *)
(***************************************************************************)

LEMMA EntityType ==
  ASSUME NEW e \in Entity
  PROVE  /\ Len(e) \in 1..MaxRows
         /\ e \in Seq(Row)
         /\ \A j \in 1..Len(e) : e[j] \in Row
<1>1. PICK n \in 1..MaxRows : e \in [1..n -> Row]
  BY DEF Entity
<1>2. n \in Nat
  BY SchemaAssumption
<1>3. e \in Seq(Row)
  BY <1>1, <1>2, SeqDef
<1>4. Len(e) = n
  BY <1>1, <1>2, <1>3, LenProperties
<1> QED
  BY <1>1, <1>3, <1>4

LEMMA RowType ==
  ASSUME NEW row \in Row, NEW f \in Field
  PROVE  /\ row[f] \in Value \cup {Present, NoValue}
         /\ f \in Dictionary => row[f] \in Value \cup {NoValue}
         /\ row[f] # NoValue => \A g \in Path[f] : g \in Field /\ row[g] # NoValue
BY SchemaAssumption DEF Row

\* A dictionary takes a value once, whatever it held.
LEMMA MemoizedType ==
  ASSUME NEW d \in Seq(Value), NEW v \in Value \cup {NoValue}
  PROVE  /\ Memoized(d, v) \in Seq(Value)
         /\ v # NoValue => \E i \in 1..Len(Memoized(d, v)) : Memoized(d, v)[i] = v
<1>1. CASE v = NoValue \/ \E i \in 1..Len(d) : d[i] = v
  BY <1>1 DEF Memoized
<1>2. CASE ~(v = NoValue \/ \E i \in 1..Len(d) : d[i] = v)
  <2>1. Memoized(d, v) = Append(d, v)
    BY <1>2 DEF Memoized
  <2>2. v \in Value
    BY <1>2
  <2>3. /\ Append(d, v) \in Seq(Value)
        /\ Len(Append(d, v)) = Len(d) + 1
        /\ Append(d, v)[Len(d) + 1] = v
    BY <2>2, AppendProperties
  <2> QED
    BY <2>1, <2>3, LenProperties
<1> QED
  BY <1>1, <1>2

LEMMA MemoizedBijection ==
  ASSUME NEW d \in Seq(Value), NEW v \in Value \cup {NoValue}, NEW S,
         d \in Bijection(1..Len(d), S)
  PROVE  Memoized(d, v) \in Bijection(1..Len(Memoized(d, v)), S \cup ({v} \ {NoValue}))
<1> USE DEF Bijection, Injection, IsInjective, Surjection
<1>1. /\ Len(d) \in Nat
      /\ \A i \in 1..Len(d) : d[i] \in S /\ d[i] # NoValue
      /\ \A i, j \in 1..Len(d) : d[i] = d[j] => i = j
      /\ \A x \in S : \E i \in 1..Len(d) : d[i] = x
  <2>1. Len(d) \in Nat /\ \A i \in 1..Len(d) : d[i] \in Value
    BY LenProperties, ElementOfSeq
  <2>2. NoValue \notin Value
    BY SchemaAssumption
  <2>3. \A i \in 1..Len(d) : d[i] # NoValue
    BY <2>1, <2>2
  <2> QED
    BY <2>1, <2>3
<1>2. CASE v = NoValue \/ \E i \in 1..Len(d) : d[i] = v
  <2>1. Memoized(d, v) = d
    BY <1>2 DEF Memoized
  <2>2. S \cup ({v} \ {NoValue}) = S
    BY <1>1, <1>2
  <2> QED
    BY <2>1, <2>2
<1>3. CASE ~(v = NoValue \/ \E i \in 1..Len(d) : d[i] = v)
  <2> DEFINE e == Append(d, v)
             T == S \cup ({v} \ {NoValue})
  <2>1. Memoized(d, v) = e
    BY <1>3 DEF Memoized
  <2>2. v \in Value /\ v \notin S /\ T = S \cup {v}
    BY <1>1, <1>3
  <2>3. /\ e \in Seq(Value)
        /\ Len(e) = Len(d) + 1
        /\ e[Len(d) + 1] = v
        /\ \A i \in 1..Len(d) : e[i] = d[i]
    BY <2>2, AppendProperties
  <2>4. DOMAIN e = 1..Len(d) + 1 /\ e \in [1..Len(d) + 1 -> Value]
    BY <2>3, LenProperties
  <2> HIDE DEF e, T
  <2>5. \A i \in 1..Len(d) + 1 : i \in 1..Len(d) \/ i = Len(d) + 1
    BY <1>1
  <2>6. e \in [1..Len(d) + 1 -> T]
    BY <1>1, <2>2, <2>3, <2>4, <2>5
  <2>7. ASSUME NEW i \in 1..Len(d) + 1, NEW j \in 1..Len(d) + 1, e[i] = e[j]
        PROVE  i = j
    <3>1. CASE i \in 1..Len(d) /\ j \in 1..Len(d)
      BY <1>1, <2>3, <2>7, <3>1
    <3>2. CASE i \in 1..Len(d) /\ j = Len(d) + 1
      BY <1>1, <2>2, <2>3, <2>7, <3>2
    <3>3. CASE i = Len(d) + 1 /\ j \in 1..Len(d)
      BY <1>1, <2>2, <2>3, <2>7, <3>3
    <3>4. CASE i = Len(d) + 1 /\ j = Len(d) + 1
      BY <3>4
    <3> QED
      BY <2>5, <3>1, <3>2, <3>3, <3>4
  <2>8. \A x \in T : \E i \in 1..Len(d) + 1 : e[i] = x
    BY <1>1, <2>2, <2>3
  <2> QED
    BY <2>1, <2>3, <2>6, <2>7, <2>8 DEF T
<1> QED
  BY <1>2, <1>3

-----------------------------------------------------------------------------
(***************************************************************************)
(* Type correctness, for batches that take at most two updates.            *)
(***************************************************************************)

LEMMA EmptyMemoType == EmptyMemo \in [Dictionary -> Seq(Value)]
BY EmptySeq DEF EmptyMemo

LEMMA MeasuredType ==
  ASSUME TypeOK
  PROVE  Measured \in [Dictionary -> Index]
<1>1. ASSUME NEW f \in Dictionary PROVE index[f] \in Index /\ Len(memo[f]) \in Nat
  BY LenProperties DEF TypeOK
<1>2. ASSUME NEW f \in Dictionary PROVE Fitting(f) \in Index
  BY <1>1, FittingType
<1> QED
  BY <1>1, <1>2 DEF Measured

LEMMA TypeInit == Init => TypeOK
<1> SUFFICES ASSUME Init PROVE TypeOK
  OBVIOUS
<1>1. [f \in Dictionary |-> FirstIndex(f)] \in [Dictionary -> Index]
  BY FirstIndexType
<1>2. rows \in Seq([Field -> Value \cup {Present, NoValue} \cup Nat])
  BY EmptySeq DEF Init
<1>3. index \in [Dictionary -> Index] /\ width \in [Dictionary -> Index]
  BY <1>1 DEF Init
<1>4. memo \in [Dictionary -> Seq(Value)]
  BY EmptyMemoType DEF Init
<1>5. pending \in BOOLEAN
  BY DEF Init
<1>6. next \in 1..MaxRows + 1 /\ updates \in 0..MaxUpdates + 1
  BY SchemaAssumption DEF Init, MaxUpdates
<1>7. optional \subseteq Optional /\ columns \subseteq Field
  BY DEF Init, ColumnsUnder
<1>8. pc \in {"idle", "append", "panicked"} /\ entity \in Entity \cup {<<>>}
  BY DEF Init
<1> QED
  BY <1>2, <1>3, <1>4, <1>5, <1>6, <1>7, <1>8 DEF TypeOK

LEMMA TypeUpdateSchema ==
  ASSUME TypeOK, pc = "append", FewUpdates,
         NEW newIndex \in [Dictionary -> Index], UpdateSchema(newIndex)
  PROVE  TypeOK'
<1>1. rows' \in Seq([Field -> Value \cup {Present, NoValue} \cup Nat])
  BY EmptySeq DEF UpdateSchema
<1>2. pending' \in BOOLEAN
  BY DEF UpdateSchema, NothingPending
<1>3. memo' \in [Dictionary -> Seq(Value)]
  BY EmptyMemoType DEF UpdateSchema
<1>4. updates' \in 0..MaxUpdates + 1
  BY DEF UpdateSchema, TypeOK, FewUpdates, MaxUpdates
<1>5. pc' \in {"idle", "append", "panicked"}
  BY DEF UpdateSchema
<1>6. next' \in 1..MaxRows + 1
  BY SchemaAssumption DEF UpdateSchema
<1>7. columns' \subseteq Field
  BY DEF UpdateSchema, ColumnsUnder
<1>8. index' \in [Dictionary -> Index] /\ width' \in [Dictionary -> Index]
  BY DEF UpdateSchema
<1>9. optional' \subseteq Optional /\ entity' \in Entity \cup {<<>>}
  BY DEF UpdateSchema, TypeOK
<1>10. Index' = Index
  OBVIOUS
<1> QED
  BY <1>1, <1>2, <1>3, <1>4, <1>5, <1>6, <1>7, <1>8, <1>9 DEF TypeOK

\* The dictionaries after a row, and the cells of the row.
Grown(row) ==
  [f \in Dictionary |-> IF f \in Encoded THEN Memoized(memo[f], row[f]) ELSE memo[f]]

LEMMA CellsType ==
  ASSUME TypeOK, NEW row \in Row
  PROVE  /\ Grown(row) \in [Dictionary -> Seq(Value)]
         /\ Cells(row, Grown(row)) \in [Field -> Value \cup {Present, NoValue} \cup Nat]
<1>1. ASSUME NEW f \in Dictionary
      PROVE  f \in Field /\ memo[f] \in Seq(Value) /\ row[f] \in Value \cup {NoValue}
  BY RowType, SchemaAssumption DEF TypeOK
<1>2. Grown(row) \in [Dictionary -> Seq(Value)]
  BY <1>1, MemoizedType DEF Grown
<1>3. ASSUME NEW f \in Encoded, row[f] # NoValue
      PROVE  IndexOf(f, Grown(row)[f], row[f]) \in Nat
  <2> DEFINE d == Memoized(memo[f], row[f])
  <2>1. f \in Dictionary /\ Grown(row)[f] = d
    BY DEF Encoded, Grown
  <2>2. \E i \in 1..Len(d) : d[i] = row[f]
    BY <1>1, <1>3, <2>1, MemoizedType
  <2>3. (CHOOSE i \in 1..Len(d) : d[i] = row[f]) \in 1..Len(d)
    BY <2>2
  <2>4. Len(d) \in Nat
    BY <1>1, <2>1, MemoizedType, LenProperties
  <2>5. width[f] \in IndexType
    BY <2>1, WidestIndexType, Ladder DEF Encoded, TypeOK, Index, IndexType
  <2>6. IndexMaxCard[width[f]] \in Nat
    BY <2>5, Ladder
  <2> HIDE DEF d
  <2>7. (CHOOSE i \in 1..Len(d) : d[i] = row[f]) - 1 \in Nat
    BY <2>3, <2>4
  <2> QED
    BY <2>1, <2>6, <2>7 DEF IndexOf
<1>4. ASSUME NEW f \in Field PROVE row[f] \in Value \cup {Present, NoValue}
  BY RowType
<1> QED
  BY <1>2, <1>3, <1>4 DEF Cells

LEMMA TypeAppendRow ==
  ASSUME TypeOK, RowsRevealed, AppendRow
  PROVE  TypeOK'
<1> DEFINE row == entity[next]
<1>1. row \in Row /\ next \in 1..MaxRows
  BY EntityType, SchemaAssumption DEF RowsRevealed, AppendRow
<1>2. memo' = Grown(row) /\ rows' = Append(rows, Cells(row, Grown(row)))
  BY DEF AppendRow, Grown
<1>3. memo' \in [Dictionary -> Seq(Value)]
  BY <1>1, <1>2, CellsType DEF TypeOK
<1>4. rows' \in Seq([Field -> Value \cup {Present, NoValue} \cup Nat])
  <2> DEFINE Cell == [Field -> Value \cup {Present, NoValue} \cup Nat]
  <2>1. rows \in Seq(Cell) /\ Cells(row, Grown(row)) \in Cell
    BY <1>1, CellsType DEF TypeOK
  <2>2. rows' = Append(rows, Cells(row, Grown(row)))
    BY <1>2
  <2> HIDE DEF Cell
  <2>3. rows' \in Seq(Cell)
    BY <2>1, <2>2, AppendProperties
  <2> QED
    BY <2>3 DEF Cell
<1>5. next' \in 1..MaxRows + 1
  BY <1>1, SchemaAssumption DEF AppendRow
<1>6. optional' \subseteq Optional /\ pending' \in BOOLEAN
  <2>1. optional' \subseteq Optional
    BY DEF AppendRow, Revealed, TypeOK
  <2>2. pending' \in BOOLEAN
    BY Zenon DEF AppendRow, TypeOK
  <2> QED
    BY <2>1, <2>2
<1> QED
  BY <1>3, <1>4, <1>5, <1>6 DEF AppendRow, TypeOK

-----------------------------------------------------------------------------
(***************************************************************************)
(* The invariant is inductive.                                             *)
(***************************************************************************)

LEMMA InvInit == Init => IInv
<1> SUFFICES ASSUME Init PROVE IInv
  OBVIOUS
<1>1. TypeOK
  BY TypeInit
<1>2. BuilderFollowsTree
  BY DEF Init, BuilderFollowsTree
<1>3. RowsRevealed /\ Covered /\ OwnDictionaries /\ Fits
  BY DEF Init, RowsRevealed, Covered, OwnDictionaries, Fits, FewUpdates
<1> QED
  BY <1>1, <1>2, <1>3 DEF IInv

LEMMA InvStart == IInv /\ Start => IInv'
<1> SUFFICES ASSUME IInv, Start PROVE IInv'
  OBVIOUS
<1>1. entity' \in Entity /\ Len(entity') \in 1..MaxRows
  BY EntityType DEF Start
<1>2. TypeOK'
  BY <1>1, SchemaAssumption DEF Start, IInv, TypeOK, MaxUpdates
<1>3. BuilderFollowsTree'
  BY DEF Start, IInv, BuilderFollowsTree, ColumnsUnder
<1>4. RowsRevealed'
  BY <1>1, SchemaAssumption DEF Start, RowsRevealed
<1>5. Covered' /\ OwnDictionaries' /\ Fits'
  BY DEF Start, Covered, OwnDictionaries, Fits, FewUpdates
<1> QED
  BY <1>2, <1>3, <1>4, <1>5 DEF IInv

\* A column a row asked for is in the schema that the tree now gives.
LEMMA RevealedIsColumn ==
  ASSUME NEW row \in Row, NEW removed, NEW f \in Field, row[f] # NoValue,
         \A g \in Field : row[g] # NoValue => g \notin removed
  PROVE  f \in ColumnsUnder(removed)
BY RowType DEF ColumnsUnder

LEMMA InvAppendRow == IInv /\ AppendRow => IInv'
<1> SUFFICES ASSUME IInv, AppendRow PROVE IInv'
  OBVIOUS
<1> DEFINE row == entity[next]
           missing == Missing(row)
<1> USE DEF IInv
<1>1. /\ pc = "append" /\ pc' = "append"
      /\ entity \in Entity /\ entity' = entity
      /\ next \in 1..Len(entity) /\ next' = next + 1
      /\ row \in Row
      /\ optional' = optional \ missing
      /\ pending' = (pending \/ missing # {})
      /\ missing = {f \in Field \ columns : row[f] # NoValue}
      /\ UNCHANGED <<index, columns, width, updates>>
      /\ Len(entity) \in Nat
  BY EntityType, SchemaAssumption
  DEF AppendRow, RowsRevealed, Revealed, Missing
<1> HIDE DEF row, missing
<1>2. TypeOK'
  BY TypeAppendRow
<1>3. \A f \in Field : row[f] # NoValue => f \notin optional'
  BY <1>1, SchemaAssumption DEF BuilderFollowsTree, ColumnsUnder
<1>4. BuilderFollowsTree'
  <2>1. columns' \subseteq ColumnsUnder(optional')
    BY <1>1 DEF BuilderFollowsTree, ColumnsUnder
  <2>2. CASE pending
    <3>1. PICK f \in ColumnsUnder(optional) : f \notin columns
      BY <2>2 DEF BuilderFollowsTree
    <3>2. f \in ColumnsUnder(optional')
      BY <1>1, <3>1 DEF ColumnsUnder
    <3> QED
      BY <1>1, <2>1, <2>2, <3>1, <3>2 DEF BuilderFollowsTree
  <2>3. CASE missing # {}
    <3>1. PICK f \in Field : f \notin columns /\ row[f] # NoValue
      BY <1>1, <2>3
    <3>2. f \in ColumnsUnder(optional')
      BY <1>1, <1>3, <3>1, RevealedIsColumn
    <3> QED
      BY <1>1, <2>1, <2>3, <3>1, <3>2 DEF BuilderFollowsTree
  <2>4. CASE ~pending /\ missing = {}
    <3>1. optional' = optional /\ ~pending'
      BY <1>1, <2>4
    <3> QED
      BY <1>1, <2>4, <3>1 DEF BuilderFollowsTree
  <2> QED
    BY <2>2, <2>3, <2>4
<1>5. RowsRevealed'
  <2>1. next' \in 1..Len(entity') + 1
    BY <1>1
  <2>2. ASSUME NEW j \in 1..next' - 1, NEW f \in Field, entity'[j][f] # NoValue
        PROVE  f \notin optional'
    <3>1. CASE j = next
      BY <1>1, <1>3, <2>2, <3>1 DEF row
    <3>2. CASE j # next
      BY <1>1, <2>2, <3>2 DEF RowsRevealed
    <3> QED
      BY <3>1, <3>2
  <2> QED
    BY <1>1, <2>1, <2>2 DEF RowsRevealed
<1>6. Covered'
  <2> SUFFICES ASSUME updates > 0 PROVE Covered'
    BY <1>1 DEF Covered
  <2>1. missing = {}
    BY <1>1 DEF Covered, row
  <2> QED
    BY <1>1, <2>1 DEF Covered
<1>7. OwnDictionaries'
  <2> SUFFICES ASSUME updates > 0, NEW f \in Encoded
               PROVE  memo'[f] \in Bijection(1..Len(memo'[f]),
                                             {entity[j][f] : j \in 1..next} \ {NoValue})
    <3>1. Encoded' = Encoded /\ next' - 1 = next /\ updates' = updates
      BY <1>1 DEF Encoded
    <3>2. \A f : {entity'[j][f] : j \in 1..next' - 1} = {entity[j][f] : j \in 1..next}
      BY <1>1, <3>1
    <3> QED
      BY <3>1, <3>2 DEF OwnDictionaries, Values
  <2>1. /\ f \in Dictionary /\ f \in Field
        /\ memo[f] \in Seq(Value)
        /\ row[f] \in Value \cup {NoValue}
    BY <1>1, RowType, SchemaAssumption DEF Encoded, TypeOK
  <2>2. memo[f] \in Bijection(1..Len(memo[f]), Values(f, next - 1))
    BY <1>1 DEF OwnDictionaries
  <2>3. memo'[f] = Memoized(memo[f], row[f])
    BY <2>1 DEF AppendRow, BuilderFollowsTree, row
  <2>4. Values(f, next - 1) \cup ({row[f]} \ {NoValue})
          = {entity[j][f] : j \in 1..next} \ {NoValue}
    <3>1. 1..next = 1..next - 1 \cup {next}
      BY <1>1
    <3> QED
      BY <3>1 DEF Values, row
  <2>5. Memoized(memo[f], row[f])
          \in Bijection(1..Len(Memoized(memo[f], row[f])),
                        Values(f, next - 1) \cup ({row[f]} \ {NoValue}))
    BY <2>1, <2>2, MemoizedBijection, Zenon
  <2> QED
    BY <2>3, <2>4, <2>5, Zenon
<1>8. Fits'
  BY <1>1 DEF Fits, FewUpdates, Encoded, Values
<1> QED
  BY <1>2, <1>4, <1>5, <1>6, <1>7, <1>8

\* Every row has been through, so the tree has all columns of the batch.
LEMMA AllRevealed ==
  ASSUME IInv, RowsDone
  PROVE  /\ entity \in Entity /\ Len(entity) \in Nat \ {0} /\ next - 1 = Len(entity)
         /\ \A j \in 1..Len(entity), f \in Field :
              entity[j][f] # NoValue => f \in ColumnsUnder(optional)
<1>1. /\ entity \in Entity /\ Len(entity) \in Nat \ {0} /\ next - 1 = Len(entity)
      /\ \A j \in 1..Len(entity), f \in Field : entity[j][f] # NoValue => f \notin optional
      /\ \A j \in 1..Len(entity) : entity[j] \in Row
  <2>1. entity \in Entity /\ next \in 1..Len(entity) + 1 /\ next > Len(entity)
    BY DEF IInv, RowsRevealed, RowsDone
  <2>2. /\ Len(entity) \in Nat \ {0}
        /\ \A j \in 1..Len(entity) : entity[j] \in Row
    BY <2>1, EntityType, SchemaAssumption
  <2>3. next - 1 = Len(entity)
    BY <2>1, <2>2
  <2> QED
    BY <2>1, <2>2, <2>3 DEF IInv, RowsRevealed, RowsDone
<1> QED
  BY <1>1, RevealedIsColumn

\* What every schema update establishes.
LEMMA InvUpdateSchema ==
  ASSUME IInv, RowsDone, NEW newIndex \in [Dictionary -> Index],
         UpdateSchema(newIndex), updates <= 1
  PROVE  TypeOK' /\ BuilderFollowsTree' /\ RowsRevealed' /\ Covered' /\ OwnDictionaries'
<1>1. /\ entity \in Entity /\ Len(entity) \in Nat \ {0}
      /\ entity' = entity /\ optional' = optional /\ next' = 1
      /\ columns' = ColumnsUnder(optional) /\ ~pending' /\ pc' = "append"
  BY AllRevealed DEF UpdateSchema, NothingPending, IInv, TypeOK, MaxUpdates
<1>2. TypeOK'
  BY TypeUpdateSchema DEF IInv, RowsDone, Fits
<1>3. BuilderFollowsTree'
  BY <1>1 DEF UpdateSchema, BuilderFollowsTree, ColumnsUnder
<1>4. RowsRevealed'
  BY <1>1 DEF RowsRevealed
<1>5. Covered'
  BY <1>1, AllRevealed DEF Covered
<1>6. OwnDictionaries'
  <2>1. ASSUME NEW f \in Dictionary
        PROVE  memo'[f] = <<>> /\ {entity'[j][f] : j \in 1..next' - 1} \ {NoValue} = {}
    BY <1>1 DEF UpdateSchema, EmptyMemo
  <2>2. <<>> \in Bijection(1..Len(<<>>), {})
    BY EmptySeq DEF Bijection, Injection, Surjection, IsInjective
  <2> QED
    BY <2>1, <2>2 DEF OwnDictionaries, Encoded, Values
<1> QED
  BY <1>2, <1>3, <1>4, <1>5, <1>6

LEMMA InvAddColumns == IInv /\ AddColumns => IInv'
<1> SUFFICES ASSUME IInv, AddColumns PROVE IInv'
  OBVIOUS
<1>1. updates = 0
  BY DEF IInv, AddColumns, RowsDone, Covered, TypeOK
<1>2. index \in [Dictionary -> Index]
  BY DEF IInv, TypeOK
<1>3. TypeOK' /\ BuilderFollowsTree' /\ RowsRevealed' /\ Covered' /\ OwnDictionaries'
  BY <1>1, <1>2, InvUpdateSchema DEF AddColumns
<1>4. Fits'
  BY <1>1 DEF AddColumns, UpdateSchema, Fits, FewUpdates, MaxUpdates
<1> QED
  BY <1>3, <1>4 DEF IInv

\* Once the dictionaries hold the values of the batch only, their cardinality
\* is that of these values.
LEMMA OwnCardinality ==
  ASSUME IInv, RowsDone, updates > 0, NEW f \in Encoded
  PROVE  Cardinality(Values(f, Len(entity))) = Len(memo[f])
<1>1. memo[f] \in Bijection(1..Len(memo[f]), Values(f, Len(entity)))
  BY AllRevealed DEF IInv, OwnDictionaries, RowsDone
<1>2. Len(memo[f]) \in Nat
  BY LenProperties DEF IInv, TypeOK, Encoded
<1> QED
  BY <1>1, <1>2, FS_CountingElements DEF ExistsBijection

LEMMA InvWidenIndices == IInv /\ WidenIndices => IInv'
<1> SUFFICES ASSUME IInv, WidenIndices PROVE IInv'
  OBVIOUS
<1>1. RowsDone /\ pc = "append" /\ ~pending /\ Measured # index /\ UpdateSchema(Measured)
  BY DEF WidenIndices, RowsDone
<1>2. /\ Measured \in [Dictionary -> Index] /\ index \in [Dictionary -> Index]
      /\ updates \in Nat /\ width = index
      /\ \A f \in Dictionary : Len(memo[f]) \in Nat
  BY MeasuredType, LenProperties DEF IInv, TypeOK, BuilderFollowsTree
<1>3. updates <= 1
  <2> SUFFICES ASSUME updates = 2 PROVE Measured = index
    BY <1>1, <1>2 DEF IInv, Fits, FewUpdates
  <2>1. ASSUME NEW f \in Encoded PROVE Fitting(f) = index[f]
    <3>1. Len(memo[f]) <= IndexMaxCard[index[f]]
      BY <1>1, <1>2, OwnCardinality DEF IInv, Fits
    <3> QED
      BY <1>2, <3>1, FittingType DEF Encoded
  <2> QED
    BY <1>2, <2>1 DEF Measured
<1>4. TypeOK' /\ BuilderFollowsTree' /\ RowsRevealed' /\ Covered' /\ OwnDictionaries'
  BY <1>1, <1>2, <1>3, InvUpdateSchema
<1>5. Fits'
  <2>1. pc' # "panicked" /\ FewUpdates'
    BY <1>1, <1>2, <1>3 DEF UpdateSchema, FewUpdates, MaxUpdates
  <2>2. ASSUME updates' = 2, NEW f \in Encoded'
        PROVE  Cardinality(Values(f, Len(entity)))' <= IndexMaxCard[width[f]]'
    <3>1. updates > 0 /\ entity' = entity /\ width' = Measured /\ columns' = columns
      BY <1>1, <1>2, <2>2 DEF UpdateSchema, IInv, BuilderFollowsTree
    <3>2. f \in Dictionary /\ f \in columns /\ Measured[f] # 0
      BY <2>2, <3>1 DEF Encoded
    <3>3. f \in Encoded
      BY <1>2, <3>2 DEF Encoded, Measured
    <3>4. Measured[f] = Fitting(f)
      BY <3>2, <3>3 DEF Measured
    <3>5. Len(memo[f]) <= IndexMaxCard[Measured[f]]
      BY <1>2, <3>2, <3>4, FittingType
    <3>6. Cardinality(Values(f, Len(entity))) = Len(memo[f])
      BY <1>1, <3>1, <3>3, OwnCardinality
    <3>7. Values(f, Len(entity))' = Values(f, Len(entity))
      BY <3>1 DEF Values
    <3> QED
      BY <3>1, <3>5, <3>6, <3>7
  <2> QED
    BY <2>1, <2>2 DEF Fits
<1> QED
  BY <1>4, <1>5 DEF IInv

LEMMA InvAccept == IInv /\ Accept => IInv'
<1> SUFFICES ASSUME IInv, Accept PROVE IInv'
  OBVIOUS
<1>1. TypeOK'
  BY EmptySeq DEF Accept, IInv, TypeOK
<1>2. BuilderFollowsTree'
  BY DEF Accept, IInv, BuilderFollowsTree, ColumnsUnder
<1>3. RowsRevealed' /\ Covered' /\ OwnDictionaries' /\ Fits'
  BY DEF Accept, IInv, RowsRevealed, Covered, OwnDictionaries, Fits, FewUpdates
<1> QED
  BY <1>1, <1>2, <1>3 DEF IInv

LEMMA InvStep == IInv /\ [Next]_vars => IInv'
<1> SUFFICES ASSUME IInv, [Next]_vars PROVE IInv'
  OBVIOUS
<1>1. CASE UNCHANGED vars
  <2>1. /\ Encoded' = Encoded
        /\ ColumnsUnder(optional)' = ColumnsUnder(optional)
    BY <1>1 DEF Encoded, ColumnsUnder
  <2>2. TypeOK'
    BY <1>1 DEF IInv, TypeOK
  <2>3. BuilderFollowsTree'
    BY <1>1, <2>1 DEF IInv, BuilderFollowsTree
  <2>4. RowsRevealed'
    BY <1>1 DEF IInv, RowsRevealed
  <2>5. Covered'
    BY <1>1 DEF IInv, Covered
  <2>6. OwnDictionaries'
    <3>1. \A f \in Encoded : Values(f, next - 1)' = Values(f, next - 1)
      BY <1>1 DEF Values
    <3> QED
      BY <1>1, <2>1, <3>1 DEF IInv, OwnDictionaries
  <2>7. Fits'
    <3>1. \A f \in Encoded : Values(f, Len(entity))' = Values(f, Len(entity))
      BY <1>1 DEF Values
    <3> QED
      BY <1>1, <2>1, <3>1 DEF IInv, Fits, FewUpdates
  <2> QED
    BY <2>2, <2>3, <2>4, <2>5, <2>6, <2>7 DEF IInv
<1> QED
  BY <1>1, InvStart, InvAppendRow, InvAddColumns, InvWidenIndices, InvAccept DEF Next

THEOREM Invariance == Spec => []IInv
BY InvInit, InvStep, PTL DEF Spec

-----------------------------------------------------------------------------
(***************************************************************************)
(* The rows in the builder.                                                *)
(***************************************************************************)

Distinct(d) == \A i, j \in 1..Len(d) : d[i] = d[j] => i = j

Holds(d, v) == \E k \in 1..Len(d) : d[k] = v

\* Every row appended so far is there, and its values are where its indices say.
RowsHeld ==
  /\ \A f \in Dictionary : Distinct(memo[f])
  /\ pc = "idle" => rows = <<>>
  /\ pc = "append" =>
       /\ Len(rows) = next - 1
       /\ \A i \in 1..next - 1, f \in Field : rows[i][f] = Cells(entity[i], memo)[f]
       /\ \A i \in 1..next - 1, f \in Encoded :
            entity[i][f] # NoValue => Holds(memo[f], entity[i][f])

\* A dictionary keeps what it has where it is, and takes nothing twice.
LEMMA MemoizedKeeps ==
  ASSUME NEW d \in Seq(Value), NEW v \in Value \cup {NoValue}, Distinct(d)
  PROVE  /\ Distinct(Memoized(d, v))
         /\ \A i \in 1..Len(d) : i \in 1..Len(Memoized(d, v)) /\ Memoized(d, v)[i] = d[i]
<1>1. CASE Memoized(d, v) = d
  BY <1>1
<1>2. CASE Memoized(d, v) # d
  <2>1. /\ Memoized(d, v) = Append(d, v)
        /\ v \in Value
        /\ ~ Holds(d, v)
    BY <1>2 DEF Memoized, Holds
  <2> DEFINE e == Append(d, v)
  <2>2. /\ Len(d) \in Nat
        /\ Len(e) = Len(d) + 1
        /\ e[Len(d) + 1] = v
        /\ \A i \in 1..Len(d) : e[i] = d[i]
    BY <2>1, AppendProperties, LenProperties
  <2> HIDE DEF e
  <2>3. ASSUME NEW i \in 1..Len(e), NEW j \in 1..Len(e), e[i] = e[j] PROVE i = j
    <3>1. CASE i \in 1..Len(d) /\ j \in 1..Len(d)
      BY <2>2, <2>3, <3>1 DEF Distinct
    <3>2. CASE i \in 1..Len(d) /\ j = Len(d) + 1
      BY <2>1, <2>2, <2>3, <3>2 DEF Holds
    <3>3. CASE i = Len(d) + 1 /\ j \in 1..Len(d)
      BY <2>1, <2>2, <2>3, <3>3 DEF Holds
    <3>4. CASE i = Len(d) + 1 /\ j = Len(d) + 1
      BY <3>4
    <3> QED
      BY <2>2, <3>1, <3>2, <3>3, <3>4
  <2>4. Distinct(e)
    BY <2>3 DEF Distinct
  <2>5. \A i \in 1..Len(d) : i \in 1..Len(e) /\ e[i] = d[i]
    BY <2>2
  <2> QED
    BY <2>1, <2>4, <2>5 DEF e
<1> QED
  BY <1>1, <1>2

Position(d, v) == CHOOSE i \in 1..Len(d) : d[i] = v

\* The position of a value stays when the dictionary grows.
LEMMA PositionKept ==
  ASSUME NEW d, NEW e, NEW v, Distinct(d), Distinct(e), Holds(d, v),
         \A i \in 1..Len(d) : i \in 1..Len(e) /\ e[i] = d[i]
  PROVE  /\ Holds(e, v)
         /\ Position(e, v) = Position(d, v)
<1>1. PICK k \in 1..Len(d) : d[k] = v
  BY DEF Holds
<1>2. \A i \in 1..Len(d) : d[i] = v => i = k
  BY <1>1 DEF Distinct
<1>3. k \in 1..Len(e) /\ e[k] = v
  BY <1>1
<1>4. \A i \in 1..Len(e) : e[i] = v => i = k
  BY <1>3 DEF Distinct
<1>5. Position(d, v) = k
  BY <1>1, <1>2 DEF Position
<1>6. Position(e, v) = k
  BY <1>3, <1>4 DEF Position
<1> QED
  BY <1>3, <1>5, <1>6 DEF Holds

LEMMA Modulo ==
  ASSUME NEW a \in Nat, NEW n \in Nat \ {0}, a < n
  PROVE  a % n = a
OBVIOUS

\* While a dictionary fits its index type, an index leads back to its value.
LEMMA IndexFindsValue ==
  ASSUME NEW f, NEW d \in Seq(Value), NEW v, Holds(d, v),
         IndexMaxCard[width[f]] \in Nat, Len(d) <= IndexMaxCard[width[f]]
  PROVE  IndexOf(f, d, v) \in Nat /\ d[IndexOf(f, d, v) + 1] = v
<1> DEFINE k == CHOOSE i \in 1..Len(d) : d[i] = v
<1>1. k \in 1..Len(d) /\ d[k] = v
  BY DEF Holds
<1>2. Len(d) \in Nat
  BY LenProperties
<1>3. IndexOf(f, d, v) = (k - 1) % (IndexMaxCard[width[f]] + 1)
  BY DEF IndexOf
<1> HIDE DEF k
<1>4. (k - 1) % (IndexMaxCard[width[f]] + 1) = k - 1
  <2>1. k - 1 \in Nat /\ IndexMaxCard[width[f]] + 1 \in Nat \ {0}
    BY <1>1, <1>2
  <2>2. k - 1 < IndexMaxCard[width[f]] + 1
    BY <1>1, <1>2
  <2> QED
    BY <2>1, <2>2, Modulo
<1>5. (k - 1) + 1 = k /\ k - 1 \in Nat
  BY <1>1, <1>2
<1> QED
  BY <1>1, <1>3, <1>4, <1>5

LEMMA HeldAppendRow ==
  ASSUME IInv, RowsHeld, AppendRow
  PROVE  RowsHeld'
<1> DEFINE row == entity[next]
<1>1. /\ pc = "append" /\ pc' = "append"
      /\ entity \in Entity /\ entity' = entity
      /\ next \in Nat \ {0} /\ next' = next + 1 /\ Len(rows) = next - 1
      /\ row \in Row
      /\ Encoded' = Encoded /\ columns' = columns /\ width' = width
      /\ memo' = Grown(row)
      /\ rows' = Append(rows, Cells(row, memo'))
  <2>1. pc = "append" /\ pc' = "append" /\ entity \in Entity /\ entity' = entity
    BY DEF AppendRow, IInv, RowsRevealed
  <2>2. next \in Nat \ {0} /\ next' = next + 1 /\ Len(rows) = next - 1
    BY <2>1, EntityType DEF AppendRow, IInv, RowsRevealed, RowsHeld
  <2>3. row \in Row
    BY <2>1, EntityType, SchemaAssumption DEF AppendRow, IInv, RowsRevealed
  <2>4. Encoded' = Encoded /\ columns' = columns /\ width' = width
    BY DEF AppendRow, Encoded
  <2>5. memo' = Grown(row) /\ rows' = Append(rows, Cells(row, memo'))
    BY DEF AppendRow, Grown
  <2> QED
    BY <2>1, <2>2, <2>3, <2>4, <2>5
<1> HIDE DEF row
<1>2. ASSUME NEW f \in Dictionary
      PROVE  /\ Distinct(memo[f]) /\ Distinct(memo'[f])
             /\ \A i \in 1..Len(memo[f]) : i \in 1..Len(memo'[f]) /\ memo'[f][i] = memo[f][i]
             /\ f \in Encoded /\ row[f] # NoValue => Holds(memo'[f], row[f])
  <2>1. memo[f] \in Seq(Value) /\ row[f] \in Value \cup {NoValue} /\ Distinct(memo[f])
    BY <1>1, RowType, SchemaAssumption DEF IInv, TypeOK, RowsHeld
  <2>2. memo'[f] = IF f \in Encoded THEN Memoized(memo[f], row[f]) ELSE memo[f]
    BY <1>1 DEF Grown
  <2>3. row[f] # NoValue => Holds(Memoized(memo[f], row[f]), row[f])
    BY <2>1, MemoizedType DEF Holds
  <2> QED
    BY <2>1, <2>2, <2>3, MemoizedKeeps
<1>3. ASSUME NEW i \in 1..next - 1, NEW f \in Field
      PROVE  /\ rows'[i][f] = (Cells(entity[i], memo)[f])'
             /\ f \in Encoded /\ entity[i][f] # NoValue => Holds(memo'[f], entity[i][f])
  <2>1. rows'[i] = rows[i] /\ rows[i][f] = Cells(entity[i], memo)[f]
    <3>1. rows \in Seq([Field -> Value \cup {Present, NoValue} \cup Nat])
      BY DEF IInv, TypeOK
    <3>2. Cells(row, Grown(row)) \in [Field -> Value \cup {Present, NoValue} \cup Nat]
      BY <1>1, CellsType DEF IInv
    <3>3. \A k \in 1..Len(rows) : Append(rows, Cells(row, Grown(row)))[k] = rows[k]
      BY <3>1, <3>2, AppendProperties
    <3>4. rows[i][f] = Cells(entity[i], memo)[f]
      BY <1>1 DEF RowsHeld
    <3> QED
      BY <1>1, <3>3, <3>4
  <2>2. CASE f \in Encoded /\ entity[i][f] # NoValue
    <3>1. f \in Dictionary /\ f \in columns
      BY <2>2 DEF Encoded
    <3>2. Holds(memo[f], entity[i][f])
      BY <1>1, <2>2 DEF RowsHeld
    <3>3. /\ Holds(memo'[f], entity[i][f])
          /\ IndexOf(f, memo'[f], entity[i][f]) = IndexOf(f, memo[f], entity[i][f])
      <4>1. /\ Distinct(memo[f]) /\ Distinct(memo'[f])
            /\ \A k \in 1..Len(memo[f]) :
                 k \in 1..Len(memo'[f]) /\ memo'[f][k] = memo[f][k]
        BY <1>2, <3>1
      <4>2. Position(memo'[f], entity[i][f]) = Position(memo[f], entity[i][f])
            /\ Holds(memo'[f], entity[i][f])
        BY <3>2, <4>1, PositionKept
      <4> QED
        BY <4>2 DEF IndexOf, Position
    <3>4. Cells(entity[i], memo)[f] = IndexOf(f, memo[f], entity[i][f])
      BY <2>2, <3>1 DEF Cells
    <3>5. (Cells(entity[i], memo)[f])' = IndexOf(f, memo'[f], entity[i][f])
      BY <1>1, <2>2, <3>1 DEF Cells, IndexOf
    <3> QED
      BY <2>1, <3>3, <3>4, <3>5
  <2>3. CASE ~(f \in Encoded /\ entity[i][f] # NoValue)
    <3>1. (Cells(entity[i], memo)[f])' = Cells(entity[i], memo)[f]
      BY <1>1, <2>3 DEF Cells
    <3> QED
      BY <2>1, <2>3, <3>1
  <2> QED
    BY <2>2, <2>3
<1>4. ASSUME NEW i, i = next, NEW f \in Field
      PROVE  rows'[i][f] = (Cells(entity[i], memo)[f])'
  <2>1. rows \in Seq([Field -> Value \cup {Present, NoValue} \cup Nat])
    BY DEF IInv, TypeOK
  <2>2. Cells(row, Grown(row)) \in [Field -> Value \cup {Present, NoValue} \cup Nat]
    BY <1>1, CellsType DEF IInv
  <2>3. rows'[i] = Cells(row, memo')
    BY <1>1, <1>4, <2>1, <2>2, AppendProperties
  <2>4. (Cells(entity[i], memo)[f])' = Cells(row, memo')[f]
    BY <1>1, <1>4 DEF Cells, IndexOf, row
  <2> QED
    BY <2>3, <2>4
<1>5. Len(rows') = next' - 1
  <2>1. rows \in Seq([Field -> Value \cup {Present, NoValue} \cup Nat])
    BY DEF IInv, TypeOK
  <2>2. Cells(row, Grown(row)) \in [Field -> Value \cup {Present, NoValue} \cup Nat]
    BY <1>1, CellsType DEF IInv
  <2> QED
    BY <1>1, <2>1, <2>2, AppendProperties
<1>6. \A i \in 1..next' - 1 : i \in 1..next - 1 \/ i = next
  BY <1>1
<1>7. \A i \in 1..next' - 1, f \in Field : rows'[i][f] = (Cells(entity[i], memo)[f])'
  BY <1>3, <1>4, <1>6
<1>8. \A i \in 1..next' - 1, f \in Encoded :
        entity[i][f] # NoValue => Holds(memo'[f], entity[i][f])
  <2>1. Encoded \subseteq Dictionary /\ Dictionary \subseteq Field
    BY SchemaAssumption DEF Encoded
  <2> QED
    BY <1>2, <1>3, <1>6, <2>1 DEF row
<1> QED
  BY <1>1, <1>2, <1>5, <1>7, <1>8 DEF RowsHeld

LEMMA HeldUpdateSchema ==
  ASSUME IInv, RowsDone, NEW newIndex, UpdateSchema(newIndex)
  PROVE  RowsHeld'
<1>1. rows' = <<>> /\ next' = 1 /\ pc' # "idle" /\ memo' = EmptyMemo
  BY DEF UpdateSchema
<1>2. \A f \in Dictionary : Distinct(memo'[f])
  BY <1>1, EmptySeq DEF EmptyMemo, Distinct
<1>3. Len(rows') = next' - 1 /\ 1..next' - 1 = {}
  BY <1>1, EmptySeq
<1> QED
  BY <1>1, <1>2, <1>3 DEF RowsHeld

LEMMA HeldInit == Init => RowsHeld
BY EmptySeq DEF Init, RowsHeld, EmptyMemo, Distinct

LEMMA HeldStep == IInv /\ RowsHeld /\ [Next]_vars => RowsHeld'
<1> SUFFICES ASSUME IInv, RowsHeld, [Next]_vars PROVE RowsHeld'
  OBVIOUS
<1>1. CASE Start
  <2>1. /\ rows' = <<>> /\ next' = 1 /\ pc' # "idle" /\ memo' = memo
    BY <1>1 DEF Start, RowsHeld
  <2>2. Len(rows') = next' - 1 /\ 1..next' - 1 = {}
    BY <2>1, EmptySeq
  <2> QED
    BY <2>1, <2>2 DEF RowsHeld
<1>2. CASE AppendRow
  BY <1>2, HeldAppendRow
<1>3. CASE AddColumns
  BY <1>3, HeldUpdateSchema DEF AddColumns
<1>4. CASE WidenIndices
  BY <1>4, HeldUpdateSchema DEF WidenIndices
<1>5. CASE Accept
  BY <1>5 DEF Accept, RowsHeld
<1>6. CASE UNCHANGED vars
  <2>1. /\ Encoded' = Encoded
        /\ \A i, f : (Cells(entity[i], memo)[f])' = Cells(entity[i], memo)[f]
    BY <1>6 DEF Encoded, Cells, IndexOf
  <2>2. /\ memo' = memo /\ pc' = pc /\ rows' = rows /\ next' = next
        /\ entity' = entity
    BY <1>6
  <2>3. pc = "append" => \A i \in 1..next - 1, f \in Field :
          rows'[i][f] = (Cells(entity[i], memo)[f])'
    <3>1. ASSUME pc = "append", NEW i \in 1..next - 1, NEW f \in Field
          PROVE  rows'[i][f] = (Cells(entity[i], memo)[f])'
      <4>1. rows[i][f] = Cells(entity[i], memo)[f]
        BY <3>1 DEF RowsHeld
      <4> QED
        BY <2>1, <2>2, <4>1
    <3> QED
      BY <3>1
  <2> QED
    BY <2>1, <2>2, <2>3 DEF RowsHeld
<1> QED
  BY <1>1, <1>2, <1>3, <1>4, <1>5, <1>6 DEF Next

\* A record that is accepted has every column its rows need, and dictionaries
\* that fit.
LEMMA AcceptedRecord ==
  ASSUME IInv, RowsHeld, Accept
  PROVE  Decoded' = entity
<1>1. /\ RowsDone /\ pc = "append" /\ ~pending /\ Measured = index
      /\ record' = [rows |-> rows, columns |-> columns, width |-> width, memo |-> memo]
  BY DEF Accept, RowsDone
<1>2. /\ entity \in Entity /\ Len(entity) \in Nat \ {0} /\ next - 1 = Len(entity)
      /\ columns = ColumnsUnder(optional) /\ width = index
      /\ Len(rows) = Len(entity)
  BY <1>1, AllRevealed DEF IInv, BuilderFollowsTree, RowsHeld
<1>3. \A i \in 1..Len(entity) : entity[i] \in Row
  BY <1>2, EntityType
<1>4. ASSUME NEW i \in 1..Len(entity), NEW f \in Field, f \notin columns
      PROVE  entity[i][f] = NoValue
  BY <1>1, <1>2, <1>4, AllRevealed
<1>5. ASSUME NEW f \in Encoded
      PROVE  /\ f \in Dictionary /\ f \in columns /\ memo[f] \in Seq(Value)
             /\ IndexMaxCard[width[f]] \in Nat
             /\ Len(memo[f]) <= IndexMaxCard[width[f]]
  <2>1. f \in Dictionary /\ f \in columns /\ memo[f] \in Seq(Value)
    BY DEF Encoded, IInv, TypeOK
  <2>2. Len(memo[f]) \in Nat /\ index[f] \in Index /\ index[f] # 0
    BY <1>2, <2>1, LenProperties DEF Encoded, IInv, TypeOK
  <2>3. Fitting(f) = index[f]
    <3>1. Measured[f] = Fitting(f)
      BY <2>1 DEF Measured
    <3> QED
      BY <1>1, <3>1
  <2>4. Len(memo[f]) <= IndexMaxCard[index[f]]
    BY <2>1, <2>2, <2>3, FittingType
  <2>5. index[f] \in IndexType
    BY <2>2, WidestIndexType, Ladder DEF Index, IndexType
  <2> QED
    BY <1>2, <2>1, <2>4, <2>5, Ladder
<1>6. ASSUME NEW i \in 1..Len(entity), NEW f \in Field
      PROVE  (LET cell == rows[i][f] IN
              IF cell = NoValue \/ f \notin columns \cap Dictionary THEN cell
              ELSE IF width[f] = 0 THEN cell ELSE memo[f][cell + 1]) = entity[i][f]
  <2>1. rows[i][f] = Cells(entity[i], memo)[f]
    BY <1>1, <1>2 DEF RowsHeld
  <2>2. CASE f \notin columns \/ entity[i][f] = NoValue
    <3>1. rows[i][f] = NoValue
      BY <2>1, <2>2 DEF Cells
    <3>2. entity[i][f] = NoValue
      BY <1>4, <2>2
    <3> QED
      BY <3>1, <3>2
  <2>3. CASE f \in columns /\ entity[i][f] # NoValue /\ f \notin Encoded
    <3>1. rows[i][f] = entity[i][f]
      BY <2>1, <2>3 DEF Cells
    <3>2. f \notin columns \cap Dictionary \/ width[f] = 0
      BY <2>3 DEF Encoded
    <3> QED
      BY <3>1, <3>2
  <2>4. CASE f \in columns /\ entity[i][f] # NoValue /\ f \in Encoded
    <3>1. Holds(memo[f], entity[i][f])
      BY <1>1, <1>2, <2>4 DEF RowsHeld
    <3>2. /\ IndexOf(f, memo[f], entity[i][f]) \in Nat
          /\ memo[f][IndexOf(f, memo[f], entity[i][f]) + 1] = entity[i][f]
      BY <1>5, <2>4, <3>1, IndexFindsValue
    <3>3. rows[i][f] = IndexOf(f, memo[f], entity[i][f])
      BY <2>1, <2>4 DEF Cells
    <3>4. rows[i][f] # NoValue
      BY <3>2, <3>3, SchemaAssumption
    <3>5. f \in columns \cap Dictionary /\ width[f] # 0
      BY <2>4 DEF Encoded
    <3> QED
      BY <3>2, <3>3, <3>4, <3>5
  <2> QED
    BY <2>2, <2>3, <2>4
<1>7. ASSUME NEW i \in 1..Len(entity)
      PROVE  [f \in Field |->
                LET cell == rows[i][f] IN
                IF cell = NoValue \/ f \notin columns \cap Dictionary THEN cell
                ELSE IF width[f] = 0 THEN cell ELSE memo[f][cell + 1]] = entity[i]
  <2>1. entity[i] \in [Field -> Value \cup {Present, NoValue}]
    BY <1>3 DEF Row
  <2> QED
    BY <1>6, <2>1
<1>8. entity \in [1..Len(entity) -> Row]
  BY <1>2, EntityType, LenProperties
<1>9. Decoded' =
        [i \in 1..Len(rows) |->
           [f \in Field |->
              LET cell == rows[i][f] IN
              IF cell = NoValue \/ f \notin columns \cap Dictionary THEN cell
              ELSE IF width[f] = 0 THEN cell ELSE memo[f][cell + 1]]]
  BY <1>1 DEF Decoded
<1>10. Decoded' = [i \in 1..Len(entity) |-> entity[i]]
  BY <1>2, <1>7, <1>9
<1> QED
  BY <1>8, <1>10

LEMMA RecordStep == IInv /\ RowsHeld /\ RecordIsEntity /\ [Next]_vars => RecordIsEntity'
<1> SUFFICES ASSUME IInv, RowsHeld, RecordIsEntity, [Next]_vars PROVE RecordIsEntity'
  OBVIOUS
<1>1. CASE Accept
  <2>1. Decoded' = entity /\ entity' = entity
    BY <1>1, AcceptedRecord DEF Accept
  <2> QED
    BY <2>1 DEF RecordIsEntity
<1>2. CASE Start \/ AppendRow \/ AddColumns \/ WidenIndices
  <2>1. pc' # "idle"
    BY <1>2 DEF Start, AppendRow, AddColumns, WidenIndices, UpdateSchema
  <2> QED
    BY <2>1 DEF RecordIsEntity
<1>3. CASE UNCHANGED vars
  BY <1>3 DEF RecordIsEntity, Decoded
<1> QED
  BY <1>1, <1>2, <1>3 DEF Next

-----------------------------------------------------------------------------
(***************************************************************************)
(* The theorems.                                                           *)
(***************************************************************************)

\* The variables of the encoder keep their types: an index type is one the
\* configuration allows, a dictionary holds values.
THEOREM TypeCorrect == Spec => []TypeOK
BY Invariance, PTL DEF IInv

\* producer.go: "Too many consecutive schema updates. This shouldn't happen."
\* Two updates suffice for every prototype schema, however deep its columns
\* are nested, and for batches of any size: the panic is out of reach.
THEOREM TwoUpdatesSuffice == Spec => [](FewUpdates /\ pc # "panicked")
BY Invariance, PTL DEF IInv, Fits

\* Build and NewRecord: a record that is accepted decodes to the rows of its
\* batch, whatever was built and thrown away before: no index wraps, since
\* NewRecord measures the dictionaries; no value lacks a column, since a pending
\* request voids the record; and the dictionaries a record builder keeps from
\* earlier batches leave every value at the index it had.
THEOREM RecordsAreEntities == Spec => []RecordIsEntity
<1>1. Init => RecordIsEntity
  BY DEF Init, RecordIsEntity
<1> QED
  BY <1>1, HeldInit, HeldStep, RecordStep, Invariance, PTL DEF Spec

\* UpdateSchema never empties the dictionaries without changing the schema, and
\* nothing else empties them: a decoder that starts a new sub-stream for
\* each schema ID never keeps values the encoder has dropped.
THEOREM NewSchemaTheorem == Spec => FreshDictionariesMeanNewSchema
<1> DEFINE Shorter == \E f \in Dictionary : Len(memo'[f]) < Len(memo[f])
           Another == <<columns, width>>' # <<columns, width>>
<1>1. ASSUME IInv, [Next]_vars PROVE [Shorter => Another]_vars
  <2> SUFFICES ASSUME Next, Shorter PROVE Another
    BY <1>1
  <2>1. CASE Start
    BY <2>1, <1>1, LenProperties DEF Start, IInv, TypeOK
  <2>2. CASE AppendRow
    <3>1. ASSUME NEW f \in Dictionary PROVE Len(memo'[f]) >= Len(memo[f])
      <4>1. memo[f] \in Seq(Value) /\ Len(memo[f]) \in Nat
        BY <1>1, LenProperties DEF IInv, TypeOK
      <4>2. entity[next][f] \in Value \cup {NoValue}
        <5>1. entity[next] \in Row
          BY <1>1, <2>2, EntityType DEF IInv, RowsRevealed, AppendRow
        <5> QED
          BY <5>1, RowType, SchemaAssumption
      <4>3. memo'[f] = memo[f] \/ memo'[f] = Memoized(memo[f], entity[next][f])
        BY <2>2 DEF AppendRow
      <4>4. \A v \in Value : Len(Append(memo[f], v)) = Len(memo[f]) + 1
        BY <4>1, AppendProperties
      <4>5. \/ memo'[f] = memo[f]
            \/ entity[next][f] \in Value /\ memo'[f] = Append(memo[f], entity[next][f])
        BY <4>2, <4>3 DEF Memoized
      <4> QED
        BY <4>1, <4>4, <4>5
    <3> QED
      BY <3>1, <2>2, <1>1, TypeAppendRow, LenProperties DEF IInv, TypeOK
  <2>3. CASE AddColumns
    BY <2>3, <1>1 DEF AddColumns, UpdateSchema, IInv, BuilderFollowsTree
  <2>4. CASE WidenIndices
    BY <2>4, <1>1 DEF WidenIndices, UpdateSchema, IInv, BuilderFollowsTree
  <2>5. CASE Accept
    BY <2>5, <1>1, LenProperties DEF Accept, IInv, TypeOK
  <2> QED
    BY <2>1, <2>2, <2>3, <2>4, <2>5 DEF Next
<1> QED
  BY <1>1, Invariance, PTL DEF Spec, FreshDictionariesMeanNewSchema

\* A column never goes and an index type never narrows, whatever comes: no
\* schema returns after it was left.
THEOREM GrowthTheorem == Spec => SchemaOnlyGrows
<1> DEFINE Grows ==
             /\ columns \subseteq columns'
             /\ \A f \in Dictionary :
                  width'[f] = 0 \/ (width[f] # 0 /\ width[f] <= width'[f])
<1>1. ASSUME IInv, [Next]_vars PROVE [Grows]_vars
  <2> SUFFICES ASSUME Next PROVE Grows
    BY <1>1
  <2>1. /\ width \in [Dictionary -> Index] /\ width = index
        /\ columns \subseteq ColumnsUnder(optional)
        /\ \A f \in Dictionary : Len(memo[f]) \in Nat
        /\ \A f \in Dictionary : width[f] \in Nat
    BY <1>1, LenProperties DEF IInv, TypeOK, BuilderFollowsTree, Index
  <2>2. CASE UNCHANGED <<columns, width>>
    BY <2>1, <2>2
  <2>3. CASE AddColumns
    BY <2>1, <2>3 DEF AddColumns, UpdateSchema
  <2>4. CASE WidenIndices
    <3>1. columns' = ColumnsUnder(optional) /\ width' = Measured
      BY <2>4 DEF WidenIndices, UpdateSchema
    <3>2. ASSUME NEW f \in Dictionary
          PROVE  Measured[f] = 0 \/ (width[f] # 0 /\ width[f] <= Measured[f])
      <4>1. index[f] \in Index /\ index[f] = width[f]
        BY <2>1
      <4> QED
        BY <2>1, <4>1, FittingType DEF Measured
    <3> QED
      BY <2>1, <3>1, <3>2
  <2> QED
    BY <2>2, <2>3, <2>4 DEF Next, Start, AppendRow, Accept
<1> QED
  BY <1>1, Invariance, PTL DEF Spec, SchemaOnlyGrows
=============================================================================
