---------------------------- MODULE PaidStateProofs ----------------------------
(***************************************************************************)
(* Facts about the totals from which computePaidState makes the balance.   *)
(*                                                                         *)
(* TotalOf folds over a set, and the fold is a recursive function.  That   *)
(* such a function exists, and that the order in which the fold takes the  *)
(* rows does not matter, is proved here by induction on the set; the       *)
(* principle used is that a family of subsets of a finite set has a        *)
(* smallest member (Smallest), applied to the family of the subsets for    *)
(* which the claim would be false.                                         *)
(***************************************************************************)
EXTENDS PaidState, FiniteSetTheorems, TLAPS

\* A family of subsets of a finite set has a member that contains no other one.
LEMMA Smallest ==
  ASSUME NEW S, IsFiniteSet(S), NEW B \in SUBSET SUBSET S, B # {}
  PROVE  \E T \in B : \A U \in B : U \subseteq T => U = T
<1>1. FiniteSubsetsOf(S) = SUBSET S
  BY FS_FiniteSubsetsOfFinite
<1>2. IsWellFoundedOn(StrictSubsetOrdering(S), SUBSET S)
  BY <1>1, FS_StrictSubsetOrderingWellFounded
<1>3. PICK T \in B : \A U \in B : ~ (<<U, T>> \in StrictSubsetOrdering(S))
  BY <1>2, WFMin
<1>4. QED
  BY <1>3 DEF StrictSubsetOrdering

-----------------------------------------------------------------------------
(* The fold.                                                               *)

\* The row that the fold takes next, and the function it computes on the
\* subsets of S.
First(s) == CHOOSE x \in s : TRUE
IsFold(g, rows, S) ==
  g = [s \in SUBSET S |-> IF s = {} THEN 0
                          ELSE rows[CHOOSE x \in s : TRUE].amount
                                 + g[s \ {CHOOSE x \in s : TRUE}]]

\* The fold of a total, as the library defines it.
LEMMA TotalFolds ==
  ASSUME NEW rows, NEW S, \E g : IsFold(g, rows, S)
  PROVE  \E g : IsFold(g, rows, S) /\ TotalOf(rows, S) = g[S]
<1> DEFINE f == CHOOSE g : IsFold(g, rows, S)
<1>1. TotalOf(rows, S) = f[S]
  BY DEF TotalOf, MapThenSumSet, MapThenFoldSet, IsFold
<1>2. IsFold(f, rows, S)
  OBVIOUS
<1>3. QED
  BY <1>1, <1>2

\* What a fold returns for one of its sets.
LEMMA FoldValue ==
  ASSUME NEW rows, NEW S, NEW g, IsFold(g, rows, S), NEW s \in SUBSET S
  PROVE  /\ s = {} => g[s] = 0
         /\ s # {} => /\ First(s) \in s
                      /\ s \ {First(s)} \in SUBSET S
                      /\ g[s] = rows[First(s)].amount + g[s \ {First(s)}]
<1>1. s # {} => First(s) \in s
  BY DEF First
<1>2. s # {} => g[s] = rows[First(s)].amount + g[s \ {First(s)}]
  BY DEF IsFold, First
<1>3. s = {} => g[s] = 0
  BY DEF IsFold
<1>4. QED
  BY <1>1, <1>2, <1>3

\* Two folds over rows with the same amounts agree where both are defined.
LEMMA FoldsAgree ==
  ASSUME NEW rows, NEW others, NEW S, NEW T \in SUBSET S, IsFiniteSet(S),
         \A i \in T : rows[i].amount = others[i].amount,
         NEW g, IsFold(g, rows, S), NEW h, IsFold(h, others, T)
  PROVE  \A s \in SUBSET T : g[s] = h[s]
<1> DEFINE B == {s \in SUBSET T : g[s] # h[s]}
<1>1. SUFFICES ASSUME B # {} PROVE FALSE
  OBVIOUS
<1>2. IsFiniteSet(T)
  BY FS_Subset
<1>3. PICK s \in B : \A u \in B : u \subseteq s => u = s
  <2>1. B \in SUBSET SUBSET T
    OBVIOUS
  <2> HIDE DEF B
  <2>2. QED
    BY <1>1, <1>2, <2>1, Smallest
<1>4. s \in SUBSET T /\ s \in SUBSET S /\ g[s] # h[s]
  OBVIOUS
<1> HIDE DEF B
<1>a. /\ s = {} => g[s] = 0
      /\ s # {} => /\ First(s) \in s
                   /\ g[s] = rows[First(s)].amount + g[s \ {First(s)}]
  <2>1. s \in SUBSET S
    BY <1>4
  <2>2. QED
    BY <2>1, FoldValue
<1>b. /\ s = {} => h[s] = 0
      /\ s # {} => /\ First(s) \in s
                   /\ s \ {First(s)} \in SUBSET T
                   /\ h[s] = others[First(s)].amount + h[s \ {First(s)}]
  <2>1. s \in SUBSET T
    BY <1>4
  <2>2. QED
    BY <2>1, FoldValue
<1>5. s # {}
  BY <1>4, <1>a, <1>b
<1>6. /\ First(s) \in s /\ s \ {First(s)} \in SUBSET T
      /\ g[s] = rows[First(s)].amount + g[s \ {First(s)}]
      /\ h[s] = others[First(s)].amount + h[s \ {First(s)}]
  BY <1>4, <1>5, <1>a, <1>b
<1>7. g[s \ {First(s)}] = h[s \ {First(s)}]
  BY <1>3, <1>6 DEF B
<1>8. QED
  BY <1>4, <1>6, <1>7

\* The fold exists, and its values are natural numbers.
LEMMA FoldExists ==
  ASSUME NEW S, IsFiniteSet(S), NEW rows, \A i \in S : rows[i].amount \in Nat
  PROVE  \E g \in [SUBSET S -> Nat] : IsFold(g, rows, S)
<1> DEFINE Has(T) == \E g \in [SUBSET T -> Nat] : IsFold(g, rows, T)
           B == {T \in SUBSET S : ~Has(T)}
<1>1. SUFFICES ASSUME B # {} PROVE FALSE
  OBVIOUS
<1>2. PICK T \in B : \A U \in B : U \subseteq T => U = T
  <2>1. B \in SUBSET SUBSET S
    OBVIOUS
  <2> HIDE DEF B
  <2>2. QED
    BY <1>1, <2>1, Smallest
<1>3. T \in SUBSET S /\ ~Has(T)
  OBVIOUS
<1>4. \A U \in SUBSET T : U # T => Has(U)
  BY <1>2, <1>3
<1> DEFINE fold(U) == CHOOSE g : g \in [SUBSET U -> Nat] /\ IsFold(g, rows, U)
           G == [s \in SUBSET T |-> IF s = {} THEN 0
                                    ELSE rows[First(s)].amount
                                           + fold(s \ {First(s)})[s \ {First(s)}]]
<1>5. \A U \in SUBSET T : U # T => fold(U) \in [SUBSET U -> Nat] /\ IsFold(fold(U), rows, U)
  <2> TAKE U \in SUBSET T
  <2>1. HAVE U # T
  <2>2. \E g : g \in [SUBSET U -> Nat] /\ IsFold(g, rows, U)
    BY <1>4, <2>1
  <2>3. QED
    BY <2>2
<1> HIDE DEF fold
<1>6. \A s \in SUBSET T : s # {} =>
        /\ First(s) \in s /\ s \ {First(s)} \in SUBSET T /\ s \ {First(s)} # T
  BY DEF First
<1>7. G \in [SUBSET T -> Nat]
  <2>1. ASSUME NEW s \in SUBSET T, s # {}
        PROVE  rows[First(s)].amount + fold(s \ {First(s)})[s \ {First(s)}] \in Nat
    <3>1. rows[First(s)].amount \in Nat
      BY <1>3, <1>6, <2>1
    <3>2. fold(s \ {First(s)})[s \ {First(s)}] \in Nat
      <4> DEFINE U == s \ {First(s)}
      <4>1. U \in SUBSET T /\ U # T
        BY <1>6, <2>1
      <4> HIDE DEF U
      <4>2. fold(U) \in [SUBSET U -> Nat]
        BY <1>5, <4>1
      <4>3. fold(U)[U] \in Nat
        BY <4>2
      <4>4. QED
        BY <4>3 DEF U
    <3>3. QED
      BY <3>1, <3>2
  <2>2. QED
    BY <2>1
<1>8. \A U \in SUBSET T : U # T => G[U] = fold(U)[U]
  <2> TAKE U \in SUBSET T
  <2>1. HAVE U # T
  <2>2. CASE U = {}
    BY <1>5, <2>1, <2>2, FoldValue
  <2>3. CASE U # {}
    <3> DEFINE V == U \ {First(U)}
    <3>1. /\ First(U) \in U /\ V \in SUBSET T /\ V # T /\ V \in SUBSET U
      BY <1>6, <2>3
    <3>2. fold(U)[U] = rows[First(U)].amount + fold(U)[V]
      <4>1. IsFold(fold(U), rows, U)
        BY <1>5, <2>1
      <4>2. U \in SUBSET U
        OBVIOUS
      <4>3. QED
        BY <2>3, <4>1, <4>2, FoldValue
    <3>3. IsFiniteSet(U)
      BY <1>3, FS_Subset
    <3>4. IsFold(fold(U), rows, U) /\ IsFold(fold(V), rows, V)
      BY <1>5, <2>1, <3>1
    <3>5. \A s \in SUBSET V : fold(U)[s] = fold(V)[s]
      <4> HIDE DEF V
      <4>1. QED
        BY <3>1, <3>3, <3>4, FoldsAgree
    <3>6. G[U] = rows[First(U)].amount + fold(V)[V]
      BY <2>3
    <3>7. QED
      BY <3>2, <3>5, <3>6
  <2>4. QED
    BY <2>2, <2>3
<1>9. \A s \in SUBSET T : s # {} => G[s] = rows[First(s)].amount + G[s \ {First(s)}]
  BY <1>6, <1>8
<1>10. IsFold(G, rows, T)
  <2>1. G[{}] = 0
    OBVIOUS
  <2> DEFINE rhs == [s \in SUBSET T |-> IF s = {} THEN 0
                          ELSE rows[First(s)].amount + G[s \ {First(s)}]]
  <2>2. \A s \in SUBSET T : G[s] = rhs[s]
    BY <2>1, <1>9
  <2>3. DOMAIN G = SUBSET T /\ DOMAIN rhs = SUBSET T
    OBVIOUS
  <2>4. G = rhs
    BY <1>7, <2>2, <2>3
  <2>5. QED
    BY <2>4 DEF IsFold, First
<1>11. QED
  BY <1>3, <1>7, <1>10

-----------------------------------------------------------------------------
(* Totals.                                                                 *)

\* A total is any fold over its set; a total over a finite set is a number.
LEMMA TotalIsFold ==
  ASSUME NEW rows, NEW S, IsFiniteSet(S), \A i \in S : rows[i].amount \in Nat
  PROVE  \E g \in [SUBSET S -> Nat] :
           IsFold(g, rows, S) /\ \A s \in SUBSET S : TotalOf(rows, s) = g[s]
<1>1. PICK g \in [SUBSET S -> Nat] : IsFold(g, rows, S)
  BY FoldExists
<1>2. ASSUME NEW s \in SUBSET S PROVE TotalOf(rows, s) = g[s]
  <2>1. IsFiniteSet(s)
    BY FS_Subset
  <2>2. \E f : IsFold(f, rows, s)
    <3>1. \A i \in s : rows[i].amount \in Nat
      OBVIOUS
    <3>2. QED
      BY <2>1, <3>1, FoldExists
  <2>3. PICK f : IsFold(f, rows, s) /\ TotalOf(rows, s) = f[s]
    BY <2>2, TotalFolds
  <2>4. \A u \in SUBSET s : g[u] = f[u]
    BY <1>1, <2>3, FoldsAgree
  <2>5. QED
    BY <2>3, <2>4
<1>3. QED
  BY <1>1, <1>2

\* The total of no rows, the type of a total, and the row it takes first.
LEMMA TotalValue ==
  ASSUME NEW rows, NEW S, IsFiniteSet(S), \A i \in S : rows[i].amount \in Nat
  PROVE  /\ TotalOf(rows, S) \in Nat
         /\ S = {} => TotalOf(rows, S) = 0
         /\ S # {} => /\ First(S) \in S
                      /\ TotalOf(rows, S)
                           = rows[First(S)].amount + TotalOf(rows, S \ {First(S)})
<1>1. PICK g \in [SUBSET S -> Nat] :
           IsFold(g, rows, S) /\ \A s \in SUBSET S : TotalOf(rows, s) = g[s]
  BY TotalIsFold
<1>2. S \in SUBSET S
  OBVIOUS
<1>3. /\ S = {} => g[S] = 0
      /\ S # {} => /\ First(S) \in S
                   /\ S \ {First(S)} \in SUBSET S
                   /\ g[S] = rows[First(S)].amount + g[S \ {First(S)}]
  BY <1>1, <1>2, FoldValue
<1>4. TotalOf(rows, S) \in Nat
  BY <1>1, <1>2
<1>5. QED
  BY <1>1, <1>2, <1>3, <1>4

\* The total over a set depends on nothing but the amounts of its rows.
LEMMA TotalSame ==
  ASSUME NEW rows, NEW others, NEW S, IsFiniteSet(S),
         \A i \in S : rows[i].amount \in Nat /\ rows[i].amount = others[i].amount
  PROVE  TotalOf(rows, S) = TotalOf(others, S)
<1>1. PICK g \in [SUBSET S -> Nat] :
           IsFold(g, rows, S) /\ \A s \in SUBSET S : TotalOf(rows, s) = g[s]
  BY TotalIsFold
<1>2. PICK h \in [SUBSET S -> Nat] :
           IsFold(h, others, S) /\ \A s \in SUBSET S : TotalOf(others, s) = h[s]
  <2>1. \A i \in S : others[i].amount \in Nat
    OBVIOUS
  <2>2. QED
    BY <2>1, TotalIsFold
<1>3. \A s \in SUBSET S : g[s] = h[s]
  <2>1. S \in SUBSET S /\ \A i \in S : rows[i].amount = others[i].amount
    OBVIOUS
  <2>2. QED
    BY <1>1, <1>2, <2>1, FoldsAgree
<1>4. S \in SUBSET S
  OBVIOUS
<1>5. QED
  BY <1>1, <1>2, <1>3, <1>4

\* The total is the amount of any one of its rows and the total of the others:
\* the order in which the rows are added does not matter.
LEMMA TotalSplits ==
  ASSUME NEW rows, NEW S, IsFiniteSet(S), \A i \in S : rows[i].amount \in Nat, NEW k \in S
  PROVE  TotalOf(rows, S) = rows[k].amount + TotalOf(rows, S \ {k})
<1> DEFINE Splits(T) == \A i \in T : TotalOf(rows, T) = rows[i].amount + TotalOf(rows, T \ {i})
           B == {T \in SUBSET S : ~Splits(T)}
<1>1. SUFFICES ASSUME B # {} PROVE FALSE
  <2>1. SUFFICES Splits(S)
    OBVIOUS
  <2>2. QED
    OBVIOUS
<1>2. PICK T \in B : \A U \in B : U \subseteq T => U = T
  <2>1. B \in SUBSET SUBSET S
    OBVIOUS
  <2> HIDE DEF B
  <2>2. QED
    BY <1>1, <2>1, Smallest
<1>3. T \in SUBSET S /\ ~Splits(T)
  OBVIOUS
<1>4. \A U \in SUBSET T : U # T => Splits(U)
  BY <1>2, <1>3
<1>5. PICK i \in T : TotalOf(rows, T) # rows[i].amount + TotalOf(rows, T \ {i})
  BY <1>3
<1>6. \A U \in SUBSET T : IsFiniteSet(U) /\ \A j \in U : rows[j].amount \in Nat
  BY <1>3, FS_Subset
<1> DEFINE x == First(T)
<1>7. x \in T /\ TotalOf(rows, T) = rows[x].amount + TotalOf(rows, T \ {x})
  <2>1. T \in SUBSET T /\ T # {}
    BY <1>5
  <2>2. QED
    BY <1>6, <2>1, TotalValue
<1> HIDE DEF x
<1>8. x # i
  BY <1>5, <1>7
<1>9. TotalOf(rows, T \ {x}) = rows[i].amount + TotalOf(rows, (T \ {x}) \ {i})
  <2>1. Splits(T \ {x}) /\ i \in T \ {x}
    BY <1>4, <1>7, <1>8
  <2>2. QED
    BY <2>1
<1>10. TotalOf(rows, T \ {i}) = rows[x].amount + TotalOf(rows, (T \ {i}) \ {x})
  <2>1. Splits(T \ {i}) /\ x \in T \ {i}
    BY <1>4, <1>5, <1>7, <1>8
  <2>2. QED
    BY <2>1
<1>11. (T \ {x}) \ {i} = (T \ {i}) \ {x}
  OBVIOUS
<1>12. TotalOf(rows, (T \ {x}) \ {i}) \in Nat /\ rows[i].amount \in Nat /\ rows[x].amount \in Nat
  <2>1. (T \ {x}) \ {i} \in SUBSET T
    OBVIOUS
  <2>2. TotalOf(rows, (T \ {x}) \ {i}) \in Nat
    BY <1>6, <2>1, TotalValue
  <2>3. QED
    BY <1>3, <1>5, <1>7, <2>2
<1> DEFINE rest == TotalOf(rows, (T \ {x}) \ {i})
<1>13. TotalOf(rows, T) = rows[x].amount + (rows[i].amount + rest)
  BY <1>7, <1>9
<1>14. TotalOf(rows, T \ {i}) = rows[x].amount + rest
  BY <1>10, <1>11
<1>15. rest \in Nat
  BY <1>12
<1> HIDE DEF rest
<1>16. TotalOf(rows, T) = rows[i].amount + TotalOf(rows, T \ {i})
  BY <1>12, <1>13, <1>14, <1>15
<1>17. QED
  BY <1>5, <1>16

\* A row that joins a total adds its amount.
LEMMA TotalAdds ==
  ASSUME NEW rows, NEW S, IsFiniteSet(S), NEW k, k \notin S,
         \A i \in S \cup {k} : rows[i].amount \in Nat
  PROVE  TotalOf(rows, S \cup {k}) = TotalOf(rows, S) + rows[k].amount
<1>1. IsFiniteSet(S \cup {k}) /\ (S \cup {k}) \ {k} = S /\ k \in S \cup {k}
  BY FS_AddElement
<1>2. TotalOf(rows, S) \in Nat /\ rows[k].amount \in Nat
  <2>1. \A i \in S : rows[i].amount \in Nat
    OBVIOUS
  <2>2. QED
    BY <2>1, TotalValue
<1> DEFINE T == S \cup {k}
<1>3. TotalOf(rows, T) = rows[k].amount + TotalOf(rows, T \ {k}) /\ T \ {k} = S
  <2>1. \A i \in T : rows[i].amount \in Nat
    OBVIOUS
  <2>2. IsFiniteSet(T) /\ k \in T /\ T \ {k} = S
    BY <1>1
  <2> HIDE DEF T
  <2>3. QED
    BY <2>1, <2>2, TotalSplits
<1>4. TotalOf(rows, T) = rows[k].amount + TotalOf(rows, S)
  <2> HIDE DEF T
  <2>1. QED
    BY <1>3
<1>5. QED
  BY <1>2, <1>4

\* More rows make no smaller total.
LEMMA TotalGrows ==
  ASSUME NEW rows, NEW S, IsFiniteSet(S), \A i \in S : rows[i].amount \in Nat, NEW R \in SUBSET S
  PROVE  TotalOf(rows, R) <= TotalOf(rows, S)
<1> DEFINE B == {T \in SUBSET S : R \subseteq T /\ ~(TotalOf(rows, R) <= TotalOf(rows, T))}
<1>1. SUFFICES ASSUME B # {} PROVE FALSE
  OBVIOUS
<1>2. PICK T \in B : \A U \in B : U \subseteq T => U = T
  <2>1. B \in SUBSET SUBSET S
    OBVIOUS
  <2> HIDE DEF B
  <2>2. QED
    BY <1>1, <2>1, Smallest
<1>3. T \in SUBSET S /\ R \subseteq T /\ ~(TotalOf(rows, R) <= TotalOf(rows, T))
  OBVIOUS
<1>4. \A U \in SUBSET T : IsFiniteSet(U) /\ \A j \in U : rows[j].amount \in Nat
  BY <1>3, FS_Subset
<1>5. \A U \in SUBSET T : TotalOf(rows, U) \in Nat
  BY <1>4, TotalValue
<1>6. R # T
  BY <1>3, <1>5
<1>7. PICK i \in T : i \notin R
  BY <1>3, <1>6
<1>8. TotalOf(rows, T) = rows[i].amount + TotalOf(rows, T \ {i})
  <2>1. T \in SUBSET T
    OBVIOUS
  <2>2. QED
    BY <1>4, <2>1, TotalSplits
<1>9. TotalOf(rows, R) <= TotalOf(rows, T \ {i})
  <2>1. T \ {i} \in SUBSET S /\ R \subseteq T \ {i} /\ T \ {i} # T
    BY <1>3, <1>7
  <2>2. T \ {i} \notin B
    BY <1>2, <2>1
  <2>3. QED
    BY <2>1, <2>2
<1>10. TotalOf(rows, R) \in Nat /\ TotalOf(rows, T \ {i}) \in Nat /\ rows[i].amount \in Nat
  BY <1>3, <1>5
<1>11. QED
  BY <1>3, <1>8, <1>9, <1>10

\* The total does not depend on where the rows stand: rows that are renamed one to
\* one, with the same amounts, have the same total.
LEMMA TotalRenamed ==
  ASSUME NEW rows, NEW S, IsFiniteSet(S), NEW others, NEW R, IsFiniteSet(R), NEW f,
         \A i \in S : /\ f[i] \in R /\ rows[i].amount \in Nat
                      /\ others[f[i]].amount = rows[i].amount,
         \A i, j \in S : f[i] = f[j] => i = j
  PROVE  TotalOf(rows, S) = TotalOf(others, {f[i] : i \in S})
<1> DEFINE image(T) == {f[i] : i \in T}
           Same(T) == TotalOf(rows, T) = TotalOf(others, image(T))
           B == {T \in SUBSET S : ~Same(T)}
<1>1. SUFFICES ASSUME B # {} PROVE FALSE
  <2>1. SUFFICES Same(S)
    OBVIOUS
  <2>2. QED
    OBVIOUS
<1>2. PICK T \in B : \A U \in B : U \subseteq T => U = T
  <2>1. B \in SUBSET SUBSET S
    OBVIOUS
  <2> HIDE DEF B
  <2>2. QED
    BY <1>1, <2>1, Smallest
<1>3. T \in SUBSET S /\ ~Same(T)
  OBVIOUS
<1>4. \A U \in SUBSET T : U # T => Same(U)
  BY <1>2, <1>3
<1>5. /\ IsFiniteSet(T) /\ \A i \in T : rows[i].amount \in Nat
      /\ IsFiniteSet(image(T)) /\ \A r \in image(T) : others[r].amount \in Nat
  <2>1. image(T) \in SUBSET R
    BY <1>3
  <2>2. \A r \in image(T) : others[r].amount \in Nat
    BY <1>3
  <2> HIDE DEF image
  <2>3. QED
    BY <1>3, <2>1, <2>2, FS_Subset
<1>6. CASE T = {}
  <2>1. image(T) = {}
    BY <1>6
  <2>2. TotalOf(rows, T) = 0 /\ TotalOf(others, {}) = 0
    BY <1>5, <1>6, FS_EmptySet, TotalValue
  <2>3. QED
    BY <1>3, <2>1, <2>2
<1>7. CASE T # {}
  <2>1. PICK k \in T : TRUE
    BY <1>7
  <2>2. Same(T \ {k})
    BY <1>4, <2>1
  <2>3. image(T \ {k}) = image(T) \ {f[k]} /\ f[k] \in image(T)
    BY <1>3, <2>1
  <2>4. TotalOf(rows, T) = rows[k].amount + TotalOf(rows, T \ {k})
    BY <1>5, <2>1, TotalSplits
  <2> DEFINE D == image(T)
  <2>5. TotalOf(others, D) = others[f[k]].amount + TotalOf(others, D \ {f[k]})
    <3>1. IsFiniteSet(D) /\ (\A r \in D : others[r].amount \in Nat) /\ f[k] \in D
      BY <1>5, <2>3
    <3> HIDE DEF D
    <3>2. QED
      BY <3>1, TotalSplits
  <2>6. others[f[k]].amount = rows[k].amount
    BY <1>3, <2>1
  <2>7. QED
    BY <1>3, <2>2, <2>3, <2>4, <2>5, <2>6
<1>8. QED
  BY <1>6, <1>7

-----------------------------------------------------------------------------
(* The balance.                                                            *)

\* The rows of a table are finitely many, and so are those that count.
LEMMA CountedRows ==
  ASSUME NEW rows \in Seq(PaymentRow)
  PROVE  /\ \A i \in DOMAIN rows : rows[i].amount \in Nat
         /\ \A S \in SUBSET DOMAIN rows : IsFiniteSet(S)
         /\ CapturedRows(rows) \in SUBSET DOMAIN rows
         /\ RefundedRows(rows) \in SUBSET DOMAIN rows
<1>1. ASSUME NEW i \in DOMAIN rows PROVE rows[i].amount \in Nat
  <2>1. rows[i] \in PaymentRow
    OBVIOUS
  <2>2. QED
    BY <2>1 DEF PaymentRow
<1>2. DOMAIN rows = 1..Len(rows) /\ Len(rows) \in Nat
  OBVIOUS
<1>3. IsFiniteSet(1..Len(rows))
  BY <1>2, FS_Interval
<1>4. \A S \in SUBSET DOMAIN rows : IsFiniteSet(S)
  BY <1>2, <1>3, FS_Subset
<1>5. QED
  BY <1>1, <1>4 DEF CapturedRows, RefundedRows

\* What was captured and what was returned are amounts, and a balance is a number.
LEMMA NetType ==
  ASSUME NEW rows \in Seq(PaymentRow)
  PROVE  /\ TotalOf(rows, CapturedRows(rows)) \in Nat
         /\ TotalOf(rows, RefundedRows(rows)) \in Nat
         /\ Net(rows) \in Int
<1>1. ASSUME NEW S \in SUBSET DOMAIN rows PROVE TotalOf(rows, S) \in Nat
  <2>1. IsFiniteSet(S) /\ \A i \in S : rows[i].amount \in Nat
    BY CountedRows
  <2>2. QED
    BY <2>1, TotalValue
<1>2. /\ TotalOf(rows, CapturedRows(rows)) \in Nat
      /\ TotalOf(rows, RefundedRows(rows)) \in Nat
  BY <1>1, CountedRows
<1>3. QED
  BY <1>2 DEF Net

\* Two tables with the same amounts on the rows that are added have the same total.
LEMMA SameRowsSameTotal ==
  ASSUME NEW rows \in Seq(PaymentRow), NEW S \in SUBSET DOMAIN rows, NEW new,
         \A i \in S : new[i].amount = rows[i].amount
  PROVE  TotalOf(new, S) = TotalOf(rows, S)
<1>1. IsFiniteSet(S) /\ \A i \in S : rows[i].amount \in Nat
  BY CountedRows
<1>2. \A i \in S : rows[i].amount \in Nat /\ rows[i].amount = new[i].amount
  BY <1>1
<1>3. QED
  BY <1>1, <1>2, TotalSame

\* A balance changes only when a row begins or ceases to count.
LEMMA NetKept ==
  ASSUME NEW rows \in Seq(PaymentRow), NEW new,
         CapturedRows(new) = CapturedRows(rows), RefundedRows(new) = RefundedRows(rows),
         \A i \in CapturedRows(rows) \cup RefundedRows(rows) : new[i].amount = rows[i].amount
  PROVE  Net(new) = Net(rows)
<1>1. TotalOf(new, CapturedRows(rows)) = TotalOf(rows, CapturedRows(rows))
  BY CountedRows, SameRowsSameTotal
<1>2. TotalOf(new, RefundedRows(rows)) = TotalOf(rows, RefundedRows(rows))
  BY CountedRows, SameRowsSameTotal
<1>3. QED
  BY <1>1, <1>2 DEF Net

\* A row that is captured adds its amount to the balance.
LEMMA NetCaptures ==
  ASSUME NEW rows \in Seq(PaymentRow), NEW new, NEW k \in DOMAIN rows,
         k \notin CapturedRows(rows), CapturedRows(new) = CapturedRows(rows) \cup {k},
         RefundedRows(new) = RefundedRows(rows),
         \A i \in CapturedRows(rows) \cup RefundedRows(rows) \cup {k} :
           new[i].amount = rows[i].amount
  PROVE  Net(new) = Net(rows) + rows[k].amount /\ rows[k].amount \in Nat
<1>1. rows[k].amount \in Nat /\ CapturedRows(rows) \cup {k} \in SUBSET DOMAIN rows
  BY CountedRows
<1>2. TotalOf(new, CapturedRows(new)) = TotalOf(rows, CapturedRows(rows)) + rows[k].amount
  <2>1. TotalOf(new, CapturedRows(new)) = TotalOf(rows, CapturedRows(rows) \cup {k})
    BY <1>1, SameRowsSameTotal
  <2>2. /\ IsFiniteSet(CapturedRows(rows))
        /\ \A i \in CapturedRows(rows) \cup {k} : rows[i].amount \in Nat
    BY CountedRows
  <2>3. TotalOf(rows, CapturedRows(rows) \cup {k})
          = TotalOf(rows, CapturedRows(rows)) + rows[k].amount
    BY <2>2, TotalAdds
  <2>4. QED
    BY <2>1, <2>3
<1>3. TotalOf(new, RefundedRows(new)) = TotalOf(rows, RefundedRows(rows))
  BY CountedRows, SameRowsSameTotal
<1>4. QED
  BY <1>1, <1>2, <1>3, NetType DEF Net

=============================================================================
