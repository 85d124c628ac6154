------------------------------ MODULE Recursion ------------------------------
(***************************************************************************)
(* What folds over finite sets and recursive functions over the naturals   *)
(* compute, for any operator.  The principles of induction take their      *)
(* statement as a set, and follow from the well-foundedness of the strict  *)
(* inclusion of finite sets.  Modules that define a fold instantiate this  *)
(* one with its operator.                                                  *)
(***************************************************************************)
EXTENDS Integers, FiniteSetsExt, FiniteSetTheorems, TLAPS

CONSTANTS
  Op(_, _),  \* the step: an element, and the value so far
  Map(_, _), \* what a fold takes from an element, in a context
  Ch(_)      \* the element a fold takes last from a set

-----------------------------------------------------------------------------
(* Induction *)

\* Every set of naturals with a member has a least one.
LEMMA LeastElement ==
  ASSUME NEW T \in SUBSET Nat, T # {}
  PROVE  \E x \in T : \A y \in T : x <= y
  <1> DEFINE U == {0..n : n \in T}
  <1>1. U \subseteq FiniteSubsetsOf(Nat) /\ U # {}
    <2>1. ASSUME NEW n \in T PROVE 0..n \in FiniteSubsetsOf(Nat)
      <3>1. IsFiniteSet(0..n)
        BY FS_Interval
      <3>2. 0..n \in SUBSET Nat
        OBVIOUS
      <3>3. QED
        BY <3>1, <3>2 DEF FiniteSubsetsOf
    <2>2. QED
      BY <2>1
  <1>2. IsWellFoundedOn(StrictSubsetOrdering(Nat), FiniteSubsetsOf(Nat))
    BY FS_StrictSubsetOrderingWellFounded
  <1> HIDE DEF U
  <1>3. PICK A \in U : \A B \in U : ~(<<B, A>> \in StrictSubsetOrdering(Nat))
    BY <1>1, <1>2, WFMin
  <1>4. PICK x \in T : A = 0..x
    BY DEF U
  <1>5. ASSUME NEW y \in T, y < x PROVE FALSE
    <2>1. 0..y \in U
      BY DEF U
    <2>2. 0..y \subseteq 0..x /\ x \in 0..x /\ x \notin 0..y
      BY <1>5
    <2>3. <<0..y, 0..x>> \in StrictSubsetOrdering(Nat)
      BY <2>2 DEF StrictSubsetOrdering
    <2>4. QED
      BY <1>3, <1>4, <2>1, <2>3
  <1>6. QED
    BY <1>5

\* Induction over the naturals, for the statement n \in S.
LEMMA SetInduction ==
  ASSUME NEW S, 0 \in S, \A n \in Nat : n \in S => n + 1 \in S
  PROVE  Nat \subseteq S
  <1> SUFFICES ASSUME Nat \ S # {} PROVE FALSE
    OBVIOUS
  <1>1. PICK x \in Nat \ S : \A y \in Nat \ S : x <= y
    BY LeastElement
  <1>2. x # 0 /\ x - 1 \in Nat /\ x - 1 < x
    OBVIOUS
  <1>3. QED
    BY <1>1, <1>2

\* Of any subsets of a finite set one has none of the others inside it.
LEMMA MinimalSubset ==
  ASSUME NEW S, IsFiniteSet(S), NEW W \in SUBSET SUBSET S, W # {}
  PROVE  \E A \in W : \A B \in W : B \subseteq A => B = A
  <1>1. IsWellFoundedOn(StrictSubsetOrdering(S), FiniteSubsetsOf(S))
    BY FS_StrictSubsetOrderingWellFounded
  <1>2. W \subseteq FiniteSubsetsOf(S)
    BY FS_FiniteSubsetsOfFinite
  <1>3. PICK A \in W : \A B \in W : ~(<<B, A>> \in StrictSubsetOrdering(S))
    BY <1>1, <1>2, WFMin
  <1>4. QED
    BY <1>3 DEF StrictSubsetOrdering

\* Induction over the subsets of a finite set, one element at a time, for the
\* statement T \in F.
LEMMA FiniteInduction ==
  ASSUME NEW F, NEW S, IsFiniteSet(S), {} \in F,
         \A T \in SUBSET S : \A x \in S \ T : T \in F => T \cup {x} \in F
  PROVE  S \in F
  <1> DEFINE W == (SUBSET S) \ F
  <1> SUFFICES ASSUME W # {} PROVE FALSE
    OBVIOUS
  <1>1. W \in SUBSET SUBSET S
    OBVIOUS
  <1> HIDE DEF W
  <1>2. PICK A \in W : \A B \in W : B \subseteq A => B = A
    BY <1>1, MinimalSubset
  <1>3. A \in SUBSET S /\ A \notin F
    BY DEF W
  <1>4. PICK x \in A : TRUE
    BY <1>3
  <1> DEFINE B == A \ {x}
  <1>5. B \in SUBSET S /\ x \in S \ B /\ A = B \cup {x}
    BY <1>3, <1>4
  <1>6. B \in F
    BY <1>2, <1>5 DEF W
  <1> HIDE DEF B
  <1>7. QED
    BY <1>3, <1>5, <1>6

\* Finitely many naturals have a greatest.
LEMMA GreatestElement ==
  ASSUME NEW S \in SUBSET Nat, IsFiniteSet(S), S # {}
  PROVE  \E x \in S : \A y \in S : y <= x
  <1> DEFINE F == {T \in SUBSET S : T = {} \/ \E x \in T : \A y \in T : y <= x}
  <1>1. ASSUME NEW T \in SUBSET S, NEW x \in S \ T, T \in F
        PROVE  T \cup {x} \in F
    <2>1. CASE T = {}
      BY <2>1
    <2>2. CASE T # {}
      <3>1. PICK z \in T : \A y \in T : y <= z
        BY <1>1, <2>2
      <3>2. QED
        BY <3>1
    <2>3. QED
      BY <2>1, <2>2
  <1>2. {} \in F
    OBVIOUS
  <1> HIDE DEF F
  <1>3. S \in F
    BY <1>1, <1>2, FiniteInduction
  <1>4. QED
    BY <1>3 DEF F

-----------------------------------------------------------------------------
(* Folds *)

\* From b on, every element of S is taken; w is what else Map depends on.
Fold(w, b, S) == MapThenFoldSet(Op, b, LAMBDA i : Map(w, i), Ch, S)

Chooses(S) == \A T \in SUBSET S : T # {} => Ch(T) \in T

IsFold(w, b, S, g) ==
  g = [T \in SUBSET S |-> IF T = {} THEN b ELSE Op(Map(w, Ch(T)), g[T \ {Ch(T)}])]

LEMMA FoldsAgree ==
  ASSUME NEW w, NEW b, NEW A, IsFiniteSet(A), Chooses(A), NEW g, IsFold(w, b, A, g),
         NEW B, NEW h, IsFold(w, b, B, h)
  PROVE  \A T \in SUBSET (A \cap B) : g[T] = h[T]
  <1> DEFINE W == {T \in SUBSET (A \cap B) : g[T] # h[T]}
  <1> SUFFICES ASSUME W # {} PROVE FALSE
    OBVIOUS
  <1>1. W \in SUBSET SUBSET A
    OBVIOUS
  <1> HIDE DEF W
  <1>2. PICK T \in W : \A U \in W : U \subseteq T => U = T
    BY <1>1, MinimalSubset
  <1> DEFINE c == Ch(T)
  <1>3. T \in SUBSET (A \cap B) /\ g[T] # h[T]
    BY DEF W
  <1>4. T # {}
    BY <1>3 DEF IsFold
  <1>5. c \in T
    BY <1>3, <1>4 DEF Chooses
  <1>6. T \ {c} \notin W
    BY <1>2, <1>5
  <1>7. g[T \ {c}] = h[T \ {c}]
    BY <1>3, <1>6 DEF W
  <1>8. g[T] = Op(Map(w, c), g[T \ {c}]) /\ h[T] = Op(Map(w, c), h[T \ {c}])
    BY <1>3, <1>4 DEF IsFold
  <1>9. QED
    BY <1>3, <1>7, <1>8

LEMMA FoldExists ==
  ASSUME NEW w, NEW b, NEW S, IsFiniteSet(S), Chooses(S)
  PROVE  \E g : IsFold(w, b, S, g)
  <1> DEFINE W == {T \in SUBSET S : ~\E g : IsFold(w, b, T, g)}
  <1> SUFFICES ASSUME W # {} PROVE FALSE
    OBVIOUS
  <1>1. W \in SUBSET SUBSET S
    OBVIOUS
  <1> HIDE DEF W
  <1>2. PICK T \in W : \A U \in W : U \subseteq T => U = T
    BY <1>1, MinimalSubset
  <1>3. T \in SUBSET S /\ ~\E g : IsFold(w, b, T, g)
    BY DEF W
  <1>4. ASSUME NEW x \in T PROVE \E g : IsFold(w, b, T \ {x}, g)
    <2>1. T \ {x} \subseteq T /\ T \ {x} # T /\ T \ {x} \in SUBSET S
      BY <1>3
    <2>2. T \ {x} \notin W
      BY <1>2, <2>1
    <2>3. QED
      BY <2>1, <2>2 DEF W
  <1> DEFINE G(x) == CHOOSE g : IsFold(w, b, T \ {x}, g)
             before(U) == IF U = {} THEN b ELSE Op(Map(w, Ch(U)), G(Ch(U))[U \ {Ch(U)}])
             h == [U \in SUBSET T |-> before(U)]
  <1>5. \A x \in T : IsFold(w, b, T \ {x}, G(x))
    BY <1>4
  <1> HIDE DEF G
  <1>6. ASSUME NEW x \in T, NEW y \in T, NEW U \in SUBSET (T \ {x}), U \in SUBSET (T \ {y})
        PROVE  G(x)[U] = G(y)[U]
    <2>1. IsFiniteSet(T \ {x})
      BY <1>3, FS_Subset
    <2>2. Chooses(T \ {x})
      BY <1>3 DEF Chooses
    <2>3. U \in SUBSET ((T \ {x}) \cap (T \ {y}))
      BY <1>6
    <2>4. IsFold(w, b, T \ {x}, G(x)) /\ IsFold(w, b, T \ {y}, G(y))
      BY <1>5
    <2>5. PICK g : g = G(x)
      OBVIOUS
    <2>6. PICK k : k = G(y)
      OBVIOUS
    <2>7. \A X \in SUBSET ((T \ {x}) \cap (T \ {y})) : g[X] = k[X]
      <3>1. IsFold(w, b, T \ {x}, g) /\ IsFold(w, b, T \ {y}, k)
        BY <2>4, <2>5, <2>6
      <3>2. PICK A, B : A = T \ {x} /\ B = T \ {y}
        OBVIOUS
      <3>3. IsFiniteSet(A) /\ Chooses(A) /\ IsFold(w, b, A, g) /\ IsFold(w, b, B, k)
        BY ONLY <2>1, <2>2, <3>1, <3>2
      <3>4. \A X \in SUBSET (A \cap B) : g[X] = k[X]
        BY ONLY <3>3, FoldsAgree
      <3>5. QED
        BY ONLY <3>2, <3>4
    <2>8. QED
      BY <2>3, <2>5, <2>6, <2>7
  <1>7. ASSUME NEW U \in SUBSET T, U # {}
        PROVE  h[U] = Op(Map(w, Ch(U)), h[U \ {Ch(U)}])
    <2> DEFINE c == Ch(U)
               V == U \ {c}
    <2>1. c \in U
      BY <1>3, <1>7 DEF Chooses
    <2>2. h[U] = Op(Map(w, c), G(c)[V]) /\ h[V] = before(V)
      BY <1>7
    <2>3. G(c)[V] = before(V)
      <3>1. G(c)[V] = IF V = {} THEN b ELSE Op(Map(w, Ch(V)), G(c)[V \ {Ch(V)}])
        <4>1. V \in SUBSET (T \ {c}) /\ c \in T
          BY <2>1
        <4>2. IsFold(w, b, T \ {c}, G(c))
          BY <1>5, <4>1
        <4>3. PICK g : g = G(c)
          OBVIOUS
        <4> HIDE DEF V
        <4>4. IsFold(w, b, T \ {c}, g)
          BY <4>2, <4>3
        <4>5. g[V] = IF V = {} THEN b ELSE Op(Map(w, Ch(V)), g[V \ {Ch(V)}])
          BY ONLY <4>1, <4>4 DEF IsFold
        <4>6. QED
          BY <4>3, <4>5
      <3>2. CASE V = {}
        BY <3>1, <3>2
      <3>3. CASE V # {}
        <4>1. Ch(V) \in V
          BY <1>3, <3>3 DEF Chooses
        <4>2. G(c)[V \ {Ch(V)}] = G(Ch(V))[V \ {Ch(V)}]
          BY <1>6, <2>1, <4>1
        <4>3. QED
          BY <3>1, <3>3, <4>2
      <3>4. QED
        BY <3>2, <3>3
    <2>4. QED
      BY <2>2, <2>3
  <1>8. IsFold(w, b, T, h)
    <2>1. h[{}] = b
      OBVIOUS
    <2>2. \A U \in SUBSET T : h[U] = IF U = {} THEN b ELSE Op(Map(w, Ch(U)), h[U \ {Ch(U)}])
      BY <1>7, <2>1
    <2>3. h = [U \in SUBSET T |-> h[U]]
      OBVIOUS
    <2> HIDE DEF h
    <2>4. QED
      BY <2>2, <2>3 DEF IsFold
  <1>9. QED
    BY <1>3, <1>8

\* A fold takes one element after the other.
LEMMA FoldUnfold ==
  ASSUME NEW w, NEW b, NEW S, IsFiniteSet(S), Chooses(S)
  PROVE  Fold(w, b, S) = IF S = {} THEN b ELSE Op(Map(w, Ch(S)), Fold(w, b, S \ {Ch(S)}))
  <1> DEFINE It(T) == CHOOSE g : IsFold(w, b, T, g)
  <1>1. \A T : Fold(w, b, T) = It(T)[T]
    BY DEF Fold, MapThenFoldSet, IsFold
  <1>2. IsFold(w, b, S, It(S))
    BY FoldExists
  <1> HIDE DEF It
  <1>3. CASE S = {}
    BY <1>1, <1>2, <1>3 DEF IsFold
  <1>4. CASE S # {}
    <2> DEFINE R == S \ {Ch(S)}
    <2>1. IsFiniteSet(R) /\ Chooses(R)
      BY FS_Subset DEF Chooses
    <2>2. IsFold(w, b, R, It(R))
      BY <2>1, FoldExists DEF It
    <2>3. It(R)[R] = It(S)[R]
      <3>1. R \in SUBSET (R \cap S)
        OBVIOUS
      <3>2. QED
        BY <1>2, <2>1, <2>2, <3>1, FoldsAgree
    <2>4. It(S)[S] = Op(Map(w, Ch(S)), It(S)[R])
      BY <1>2, <1>4 DEF IsFold
    <2>5. QED
      BY <1>1, <1>4, <2>3, <2>4
  <1>5. QED
    BY <1>3, <1>4

\* The values D are closed under the steps, whose order does not matter.
Closed(w, S, D) == \A i \in S : \A d \in D : Op(Map(w, i), d) \in D
Commutes(w, S, D) ==
  \A i, j \in S : \A d \in D : Op(Map(w, i), Op(Map(w, j), d)) = Op(Map(w, j), Op(Map(w, i), d))

\* When the order of two steps does not matter, any element may come last.
LEMMA FoldAnyLast ==
  ASSUME NEW w, NEW b, NEW S, IsFiniteSet(S), Chooses(S),
         NEW D, b \in D, Closed(w, S, D), Commutes(w, S, D)
  PROVE  /\ \A T \in SUBSET S : Fold(w, b, T) \in D
         /\ \A x \in S : Fold(w, b, S) = Op(Map(w, x), Fold(w, b, S \ {x}))
  <1> USE DEF Closed, Commutes
  <1>1. ASSUME NEW T \in SUBSET S
        PROVE  Fold(w, b, T) = IF T = {} THEN b ELSE Op(Map(w, Ch(T)), Fold(w, b, T \ {Ch(T)}))
    <2>1. IsFiniteSet(T) /\ Chooses(T)
      BY FS_Subset DEF Chooses
    <2>2. QED
      BY <2>1, FoldUnfold
  <1> HIDE DEF Fold
  <1>2. ASSUME NEW T \in SUBSET S PROVE Fold(w, b, T) \in D
    <2> DEFINE W == {U \in SUBSET S : Fold(w, b, U) \notin D}
    <2> SUFFICES ASSUME W # {} PROVE FALSE
      OBVIOUS
    <2>1. W \in SUBSET SUBSET S
      OBVIOUS
    <2> HIDE DEF W
    <2>2. PICK U \in W : \A V \in W : V \subseteq U => V = U
      BY <2>1, MinimalSubset
    <2>3. U \in SUBSET S /\ Fold(w, b, U) \notin D
      BY DEF W
    <2>4. U # {}
      BY <1>1, <2>3
    <2> DEFINE c == Ch(U)
    <2>5. c \in U
      BY <2>3, <2>4 DEF Chooses
    <2>6. Fold(w, b, U \ {c}) \in D
      BY <2>2, <2>3, <2>5 DEF W
    <2>7. QED
      BY <1>1, <2>3, <2>4, <2>5, <2>6
  <1> DEFINE W == {T \in SUBSET S : \E x \in T : Fold(w, b, T) # Op(Map(w, x), Fold(w, b, T \ {x}))}
  <1>3. ASSUME W # {} PROVE FALSE
    <2>1. W \in SUBSET SUBSET S
      OBVIOUS
    <2> HIDE DEF W
    <2>2. PICK T \in W : \A U \in W : U \subseteq T => U = T
      BY <1>3, <2>1, MinimalSubset
    <2>3. T \in SUBSET S
      BY DEF W
    <2>4. PICK x \in T : Fold(w, b, T) # Op(Map(w, x), Fold(w, b, T \ {x}))
      BY DEF W
    <2> DEFINE c == Ch(T)
    <2>5. c \in T /\ Fold(w, b, T) = Op(Map(w, c), Fold(w, b, T \ {c}))
      BY <1>1, <2>3, <2>4 DEF Chooses
    <2>6. c # x
      BY <2>4, <2>5
    <2> DEFINE R == T \ {c, x}
    <2>7. T \ {c} \notin W /\ T \ {x} \notin W
      BY <2>2, <2>4, <2>5
    <2> HIDE DEF c
    <2>8. Fold(w, b, T \ {c}) = Op(Map(w, x), Fold(w, b, R))
      <3>1. x \in T \ {c} /\ (T \ {c}) \ {x} = R /\ T \ {c} \in SUBSET S
        BY <2>3, <2>4, <2>6
      <3> HIDE DEF R
      <3>2. QED
        BY <2>7, <3>1 DEF W
    <2>9. Fold(w, b, T \ {x}) = Op(Map(w, c), Fold(w, b, R))
      <3>1. c \in T \ {x} /\ (T \ {x}) \ {c} = R /\ T \ {x} \in SUBSET S
        BY <2>3, <2>5, <2>6
      <3> HIDE DEF R
      <3>2. QED
        BY <2>7, <3>1 DEF W
    <2>10. Fold(w, b, R) \in D /\ x \in S /\ c \in S
      BY <1>2, <2>3, <2>4, <2>5
    <2>11. QED
      BY <2>4, <2>5, <2>8, <2>9, <2>10
  <1>4. S \notin W
    BY <1>3
  <1>5. QED
    BY <1>2, <1>4

\* Only what the fold takes from the elements of the set counts.
LEMMA FoldAgrees ==
  ASSUME NEW v, NEW w, NEW b, NEW S, IsFiniteSet(S), Chooses(S), \A i \in S : Map(v, i) = Map(w, i)
  PROVE  Fold(v, b, S) = Fold(w, b, S)
  <1> DEFINE W == {T \in SUBSET S : Fold(v, b, T) # Fold(w, b, T)}
  <1> SUFFICES ASSUME W # {} PROVE FALSE
    BY DEF W
  <1>1. W \in SUBSET SUBSET S
    OBVIOUS
  <1> HIDE DEF W
  <1>2. PICK T \in W : \A U \in W : U \subseteq T => U = T
    BY <1>1, MinimalSubset
  <1>3. T \in SUBSET S /\ Fold(v, b, T) # Fold(w, b, T)
    BY DEF W
  <1>4. IsFiniteSet(T) /\ Chooses(T)
    BY <1>3, FS_Subset DEF Chooses
  <1> HIDE DEF Fold
  <1>5. Fold(v, b, T) = IF T = {} THEN b ELSE Op(Map(v, Ch(T)), Fold(v, b, T \ {Ch(T)}))
    BY <1>4, FoldUnfold
  <1>6. Fold(w, b, T) = IF T = {} THEN b ELSE Op(Map(w, Ch(T)), Fold(w, b, T \ {Ch(T)}))
    BY <1>4, FoldUnfold
  <1>7. T # {} /\ Ch(T) \in T
    BY <1>3, <1>4, <1>5, <1>6 DEF Chooses
  <1>8. Fold(v, b, T \ {Ch(T)}) = Fold(w, b, T \ {Ch(T)})
    BY <1>2, <1>3, <1>7 DEF W
  <1>9. QED
    BY <1>3, <1>5, <1>6, <1>7, <1>8

\* A fold over two sets, one after the other.
LEMMA FoldSplit ==
  ASSUME NEW w, NEW b, NEW A, NEW B, IsFiniteSet(A), IsFiniteSet(B), Chooses(A \cup B),
         \A T \in SUBSET B : T # {} => Ch(A \cup T) = Ch(T) /\ Ch(T) \notin A
  PROVE  Fold(w, b, A \cup B) = Fold(w, Fold(w, b, A), B)
  <1> DEFINE W == {T \in SUBSET B : Fold(w, b, A \cup T) # Fold(w, Fold(w, b, A), T)}
  <1> SUFFICES ASSUME W # {} PROVE FALSE
    BY DEF W
  <1>1. W \in SUBSET SUBSET B
    OBVIOUS
  <1> HIDE DEF W
  <1>2. PICK T \in W : \A U \in W : U \subseteq T => U = T
    BY <1>1, MinimalSubset
  <1>3. T \in SUBSET B /\ Fold(w, b, A \cup T) # Fold(w, Fold(w, b, A), T)
    BY DEF W
  <1>4. /\ IsFiniteSet(T) /\ Chooses(T)
        /\ IsFiniteSet(A \cup T) /\ Chooses(A \cup T)
    BY <1>3, FS_Subset, FS_Union DEF Chooses
  <1> HIDE DEF Fold
  <1>5. Fold(w, Fold(w, b, A), T) = IF T = {} THEN Fold(w, b, A) ELSE Op(Map(w, Ch(T)), Fold(w, Fold(w, b, A), T \ {Ch(T)}))
    BY <1>4, FoldUnfold
  <1>6. T # {}
    BY <1>3, <1>5
  <1> DEFINE c == Ch(T)
  <1>7. c \in T /\ c \notin A /\ Ch(A \cup T) = c
    BY <1>3, <1>4, <1>6 DEF Chooses
  <1>8. Fold(w, b, A \cup T) = Op(Map(w, c), Fold(w, b, (A \cup T) \ {c}))
    BY <1>4, <1>6, <1>7, FoldUnfold
  <1>9. (A \cup T) \ {c} = A \cup (T \ {c})
    BY <1>7
  <1>10. Fold(w, b, A \cup (T \ {c})) = Fold(w, Fold(w, b, A), T \ {c})
    BY <1>2, <1>3, <1>7 DEF W
  <1>11. QED
    BY <1>3, <1>5, <1>6, <1>8, <1>9, <1>10

-----------------------------------------------------------------------------
(* Recursive functions over the naturals *)

IsRec(b, n, f) == f = [i \in 0..n |-> IF i = 0 THEN b ELSE Op(i, f[i - 1])]

Rec(b, n) == LET f[i \in 0..n] == IF i = 0 THEN b ELSE Op(i, f[i - 1]) IN f[n]

LEMMA RecExists ==
  ASSUME NEW b
  PROVE  \A n \in Nat : \E f : IsRec(b, n, f)
  <1> DEFINE F == {n \in Nat : \E f : IsRec(b, n, f)}
  <1>1. 0 \in F
    <2> DEFINE f == [i \in 0..0 |-> b]
    <2>1. f = [i \in 0..0 |-> IF i = 0 THEN b ELSE Op(i, f[i - 1])]
      OBVIOUS
    <2> HIDE DEF f
    <2>2. QED
      BY <2>1 DEF IsRec
  <1>2. ASSUME NEW n \in Nat, n \in F PROVE n + 1 \in F
    <2>1. PICK f : IsRec(b, n, f)
      BY <1>2
    <2> DEFINE h == [i \in 0..n + 1 |-> IF i \in 0..n THEN f[i] ELSE Op(i, f[i - 1])]
    <2>2. ASSUME NEW i \in 0..n + 1 PROVE h[i] = IF i = 0 THEN b ELSE Op(i, h[i - 1])
      <3>1. i # 0 => i - 1 \in 0..n /\ h[i - 1] = f[i - 1]
        OBVIOUS
      <3>2. CASE i \in 0..n
        BY <2>1, <3>1, <3>2 DEF IsRec
      <3>3. CASE i = n + 1
        BY <3>1, <3>3
      <3>4. QED
        BY <3>2, <3>3
    <2>3. h = [i \in 0..n + 1 |-> h[i]]
      OBVIOUS
    <2> HIDE DEF h
    <2>4. IsRec(b, n + 1, h)
      BY <2>2, <2>3 DEF IsRec
    <2>5. QED
      BY <2>4
  <1> HIDE DEF F
  <1>3. Nat \subseteq F
    BY <1>1, <1>2, SetInduction
  <1>4. QED
    BY <1>3 DEF F

\* A recursive function takes one step after the other.
LEMMA RecUnfold ==
  ASSUME NEW b
  PROVE  /\ Rec(b, 0) = b
         /\ \A n \in Nat : Rec(b, n + 1) = Op(n + 1, Rec(b, n))
  <1> DEFINE It(n) == CHOOSE f : IsRec(b, n, f)
  <1>1. \A n : Rec(b, n) = It(n)[n]
    BY DEF Rec, IsRec
  <1>2. ASSUME NEW n \in Nat PROVE IsRec(b, n, It(n))
    BY RecExists
  <1> HIDE DEF It
  <1>3. Rec(b, 0) = b
    <2>1. PICK f : f = It(0)
      OBVIOUS
    <2>2. f[0] = b
      BY <1>2, <2>1 DEF IsRec
    <2>3. QED
      BY <1>1, <2>1, <2>2
  <1>4. ASSUME NEW n \in Nat PROVE Rec(b, n + 1) = Op(n + 1, Rec(b, n))
    <2>1. PICK f : f = It(n)
      OBVIOUS
    <2>2. PICK g : g = It(n + 1)
      OBVIOUS
    <2>3. IsRec(b, n, f) /\ IsRec(b, n + 1, g)
      BY <1>2, <2>1, <2>2
    <2> DEFINE F == {i \in Nat : i \in 0..n => f[i] = g[i]}
    <2>4. 0 \in F
      BY <2>3 DEF IsRec
    <2>5. ASSUME NEW i \in Nat, i \in F PROVE i + 1 \in F
      <3>1. SUFFICES ASSUME i + 1 \in 0..n PROVE f[i + 1] = g[i + 1]
        OBVIOUS
      <3>2. f[i] = g[i]
        BY <2>5, <3>1
      <3>3. f[i + 1] = Op(i + 1, f[i]) /\ g[i + 1] = Op(i + 1, g[i])
        BY <2>3, <3>1 DEF IsRec
      <3>4. QED
        BY <3>2, <3>3
    <2> HIDE DEF F
    <2>6. n \in F
      BY <2>4, <2>5, SetInduction
    <2>7. f[n] = g[n]
      BY <2>6 DEF F
    <2>8. g[n + 1] = Op(n + 1, g[n])
      BY <2>3 DEF IsRec
    <2>9. QED
      BY <1>1, <2>1, <2>2, <2>7, <2>8
  <1>5. QED
    BY <1>3, <1>4

=============================================================================
